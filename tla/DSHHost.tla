------------------------------- MODULE DSHHost --------------------------------
(***************************************************************************)
(* The supervisor of the private DSH Host process (internal/dsh/host.go):  *)
(* StartHost with its readiness loop, Close and finishClose.               *)
(*                                                                         *)
(* The child is external: it may become ready, exit at any time, or ignore *)
(* SIGTERM.  Starter is the caller of StartHost; on failure StartHost      *)
(* itself calls Close with a deadline.  Validation and the environment of  *)
(* the child come before Start and are left out.                           *)
(***************************************************************************)
CONSTANTS Callers, Starter

VARIABLES
  start,         \* StartHost: "idle", "check", "probe", "verify", "wait", "failing", "ok", "error"
  startCtx,
  child,         \* "none", "running", "exited", "reaped"
  ready, stubborn,           \* answers the probe; ignores SIGTERM
  waitDone, closeDone,       \* closed channels
  once,          \* closeOnce was used
  finisher,      \* finishClose: "none", "check", "term", "grace", "killed", "done"
  expired,       \* the grace timer has fired
  close          \* per caller: "idle", "waiting", "nil", "timeout"

vars == <<start, startCtx, child, ready, stubborn, waitDone, closeDone, once, finisher, expired,
          close>>
process == <<child, ready, stubborn, waitDone>>
closing == <<closeDone, once, finisher, expired, close>>

All == Callers \cup {Starter}

Init ==
  /\ start = "idle" /\ startCtx = "live"
  /\ child = "none" /\ ready = FALSE /\ stubborn \in BOOLEAN
  /\ waitDone = FALSE /\ closeDone = FALSE /\ once = FALSE
  /\ finisher = "none" /\ expired = FALSE /\ close = [c \in All |-> "idle"]

-----------------------------------------------------------------------------
(* The child, and the goroutine that reaps it *)

\* StartHost starts the child.
StartHost ==
  /\ start = "idle"
  /\ start' = "check" /\ child' = "running"
  /\ UNCHANGED <<startCtx, ready, stubborn, waitDone, closing>>

BecomeReady ==
  /\ child = "running" /\ ~ready
  /\ ready' = TRUE
  /\ UNCHANGED <<start, startCtx, child, stubborn, waitDone, closing>>

Exits ==
  /\ child = "running"
  /\ child' = "exited" /\ ready' = FALSE
  /\ UNCHANGED <<start, startCtx, stubborn, waitDone, closing>>

\* command.Wait, then close(waitDone)
Wait ==
  /\ child = "exited"
  /\ child' = "reaped" /\ waitDone' = TRUE
  /\ UNCHANGED <<start, startCtx, ready, stubborn, closing>>

-----------------------------------------------------------------------------
(* awaitReady *)

CheckExited ==
  /\ start = "check"
  /\ start' = IF waitDone THEN "failing" ELSE "probe"
  /\ UNCHANGED <<startCtx, process, closing>>

\* probe.Health, under its own timeout
Probe ==
  /\ start = "probe"
  /\ start' = IF ready /\ startCtx = "live" THEN "verify" ELSE "wait"
  /\ UNCHANGED <<startCtx, process, closing>>

\* The child is looked at again after a good answer.
VerifyAlive ==
  /\ start = "verify"
  /\ start' = IF waitDone THEN "failing" ELSE "ok"
  /\ UNCHANGED <<startCtx, process, closing>>

\* select of waitDone, the context and the poll timer
PollWait ==
  /\ start = "wait"
  /\ \/ waitDone /\ start' = "failing"
     \/ startCtx = "done" /\ start' = "failing"
     \/ start' = "check"
  /\ UNCHANGED <<startCtx, process, closing>>

StartupTimesOut ==
  /\ startCtx = "live" /\ start \notin {"idle", "ok", "error"}
  /\ startCtx' = "done"
  /\ UNCHANGED <<start, process, closing>>

\* Mutant: a failed start leaves the child alone.
FailAtOnce ==
  /\ start = "failing"
  /\ start' = "error"
  /\ UNCHANGED <<startCtx, process, closing>>

\* StartHost returns its error once its own Close has returned.
StartFails ==
  /\ start = "failing" /\ close[Starter] \in {"nil", "timeout"}
  /\ start' = "error"
  /\ UNCHANGED <<startCtx, process, closing>>

-----------------------------------------------------------------------------
(* Close *)

MayClose(c) == IF c = Starter THEN start = "failing" ELSE start = "ok"

Close(c) ==
  /\ close[c] = "idle" /\ MayClose(c)
  /\ once' = TRUE /\ finisher' = IF once THEN finisher ELSE "check"
  /\ close' = [close EXCEPT ![c] = "waiting"]
  /\ UNCHANGED <<start, startCtx, process, closeDone, expired>>

CloseReturns(c) ==
  /\ close[c] = "waiting"
  /\ \/ closeDone /\ close' = [close EXCEPT ![c] = "nil"]
     \/ close' = [close EXCEPT ![c] = "timeout"]     \* the caller's context
  /\ UNCHANGED <<start, startCtx, process, closeDone, once, finisher, expired>>

-----------------------------------------------------------------------------
(* finishClose *)

CheckReaped ==
  /\ finisher = "check"
  /\ IF waitDone THEN finisher' = "done" /\ closeDone' = TRUE
     ELSE finisher' = "term" /\ UNCHANGED closeDone
  /\ UNCHANGED <<start, startCtx, process, once, expired, close>>

\* Signal(SIGTERM); the child may already have exited.
Terminate ==
  /\ finisher = "term"
  /\ finisher' = "grace"
  /\ child' = IF child = "running" /\ ~stubborn THEN "exited" ELSE child
  /\ ready' = (ready /\ child' = "running")
  /\ UNCHANGED <<start, startCtx, stubborn, waitDone, closeDone, once, expired, close>>

GraceTimer ==
  /\ finisher = "grace" /\ ~expired
  /\ expired' = TRUE
  /\ UNCHANGED <<start, startCtx, process, closeDone, once, finisher, close>>


\* select of waitDone and the timer
EndGrace ==
  /\ finisher = "grace"
  /\ \/ /\ waitDone
        /\ finisher' = "done" /\ closeDone' = TRUE /\ UNCHANGED <<child, ready>>
     \/ /\ expired
        /\ child' = IF child = "running" THEN "exited" ELSE child     \* Process.Kill
        /\ ready' = FALSE /\ finisher' = "killed" /\ UNCHANGED closeDone
  /\ UNCHANGED <<start, startCtx, stubborn, waitDone, once, expired, close>>

AwaitReaped ==
  /\ finisher = "killed" /\ waitDone
  /\ finisher' = "done" /\ closeDone' = TRUE
  /\ UNCHANGED <<start, startCtx, process, once, expired, close>>

Finish == CheckReaped \/ Terminate \/ EndGrace \/ AwaitReaped

Next ==
  \/ StartHost \/ BecomeReady \/ Exits \/ Wait
  \/ CheckExited \/ Probe \/ VerifyAlive \/ PollWait \/ StartupTimesOut \/ StartFails
  \/ \E c \in All : Close(c) \/ CloseReturns(c)
  \/ CheckReaped \/ Terminate \/ GraceTimer \/ EndGrace \/ AwaitReaped

Spec == Init /\ [][Next]_vars

\* The supervisor's goroutines continue and timers fire.  The child may run for
\* ever; callers other than a failing StartHost need not call Close.  The strong
\* fairness is that of a select whose context is done in every round of the loop.
Fairness ==
  /\ WF_vars(Wait) /\ WF_vars(GraceTimer) /\ WF_vars(Finish) /\ WF_vars(StartupTimesOut)
  /\ WF_vars(CheckExited \/ Probe \/ VerifyAlive \/ StartFails) /\ WF_vars(PollWait)
  /\ SF_vars(start = "wait" /\ startCtx = "done" /\ start' = "failing" /\ PollWait)
  /\ WF_vars(Close(Starter)) /\ \A c \in All : WF_vars(CloseReturns(c))

FairSpec == Spec /\ Fairness

-----------------------------------------------------------------------------
(* Properties *)

TypeOK ==
  /\ start \in {"idle", "check", "probe", "verify", "wait", "failing", "ok", "error"}
  /\ child \in {"none", "running", "exited", "reaped"}
  /\ waitDone = (child = "reaped")     \* "Done closes only after the owned child has been reaped."
  /\ finisher \in {"none", "check", "term", "grace", "killed", "done"}
  /\ closeDone = (finisher = "done")
  /\ close \in [All -> {"idle", "waiting", "nil", "timeout"}]

\* "Close is idempotent and joined": a Close that returns nil leaves no child, and so
\* does a StartHost that fails, unless its own Close ran out of time.
CloseIsJoined ==
  /\ \A c \in All : close[c] = "nil" => child = "reaped"
  /\ start = "error" => child = "reaped" \/ close[Starter] = "timeout"

\* "Cleanup continues when a caller's context expires": once anybody has called
\* Close the child is reaped, though it ignores SIGTERM and every caller gave up.
CloseReaps == []<>(once => child = "reaped")

\* A StartHost that does not succeed ends, and takes its child with it.
StartEnds ==
  /\ []<>(start \in {"idle", "ok", "error"})
  /\ []<>(start = "error" => child = "reaped")
=============================================================================
