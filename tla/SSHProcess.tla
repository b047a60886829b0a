------------------------------ MODULE SSHProcess ------------------------------
(***************************************************************************)
(* One SSH session on the device and the process it launches               *)
(* (internal/sshserver/server.go, process_linux.go).                       *)
(*                                                                         *)
(* Five goroutines share the process: the session's request loop, the      *)
(* watcher of the context, the input and the output pump, and the          *)
(* finisher, which waits for the leader, cleans up, reaps it and reports.  *)
(* Three of them may call terminate, which runs once.  lifecycleMu and     *)
(* terminalMu order signals and resizes against the finisher; between the  *)
(* verification of the leader and the end of the scan over its process     *)
(* group a signal takes two steps here.  The scan itself is in             *)
(* ProcessCleanup.  A signal to the verified leader is assumed to arrive.  *)
(* Requests that are refused change nothing and are left out; so are exit  *)
(* codes and the copied bytes.                                             *)
(***************************************************************************)
EXTENDS Naturals

CONSTANT Free     \* nobody holds the mutex

VARIABLES
  ctxDone,        \* the context of Serve
  channel,        \* the SSH channel: "open" or "closed"
  cwd,            \* sessionState.cwd is set
  hasPty, kind,   \* sessionState.pty; what was launched
  pos,            \* position of each goroutine
  leader,         \* the leader: "none", "alive", "zombie", "reaped"
  anchor,         \* its pidfd is open
  lifecycle,      \* process.lifecycle
  terminal,       \* process.terminalLifecycle, or "none"
  closes,         \* how often the PTY was closed
  stdin,          \* the write end of the command's stdin is open
  terminalMu, lifecycleMu, killOnce,
  stray           \* a scan or a resize used an identity that was given up

state == <<cwd, hasPty, kind>>
os == <<leader, anchor, terminal, closes, stdin>>
locks == <<terminalMu, lifecycleMu, killOnce>>
vars == <<ctxDone, channel, state, pos, os, lifecycle, locks, stray>>

Killers == {"session", "watcher", "input", "finisher"}
Goroutines == Killers \cup {"output"}
Killing == {"kill", "killed", "scan", "hangup", "closing"}

TypeOK ==
  /\ ctxDone \in BOOLEAN /\ channel \in {"open", "closed"}
  /\ cwd \in BOOLEAN /\ hasPty \in BOOLEAN /\ kind \in {"none", "exec", "shell"}
  /\ pos \in [Goroutines -> Killing \cup {"off", "requests", "resize", "signal", "join",
       "watch", "copy", "wait", "rewait", "begin", "begin2", "clean", "reap", "report",
       "finish", "finish2", "pumps", "last", "gone"}]
  /\ leader \in {"none", "alive", "zombie", "reaped"} /\ anchor \in BOOLEAN
  /\ lifecycle \in {"active", "finalizing", "finished"}
  /\ terminal \in {"none", "active", "finalizing", "closed"}
  /\ closes \in 0..1 /\ stdin \in BOOLEAN /\ stray \in BOOLEAN
  /\ terminalMu \in Killers \cup {Free} /\ lifecycleMu \in Killers \cup {Free}
  /\ killOnce \in {"new", "running", "done"}

Init ==
  /\ ctxDone = FALSE /\ channel = "open"
  /\ cwd = FALSE /\ hasPty = FALSE /\ kind = "none"
  /\ pos = [g \in Goroutines |-> IF g = "session" THEN "requests" ELSE "off"]
  /\ leader = "none" /\ anchor = FALSE /\ lifecycle = "active"
  /\ terminal = "none" /\ closes = 0 /\ stdin = FALSE
  /\ terminalMu = Free /\ lifecycleMu = Free /\ killOnce = "new"
  /\ stray = FALSE

Go(g, position) == pos' = [pos EXCEPT ![g] = position]

-----------------------------------------------------------------------------
(* serveSession *)

Requesting == pos["session"] = "requests" /\ channel = "open"

acceptEnvironment ==
  /\ Requesting /\ kind = "none" /\ ~cwd
  /\ cwd' = TRUE
  /\ UNCHANGED <<ctxDone, channel, hasPty, kind, pos, os, lifecycle, locks, stray>>

acceptPTY ==
  /\ Requesting /\ kind = "none" /\ ~hasPty
  /\ hasPty' = TRUE
  /\ UNCHANGED <<ctxDone, channel, cwd, kind, pos, os, lifecycle, locks, stray>>

\* exec or shell.  A start that fails changes nothing: the child is killed and
\* waited for, and its pipes are closed.
Launch ==
  /\ Requesting /\ kind = "none"
  /\ kind' = IF hasPty THEN "shell" ELSE "exec"
  /\ leader' = "alive" /\ anchor' = TRUE
  /\ terminal' = IF hasPty THEN "active" ELSE "none"
  /\ stdin' = ~hasPty
  /\ pos' = [pos EXCEPT !["watcher"] = "watch", !["input"] = "copy", !["finisher"] = "wait",
                        !["output"] = IF hasPty THEN "copy" ELSE "gone"]
  /\ UNCHANGED <<ctxDone, channel, cwd, hasPty, closes, lifecycle, locks, stray>>

\* window-change: terminalMu is taken and the state checked,
StartResize ==
  /\ Requesting /\ kind = "shell"
  /\ terminalMu = Free
  /\ terminal = "active"
  /\ terminalMu' = "session"
  /\ Go("session", "resize")
  /\ UNCHANGED <<ctxDone, channel, state, os, lifecycle, lifecycleMu, killOnce, stray>>

\* and the ioctl made.
resizeTerminal ==
  /\ pos["session"] = "resize"
  /\ stray' = (stray \/ terminal = "closed")
  /\ terminalMu' = IF terminalMu = "session" THEN Free ELSE terminalMu
  /\ Go("session", "requests")
  /\ UNCHANGED <<ctxDone, channel, state, os, lifecycle, lifecycleMu, killOnce>>

\* The request "signal": lifecycleMu, the state and the verification of the leader.
StartSignal ==
  /\ Requesting /\ kind # "none"
  /\ lifecycleMu = Free
  /\ lifecycle = "active" /\ anchor /\ leader \in {"alive", "zombie"}
  /\ lifecycleMu' = "session"
  /\ Go("session", "signal")
  /\ UNCHANGED <<ctxDone, channel, state, os, lifecycle, terminalMu, killOnce, stray>>

\* The leader is signaled, then its group; the leader may end.
signal ==
  /\ pos["session"] = "signal"
  /\ stray' = (stray \/ leader = "reaped")
  /\ leader' \in {leader, IF leader = "alive" THEN "zombie" ELSE leader}
  /\ lifecycleMu' = Free
  /\ Go("session", "requests")
  /\ UNCHANGED <<ctxDone, channel, state, anchor, terminal, closes, stdin, lifecycle,
                 terminalMu, killOnce>>

\* The requests end with the channel.
EndRequests ==
  /\ pos["session"] = "requests" /\ channel = "closed"
  /\ Go("session", IF kind = "none" THEN "gone" ELSE "kill")
  /\ UNCHANGED <<ctxDone, channel, state, os, lifecycle, locks, stray>>

\* Mutant: the session does not wait for its process.
LeaveSession ==
  /\ pos["session"] = "join"
  /\ Go("session", "gone")
  /\ UNCHANGED <<ctxDone, channel, state, os, lifecycle, locks, stray>>

\* <-running.doneChannel()
JoinProcess ==
  /\ pos["session"] = "join"
  /\ lifecycle = "finished"
  /\ Go("session", "gone")
  /\ UNCHANGED <<ctxDone, channel, state, os, lifecycle, locks, stray>>

-----------------------------------------------------------------------------
(* terminate, called by the session, the watcher, the input pump of a shell   *)
(* and the finisher                                                           *)

AfterKill == [session |-> "join", watcher |-> "gone", input |-> "gone",
              finisher |-> "rewait"]

EnterKill(g) ==
  /\ pos[g] = "kill" /\ killOnce = "new"
  /\ killOnce' = "running"
  /\ Go(g, "killed")
  /\ UNCHANGED <<ctxDone, channel, state, os, lifecycle, terminalMu, lifecycleMu, stray>>

\* killOnce is done; whoever comes while it runs waits.
SkipKill(g) ==
  /\ pos[g] = "kill" /\ killOnce = "done"
  /\ Go(g, AfterKill[g])
  /\ UNCHANGED <<ctxDone, channel, state, os, lifecycle, locks, stray>>

\* Mutant: the state is checked without lifecycleMu.
SignalUnlocked(g) ==
  /\ pos[g] = "killed"
  /\ Go(g, IF lifecycle = "active" THEN "scan" ELSE "hangup")
  /\ UNCHANGED <<ctxDone, channel, state, os, lifecycle, locks, stray>>

\* process.signal(SIGKILL): the state under lifecycleMu, and the leader's identity.
VerifyLeader(g) ==
  /\ pos[g] = "killed"
  /\ lifecycleMu = Free
  /\ IF lifecycle = "active" THEN lifecycleMu' = g /\ Go(g, "scan")
                             ELSE UNCHANGED lifecycleMu /\ Go(g, "hangup")
  /\ UNCHANGED <<ctxDone, channel, state, os, lifecycle, terminalMu, killOnce, stray>>

KillLeader == leader' = IF leader = "alive" THEN "zombie" ELSE leader

KillScope(g) ==
  /\ pos[g] = "scan"
  /\ stray' = (stray \/ leader = "reaped")
  /\ KillLeader
  /\ lifecycleMu' = IF lifecycleMu = g THEN Free ELSE lifecycleMu
  /\ Go(g, "hangup")
  /\ UNCHANGED <<ctxDone, channel, state, anchor, terminal, closes, stdin, lifecycle,
                 terminalMu, killOnce>>

\* stdin is closed and closeTerminal takes terminalMu.
HangUp(g) ==
  /\ pos[g] = "hangup"
  /\ terminalMu = Free
  /\ terminalMu' = g
  /\ stdin' = FALSE
  /\ Go(g, "closing")
  /\ UNCHANGED <<ctxDone, channel, state, leader, anchor, terminal, closes, lifecycle,
                 lifecycleMu, killOnce, stray>>

\* Mutant: every caller closes the PTY.
CloseEveryTime ==
  /\ terminal' = IF terminal = "none" THEN "none" ELSE "closed"
  /\ closes' = IF terminal = "none" THEN closes ELSE closes + 1

CloseOnce ==
  /\ terminal' = IF terminal = "none" THEN "none" ELSE "closed"
  /\ closes' = IF terminal \in {"none", "closed"} THEN closes ELSE closes + 1

closeTerminal(g) ==
  /\ pos[g] = "closing"
  /\ CloseOnce
  /\ terminalMu' = Free
  /\ killOnce' = "done"
  /\ Go(g, AfterKill[g])
  /\ UNCHANGED <<ctxDone, channel, state, leader, anchor, stdin, lifecycle, lifecycleMu, stray>>

-----------------------------------------------------------------------------
(* Watcher and pumps *)

watchContext ==
  /\ pos["watcher"] = "watch"
  /\ \/ ctxDone /\ Go("watcher", "kill")
     \/ lifecycle = "finished" /\ Go("watcher", "gone")
  /\ UNCHANGED <<ctxDone, channel, state, os, lifecycle, locks, stray>>

\* io.Copy from the channel ends with the channel,
InputEnds ==
  /\ pos["input"] = "copy" /\ channel = "closed"
  /\ stdin' = FALSE
  /\ Go("input", IF kind = "shell" THEN "kill" ELSE "gone")
  /\ UNCHANGED <<ctxDone, channel, state, leader, anchor, terminal, closes, lifecycle,
                 locks, stray>>

\* or while the channel is open: the remote side sends EOF, or a write to the
\* process fails.
RemoteEOF ==
  /\ pos["input"] = "copy"
  /\ stdin' = FALSE
  /\ Go("input", IF kind = "shell" THEN "kill" ELSE "gone")
  /\ UNCHANGED <<ctxDone, channel, state, leader, anchor, terminal, closes, lifecycle,
                 locks, stray>>

\* The PTY read fails once it is closed.
OutputEnds ==
  /\ pos["output"] = "copy"
  /\ terminal = "closed"
  /\ Go("output", "gone")
  /\ UNCHANGED <<ctxDone, channel, state, os, lifecycle, locks, stray>>

\* No process holds the other side, or the channel takes no more bytes.
OutputBreaks ==
  /\ pos["output"] = "copy"
  /\ leader # "alive" \/ channel = "closed"
  /\ Go("output", "gone")
  /\ UNCHANGED <<ctxDone, channel, state, os, lifecycle, locks, stray>>

-----------------------------------------------------------------------------
(* finishProcess: wait, report, finish *)

ObserveExit ==
  /\ pos["finisher"] \in {"wait", "rewait"}
  /\ leader = "zombie"
  /\ Go("finisher", "begin")
  /\ UNCHANGED <<ctxDone, channel, state, os, lifecycle, locks, stray>>

\* waitid fails: terminate, then one more try; a second failure goes on.
WaitFails ==
  /\ \/ pos["finisher"] = "wait" /\ Go("finisher", "kill")
     \/ pos["finisher"] = "rewait" /\ Go("finisher", "begin")
  /\ UNCHANGED <<ctxDone, channel, state, os, lifecycle, locks, stray>>

\* beginFinalization: terminalMu, then lifecycleMu.
BeginFinalization ==
  /\ pos["finisher"] = "begin"
  /\ terminalMu = Free
  /\ terminalMu' = "finisher"
  /\ Go("finisher", "begin2")
  /\ UNCHANGED <<ctxDone, channel, state, os, lifecycle, lifecycleMu, killOnce, stray>>

Finalize ==
  /\ pos["finisher"] = "begin2"
  /\ lifecycleMu = Free
  /\ lifecycle' = "finalizing"
  /\ terminal' = IF terminal = "active" THEN "finalizing" ELSE terminal
  /\ terminalMu' = Free
  /\ Go("finisher", "clean")
  /\ UNCHANGED <<ctxDone, channel, state, leader, anchor, closes, stdin, lifecycleMu,
                 killOnce, stray>>

finalCleanup ==
  /\ pos["finisher"] = "clean"
  /\ KillLeader
  /\ Go("finisher", "reap")
  /\ UNCHANGED <<ctxDone, channel, state, anchor, terminal, closes, stdin, lifecycle, locks,
                 stray>>

\* command.Wait
Reap ==
  /\ pos["finisher"] = "reap"
  /\ leader = "zombie"
  /\ leader' = "reaped"
  /\ Go("finisher", "report")
  /\ UNCHANGED <<ctxDone, channel, state, anchor, terminal, closes, stdin, lifecycle, locks,
                 stray>>


\* exit-status, CloseWrite and Close
Report ==
  /\ pos["finisher"] = "report"
  /\ channel' = "closed"
  /\ Go("finisher", "finish")
  /\ UNCHANGED <<ctxDone, state, os, lifecycle, locks, stray>>

\* finish: stdin and the PTY,
Finish ==
  /\ pos["finisher"] = "finish"
  /\ terminalMu = Free
  /\ terminalMu' = "finisher"
  /\ stdin' = FALSE
  /\ Go("finisher", "finish2")
  /\ UNCHANGED <<ctxDone, channel, state, leader, anchor, terminal, closes, lifecycle,
                 lifecycleMu, killOnce, stray>>

\* Mutant: terminalMu is kept until the pumps are joined.
FinishKeepsLock ==
  /\ pos["finisher"] = "finish2"
  /\ CloseOnce
  /\ Go("finisher", "pumps")
  /\ UNCHANGED <<ctxDone, channel, state, leader, anchor, stdin, lifecycle, locks, stray>>

FinishTerminal ==
  /\ pos["finisher"] = "finish2"
  /\ CloseOnce
  /\ terminalMu' = Free
  /\ Go("finisher", "pumps")
  /\ UNCHANGED <<ctxDone, channel, state, leader, anchor, stdin, lifecycle, lifecycleMu,
                 killOnce, stray>>

\* the pumps,
JoinPumps ==
  /\ pos["finisher"] = "pumps"
  /\ pos["input"] = "gone" /\ pos["output"] = "gone"
  /\ Go("finisher", "last")
  /\ UNCHANGED <<ctxDone, channel, state, os, lifecycle, locks, stray>>

\* and, under lifecycleMu, the pidfd and done.
CloseAnchor ==
  /\ pos["finisher"] = "last"
  /\ lifecycleMu = Free
  /\ anchor' = FALSE
  /\ lifecycle' = "finished"
  /\ Go("finisher", "gone")
  /\ UNCHANGED <<ctxDone, channel, state, leader, terminal, closes, stdin, locks, stray>>

-----------------------------------------------------------------------------
(* Environment *)

\* The process ends by itself.
LeaderExits ==
  /\ leader = "alive"
  /\ leader' = "zombie"
  /\ UNCHANGED <<ctxDone, channel, state, pos, anchor, terminal, closes, stdin, lifecycle,
                 locks, stray>>

\* The client closes the channel, or the transport is lost.
CloseChannel ==
  /\ channel = "open"
  /\ channel' = "closed"
  /\ UNCHANGED <<ctxDone, state, pos, os, lifecycle, locks, stray>>

\* The tunnel's context ends; Serve then closes the transport.
CancelContext ==
  /\ ~ctxDone
  /\ ctxDone' = TRUE
  /\ UNCHANGED <<channel, state, pos, os, lifecycle, locks, stray>>

-----------------------------------------------------------------------------
Terminate(g) ==
  \/ EnterKill(g) \/ SkipKill(g) \/ VerifyLeader(g) \/ KillScope(g)
  \/ HangUp(g) \/ closeTerminal(g)

SessionStep == resizeTerminal \/ signal \/ EndRequests \/ JoinProcess

FinisherStep ==
  \/ ObserveExit \/ BeginFinalization \/ Finalize \/ finalCleanup \/ Reap
  \/ Report \/ Finish \/ FinishTerminal \/ JoinPumps \/ CloseAnchor

Next ==
  \/ SessionStep \/ FinisherStep \/ watchContext \/ InputEnds \/ OutputEnds
  \/ \E g \in Killers : Terminate(g)
  \/ acceptEnvironment \/ acceptPTY \/ Launch \/ StartResize \/ StartSignal \/ WaitFails
  \/ RemoteEOF \/ OutputBreaks \/ LeaderExits \/ CloseChannel \/ CancelContext

Spec == Init /\ [][Next]_vars

\* Goroutines continue and a mutex is not refused for ever (sync.Mutex hands itself
\* to a starving waiter).  Serve closes the transport of a context that ended.
\* Neither the client nor the process has to do anything.
Fairness ==
  /\ WF_vars(SessionStep) /\ WF_vars(watchContext)
  /\ WF_vars(InputEnds) /\ WF_vars(OutputEnds)
  /\ WF_vars(Terminate("session"))
  /\ SF_vars(FinisherStep \/ \E g \in Killers \ {"session"} : Terminate(g))
  /\ WF_vars(ctxDone /\ CloseChannel)

FairSpec == Spec /\ Fairness

-----------------------------------------------------------------------------
(* Properties *)

\* "A late SSH signal fails closed without looking at identities that may soon
\* become reusable", and no resize reaches a descriptor that was closed: the
\* leader is not reaped during a scan over its process group, nor the PTY
\* closed during an ioctl.
NoStrayIdentity == ~stray

\* When the session returns, its process is gone: reaped, its pidfd and PTY
\* closed and its pumps joined.  Serve waits for the sessions, so that a tunnel
\* that is torn down leaves no command behind.
SessionLeavesNothing ==
  pos["session"] = "gone" /\ kind # "none" =>
    /\ leader = "reaped" /\ ~anchor
    /\ terminal \in {"none", "closed"} /\ ~stdin
    /\ pos["input"] = "gone" /\ pos["output"] = "gone"

\* A session ends when its channel is closed or its context done, and the
\* finisher, the pumps and terminate do not wait for one another in a circle.
SessionEnds == []<>(channel = "closed" \/ ctxDone => pos["session"] = "gone")

\* The exit of the process is reported, although the client goes on sending.
ExitIsReported == []<>(leader \in {"zombie", "reaped"} => channel = "closed")
=============================================================================
