-------------------------------- MODULE SSHExec -------------------------------
(***************************************************************************)
(* One SSH connection of the server to a device                            *)
(* (internal/sshclient/client.go): dial with its handshake goroutine and   *)
(* its two watchers, Exec with the two drains that share one capture       *)
(* limit, and the PTY handle of a terminal.                                *)
(*                                                                         *)
(* OpenSSH is in TunnelStreams and the device's side in SSHProcess; here   *)
(* the device may answer, stay silent, send output in pieces and exit, and *)
(* the stream may break.  It sends the exit status after the output of a   *)
(* command, in order.  Validation of commands and paths comes first and is *)
(* left out; a host key that does not match fails the handshake.           *)
(***************************************************************************)
EXTENDS Naturals, FiniteSets

CONSTANTS limit,       \* CaptureLimit
          MaxOutput    \* bound on what a command writes to each output

Outputs == {"stdout", "stderr"}

VARIABLES
  kind,          \* "exec" or "pty"
  pc,            \* "dial", "handshake", "abandon", "setup", "wait", "collect", "handle", "done"
  ctx, result,
  stream,        \* "none", "open", "closed": the tunnel stream and the client on it
  shaking,       \* the handshake goroutine: "none", "running", "sent"
  watching,      \* watchers of the connection: client.Wait, the context
  remote,        \* the device: "none", "running", "exited"
  sent, got,     \* output that has arrived from the device, and been read by the drains
  kept, truncated, remaining,      \* capturePair
  drain,         \* "none", "running", "done"
  waited         \* session.Wait: "none", "running", "status", "missing"

conn == <<stream, shaking, watching>>
captures == <<kept, truncated, remaining>>
session == <<remote, sent, got, captures, drain, waited>>
vars == <<kind, pc, ctx, result, conn, session>>

Init ==
  /\ kind \in {"exec", "pty"} /\ pc = "dial" /\ ctx = "live" /\ result = "none"
  /\ stream = "none" /\ shaking = "none" /\ watching = {}
  /\ remote = "none" /\ sent = [o \in Outputs |-> 0] /\ got = [o \in Outputs |-> 0]
  /\ kept = [o \in Outputs |-> 0] /\ truncated = [o \in Outputs |-> FALSE] /\ remaining = limit
  /\ drain = [o \in Outputs |-> "none"] /\ waited = "none"

Return(r) == pc' = "done" /\ result' = r

\* The deferred closes of session and connection
CloseConnection == stream' = IF stream = "none" THEN "none" ELSE "closed"

-----------------------------------------------------------------------------
(* dial *)

\* Key lookup and OpenSSH, which honour the context
OpenStream ==
  /\ pc = "dial"
  /\ \/ /\ ctx = "live"
        /\ stream' = "open" /\ shaking' = "running" /\ pc' = "handshake" /\ UNCHANGED result
     \/ Return("error") /\ UNCHANGED <<stream, shaking>>
  /\ UNCHANGED <<kind, ctx, watching, session>>

\* ssh.NewClientConn returns: in time, or because its stream is gone.
HandshakeEnds ==
  /\ shaking = "running"
  /\ shaking' = "sent"
  /\ UNCHANGED <<kind, pc, ctx, result, stream, watching, session>>

\* The select: handshake first,
TakeHandshake ==
  /\ pc = "handshake" /\ shaking = "sent"
  /\ \/ /\ stream = "open"
        /\ pc' = "setup" /\ watching' = {"wait", "ctx"} /\ UNCHANGED <<stream, result>>
     \/ CloseConnection /\ Return("error") /\ UNCHANGED watching     \* failed
  /\ UNCHANGED <<kind, ctx, shaking, session>>


\* or the context: the stream is closed
CancelHandshake ==
  /\ pc = "handshake" /\ ctx = "done"
  /\ CloseConnection /\ pc' = "abandon"
  /\ UNCHANGED <<kind, ctx, result, shaking, watching, session>>

\* and the goroutine joined.
JoinHandshake ==
  /\ pc = "abandon" /\ shaking = "sent"
  /\ Return("error")
  /\ UNCHANGED <<kind, ctx, conn, session>>

\* Mutant: the context is not watched after the handshake.
WatchClosed(w) ==
  /\ w \in watching /\ stream = "closed"
  /\ watching' = watching \ {w} /\ UNCHANGED stream
  /\ UNCHANGED <<kind, pc, ctx, result, shaking, session>>

\* A watcher ends with the connection; the one of the context closes it.
Watch(w) ==
  /\ w \in watching
  /\ stream = "closed" \/ (w = "ctx" /\ ctx = "done")
  /\ watching' = watching \ {w} /\ stream' = "closed"
  /\ UNCHANGED <<kind, pc, ctx, result, shaking, session>>

-----------------------------------------------------------------------------
(* Exec and OpenPTY *)

\* NewSession, Setenv, RequestPty, Start or Shell: each waits for an answer.
StartSession ==
  /\ pc = "setup"
  /\ \/ /\ stream = "open"
        /\ remote' = "running" /\ waited' = "running"
        /\ IF kind = "exec" THEN drain' = [o \in Outputs |-> "running"] /\ pc' = "wait"
           ELSE pc' = "handle" /\ UNCHANGED drain
        /\ UNCHANGED <<stream, result>>
     \/ /\ CloseConnection /\ Return("error") /\ UNCHANGED <<remote, waited, drain>>
  /\ UNCHANGED <<kind, ctx, shaking, watching, sent, got, captures>>

(* capturePair.drain reads n bytes: what has no room is dropped and marked. *)

Accepted(n) == IF n > remaining THEN remaining ELSE n

Mark(o, n) == truncated[o] \/ Accepted(n) < n

Read(o, n) ==
  /\ drain[o] = "running" /\ n \in 1..(sent[o] - got[o])
  /\ got' = [got EXCEPT ![o] = @ + n]
  /\ kept' = [kept EXCEPT ![o] = @ + Accepted(n)]
  /\ truncated' = [truncated EXCEPT ![o] = Mark(o, n)]
  /\ remaining' = remaining - Accepted(n)
  /\ UNCHANGED <<kind, pc, ctx, result, conn, remote, sent, drain, waited>>

\* EOF of an output, once all that has arrived is read: after the exit, or when the
\* connection is gone
EndDrain(o) ==
  /\ drain[o] = "running" /\ got[o] = sent[o]
  /\ remote = "exited" \/ stream = "closed"
  /\ drain' = [drain EXCEPT ![o] = "done"]
  /\ UNCHANGED <<kind, pc, ctx, result, conn, remote, sent, got, captures, waited>>

\* session.Wait returns the status, or that it is missing.
SessionWait ==
  /\ waited = "running"
  /\ \/ remote = "exited" /\ waited' = "status"
     \/ stream = "closed" /\ waited' = "missing"
  /\ UNCHANGED <<kind, pc, ctx, result, conn, remote, sent, got, captures, drain>>

\* Mutant: the drains are not waited for.
CollectEarly ==
  /\ pc = "wait" /\ waited \in {"status", "missing"}
  /\ pc' = "collect"
  /\ UNCHANGED <<kind, ctx, result, conn, session>>

\* Exec waits for the status and then for both drains.
CollectOutput ==
  /\ pc = "wait" /\ waited \in {"status", "missing"} /\ \A o \in Outputs : drain[o] = "done"
  /\ pc' = "collect"
  /\ UNCHANGED <<kind, ctx, result, conn, session>>

\* The context first; then only an exit status makes a result.
ExecReturns ==
  /\ pc = "collect"
  /\ Return(IF ctx = "done" \/ waited = "missing" THEN "error" ELSE "ok")
  /\ CloseConnection
  /\ UNCHANGED <<kind, ctx, shaking, watching, session>>

\* The waiter of a PTY closes the connection after the session has ended.
PTYEnds ==
  /\ pc = "handle" /\ waited \in {"status", "missing"} /\ stream = "open"
  /\ CloseConnection
  /\ UNCHANGED <<kind, pc, ctx, result, shaking, watching, session>>

\* PTY.Close, called by the terminal
ClosePTY ==
  /\ pc = "handle"
  /\ Return("ok") /\ CloseConnection
  /\ UNCHANGED <<kind, ctx, shaking, watching, session>>

-----------------------------------------------------------------------------
(* The device, the stream and the caller *)

Write(o) ==
  /\ remote = "running" /\ stream = "open" /\ kind = "exec" /\ sent[o] < MaxOutput
  /\ sent' = [sent EXCEPT ![o] = @ + 1]
  /\ UNCHANGED <<kind, pc, ctx, result, conn, remote, got, captures, drain, waited>>

ExitStatus ==
  /\ remote = "running" /\ stream = "open"
  /\ remote' = "exited"
  /\ UNCHANGED <<kind, pc, ctx, result, conn, sent, got, captures, drain, waited>>

Break ==
  /\ stream = "open"
  /\ stream' = "closed"
  /\ UNCHANGED <<kind, pc, ctx, result, shaking, watching, session>>

Cancel ==
  /\ ctx = "live" /\ pc # "done"
  /\ ctx' = "done"
  /\ UNCHANGED <<kind, pc, result, conn, session>>

Next ==
  \/ OpenStream \/ HandshakeEnds \/ TakeHandshake \/ CancelHandshake \/ JoinHandshake
  \/ \E w \in {"wait", "ctx"} : Watch(w)
  \/ StartSession \/ SessionWait \/ CollectOutput \/ ExecReturns \/ PTYEnds \/ ClosePTY
  \/ \E o \in Outputs : (\E n \in 1..MaxOutput : Read(o, n)) \/ EndDrain(o) \/ Write(o)
  \/ ExitStatus \/ Break \/ Cancel

Spec == Init /\ [][Next]_vars

\* Goroutines continue; a call on a closed stream returns.  The device need not
\* answer, write or exit.
Fairness ==
  /\ WF_vars(ctx = "done" /\ OpenStream)
  /\ WF_vars(stream = "closed" /\ HandshakeEnds) /\ WF_vars(TakeHandshake)
  /\ WF_vars(CancelHandshake) /\ WF_vars(JoinHandshake)
  /\ \A w \in {"wait", "ctx"} : WF_vars(Watch(w))
  /\ WF_vars(stream = "closed" /\ StartSession) /\ WF_vars(SessionWait)
  /\ WF_vars(CollectOutput \/ ExecReturns \/ PTYEnds)
  /\ \A o \in Outputs : WF_vars(EndDrain(o) \/ \E n \in 1..MaxOutput : Read(o, n))

FairSpec == Spec /\ Fairness

-----------------------------------------------------------------------------
(* Properties *)

Total(f) == f["stdout"] + f["stderr"]

TypeOK ==
  /\ pc \in {"dial", "handshake", "abandon", "setup", "wait", "collect", "handle", "done"}
  /\ stream \in {"none", "open", "closed"} /\ watching \subseteq {"wait", "ctx"}
  /\ remaining \in 0..limit /\ remaining + Total(kept) = limit           \* both outputs share one limit
  /\ \A o \in Outputs : kept[o] <= got[o] /\ got[o] <= sent[o]


\* When the call returns its stream is closed and the handshake goroutine is over.
NothingLeft == pc = "done" => stream # "open" /\ shaking # "running"

\* A canceled call returns though the device is silent, and its watchers end.
CanceledReturns == []<>(ctx = "done" => pc \in {"done", "handle"} /\ watching = {})

\* A terminal's connection does not outlive its context.
TerminalEnds == []<>(pc = "handle" /\ ctx = "done" => stream = "closed")
=============================================================================
