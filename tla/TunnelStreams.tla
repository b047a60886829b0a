---------------------------- MODULE TunnelStreams ----------------------------
(***************************************************************************)
(* Manager.OpenSSH (internal/tunnel/manager.go) over the life of a device: *)
(* a caller selects the current connection, waits for one of its setup     *)
(* slots, lets a goroutine open a yamux stream, writes the header and      *)
(* looks a last time whether the connection was replaced or detached.      *)
(***************************************************************************)
EXTENDS DeviceLifecycle

CONSTANTS
  Opens,        \* calls of OpenSSH
  MaxSetups     \* capacity of Connection.sshSetups

VARIABLES
  opc,          \* position of the caller
  conn,         \* the connection it selected
  slots,        \* the calls whose goroutine occupies a slot of sshSetups
  stream,       \* the yamux stream: "none", "open", "closed" or "error"
  octx          \* the caller's context: "live" or "done"

openVars == <<opc, conn, slots, stream, octx>>

Setups(c) == {o \in slots : conn[o] = c}

OpenTypeOK ==
  /\ TypeOK
  /\ opc \in [Opens -> {"new", "selected", "opening", "abandoned", "opened", "sent",
                        "handed", "failed"}]
  /\ conn \in [Opens -> Conns \cup {NoConn}]
  /\ slots \subseteq Opens
  /\ \A c \in Conns : Cardinality(Setups(c)) <= MaxSetups
  /\ stream \in [Opens -> {"none", "open", "closed", "error"}]
  /\ octx \in [Opens -> {"live", "done"}]

OpenInit ==
  /\ Init
  /\ opc = [o \in Opens |-> "new"] /\ conn = [o \in Opens |-> NoConn]
  /\ slots = {} /\ stream = [o \in Opens |-> "none"]
  /\ octx = [o \in Opens |-> "live"]

OGo(o, position) == opc' = [opc EXCEPT ![o] = position]

CancelOpen(o) ==
  /\ opc[o] \notin {"new", "handed", "failed"}
  /\ octx[o] = "live"
  /\ octx' = [octx EXCEPT ![o] = "done"]
  /\ UNCHANGED <<vars, opc, conn, slots, stream>>

\* The critical section: the connection and its credentials, or ErrDeviceOffline.
SelectConnection(o) ==
  /\ opc[o] = "new"
  /\ conn' = [conn EXCEPT ![o] = connections]
  /\ OGo(o, IF connections = NoConn \/ closed[connections] THEN "failed" ELSE "selected")
  /\ UNCHANGED <<vars, slots, stream, octx>>

\* The select on sshSetups, ctx.Done() and connection.Done().
AcquireSetup(o) ==
  /\ opc[o] = "selected"
  /\ Cardinality(Setups(conn[o])) < MaxSetups
  /\ slots' = slots \cup {o}
  /\ OGo(o, "opening")
  /\ UNCHANGED <<vars, conn, stream, octx>>

RefuseSetup(o) ==
  /\ opc[o] = "selected"
  /\ octx[o] = "done" \/ closed[conn[o]]
  /\ OGo(o, "failed")
  /\ UNCHANGED <<vars, conn, slots, stream, octx>>

\* session.OpenStream returns in its goroutine, which gives the slot back.  It
\* can only succeed before the session is closed.
OpenStream(o) ==
  /\ o \in slots
  /\ slots' = slots \ {o}
  /\ \/ ~cleaned[conn[o]] /\ stream' = [stream EXCEPT ![o] = "open"]
     \/ stream' = [stream EXCEPT ![o] = "error"]
  /\ UNCHANGED <<vars, opc, conn, octx>>

ReceiveStream(o) ==
  /\ opc[o] = "opening"
  /\ stream[o] # "none"
  /\ OGo(o, IF stream[o] = "open" THEN "opened" ELSE "failed")
  /\ UNCHANGED <<vars, conn, slots, stream, octx>>


\* Mutant: a canceled caller waits for its stream.
AbandonLate(o) ==
  /\ opc[o] = "opening"
  /\ octx[o] = "done" /\ stream[o] # "none"
  /\ OGo(o, "abandoned")
  /\ UNCHANGED <<vars, conn, slots, stream, octx>>

\* The context ends first: the caller returns and leaves a goroutine behind,
AbandonStream(o) ==
  /\ opc[o] = "opening"
  /\ octx[o] = "done"
  /\ OGo(o, "abandoned")
  /\ UNCHANGED <<vars, conn, slots, stream, octx>>

\* which closes the stream when it arrives.
DrainStream(o) ==
  /\ opc[o] = "abandoned"
  /\ stream[o] # "none"
  /\ stream' = [stream EXCEPT ![o] = IF @ = "open" THEN "closed" ELSE @]
  /\ OGo(o, "failed")
  /\ UNCHANGED <<vars, conn, slots, octx>>

WriteHeader(o) ==
  /\ opc[o] = "opened"
  /\ ~cleaned[conn[o]]
  /\ OGo(o, "sent")
  /\ UNCHANGED <<vars, conn, slots, stream, octx>>

\* Any error after the stream was opened, closeOnError included.
OpenFails(o) ==
  /\ opc[o] \in {"opened", "sent"}
  /\ stream' = [stream EXCEPT ![o] = "closed"]
  /\ OGo(o, "failed")
  /\ UNCHANGED <<vars, conn, slots, octx>>

\* Mutant: the last look at connection.Done() is gone.
HandOutStale(o) ==
  /\ opc[o] = "sent"
  /\ octx[o] = "live"
  /\ OGo(o, "handed")
  /\ UNCHANGED <<vars, conn, slots, stream, octx>>

\* The default case of the last select.
HandOut(o) ==
  /\ opc[o] = "sent"
  /\ octx[o] = "live" /\ ~closed[conn[o]]
  /\ OGo(o, "handed")
  /\ UNCHANGED <<vars, conn, slots, stream, octx>>

CallerStep(o) ==
  \/ AcquireSetup(o) \/ RefuseSetup(o) \/ ReceiveStream(o)
  \/ AbandonStream(o) \/ WriteHeader(o) \/ OpenFails(o) \/ HandOut(o)

OpenNext ==
  \/ Next /\ UNCHANGED openVars
  \/ \E o \in Opens :
       SelectConnection(o) \/ CallerStep(o) \/ OpenStream(o) \/ DrainStream(o) \/ CancelOpen(o)

OpenSpec == OpenInit /\ [][OpenNext]_<<vars, openVars>>

\* Callers continue; that OpenStream ever returns is not assumed.
FairCallers == \A o \in Opens : WF_<<vars, openVars>>(CallerStep(o))

-----------------------------------------------------------------------------
\* "Consumers must not look up either resource independently because newest-wins
\* replacement may occur between calls": what OpenSSH hands out belongs to a
\* connection that was authenticated after the last completed unpair, however
\* long the caller waited since it selected the connection.  The exception is a
\* connection that its handler took out, or CloseAll, and is about to close:
\* DetachDevice no longer finds it.
HandedOutAfterUnpair ==
  [][\A o \in Opens :
       opc[o] # "handed" /\ opc'[o] = "handed" =>
         \/ regEra[conn[o]] = era \/ Detaching
         \/ hpc[conn[o]] = "removed" \/ conn[o] \in snapshot]_<<vars, openVars>>

\* A failed call keeps neither its stream nor its slot, even when it was
\* canceled before the stream arrived.
NoStreamLeak ==
  \A o \in Opens : opc[o] = "failed" => stream[o] # "open" /\ o \notin slots


\* A caller whose context ends returns, although the slots are all taken by
\* OpenStream calls that never do.
CanceledOpenReturns ==
  \A o \in Opens :
    []<>(octx[o] = "done" => opc[o] \in {"new", "handed", "failed", "abandoned"})
=============================================================================
