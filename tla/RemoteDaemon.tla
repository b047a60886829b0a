----------------------------- MODULE RemoteDaemon -----------------------------
(***************************************************************************)
(* The daemon on the device: Controller (internal/remoteclient), the       *)
(* tunnel Client it runs (internal/tunnel/client.go), the local IPC server *)
(* (internal/clientipc/server.go) and runDaemon of                         *)
(* cmd/aisummoner-client, which joins the two.                             *)
(*                                                                         *)
(* The Run loop of the controller starts the client, which connects,       *)
(* serves SSH streams, retries and stops when its context is canceled;     *)
(* its callbacks update the controller.  IPC requests pause, resume and    *)
(* refresh.  A pairing code has a timer whose callback may already have    *)
(* been started when the timer is stopped.                                 *)
(*                                                                         *)
(* The event ring is in ClientEvents; back-off delays are left out.        *)
(* Client.Run always returns nil, so that the error branch of the loop,    *)
(* with its timer, is dead.  quiet and elapsed are history.                *)
(***************************************************************************)
EXTENDS Naturals, FiniteSets

CONSTANTS
  Requests,      \* IPC connections
  Streams,       \* SSH streams the server opens
  MaxHandlers,   \* capacity of the IPC semaphore
  MaxRuns,       \* bound: runs of the client
  MaxOffers      \* bound: pairing offers

VARIABLES
  phase, desired, life,         \* Controller.phase, .desired, .running and .finished
  active, canceled,             \* the current run (activeDone), and its context
  wake,                         \* Controller.wake holds a token
  sessions,                     \* Controller.activeSessions
  pairing, expired, timer,      \* the offer shown, whether it is expired, its timer
  firing,                       \* timers whose callback has started
  rpc, runs, joined,            \* position of Controller.Run; runs started and ended
  cpc, accepting, stream,       \* position of Client.Run; its accept loop; handlers
  qpc, op, awaits,              \* IPC handlers: position, operation, run waited for
  ctxDone, serving,             \* runContext; position of Server.Serve
  offers, elapsed, quiet

control == <<phase, desired, life>>
run == <<active, canceled, rpc, runs, joined>>
offer == <<pairing, expired, timer, firing, offers, elapsed>>
client == <<cpc, accepting, stream, sessions>>
ipc == <<qpc, op, awaits, quiet>>
daemon == <<ctxDone, serving>>
vars == <<control, run, wake, offer, client, ipc, daemon>>

Offers == 1..MaxOffers
InHandler == {"accepted", "waiting"}

TypeOK ==
  /\ phase \in {"starting", "connecting", "online", "retrying", "paused", "stopped"}
  /\ desired \in BOOLEAN /\ life \in {"new", "running", "finished"}
  /\ active \in 0..MaxRuns /\ runs \in 0..MaxRuns /\ joined \in 0..MaxRuns
  /\ canceled \in BOOLEAN /\ wake \in BOOLEAN
  /\ rpc \in {"start", "top", "waiting", "run", "finishing", "done"}
  /\ pairing \in 0..MaxOffers /\ timer \in 0..MaxOffers /\ offers \in 0..MaxOffers
  /\ expired \in BOOLEAN /\ firing \subseteq Offers /\ elapsed \subseteq Offers
  /\ cpc \in {"off", "connecting", "dialing", "online", "draining", "ended",
              "retrying", "stopping", "returned"}
  /\ accepting \in BOOLEAN /\ sessions \in 0..Cardinality(Streams)
  /\ stream \in [Streams -> {"new", "added", "open", "gone"}]
  /\ qpc \in [Requests -> InHandler \cup {"new", "ok", "error"}]
  /\ Cardinality({q \in Requests : qpc[q] \in InHandler}) <= MaxHandlers
  /\ op \in [Requests -> {"none", "pause", "resume", "refresh"}]
  /\ awaits \in [Requests -> 0..MaxRuns] /\ quiet \in [Requests -> BOOLEAN]
  /\ ctxDone \in BOOLEAN /\ serving \in {"off", "listening", "draining", "returned"}

Init ==
  /\ phase = "stopped" /\ desired = FALSE /\ life = "new"
  /\ active = 0 /\ canceled = FALSE /\ rpc = "start" /\ runs = 0 /\ joined = 0
  /\ wake = FALSE
  /\ pairing = 0 /\ expired = FALSE /\ timer = 0 /\ firing = {} /\ offers = 0
  /\ elapsed = {}
  /\ cpc = "off" /\ accepting = FALSE /\ stream = [h \in Streams |-> "new"] /\ sessions = 0
  /\ qpc = [q \in Requests |-> "new"] /\ op = [q \in Requests |-> "none"]
  /\ awaits = [q \in Requests |-> 0] /\ quiet = [q \in Requests |-> FALSE]
  /\ ctxDone = FALSE /\ serving = "off"

\* clearPairingLocked; a callback that has started is not stopped by it.
clearPairing ==
  /\ pairing' = 0 /\ expired' = FALSE /\ timer' = 0
  /\ UNCHANGED <<firing, offers, elapsed>>

-----------------------------------------------------------------------------
(* Controller.Run *)

Start ==
  /\ rpc = "start" /\ serving # "off"
  /\ rpc' = "top" /\ life' = "running" /\ desired' = TRUE /\ phase' = "starting"
  /\ UNCHANGED <<active, canceled, runs, joined, wake, offer, client, ipc, daemon>>

\* The top of the loop while paused, and with nothing to stop it.
Idle ==
  /\ rpc = "top"
  /\ ~ctxDone /\ ~desired
  /\ phase' = "paused"
  /\ rpc' = "waiting"
  /\ UNCHANGED <<desired, life, active, canceled, runs, joined, wake, offer, client, ipc,
                 daemon>>

StartRun ==
  /\ rpc = "top"
  /\ ~ctxDone /\ desired
  /\ runs < MaxRuns
  /\ active' = runs + 1 /\ runs' = runs + 1 /\ canceled' = FALSE
  /\ rpc' = "run"
  /\ cpc' = "connecting"
  /\ UNCHANGED <<control, joined, wake, offer, accepting, stream, sessions, ipc, daemon>>

Wake ==
  /\ rpc = "waiting"
  /\ wake
  /\ wake' = FALSE
  /\ rpc' = "top"
  /\ UNCHANGED <<control, active, canceled, runs, joined, offer, client, ipc, daemon>>

\* Mutant: a paused daemon waits for a wake only.
EndLoopAtTop ==
  /\ rpc = "top"
  /\ ctxDone
  /\ rpc' = "finishing"
  /\ UNCHANGED <<control, active, canceled, runs, joined, wake, offer, client, ipc, daemon>>

EndLoop ==
  /\ rpc \in {"top", "waiting"}
  /\ ctxDone
  /\ rpc' = "finishing"
  /\ UNCHANGED <<control, active, canceled, runs, joined, wake, offer, client, ipc, daemon>>

\* The critical section after runner.Run; runDone is closed.
RunnerReturned ==
  /\ rpc = "run" /\ cpc = "returned"
  /\ active' = 0 /\ joined' = active
  /\ phase' = IF desired THEN phase ELSE "paused"
  /\ rpc' = "top"
  /\ cpc' = "off"
  /\ UNCHANGED <<desired, life, canceled, runs, wake, offer, accepting, stream, sessions,
                 ipc, daemon>>

finish ==
  /\ rpc = "finishing"
  /\ rpc' = "done" /\ life' = "finished" /\ desired' = FALSE /\ phase' = "stopped"
  /\ active' = 0 /\ sessions' = 0
  /\ clearPairing
  /\ UNCHANGED <<canceled, runs, joined, wake, cpc, accepting, stream, ipc, daemon>>

-----------------------------------------------------------------------------
(* Client.Run and the callbacks it makes *)

RunDone == canceled \/ ctxDone

NotifyConnecting ==
  /\ cpc = "connecting"
  /\ phase' = "connecting"
  /\ clearPairing
  /\ cpc' = "dialing"
  /\ UNCHANGED <<desired, life, run, wake, accepting, stream, sessions, ipc, daemon>>

\* runOnce up to the authenticated answer.
Online ==
  /\ cpc = "dialing"
  /\ phase' = "online"
  /\ cpc' = "online" /\ accepting' = TRUE
  /\ UNCHANGED <<desired, life, run, wake, offer, stream, sessions, ipc, daemon>>

DialFails ==
  /\ cpc = "dialing"
  /\ cpc' = "ended"
  /\ UNCHANGED <<control, run, wake, offer, accepting, stream, sessions, ipc, daemon>>

\* acceptStreams; the accept loop may still add the stream it holds after done
\* was closed.
AcceptStream(h) ==
  /\ cpc \in {"online", "draining"} /\ accepting
  /\ stream[h] = "new"
  /\ stream' = [stream EXCEPT ![h] = "added"]
  /\ UNCHANGED <<control, run, wake, offer, cpc, accepting, sessions, ipc, daemon>>

\* observeStream, from the handler's goroutine.
StreamOpened(h) ==
  /\ stream[h] = "added"
  /\ stream' = [stream EXCEPT ![h] = "open"]
  /\ sessions' = IF life = "finished" THEN sessions ELSE sessions + 1
  /\ UNCHANGED <<control, run, wake, offer, cpc, accepting, ipc, daemon>>

StreamClosed(h) ==
  /\ stream[h] = "open"
  /\ stream' = [stream EXCEPT ![h] = "gone"]
  /\ sessions' = IF life = "finished" \/ sessions = 0 THEN sessions ELSE sessions - 1
  /\ UNCHANGED <<control, run, wake, offer, cpc, accepting, ipc, daemon>>

\* runAuthenticated leaves its loop: an error, or its context.
EndOnline ==
  /\ cpc = "online"
  /\ cpc' = "draining"
  /\ UNCHANGED <<control, run, wake, offer, accepting, stream, sessions, ipc, daemon>>

\* The session is closed, so AcceptStream fails.
StopAccepting ==
  /\ cpc = "draining" /\ accepting
  /\ accepting' = FALSE
  /\ UNCHANGED <<control, run, wake, offer, cpc, stream, sessions, ipc, daemon>>


\* <-acceptDone, which waits for the handlers, and workers.Wait
JoinHandlers ==
  /\ cpc = "draining" /\ ~accepting
  /\ \A h \in Streams : stream[h] \in {"new", "gone"}
  /\ cpc' = "ended"
  /\ UNCHANGED <<control, run, wake, offer, accepting, stream, sessions, ipc, daemon>>

NotifyRetrying ==
  /\ cpc = "ended" /\ ~RunDone
  /\ phase' = "retrying"
  /\ cpc' = "retrying"
  /\ UNCHANGED <<desired, life, run, wake, offer, accepting, stream, sessions, ipc, daemon>>

RetryTimer ==
  /\ cpc = "retrying"
  /\ cpc' = "connecting"
  /\ UNCHANGED <<control, run, wake, offer, accepting, stream, sessions, ipc, daemon>>

StopRunning ==
  /\ cpc \in {"ended", "retrying"} /\ RunDone
  /\ cpc' = "stopping"
  /\ UNCHANGED <<control, run, wake, offer, accepting, stream, sessions, ipc, daemon>>

\* The deferred notification.
NotifyStopped ==
  /\ cpc = "stopping"
  /\ phase' = IF desired THEN phase ELSE "paused"
  /\ cpc' = "returned"
  /\ UNCHANGED <<desired, life, run, wake, offer, accepting, stream, sessions, ipc, daemon>>

-----------------------------------------------------------------------------
(* Pairing offers *)

observePairing ==
  /\ cpc = "online"
  /\ offers < MaxOffers
  /\ offers' = offers + 1 /\ pairing' = offers + 1 /\ timer' = offers + 1
  /\ expired' = FALSE
  /\ UNCHANGED <<control, run, wake, firing, elapsed, client, ipc, daemon>>

\* The offer's time is over and the runtime starts the callback.
FireTimer ==
  /\ timer # 0 /\ timer \notin elapsed
  /\ firing' = firing \cup {timer} /\ elapsed' = elapsed \cup {timer}
  /\ UNCHANGED <<control, run, wake, pairing, expired, timer, offers, client, ipc, daemon>>

\* Mutant: a late callback expires whatever is shown.
ExpireAny(i) ==
  /\ i \in firing
  /\ firing' = firing \ {i}
  /\ IF life # "finished" /\ pairing # 0
     THEN expired' = TRUE /\ timer' = 0
     ELSE UNCHANGED <<expired, timer>>
  /\ UNCHANGED <<control, run, wake, pairing, offers, elapsed, client, ipc, daemon>>

expirePairing(i) ==
  /\ i \in firing
  /\ firing' = firing \ {i}
  /\ IF life # "finished" /\ pairing = i /\ ~expired
     THEN expired' = TRUE /\ timer' = 0
     ELSE UNCHANGED <<expired, timer>>
  /\ UNCHANGED <<control, run, wake, pairing, offers, elapsed, client, ipc, daemon>>

-----------------------------------------------------------------------------
(* IPC requests *)

QGo(q, position) == qpc' = [qpc EXCEPT ![q] = position]

\* Server.Serve accepts, authenticates and decodes a request, or hangs up.  The
\* place of a request that is over may be taken by the next one.
AcceptRequest(q, o) ==
  /\ serving = "listening"
  /\ qpc[q] \notin InHandler
  /\ op' = [op EXCEPT ![q] = o]
  /\ awaits' = [awaits EXCEPT ![q] = 0] /\ quiet' = [quiet EXCEPT ![q] = FALSE]
  /\ QGo(q, IF Cardinality({p \in Requests : qpc[p] \in InHandler}) < MaxHandlers
            THEN "accepted" ELSE "error")
  /\ UNCHANGED <<control, run, wake, offer, client, daemon>>

\* ErrNotRunning, or ErrNoPairingOffer.
RefuseRequest(q) ==
  /\ qpc[q] = "accepted"
  /\ life # "running" \/ (op[q] = "refresh" /\ pairing = 0)
  /\ QGo(q, "error")
  /\ UNCHANGED <<control, run, wake, offer, client, op, awaits, quiet, daemon>>

\* Mutant: the current run is not canceled.
PauseUncanceled(q) ==
  /\ qpc[q] = "accepted" /\ op[q] = "pause" /\ life = "running"
  /\ desired' = FALSE
  /\ phase' = IF desired /\ active = 0 THEN "paused" ELSE phase
  /\ wake' = (wake \/ desired)
  /\ awaits' = [awaits EXCEPT ![q] = active]
  /\ quiet' = [quiet EXCEPT ![q] = TRUE]
  /\ QGo(q, "waiting")
  /\ UNCHANGED <<life, run, offer, client, op, daemon>>

\* Mutant: "paused" is published at once.
PauseAtOnce(q) ==
  /\ qpc[q] = "accepted" /\ op[q] = "pause" /\ life = "running"
  /\ desired' = FALSE
  /\ phase' = "paused"
  /\ canceled' = (canceled \/ (desired /\ active # 0))
  /\ wake' = (wake \/ desired)
  /\ awaits' = [awaits EXCEPT ![q] = active]
  /\ quiet' = [quiet EXCEPT ![q] = TRUE]
  /\ QGo(q, "waiting")
  /\ UNCHANGED <<life, active, rpc, runs, joined, offer, client, op, daemon>>

\* Mutant: a second pause does not wait for the run that the first one canceled.
PauseTwice(q) ==
  /\ qpc[q] = "accepted" /\ op[q] = "pause" /\ life = "running"
  /\ desired' = FALSE
  /\ phase' = IF desired /\ active = 0 THEN "paused" ELSE phase
  /\ canceled' = (canceled \/ (desired /\ active # 0))
  /\ wake' = (wake \/ desired)
  /\ awaits' = [awaits EXCEPT ![q] = IF desired THEN active ELSE 0]
  /\ quiet' = [quiet EXCEPT ![q] = TRUE]
  /\ QGo(q, "waiting")
  /\ UNCHANGED <<life, active, rpc, runs, joined, offer, client, op, daemon>>

Pause(q) ==
  /\ qpc[q] = "accepted" /\ op[q] = "pause" /\ life = "running"
  /\ desired' = FALSE
  /\ phase' = IF desired /\ active = 0 THEN "paused" ELSE phase
  /\ canceled' = (canceled \/ (desired /\ active # 0))
  /\ wake' = (wake \/ desired)
  /\ awaits' = [awaits EXCEPT ![q] = active]
  /\ quiet' = [quiet EXCEPT ![q] = TRUE]
  /\ QGo(q, "waiting")
  /\ UNCHANGED <<life, active, rpc, runs, joined, offer, client, op, daemon>>

\* Mutant: the sleeping loop is not told.
ResumeSilently(q) ==
  /\ qpc[q] = "accepted" /\ op[q] = "resume" /\ life = "running"
  /\ IF desired THEN UNCHANGED <<control, wake, offer, quiet>>
     ELSE /\ desired' = TRUE /\ phase' = "starting"
          /\ quiet' = [r \in Requests |-> FALSE]
          /\ clearPairing
          /\ UNCHANGED <<life, wake>>
  /\ QGo(q, "ok")
  /\ UNCHANGED <<run, client, op, awaits, daemon>>

Resume(q) ==
  /\ qpc[q] = "accepted" /\ op[q] = "resume" /\ life = "running"
  /\ IF desired THEN UNCHANGED <<control, wake, offer, quiet>>
     ELSE /\ desired' = TRUE /\ phase' = "starting" /\ wake' = TRUE
          /\ quiet' = [r \in Requests |-> FALSE]
          /\ clearPairing
          /\ UNCHANGED life
  /\ QGo(q, "ok")
  /\ UNCHANGED <<run, client, op, awaits, daemon>>

\* A refresh of a paused daemon resumes it.
RefreshPairing(q) ==
  /\ qpc[q] = "accepted" /\ op[q] = "refresh" /\ life = "running" /\ pairing # 0
  /\ clearPairing
  /\ desired' = TRUE /\ wake' = TRUE
  /\ canceled' = (canceled \/ active # 0)
  /\ awaits' = [awaits EXCEPT ![q] = active]
  /\ quiet' = [r \in Requests |-> FALSE]
  /\ QGo(q, "waiting")
  /\ UNCHANGED <<phase, life, active, rpc, runs, joined, client, op, daemon>>

\* waitFor: the run that was current is over.
Joined(q) ==
  /\ qpc[q] = "waiting"
  /\ awaits[q] <= joined
  /\ QGo(q, "ok")
  /\ UNCHANGED <<control, run, wake, offer, client, op, awaits, quiet, daemon>>

\* operationContext ends first.
TimeOut(q) ==
  /\ qpc[q] = "waiting"
  /\ QGo(q, "error")
  /\ UNCHANGED <<control, run, wake, offer, client, op, awaits, quiet, daemon>>

-----------------------------------------------------------------------------
(* runDaemon *)

\* Controller.Run and Server.Serve are started.
runDaemon ==
  /\ serving = "off"
  /\ serving' = "listening"
  /\ UNCHANGED <<control, run, wake, offer, client, ipc, ctxDone>>

\* A signal, or the listener fails and the first result cancels the other.
Shutdown ==
  /\ ~ctxDone /\ serving # "off"
  /\ ctxDone' = TRUE
  /\ UNCHANGED <<control, run, wake, offer, client, ipc, serving>>

StopServing ==
  /\ serving = "listening" /\ ctxDone
  /\ serving' = "draining"
  /\ UNCHANGED <<control, run, wake, offer, client, ipc, ctxDone>>

ServeReturns ==
  /\ serving = "draining"
  /\ \A q \in Requests : qpc[q] \notin InHandler
  /\ serving' = "returned"
  /\ UNCHANGED <<control, run, wake, offer, client, ipc, ctxDone>>

-----------------------------------------------------------------------------
LoopStep == Start \/ Idle \/ StartRun \/ Wake \/ EndLoop \/ RunnerReturned \/ finish

ClientStep ==
  \/ NotifyConnecting \/ Online \/ DialFails \/ StopAccepting \/ JoinHandlers
  \/ NotifyRetrying \/ StopRunning \/ NotifyStopped

StreamStep(h) == StreamOpened(h) \/ StreamClosed(h)

Operation(q) == RefuseRequest(q) \/ Pause(q) \/ Resume(q) \/ RefreshPairing(q) \/ Joined(q)

Next ==
  \/ LoopStep \/ ClientStep \/ EndOnline \/ RetryTimer
  \/ \E h \in Streams : AcceptStream(h) \/ StreamStep(h)
  \/ observePairing \/ FireTimer \/ \E i \in Offers : expirePairing(i)
  \/ \E q \in Requests :
       \/ \E o \in {"pause", "resume", "refresh"} : AcceptRequest(q, o)
       \/ Operation(q) \/ TimeOut(q)
  \/ runDaemon \/ Shutdown \/ StopServing \/ ServeReturns

Spec == Init /\ [][Next]_vars

\* Goroutines continue.  A dial has a timeout; a canceled client leaves its loop,
\* its retry wait and its SSH handlers.  No retry timer and no IPC timeout is
\* assumed to fire, and no request to be made.
Fairness ==
  /\ WF_vars(LoopStep) /\ WF_vars(ClientStep)
  /\ WF_vars(RunDone /\ EndOnline)
  /\ \A h \in Streams :
       WF_vars(StreamOpened(h)) /\ WF_vars(cpc = "draining" /\ StreamClosed(h))
  /\ \A q \in Requests : WF_vars(Operation(q))
  /\ WF_vars(StopServing \/ ServeReturns)

FairSpec == Spec /\ Fairness

-----------------------------------------------------------------------------
(* Properties *)

Serving(h) == stream[h] \in {"added", "open"}

\* "Pause synchronously cancels and joins Tunnel/stream handlers ... and only
\* then publishes paused": while the daemon shows paused, the client is not
\* connected and no SSH stream is served.
PausedIsQuiet ==
  phase = "paused" =>
    /\ cpc \in {"off", "connecting", "returned"}
    /\ sessions = 0 /\ \A h \in Streams : ~Serving(h)

\* A pause that succeeded, with no resume or refresh since, found its tunnel
\* joined and automatic reconnection off; two pauses that race both wait.
PauseIsJoined ==
  \A q \in Requests :
    qpc[q] = "ok" /\ op[q] = "pause" /\ quiet[q] =>
      cpc = "off" /\ phase \in {"paused", "stopped"} /\ ~desired

\* The number of control sessions shown is the number of open streams, and
\* there is none without a tunnel.
SessionsCounted ==
  life = "running" =>
    /\ sessions = Cardinality({h \in Streams : stream[h] = "open"})
    /\ cpc \notin {"online", "draining"} => sessions = 0

\* A code is withdrawn as expired only when its own time is over, although the
\* timer of an earlier one may fire late.
OwnExpiry == expired => pairing \in elapsed

\* No wake is lost: a loop that sleeps while the connection is wanted wakes up.
WakeNotLost == []<>(rpc # "waiting" \/ ~desired)

\* A pause or refresh waits only for its own run, which its cancellation ends.
OperationEnds ==
  \A q \in Requests : []<>(qpc[q] # "waiting")

\* A daemon that is told to stop exits, paused or not: the loop and the IPC
\* server both return.
DaemonExits == []<>(ctxDone => rpc = "done" /\ serving = "returned")
=============================================================================
