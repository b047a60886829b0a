------------------------------ MODULE Terminal ------------------------------
(***************************************************************************)
(* Browser terminals (internal/terminal/handler.go, session.go).           *)
(*                                                                         *)
(* A terminal request snapshots the device's generation, looks the owner   *)
(* up, is admitted to the registry, upgrades to a WebSocket, opens a PTY   *)
(* on the device, is served by three workers and cleans up.  Beside it run *)
(* CancelDevice, which an unpair calls some time after its commit, and     *)
(* Close.  One user and one device; frames, sizes and close codes are left *)
(* out.                                                                    *)
(*                                                                         *)
(* era counts the commits of unpairs.  lookEra and cancelEra are history:  *)
(* the era of a terminal's owner lookup, and that of the unpair on whose   *)
(* behalf CancelDevice runs.                                               *)
(***************************************************************************)
EXTENDS Naturals, FiniteSets

CONSTANTS
  Terminals,      \* requests for a terminal
  Cancels,        \* unpairs, each with its call of CancelDevice
  MaxTerminals    \* maxTerminalsPerUser

VARIABLES
  owned, online,  \* the device has its owner; it has a tunnel
  era,
  closed,         \* Handler.closed
  generation,     \* Handler.generations[device]
  count,          \* Handler.userCounts[user]
  byDevice,       \* Handler.byDevice[device]
  tpc,            \* position of a request
  seen,           \* the generation it read
  cause,          \* context.Cause(session.ctx)
  pty,            \* the PTY handle: "none", "open" or "closed"
  workers,        \* how many of the three workers run
  ws,             \* the WebSocket: "none", "open", "closing", "forced", "closed"
  cpc, waiting,   \* position of a CancelDevice, and the sessions it joins
  closePc, closeWaiting,
  lookEra, cancelEra

env == <<owned, online, era>>
registry == <<closed, generation, count, byDevice>>
session == <<cause, pty, workers, ws>>
lifecycle == <<cpc, waiting, closePc, closeWaiting, cancelEra>>
vars == <<env, registry, tpc, seen, session, lifecycle, lookEra>>

\* The session exists: admit has returned and release has not run.
Admitted == {"admitted", "accepting", "opening", "running", "ending", "joining",
             "releasing"}

TypeOK ==
  /\ owned \in BOOLEAN /\ online \in BOOLEAN /\ era \in Nat
  /\ closed \in BOOLEAN /\ generation \in Nat
  /\ count \in 0..MaxTerminals
  /\ byDevice \subseteq Terminals
  /\ tpc \in [Terminals -> Admitted \cup {"new", "snapped", "looked", "checked", "gone"}]
  /\ seen \in [Terminals -> Nat]
  /\ cause \in [Terminals -> {"none", "invalidated", "shutdown", "ended", "parent"}]
  /\ pty \in [Terminals -> {"none", "open", "closed"}]
  /\ workers \in [Terminals -> 0..3]
  /\ ws \in [Terminals -> {"none", "open", "closing", "forced", "closed"}]
  /\ cpc \in [Cancels -> {"new", "committed", "canceling", "joining", "returned"}]
  /\ waiting \in [Cancels -> SUBSET Terminals]
  /\ closePc \in {"open", "canceling", "joining", "done"}
  /\ closeWaiting \subseteq Terminals
  /\ lookEra \in [Terminals -> Nat] /\ cancelEra \in [Cancels -> Nat]

Init ==
  /\ owned = TRUE /\ online = TRUE /\ era = 1
  /\ closed = FALSE /\ generation = 0 /\ count = 0 /\ byDevice = {}
  /\ tpc = [t \in Terminals |-> "new"] /\ seen = [t \in Terminals |-> 0]
  /\ cause = [t \in Terminals |-> "none"] /\ pty = [t \in Terminals |-> "none"]
  /\ workers = [t \in Terminals |-> 0] /\ ws = [t \in Terminals |-> "none"]
  /\ cpc = [k \in Cancels |-> "new"] /\ waiting = [k \in Cancels |-> {}]
  /\ closePc = "open" /\ closeWaiting = {}
  /\ lookEra = [t \in Terminals |-> 0] /\ cancelEra = [k \in Cancels |-> 0]

-----------------------------------------------------------------------------
(* serveHTTP, up to the admission *)

Go(t, position) == tpc' = [tpc EXCEPT ![t] = position]

deviceGeneration(t) ==
  /\ tpc[t] = "new"
  /\ seen' = [seen EXCEPT ![t] = generation]
  /\ Go(t, "snapped")
  /\ UNCHANGED <<env, registry, session, lifecycle, lookEra>>

DeviceByOwner(t) ==
  /\ tpc[t] = "snapped"
  /\ lookEra' = [lookEra EXCEPT ![t] = era]
  /\ Go(t, IF owned THEN "looked" ELSE "gone")
  /\ UNCHANGED <<env, registry, seen, session, lifecycle>>

\* Mutant: the snapshot is taken after the owner lookup.
LookupThenSnapshot(t) ==
  /\ tpc[t] = "looked"
  /\ seen' = [seen EXCEPT ![t] = generation]
  /\ Go(t, IF online THEN "checked" ELSE "gone")
  /\ UNCHANGED <<env, registry, session, lifecycle, lookEra>>

\* IsOnline and the validation of the handshake.
CheckOnline(t) ==
  /\ tpc[t] = "looked"
  /\ Go(t, IF online THEN "checked" ELSE "gone")
  /\ UNCHANGED <<env, registry, seen, session, lifecycle, lookEra>>

\* Mutant: the limit is off by one.
AdmitOneMore(t) ==
  /\ tpc[t] = "checked"
  /\ ~closed /\ generation = seen[t] /\ count <= MaxTerminals
  /\ count' = count + 1
  /\ byDevice' = byDevice \cup {t}
  /\ Go(t, "admitted")
  /\ UNCHANGED <<env, closed, generation, seen, session, lifecycle, lookEra>>

\* Mutant: a handler that closes still admits.
AdmitWhileClosing(t) ==
  /\ tpc[t] = "checked"
  /\ generation = seen[t] /\ count < MaxTerminals
  /\ count' = count + 1
  /\ byDevice' = byDevice \cup {t}
  /\ Go(t, "admitted")
  /\ UNCHANGED <<env, closed, generation, seen, session, lifecycle, lookEra>>

admit(t) ==
  /\ tpc[t] = "checked"
  /\ ~closed /\ generation = seen[t] /\ count < MaxTerminals
  /\ count' = count + 1
  /\ byDevice' = byDevice \cup {t}
  /\ Go(t, "admitted")
  /\ UNCHANGED <<env, closed, generation, seen, session, lifecycle, lookEra>>

\* One of admit's conditions fails; the request's own context may also be done.
RefuseAdmission(t) ==
  /\ tpc[t] = "checked"
  /\ Go(t, "gone")
  /\ UNCHANGED <<env, registry, seen, session, lifecycle, lookEra>>

-----------------------------------------------------------------------------
(* The admitted session *)

Canceled(t) == cause[t] # "none"

\* context.WithCancelCause keeps the first cause.
WithCause(ts, why) == [t \in Terminals |-> IF t \in ts /\ ~Canceled(t) THEN why ELSE cause[t]]

\* The parent context ends (the browser's request).
CancelParent(t) ==
  /\ tpc[t] \in Admitted /\ ~Canceled(t)
  /\ cause' = WithCause({t}, "parent")
  /\ UNCHANGED <<env, registry, tpc, seen, pty, workers, ws, lifecycle, lookEra>>

\* The check of the cause before the upgrade.
CheckCause(t) ==
  /\ tpc[t] = "admitted"
  /\ Go(t, IF Canceled(t) THEN "releasing" ELSE "accepting")
  /\ UNCHANGED <<env, registry, seen, session, lifecycle, lookEra>>

\* acceptWebSocket; a failed upgrade closes the hijacked socket.
Accept(t) ==
  /\ tpc[t] = "accepting"
  /\ \/ ws' = [ws EXCEPT ![t] = "open"] /\ Go(t, "opening")
     \/ Go(t, "releasing") /\ UNCHANGED ws
  /\ UNCHANGED <<env, registry, seen, cause, pty, workers, lifecycle, lookEra>>

\* serveTerminal: openPTY with the session's context, then the three workers.
\* Without a PTY, or with one that lacks its pipes, the deferred cleanup follows.
OpenPTY(t) ==
  /\ tpc[t] = "opening"
  /\ \/ /\ pty' = [pty EXCEPT ![t] = "open"]
        /\ workers' = [workers EXCEPT ![t] = 3]
        /\ Go(t, "running")
        /\ UNCHANGED ws
     \/ /\ pty' \in {pty, [pty EXCEPT ![t] = "open"]}
        /\ ws' = [ws EXCEPT ![t] = "closing"]
        /\ Go(t, "ending")
        /\ UNCHANGED workers
  /\ UNCHANGED <<env, registry, seen, cause, lifecycle, lookEra>>

\* A worker returns: the browser left or broke the protocol, the remote side
\* ended, or its I/O was cut off by the cleanup.
WorkerEnds(t) ==
  /\ workers[t] > 0
  /\ workers' = [workers EXCEPT ![t] = @ - 1]
  /\ UNCHANGED <<env, registry, tpc, seen, cause, pty, ws, lifecycle, lookEra>>

\* The select of serveTerminal: a first result, or the session's context.  The
\* deferred cleanup starts the close handshake.
EndTerminal(t) ==
  /\ tpc[t] = "running"
  /\ workers[t] < 3 \/ Canceled(t)
  /\ ws' = [ws EXCEPT ![t] = "closing"]
  /\ Go(t, "ending")
  /\ UNCHANGED <<env, registry, seen, cause, pty, workers, lifecycle, lookEra>>

\* closeWebSocket returns: the peer answered, or the socket was forced closed.
CloseWebSocket(t) ==
  /\ ws[t] \in {"closing", "forced"}
  /\ ws' = [ws EXCEPT ![t] = "closed"]
  /\ UNCHANGED <<env, registry, tpc, seen, cause, pty, workers, lifecycle, lookEra>>

\* Mutant: a peer that never answers the close handshake is waited for.
CleanupPatiently(t) ==
  /\ tpc[t] = "ending"
  /\ cause' = WithCause({t}, "ended")
  /\ pty' = [pty EXCEPT ![t] = IF @ = "open" THEN "closed" ELSE @]
  /\ Go(t, "joining")
  /\ UNCHANGED <<env, registry, seen, workers, ws, lifecycle, lookEra>>

\* Mutant: the PTY is closed after its workers.
CleanupKeepsPTY(t) ==
  /\ tpc[t] = "ending"
  /\ cause' = WithCause({t}, "ended")
  /\ ws' = [ws EXCEPT ![t] = IF @ = "closing" THEN "forced" ELSE @]
  /\ Go(t, "joining")
  /\ UNCHANGED <<env, registry, seen, pty, workers, lifecycle, lookEra>>

\* cleanupTerminal, once the handshake or its grace period is over: cancel the
\* session and the workers, close the PTY and force a blocked handshake.
cleanupTerminal(t) ==
  /\ tpc[t] = "ending"
  /\ cause' = WithCause({t}, "ended")
  /\ pty' = [pty EXCEPT ![t] = IF @ = "open" THEN "closed" ELSE @]
  /\ ws' = [ws EXCEPT ![t] = IF @ = "closing" THEN "forced" ELSE @]
  /\ Go(t, "joining")
  /\ UNCHANGED <<env, registry, seen, workers, lifecycle, lookEra>>

\* workers.Wait and <-closeDone
JoinWorkers(t) ==
  /\ tpc[t] = "joining"
  /\ workers[t] = 0 /\ ws[t] = "closed"
  /\ Go(t, "releasing")
  /\ UNCHANGED <<env, registry, seen, session, lifecycle, lookEra>>

\* Mutant: the session leaves the registry when its cleanup begins.
ReleaseEarly(t) ==
  /\ tpc[t] \in {"ending", "releasing"}
  /\ t \in byDevice
  /\ byDevice' = byDevice \ {t}
  /\ count' = count - 1
  /\ tpc' = IF tpc[t] = "releasing" THEN [tpc EXCEPT ![t] = "gone"] ELSE tpc
  /\ UNCHANGED <<env, closed, generation, seen, session, lifecycle, lookEra>>

\* release: finish closes done, then out of the registry, in one critical
\* section.
release(t) ==
  /\ tpc[t] = "releasing"
  /\ byDevice' = byDevice \ {t}
  /\ count' = IF t \in byDevice THEN count - 1 ELSE count
  /\ Go(t, "gone")
  /\ UNCHANGED <<env, closed, generation, seen, session, lifecycle, lookEra>>

-----------------------------------------------------------------------------
(* CancelDevice and Close *)

\* The commit of an unpair, which ends the tunnel too.
CommitUnpair(k) ==
  /\ cpc[k] = "new"
  /\ owned
  /\ owned' = FALSE /\ online' = FALSE /\ era' = era + 1
  /\ cancelEra' = [cancelEra EXCEPT ![k] = era + 1]
  /\ cpc' = [cpc EXCEPT ![k] = "committed"]
  /\ UNCHANGED <<registry, tpc, seen, session, waiting, closePc, closeWaiting, lookEra>>

\* The device reconnects and its user claims it again.
PairAgain ==
  /\ ~owned
  /\ owned' = TRUE /\ online' = TRUE
  /\ UNCHANGED <<era, registry, tpc, seen, session, lifecycle, lookEra>>

\* The critical section of CancelDevice.
CancelDevice(k) ==
  /\ cpc[k] = "committed"
  /\ generation' = generation + 1
  /\ waiting' = [waiting EXCEPT ![k] = byDevice]
  /\ cpc' = [cpc EXCEPT ![k] = "canceling"]
  /\ UNCHANGED <<env, closed, count, byDevice, tpc, seen, session, closePc, closeWaiting,
                 cancelEra, lookEra>>

\* Every session of the copy is canceled.
CancelSessions(k) ==
  /\ cpc[k] = "canceling"
  /\ cause' = WithCause(waiting[k], "invalidated")
  /\ cpc' = [cpc EXCEPT ![k] = "joining"]
  /\ UNCHANGED <<env, registry, tpc, seen, pty, workers, ws, waiting, closePc, closeWaiting,
                 cancelEra, lookEra>>

\* waitSessions
ReturnCancel(k) ==
  /\ cpc[k] = "joining"
  /\ \A t \in waiting[k] : tpc[t] = "gone"
  /\ cpc' = [cpc EXCEPT ![k] = "returned"]
  /\ UNCHANGED <<env, registry, tpc, seen, session, waiting, closePc, closeWaiting,
                 cancelEra, lookEra>>

closeAll ==
  /\ closePc = "open"
  /\ closed' = TRUE
  /\ closeWaiting' = byDevice
  /\ closePc' = "canceling"
  /\ UNCHANGED <<env, generation, count, byDevice, tpc, seen, session, cpc, waiting,
                 cancelEra, lookEra>>

CancelAll ==
  /\ closePc = "canceling"
  /\ cause' = WithCause(closeWaiting, "shutdown")
  /\ closePc' = "joining"
  /\ UNCHANGED <<env, registry, tpc, seen, pty, workers, ws, cpc, waiting, closeWaiting,
                 cancelEra, lookEra>>

CloseReturns ==
  /\ closePc = "joining"
  /\ \A t \in closeWaiting : tpc[t] = "gone"
  /\ closePc' = "done"
  /\ UNCHANGED <<env, registry, tpc, seen, session, cpc, waiting, closeWaiting,
                 cancelEra, lookEra>>

-----------------------------------------------------------------------------
RequestStep(t) ==
  \/ DeviceByOwner(t) \/ CheckOnline(t) \/ admit(t) \/ RefuseAdmission(t) \/ CheckCause(t)
  \/ Accept(t) \/ OpenPTY(t) \/ EndTerminal(t) \/ cleanupTerminal(t) \/ JoinWorkers(t)
  \/ release(t)

CancelStep(k) == CancelDevice(k) \/ CancelSessions(k) \/ ReturnCancel(k)

CloseStep == CancelAll \/ CloseReturns

Next ==
  \/ \E t \in Terminals :
       \/ deviceGeneration(t) \/ RequestStep(t) \/ WorkerEnds(t) \/ CloseWebSocket(t)
       \/ CancelParent(t)
  \/ \E k \in Cancels : CommitUnpair(k) \/ CancelStep(k)
  \/ PairAgain \/ closeAll \/ CloseStep

Spec == Init /\ [][Next]_vars

\* Handlers continue: Accept and openPTY end with the session's context, and the
\* grace timer fires.  A worker is only known to return once the PTY is closed
\* and its context canceled, and the close handshake once it is forced.
Fairness ==
  /\ \A t \in Terminals :
       /\ WF_vars(RequestStep(t))
       /\ WF_vars(tpc[t] = "joining" /\ pty[t] = "closed" /\ WorkerEnds(t))
       /\ WF_vars(ws[t] = "forced" /\ CloseWebSocket(t))
  /\ \A k \in Cancels : WF_vars(CancelStep(k))
  /\ WF_vars(CloseStep)

FairSpec == Spec /\ Fairness

-----------------------------------------------------------------------------
(* Properties *)

Active(t) == tpc[t] \in Admitted

\* "A request that observed ownership before a concurrent unpair cannot register
\* after invalidation": once an unpair's CancelDevice has returned, no terminal
\* lives that found the owner before the unpair committed, and its PTY is shut.
UnpairEndsTerminals ==
  \A k \in Cancels, t \in Terminals :
    cpc[k] = "returned" /\ Active(t) => lookEra[t] >= cancelEra[k]

\* userCounts and byDevice agree with the sessions that exist, so every way out
\* of a terminal gives its place back, once.
CountsMatch ==
  /\ byDevice = {t \in Terminals : Active(t)}
  /\ count = Cardinality(byDevice)

\* A request that is over has left nothing behind: no PTY, worker or socket.
NothingLeft ==
  \A t \in Terminals :
    tpc[t] = "gone" => pty[t] # "open" /\ workers[t] = 0 /\ ws[t] \in {"none", "closed"}

\* After Close no session exists and none can begin.
CloseIsJoined == closePc = "done" => byDevice = {} /\ \A t \in Terminals : ~Active(t)

\* CancelDevice returns although the browser is silent and the remote side hangs.
CancelReturns == \A k \in Cancels : []<>(cpc[k] \in {"new", "returned"})

\* Close returns.
CloseEnds == []<>(closePc \in {"open", "done"})
=============================================================================
