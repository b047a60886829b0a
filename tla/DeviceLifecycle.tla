--------------------------- MODULE DeviceLifecycle ---------------------------
(***************************************************************************)
(* One device on the server: its tunnels, its owner and its pairing codes. *)
(*                                                                         *)
(*   internal/tunnel/server.go    Gateway: authentication and publication  *)
(*   internal/tunnel/manager.go   Manager: the current connection          *)
(*   internal/device/service.go   Unpair and its cleanup                   *)
(*   internal/pairing, internal/store   pairing codes and the owner        *)
(*                                                                         *)
(* Every connection has a handler goroutine, and unpair requests run       *)
(* beside them.  A store call, a network write, a critical section and a   *)
(* wait are the steps.  The device's gate is the lock that DeviceGate      *)
(* implements.  The messages of the handshake are in TunnelSession; here   *)
(* it succeeds or fails, as any store call or write may.                   *)
(*                                                                         *)
(* era counts the unpairs that committed; eraVars are history.             *)
(***************************************************************************)
EXTENDS Naturals, FiniteSets

CONSTANTS
  Conns,          \* tunnel attempts of the device, one Connection each
  Unpairs,        \* unpair requests
  MaxPreAuth,     \* capacity of Gateway.preAuth
  NoConn, Free    \* no connection; nobody holds the gate

VARIABLES
  owned,          \* devices.owner_user_id is not NULL
  code,           \* the pairing_codes row that a connection's Offer inserted
  gate,           \* holder of the device's gate
  connections,    \* Manager.connections[device]
  managed,        \* Manager.owned
  closing,        \* Manager.closing
  closed,         \* Connection.closed, and Connection.done is closed
  cleaned,        \* Connection.cleanupDone is closed
  hpc,            \* position of a connection's handler
  saw,            \* the owner that RegisterDevice returned to the handler
  preAuth,        \* the handlers that occupy a slot of Gateway.preAuth
  gpc,            \* progress of Gateway.Close
  snapshot,       \* the connections that CloseAll has yet to close
  upc,            \* position of an unpair request
  detached,       \* the connection an unpair captured in DetachDevice
  era,            \* 1 + the number of committed unpairs
  regEra,         \* the era in which RegisterDevice read the owner
  offEra,         \* the era in which the pairing offer was written
  marked          \* the era up to which agent sessions are marked revoked

rows == <<owned, code>>
managerVars == <<connections, managed, closing, closed, cleaned>>
handlerVars == <<hpc, saw, preAuth>>
gatewayVars == <<gpc, snapshot>>
unpairVars == <<upc, detached>>
eraVars == <<era, regEra, offEra, marked>>
vars == <<rows, gate, managerVars, handlerVars, gatewayVars, unpairVars, eraVars>>

\* A handler holds the gate from "locked" to "published".
Candidate == {"locked", "registered", "answered", "coded", "offered", "ready"}

TypeOK ==
  /\ owned \in BOOLEAN
  /\ code \in [Conns -> {"none", "active", "expired", "consumed"}]
  /\ gate \in Conns \cup Unpairs \cup {Free}
  /\ connections \in Conns \cup {NoConn}
  /\ managed \subseteq Conns /\ closing \in BOOLEAN
  /\ closed \in [Conns -> BOOLEAN] /\ cleaned \in [Conns -> BOOLEAN]
  /\ hpc \in [Conns -> Candidate \cup {"new", "handshake", "published", "serving",
                                       "removed", "joining", "gone"}]
  /\ saw \in [Conns -> BOOLEAN]
  /\ preAuth \subseteq Conns /\ Cardinality(preAuth) <= MaxPreAuth
  /\ gpc \in {"open", "canceled", "closing", "handlers", "done"}
  /\ snapshot \subseteq Conns
  /\ upc \in [Unpairs -> {"new", "locked", "committed", "marked", "detached",
                          "cleanup", "returned", "failed"}]
  /\ detached \in [Unpairs -> Conns \cup {NoConn}]
  /\ era \in Nat /\ marked \in Nat
  /\ regEra \in [Conns -> Nat] /\ offEra \in [Conns -> Nat]

Init ==
  /\ owned = FALSE
  /\ code = [c \in Conns |-> "none"]
  /\ gate = Free
  /\ connections = NoConn /\ managed = {} /\ closing = FALSE
  /\ closed = [c \in Conns |-> FALSE] /\ cleaned = [c \in Conns |-> FALSE]
  /\ hpc = [c \in Conns |-> "new"]
  /\ saw = [c \in Conns |-> FALSE]
  /\ preAuth = {}
  /\ gpc = "open" /\ snapshot = {}
  /\ upc = [u \in Unpairs |-> "new"]
  /\ detached = [u \in Unpairs |-> NoConn]
  /\ era = 1 /\ marked = 1
  /\ regEra = [c \in Conns |-> 0] /\ offEra = [c \in Conns |-> 0]

-----------------------------------------------------------------------------
(* Pairing codes.  Claim does not take the gate. *)

Unconsumed(c) == code[c] \in {"active", "expired"}

\* UPDATE pairing_codes SET consumed_at WHERE consumed_at IS NULL
ConsumeCodes == [c \in Conns |-> IF Unconsumed(c) THEN "consumed" ELSE code[c]]

ClaimPairing(c) ==
  /\ code[c] = "active"
  /\ ~owned
  /\ owned' = TRUE
  /\ code' = [code EXCEPT ![c] = "consumed"]
  /\ UNCHANGED <<gate, managerVars, handlerVars, gatewayVars, unpairVars, eraVars>>

\* Ten minutes pass.
ExpireCode(c) ==
  /\ code[c] = "active"
  /\ code' = [code EXCEPT ![c] = "expired"]
  /\ UNCHANGED <<owned, gate, managerVars, handlerVars, gatewayVars, unpairVars, eraVars>>

-----------------------------------------------------------------------------
(* Connection and Manager *)

\* Connection.beginClose: mark the connections closed; each then has a
\* cleanup goroutine.
beginClose(cs) == closed' = [c \in Conns |-> closed[c] \/ c \in cs]

\* The cleanup goroutine of beginClose ends: control, session and transport
\* are closed.
CleanupDone(c) ==
  /\ closed[c] /\ ~cleaned[c]
  /\ cleaned' = [cleaned EXCEPT ![c] = TRUE]
  /\ UNCHANGED <<rows, gate, connections, managed, closing, closed, handlerVars,
                 gatewayVars, unpairVars, eraVars>>

\* Mutant: a connection that was cleaned up removes whichever is current.
DisownAnyCurrent(c) ==
  /\ c \in managed /\ cleaned[c]
  /\ connections' = NoConn
  /\ managed' = managed \ {c}
  /\ UNCHANGED <<rows, gate, closing, closed, cleaned, handlerVars, gatewayVars,
                 unpairVars, eraVars>>

\* The goroutine of ownLocked, after cleanupDone.
Disown(c) ==
  /\ c \in managed /\ cleaned[c]
  /\ connections' = IF connections = c THEN NoConn ELSE connections
  /\ managed' = managed \ {c}
  /\ UNCHANGED <<rows, gate, closing, closed, cleaned, handlerVars, gatewayVars,
                 unpairVars, eraVars>>

-----------------------------------------------------------------------------
(* The handler of a connection: ServeHTTP, serveTransport *)

Go(c, position) == hpc' = [hpc EXCEPT ![c] = position]

\* Mutant: the slots are not counted.
ServeUnlimited(c) ==
  /\ hpc[c] = "new"
  /\ gpc = "open"
  /\ preAuth' = preAuth \cup {c}
  /\ Go(c, "handshake")
  /\ UNCHANGED <<rows, gate, managerVars, saw, gatewayVars, unpairVars, eraVars>>

\* Admission; a refusal (closed, over the limits) leaves nothing behind.
ServeHTTP(c) ==
  /\ hpc[c] = "new"
  /\ gpc = "open"
  /\ Cardinality(preAuth) < MaxPreAuth
  /\ preAuth' = preAuth \cup {c}
  /\ Go(c, "handshake")
  /\ UNCHANGED <<rows, gate, managerVars, saw, gatewayVars, unpairVars, eraVars>>

\* authCtx is not done.  Shutdown cancels it; that its deadline passes is one of
\* the errors of HandshakeFails and CandidateFails.
AuthLive == gpc = "open"

\* The proof is verified and the gate acquired.
LockDevice(c) ==
  /\ hpc[c] = "handshake"
  /\ AuthLive
  /\ gate = Free
  /\ gate' = c
  /\ Go(c, "locked")
  /\ UNCHANGED <<rows, managerVars, saw, preAuth, gatewayVars, unpairVars, eraVars>>

\* An error in the handshake, or authCtx done while waiting for the gate: no
\* Connection exists yet.
HandshakeFails(c) ==
  /\ hpc[c] = "handshake"
  /\ preAuth' = preAuth \ {c}
  /\ Go(c, "gone")
  /\ UNCHANGED <<rows, gate, managerVars, saw, gatewayVars, unpairVars, eraVars>>

RegisterDevice(c) ==
  /\ hpc[c] = "locked"
  /\ AuthLive
  /\ saw' = [saw EXCEPT ![c] = owned]
  /\ regEra' = [regEra EXCEPT ![c] = era]
  /\ Go(c, "registered")
  /\ UNCHANGED <<rows, gate, managerVars, preAuth, gatewayVars, unpairVars,
                 era, offEra, marked>>

\* publishAuthenticated: server.authenticated is written.
SendAuthenticated(c) ==
  /\ hpc[c] = "registered"
  /\ AuthLive
  /\ Go(c, "answered")
  /\ UNCHANGED <<rows, gate, managerVars, saw, preAuth, gatewayVars,
                 unpairVars, eraVars>>


\* pairing.Offer, that is CreatePairingCode: ErrConflict if the device was
\* claimed meanwhile (see CandidateFails).
Offer(c) ==
  /\ hpc[c] = "answered" /\ ~saw[c]
  /\ AuthLive
  /\ ~owned
  /\ code' = [ConsumeCodes EXCEPT ![c] = "active"]
  /\ Go(c, "coded")
  /\ UNCHANGED <<owned, gate, managerVars, saw, preAuth, gatewayVars,
                 unpairVars, eraVars>>

SendOffer(c) ==
  /\ hpc[c] = "coded"
  /\ offEra' = [offEra EXCEPT ![c] = era]
  /\ Go(c, "offered")
  /\ UNCHANGED <<rows, gate, managerVars, saw, preAuth, gatewayVars,
                 unpairVars, era, regEra, marked>>

\* Mutant: the offer is skipped for every device that was seen before.
CheckWithoutOffer(c) ==
  /\ hpc[c] \in {"answered", "offered"}
  /\ AuthLive
  /\ Go(c, "ready")
  /\ UNCHANGED <<rows, gate, managerVars, saw, preAuth, gatewayVars,
                 unpairVars, eraVars>>

\* The deadlines are cleared and ctx.Err() is looked at a last time.
CheckContext(c) ==
  /\ hpc[c] = "offered" \/ (hpc[c] = "answered" /\ saw[c])
  /\ AuthLive
  /\ Go(c, "ready")
  /\ UNCHANGED <<rows, gate, managerVars, saw, preAuth, gatewayVars,
                 unpairVars, eraVars>>

\* An error between the gate and Register: unlock, then the deferred Close of
\* the Connection, which exists once the device is registered.
CandidateFails(c) ==
  /\ hpc[c] \in Candidate
  /\ gate' = Free
  /\ preAuth' = IF hpc[c] = "locked" THEN preAuth \ {c} ELSE preAuth
  /\ Go(c, IF hpc[c] = "locked" THEN "gone" ELSE "removed")
  /\ UNCHANGED <<rows, managerVars, saw, gatewayVars, unpairVars, eraVars>>

\* Mutant: a manager that is closing still installs connections.
RegisterWhileClosing(c) ==
  /\ hpc[c] = "ready"
  /\ managed' = managed \cup {c}
  /\ connections' = c
  /\ beginClose({connections} \ {c})
  /\ Go(c, "published")
  /\ UNCHANGED <<rows, gate, closing, cleaned, saw, preAuth, gatewayVars,
                 unpairVars, eraVars>>

\* Manager.Register, accepted: the newest connection wins.
Register(c) ==
  /\ hpc[c] = "ready"
  /\ ~closing
  /\ managed' = managed \cup {c}
  /\ connections' = c
  /\ beginClose({connections} \ {c})
  /\ Go(c, "published")
  /\ UNCHANGED <<rows, gate, closing, cleaned, saw, preAuth, gatewayVars,
                 unpairVars, eraVars>>

\* Manager.Register, refused: closed, and the error path as in CandidateFails.
RegisterRefused(c) ==
  /\ hpc[c] = "ready"
  /\ closing
  /\ beginClose({c})
  /\ gate' = Free
  /\ Go(c, "removed")
  /\ UNCHANGED <<rows, connections, managed, closing, cleaned, saw, preAuth,
                 gatewayVars, unpairVars, eraVars>>

\* authenticated() gives the slot back; unlock.
FinishPublication(c) ==
  /\ hpc[c] = "published"
  /\ preAuth' = preAuth \ {c}
  /\ gate' = Free
  /\ Go(c, "serving")
  /\ UNCHANGED <<rows, managerVars, saw, gatewayVars, unpairVars, eraVars>>

\* heartbeatLoop returns (a missed heartbeat, an error, a closed session) and
\* the deferred Remove takes out this very connection.
EndServing(c) ==
  /\ hpc[c] = "serving"
  /\ connections' = IF connections = c THEN NoConn ELSE connections
  /\ Go(c, "removed")
  /\ UNCHANGED <<rows, gate, managed, closing, closed, cleaned, saw, preAuth,
                 gatewayVars, unpairVars, eraVars>>

\* The deferred Connection.Close: begin, then join.
CloseConnection(c) ==
  /\ hpc[c] = "removed"
  /\ beginClose({c})
  /\ Go(c, "joining")
  /\ UNCHANGED <<rows, gate, connections, managed, closing, cleaned, saw, 
                 preAuth, gatewayVars, unpairVars, eraVars>>

HandlerReturns(c) ==
  /\ hpc[c] = "joining"
  /\ cleaned[c]
  /\ preAuth' = preAuth \ {c}
  /\ Go(c, "gone")
  /\ UNCHANGED <<rows, gate, managerVars, saw, gatewayVars, unpairVars, eraVars>>

-----------------------------------------------------------------------------
(* Gateway.Close and Manager.CloseAll *)

CloseGateway ==
  /\ gpc = "open"
  /\ gpc' = "canceled"
  /\ UNCHANGED <<rows, gate, managerVars, handlerVars, snapshot, unpairVars, eraVars>>

CloseAll ==
  /\ gpc = "canceled"
  /\ gpc' = "closing"
  /\ closing' = TRUE
  /\ snapshot' = managed
  /\ connections' = NoConn
  /\ UNCHANGED <<rows, gate, managed, closed, cleaned, handlerVars, unpairVars, eraVars>>

CloseOne(c) ==
  /\ gpc = "closing"
  /\ c \in snapshot
  /\ snapshot' = snapshot \ {c}
  /\ beginClose({c})
  /\ UNCHANGED <<rows, gate, connections, managed, closing, cleaned, handlerVars, gpc,
                 unpairVars, eraVars>>

\* cleanupWG.Wait
JoinManager ==
  /\ gpc = "closing"
  /\ snapshot = {} /\ managed = {}
  /\ gpc' = "handlers"
  /\ UNCHANGED <<rows, gate, managerVars, handlerVars, snapshot, unpairVars, eraVars>>

\* Mutant: the handlers that never published are not waited for.
JoinPublished ==
  /\ gpc = "handlers"
  /\ \A c \in Conns : hpc[c] \notin {"published", "serving"}
  /\ gpc' = "done"
  /\ UNCHANGED <<rows, gate, managerVars, handlerVars, snapshot, unpairVars, eraVars>>

\* handlerWG.Wait
JoinHandlers ==
  /\ gpc = "handlers"
  /\ \A c \in Conns : hpc[c] \in {"new", "gone"}
  /\ gpc' = "done"
  /\ UNCHANGED <<rows, gate, managerVars, handlerVars, snapshot, unpairVars, eraVars>>

-----------------------------------------------------------------------------
(* device.Service.Unpair *)

UGo(u, position) == upc' = [upc EXCEPT ![u] = position]

\* Mutant: unpair does not take part in the gate.
LockUngated(u) ==
  /\ upc[u] = "new"
  /\ UGo(u, "locked")
  /\ UNCHANGED <<rows, gate, managerVars, handlerVars, gatewayVars, detached, eraVars>>

LockUnpair(u) ==
  /\ upc[u] = "new"
  /\ gate = Free
  /\ gate' = u
  /\ UGo(u, "locked")
  /\ UNCHANGED <<rows, managerVars, handlerVars, gatewayVars, detached, eraVars>>

\* The transaction fails, or the device is not the user's: unlock.
UnpairFails(u) ==
  /\ upc[u] = "locked"
  /\ gate' = Free
  /\ UGo(u, "failed")
  /\ UNCHANGED <<rows, managerVars, handlerVars, gatewayVars, detached, eraVars>>

UnpairDevice(u) ==
  /\ upc[u] = "locked"
  /\ owned
  /\ owned' = FALSE
  /\ code' = ConsumeCodes
  /\ era' = era + 1
  /\ UGo(u, "committed")
  /\ UNCHANGED <<gate, managerVars, handlerVars, gatewayVars, detached,
                 regEra, offEra, marked>>

MarkDeviceRevoked(u) ==
  /\ upc[u] = "committed"
  /\ marked' = era
  /\ UGo(u, "marked")
  /\ UNCHANGED <<rows, gate, managerVars, handlerVars, gatewayVars, detached,
                 era, regEra, offEra>>

DetachDevice(u) ==
  /\ upc[u] = "marked"
  /\ detached' = [detached EXCEPT ![u] = connections]
  /\ connections' = NoConn
  /\ beginClose({connections})
  /\ UGo(u, "detached")
  /\ UNCHANGED <<rows, gate, managed, closing, cleaned, handlerVars, gatewayVars,
                 eraVars>>

\* Mutant: the gate is kept during the cleanup.
CleanupUnderGate(u) ==
  /\ upc[u] = "detached"
  /\ detached[u] # NoConn => cleaned[detached[u]]
  /\ gate' = Free
  /\ UGo(u, "cleanup")
  /\ UNCHANGED <<rows, managerVars, handlerVars, gatewayVars, detached, eraVars>>

\* unlock; runPostCommitCleanup starts its three workers.
StartCleanup(u) ==
  /\ upc[u] = "detached"
  /\ gate' = IF gate = u THEN Free ELSE gate
  /\ UGo(u, "cleanup")
  /\ UNCHANGED <<rows, managerVars, handlerVars, gatewayVars, detached, eraVars>>

\* Every worker has reported.  The tunnel's joins the captured connection; those
\* of the terminal and the agent are in Terminal and AgentService.
UnpairReturns(u) ==
  /\ upc[u] = "cleanup"
  /\ detached[u] # NoConn => cleaned[detached[u]]
  /\ UGo(u, "returned")
  /\ UNCHANGED <<rows, gate, managerVars, handlerVars, gatewayVars, detached, eraVars>>

\* cleanupTimeout: the workers go on by themselves.
CleanupTimesOut(u) ==
  /\ upc[u] = "cleanup"
  /\ UGo(u, "failed")
  /\ UNCHANGED <<rows, gate, managerVars, handlerVars, gatewayVars, detached, eraVars>>

-----------------------------------------------------------------------------
HandlerStep(c) ==
  \/ LockDevice(c) \/ HandshakeFails(c) \/ RegisterDevice(c) \/ SendAuthenticated(c)
  \/ Offer(c) \/ SendOffer(c) \/ CheckContext(c) \/ CandidateFails(c)
  \/ Register(c) \/ RegisterRefused(c) \/ FinishPublication(c)
  \/ CloseConnection(c) \/ HandlerReturns(c)

UnpairStep(u) ==
  \/ UnpairFails(u) \/ UnpairDevice(u) \/ MarkDeviceRevoked(u) \/ DetachDevice(u)
  \/ StartCleanup(u) \/ UnpairReturns(u) \/ CleanupTimesOut(u)

CloseStep ==
  \/ CloseAll \/ JoinManager \/ JoinHandlers \/ \E c \in Conns : CloseOne(c)

Next ==
  \/ \E c \in Conns :
       \/ ServeHTTP(c) \/ HandlerStep(c) \/ EndServing(c)
       \/ ClaimPairing(c) \/ ExpireCode(c) \/ CleanupDone(c) \/ Disown(c)
  \/ \E u \in Unpairs : LockUnpair(u) \/ UnpairStep(u)
  \/ CloseGateway \/ CloseStep

Spec == Init /\ [][Next]_vars

\* Goroutines continue: a store call or a write has a deadline, and a heartbeat
\* loop whose session is closed reads an error.  Nobody needs to connect, claim,
\* unpair or shut down.
FairGoroutines ==
  /\ \A c \in Conns :
       /\ WF_vars(HandlerStep(c))
       /\ WF_vars(cleaned[c] /\ EndServing(c))
       /\ WF_vars(Disown(c))
  /\ \A u \in Unpairs : WF_vars(UnpairStep(u))
  /\ WF_vars(CloseStep)

\* A network close may block for ever, unless this is assumed.
FairCleanup == \A c \in Conns : WF_vars(CleanupDone(c))

-----------------------------------------------------------------------------
(* Properties *)

\* An unpair is past its commit and has not yet detached the device.
Detaching == \E u \in Unpairs : upc[u] \in {"committed", "marked"}

Live(c) == c \in managed /\ ~closed[c]

\* Newest wins: the connection that IsOnline and OpenSSH find is open, and any
\* other open one is about to be closed by its own handler or by CloseAll.  An
\* old handler never removes its replacement.
NewestWins ==
  /\ connections # NoConn => Live(connections)
  /\ \A c \in Conns : Live(c) /\ c # connections => hpc[c] = "removed" \/ c \in snapshot

\* Publication and unpair have one order: a connection that was authenticated
\* before an unpair committed is never current after it, and the agent
\* sessions of the earlier owner are marked by then.
UnpairIsFinal ==
  connections # NoConn /\ ~Detaching => regEra[connections] = era /\ marked = era

\* "An unowned connection is not published until its fresh pairing code was
\* delivered": the current connection of a device without an owner was offered
\* a code that no unpair has consumed since.
FreshOffer == connections # NoConn /\ ~owned /\ ~Detaching => offEra[connections] = era

\* A device has at most one code that can still be claimed, and none while it
\* is owned: neither a reconnect nor an unpair leaves an older code behind.
OneUsableCode ==
  /\ \A a, b \in Conns : Unconsumed(a) /\ Unconsumed(b) => a = b
  /\ owned => \A c \in Conns : ~Unconsumed(c)


\* After Gateway.Close nothing is left: no handler, no slot, no connection, and
\* the gate is free for the last unpair.
CloseIsJoined ==
  gpc = "done" =>
    /\ managed = {} /\ connections = NoConn /\ preAuth = {}
    /\ \A c \in Conns : hpc[c] \in {"new", "gone"}
    /\ gate \notin Conns

\* Gateway.Close returns: a handler at the gate, in the handshake or in its
\* heartbeat loop is interrupted, and nobody waits for a network close under
\* the gate.
CloseReturns == FairCleanup => []<>(gpc \in {"open", "done"})

\* "A blocked network close may exhaust the cleanup budget but cannot keep the
\* Device gate": whoever holds the gate releases it without any socket closing,
GateIsReleased == []<>(gate = Free)

\* and an unpair that has the gate returns to its caller.
UnpairEnds == \A u \in Unpairs : []<>(upc[u] \in {"new", "returned", "failed"})
=============================================================================
