---------------------------- MODULE RuntimeSession ----------------------------
(***************************************************************************)
(* The runtime session behind one product session: how its opaque id is    *)
(* created, persisted and used by model operations and turns               *)
(* (internal/agent/service.go: SessionModels, SelectSessionModel,          *)
(* prepareRuntimeSession, reserveSessionConfiguration, and the admission   *)
(* part of StartTurn; internal/dsh/adapter.go: PrepareSession).            *)
(*                                                                         *)
(* An operation is a model selection or a turn.  The runtime is external:  *)
(* it creates or resumes a session by id and keeps the model chosen for    *)
(* it.  Reading the model directory is a selection that changes nothing    *)
(* and is left out.  The turn itself, and the store rows other than the    *)
(* external id, are in AgentService.                                       *)
(***************************************************************************)
EXTENDS Naturals, FiniteSets

CONSTANTS Ops, None

VARIABLES
  kind,          \* "select" or "turn"
  external,      \* agent_sessions.external_session_id: the operation whose call
                 \* created the runtime session, or None
  configuring, running,      \* the registries of the service: holders or None
  tombstone,     \* the session is archived, deleted or revoked
  pc, seen, mine,            \* position; id read before the reservation; id in use
  model          \* the runtime: selection in force in each runtime session

vars == <<kind, external, configuring, running, tombstone, pc, seen, mine, model>>

Working == {o \in Ops : pc[o] \in {"reserved", "prepared", "persisted", "running"}}

TypeOK ==
  /\ kind \in [Ops -> {"select", "turn"}] /\ external \in Ops \cup {None}
  /\ configuring \in Ops \cup {None} /\ running \in Ops \cup {None}
  /\ {configuring, running} \ {None} \subseteq Working     \* a reservation has its holder
  /\ tombstone \in BOOLEAN
  /\ pc \in [Ops -> {"idle", "read", "reserved", "prepared", "persisted", "running", "done"}]
  /\ seen \in [Ops -> Ops \cup {None}] /\ mine \in [Ops -> Ops \cup {None}]
  /\ model \in [Ops -> Ops \cup {None}]

Init ==
  /\ kind \in [Ops -> {"select", "turn"}] /\ external = None
  /\ configuring = None /\ running = None /\ tombstone = FALSE
  /\ pc = [o \in Ops |-> "idle"] /\ seen = [o \in Ops |-> None] /\ mine = [o \in Ops |-> None]
  /\ model = [o \in Ops |-> None]

Go(o, p) == pc' = [pc EXCEPT ![o] = p]

\* AgentSessionByOwner, before anything is reserved
ReadSession(o) ==
  /\ pc[o] = "idle"
  /\ seen' = [seen EXCEPT ![o] = external]
  /\ Go(o, "read")
  /\ UNCHANGED <<kind, external, configuring, running, tombstone, mine, model>>

Free == ~tombstone /\ running = None /\ configuring = None

\* Mutant: a running turn does not keep model operations out.
ReserveDuringTurn(o) ==
  /\ pc[o] = "read" /\ kind[o] = "select"
  /\ IF ~tombstone /\ configuring = None THEN configuring' = o /\ Go(o, "reserved")
     ELSE Go(o, "done") /\ UNCHANGED configuring
  /\ UNCHANGED <<kind, external, running, tombstone, seen, mine, model>>

reserveSessionConfiguration(o) ==
  /\ pc[o] = "read" /\ kind[o] = "select"
  /\ IF Free THEN configuring' = o /\ Go(o, "reserved")
     ELSE Go(o, "done") /\ UNCHANGED configuring
  /\ UNCHANGED <<kind, external, running, tombstone, seen, mine, model>>

reserveTurn(o) ==
  /\ pc[o] = "read" /\ kind[o] = "turn"
  /\ IF Free THEN running' = o /\ Go(o, "reserved")
     ELSE Go(o, "done") /\ UNCHANGED running
  /\ UNCHANGED <<kind, external, configuring, tombstone, seen, mine, model>>

Release(o) ==
  /\ configuring' = IF configuring = o THEN None ELSE configuring
  /\ running' = IF running = o THEN None ELSE running
  /\ Go(o, "done")

\* prepareAdapterSession: a runtime session is resumed, or created with a new id.
prepareAdapterSession(o) ==
  /\ pc[o] = "reserved"
  /\ mine' = [mine EXCEPT ![o] = IF seen[o] = None THEN o ELSE seen[o]]
  /\ Go(o, "prepared")
  /\ UNCHANGED <<kind, external, configuring, running, tombstone, seen, model>>

\* UpdateAgentExternalSessionID, when the id is new; it fails for a session that is
\* gone.
PersistID(o) ==
  /\ pc[o] = "prepared"
  /\ tombstone => mine[o] = seen[o]
  /\ external' = IF mine[o] # seen[o] THEN mine[o] ELSE external
  /\ Go(o, "persisted")
  /\ UNCHANGED <<kind, configuring, running, tombstone, seen, mine, model>>

\* Any call may fail, and the operation with it; the update may have been committed.
Fail(o) ==
  /\ pc[o] \in {"reserved", "prepared", "persisted"}
  /\ \/ UNCHANGED external
     \/ pc[o] = "prepared" /\ mine[o] # seen[o] /\ ~tombstone /\ external' = mine[o]
  /\ Release(o)
  /\ UNCHANGED <<kind, tombstone, seen, mine, model>>

\* runtime.SelectModel, and release
SelectModel(o) ==
  /\ pc[o] = "persisted" /\ kind[o] = "select"
  /\ model' = [model EXCEPT ![mine[o]] = o]
  /\ Release(o)
  /\ UNCHANGED <<kind, external, tombstone, seen, mine>>

\* BeginAgentTurn; the session is read again, and runTurn takes the id from it.
BeginTurn(o) ==
  /\ pc[o] = "persisted" /\ kind[o] = "turn" /\ ~tombstone
  /\ mine' = [mine EXCEPT ![o] = external]
  /\ Go(o, "running")
  /\ UNCHANGED <<kind, external, configuring, running, tombstone, seen, model>>

releaseTurn(o) ==
  /\ pc[o] = "running"
  /\ Release(o)
  /\ UNCHANGED <<kind, external, tombstone, seen, mine, model>>

\* Archive, deletion or revocation; a turn is canceled by it elsewhere.
Bury ==
  /\ ~tombstone
  /\ tombstone' = TRUE
  /\ UNCHANGED <<kind, external, configuring, running, pc, seen, mine, model>>

Next ==
  \/ \E o \in Ops :
       \/ ReadSession(o) \/ reserveSessionConfiguration(o) \/ reserveTurn(o)
       \/ prepareAdapterSession(o) \/ PersistID(o) \/ Fail(o) \/ SelectModel(o)
       \/ BeginTurn(o) \/ releaseTurn(o)
  \/ Bury

Spec == Init /\ [][Next]_vars

-----------------------------------------------------------------------------
(* Properties *)

\* "Model operations and Turn admission are mutually exclusive for one product
\* Session": one operation at a time is between its reservation and its release.
OneAtATime == Cardinality(Working) <= 1

\* A turn runs in the runtime session that the row names, and the row keeps that
\* name as long as the turn runs: what its next turn resumes is its conversation.
TurnIsPersisted ==
  \A o \in Ops : pc[o] = "running" => mine[o] # None /\ mine[o] = external
=============================================================================
