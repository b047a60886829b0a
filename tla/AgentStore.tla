----------------------------- MODULE AgentStore -----------------------------
(***************************************************************************)
(* The rows of the server's SQLite database that an agent turn reads and   *)
(* writes: agent_sessions, tool_calls and the owner column of devices      *)
(* (internal/store/agent.go, devices.go, pairing.go).                      *)
(*                                                                         *)
(* The pool has one connection (SetMaxOpenConns(1)), so every statement or *)
(* transaction is one atomic step.  Each operator below is the successful  *)
(* outcome of one store method as an action on these rows; the caller      *)
(* models the error outcomes with the predicates beside it.                *)
(*                                                                         *)
(* One user and one device: the product has a single administrator, and a  *)
(* session belongs to one device for life.                                 *)
(***************************************************************************)
EXTENDS Naturals

CONSTANTS
  Sessions,     \* ids of agent_sessions rows; an id is used at most once
  Tools,        \* ids of tool_calls rows; an id is used at most once
  NoSession     \* the session of a tool call that has not been created

ASSUME NoSessionAssumption == NoSession \notin Sessions

VARIABLES
  owned,        \* devices.owner_user_id is the user
  state,        \* agent_sessions.state, "absent" before and "deleted" after
  mode,         \* agent_sessions.approval_mode
  archivedAt,   \* agent_sessions.archived_at is not NULL
  status,       \* tool_calls.status, "absent" before and "deleted" after
  decision,     \* tool_calls.decision, "none" for NULL
  sessionOf,    \* tool_calls.session_id
  born          \* history: the status the row was inserted with

sessionRows == <<state, mode, archivedAt>>
toolRows == <<status, decision, sessionOf, born>>
storeVars == <<owned, sessionRows, toolRows>>

Modes == {"per_command", "full_access"}
Approvals == {"approve_once", "approve_session"}
Decisions == Approvals \cup {"deny"}
Settled == {"idle", "failed"}
Busy == {"running", "waiting_approval"}
Live == {"pending", "started"}
Terminal == {"completed", "denied", "failed"}
\* The archived argument of the archive calls: true and false.
Shelving == {"archive", "restore"}

StoreTypeOK ==
  /\ owned \in BOOLEAN
  /\ state \in [Sessions -> Settled \cup Busy \cup {"revoked", "absent", "deleted"}]
  /\ mode \in [Sessions -> Modes]
  /\ archivedAt \in [Sessions -> BOOLEAN]
  /\ status \in [Tools -> Live \cup Terminal \cup {"absent", "deleted"}]
  /\ decision \in [Tools -> Decisions \cup {"none"}]
  /\ sessionOf \in [Tools -> Sessions \cup {NoSession}]
  /\ born \in [Tools -> Live \cup {"absent"}]

StoreInit ==
  /\ owned = TRUE
  /\ state = [s \in Sessions |-> "absent"]
  /\ mode = [s \in Sessions |-> "per_command"]
  /\ archivedAt = [s \in Sessions |-> FALSE]
  /\ status = [t \in Tools |-> "absent"]
  /\ decision = [t \in Tools |-> "none"]
  /\ sessionOf = [t \in Tools |-> NoSession]
  /\ born = [t \in Tools |-> "absent"]

-----------------------------------------------------------------------------
(* Ownership predicates, evaluated inside every statement. *)

\* Mutant: a revoked session is still its owner's to change.
ManageableRevoked(s) == owned /\ state[s] \in Settled \cup Busy \cup {"revoked"}

\* The rows the owner may manage, archived ones included.
Manageable(s) == owned /\ state[s] \notin {"absent", "deleted", "revoked"}

\* The rows every turn operation is restricted to.
Visible(s) == Manageable(s) /\ ~archivedAt[s]

ToolVisible(t) ==
  /\ status[t] \in Live \cup Terminal
  /\ sessionOf[t] \in Sessions
  /\ Visible(sessionOf[t])

-----------------------------------------------------------------------------
(* agent_sessions *)

CreateAgentSession(s, m) ==
  /\ owned
  /\ state[s] = "absent"
  /\ state' = [state EXCEPT ![s] = "idle"]
  /\ mode' = [mode EXCEPT ![s] = m]
  /\ UNCHANGED <<owned, archivedAt, toolRows>>

UpdateAgentSessionState(s, v) ==
  /\ Visible(s)
  /\ state' = [state EXCEPT ![s] = v]
  /\ UNCHANGED <<owned, mode, archivedAt, toolRows>>

BeginConflict(s) == Visible(s) /\ state[s] \notin Settled

BeginAgentTurn(s) ==
  /\ Visible(s)
  /\ state[s] \in Settled
  /\ state' = [state EXCEPT ![s] = "running"]
  /\ UNCHANGED <<owned, mode, archivedAt, toolRows>>

\* Mutant: the mode can be changed during a turn.
UpdateModeMidTurn(s, m) ==
  /\ Visible(s)
  /\ mode' = [mode EXCEPT ![s] = m]
  /\ UNCHANGED <<owned, state, archivedAt, toolRows>>

UpdateAgentSessionApprovalMode(s, m) ==
  /\ Visible(s)
  /\ state[s] \in Settled
  /\ mode' = [mode EXCEPT ![s] = m]
  /\ UNCHANGED <<owned, state, archivedAt, toolRows>>

SetAgentSessionArchived(s, to) ==
  /\ Manageable(s)
  /\ state[s] \in Settled
  /\ archivedAt' = [archivedAt EXCEPT ![s] = (to = "archive")]
  /\ UNCHANGED <<owned, state, mode, toolRows>>

\* The foreign key of tool_calls cascades.
DeleteAgentSessionByOwner(s) ==
  /\ Manageable(s)
  /\ state[s] \in Settled
  /\ state' = [state EXCEPT ![s] = "deleted"]
  /\ status' = [t \in Tools |-> IF sessionOf[t] = s THEN "deleted" ELSE status[t]]
  /\ UNCHANGED <<owned, mode, archivedAt, decision, sessionOf, born>>

-----------------------------------------------------------------------------
(* tool_calls *)

CreateAgentToolCall(s, t, v) ==
  /\ Visible(s)
  /\ status[t] = "absent"
  /\ status' = [status EXCEPT ![t] = v]
  /\ sessionOf' = [sessionOf EXCEPT ![t] = s]
  /\ born' = [born EXCEPT ![t] = v]
  /\ UNCHANGED <<owned, sessionRows, decision>>

Undecided(t) == status[t] = "pending" /\ decision[t] = "none"

\* Mutant: a decided call can be decided again.
DecideAgain(t, d) ==
  /\ ToolVisible(t)
  /\ status[t] = "pending"
  /\ decision' = [decision EXCEPT ![t] = d]
  /\ mode' = IF d = "approve_session"
             THEN [mode EXCEPT ![sessionOf[t]] = "full_access"] ELSE mode
  /\ UNCHANGED <<owned, state, archivedAt, status, sessionOf, born>>

\* One transaction: the decision and, for approve_session, the upgrade.
DecideAgentToolCall(t, d) ==
  /\ ToolVisible(t)
  /\ Undecided(t)
  /\ decision' = [decision EXCEPT ![t] = d]
  /\ mode' = IF d = "approve_session"
             THEN [mode EXCEPT ![sessionOf[t]] = "full_access"] ELSE mode
  /\ UNCHANGED <<owned, state, archivedAt, status, sessionOf, born>>

FailPendingAgentToolCall(t) ==
  /\ ToolVisible(t)
  /\ Undecided(t)
  /\ status' = [status EXCEPT ![t] = "failed"]
  /\ UNCHANGED <<owned, sessionRows, decision, sessionOf, born>>

FailPendingConflict(t) == ToolVisible(t) /\ ~Undecided(t)

StartAgentToolCall(t) ==
  /\ ToolVisible(t)
  /\ status[t] = "pending"
  /\ decision[t] \in Approvals
  /\ status' = [status EXCEPT ![t] = "started"]
  /\ UNCHANGED <<owned, sessionRows, decision, sessionOf, born>>

\* The row FinishAgentToolCall's predicate requires for the final status v.
Finishable(t, v) ==
  CASE v = "completed" -> status[t] = "started"
    [] v = "denied"    -> status[t] = "pending" /\ decision[t] = "deny"
    [] v = "failed"    -> \/ status[t] = "started"
                          \/ status[t] = "pending" /\ decision[t] # "none"

\* Mutant: without the from-status in the WHERE clause.
FinishAnyToolCall(t, v) ==
  /\ ToolVisible(t)
  /\ status' = [status EXCEPT ![t] = v]
  /\ UNCHANGED <<owned, sessionRows, decision, sessionOf, born>>

FinishAgentToolCall(t, v) ==
  /\ ToolVisible(t)
  /\ Finishable(t, v)
  /\ status' = [status EXCEPT ![t] = v]
  /\ UNCHANGED <<owned, sessionRows, decision, sessionOf, born>>

-----------------------------------------------------------------------------
(* devices *)

\* One transaction: every session of the device is revoked, its live tool
\* calls are failed and the owner is cleared.
UnpairDevice ==
  /\ owned
  /\ owned' = FALSE
  /\ state' = [s \in Sessions |->
                 IF state[s] \in {"absent", "deleted"} THEN state[s] ELSE "revoked"]
  /\ status' = [t \in Tools |-> IF status[t] \in Live THEN "failed" ELSE status[t]]
  /\ UNCHANGED <<mode, archivedAt, decision, sessionOf, born>>

\* The same user claims the device again with a fresh pairing code.
ClaimPairing ==
  /\ ~owned
  /\ owned' = TRUE
  /\ UNCHANGED <<sessionRows, toolRows>>

-----------------------------------------------------------------------------
(* Any sequence of store calls, whoever makes them and in whatever order.  *)

RowChange ==
  \/ \E s \in Sessions :
       \/ \E m \in Modes : CreateAgentSession(s, m) \/ UpdateAgentSessionApprovalMode(s, m)
       \/ \E v \in Settled \cup Busy : UpdateAgentSessionState(s, v)
       \/ BeginAgentTurn(s)
       \/ \E to \in Shelving : SetAgentSessionArchived(s, to)
       \/ DeleteAgentSessionByOwner(s)
  \/ \E t \in Tools :
       \/ \E d \in Decisions : DecideAgentToolCall(t, d)
       \/ FailPendingAgentToolCall(t)
       \/ StartAgentToolCall(t)
       \/ \E v \in Terminal : FinishAgentToolCall(t, v)
  \/ UnpairDevice
  \/ ClaimPairing

StoreNext ==
  \/ RowChange
  \/ \E s \in Sessions, t \in Tools, v \in Live : CreateAgentToolCall(s, t, v)

StoreSpec == StoreInit /\ [][StoreNext]_storeVars

\* The owner's authority for a tool call to run: an approval recorded in its
\* row, or a row inserted as started.
Authorized(t) == born[t] = "started" \/ decision[t] \in Approvals

\* A row that was never inserted is blank; a running or completed call was
\* authorized; only a call inserted as pending waits for a decision, and only
\* such a call is ever decided or denied.
RowsConsistent ==
  \A t \in Tools :
    /\ status[t] = "absent" <=> born[t] = "absent"
    /\ born[t] = "absent" => sessionOf[t] = NoSession
    /\ sessionOf[t] = NoSession => born[t] = "absent"
    /\ decision[t] # "none" => born[t] = "pending"
    /\ status[t] = "pending" => born[t] = "pending"
    /\ status[t] \in {"started", "completed"} => Authorized(t)
    /\ status[t] = "denied" => decision[t] = "deny"

\* A row that is final stays as it is, whoever else was about to write it: a
\* terminal status, a recorded decision and a revoked session never change
\* (rows of a deleted session go with it), and a call that timed out undecided
\* is never decided later.  UpdateAgentSessionState has no from-state of its
\* own, so a canceled turn's cleanup relies on the ownership predicate.
FinalRowsStay ==
  [][/\ \A t \in Tools :
          /\ status[t] \in Terminal => status'[t] \in {status[t], "deleted"}
          /\ status[t] \in Terminal \/ decision[t] # "none" => decision'[t] = decision[t]
     /\ \A s \in Sessions : state[s] = "revoked" => state'[s] = "revoked"]_storeVars

\* A session's approval mode changes only between turns, or by approve_session
\* on a call of that very session that was still undecided.
ModeChangeJustified ==
  [][\A s \in Sessions : state[s] # "absent" /\ mode'[s] # mode[s] =>
       \/ state[s] \in Settled
       \/ /\ mode'[s] = "full_access"
          /\ \E t \in Tools : /\ sessionOf[t] = s /\ status[t] = "pending"
                              /\ decision[t] = "none"
                              /\ decision'[t] = "approve_session"]_storeVars

=============================================================================
