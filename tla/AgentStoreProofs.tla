-------------------------- MODULE AgentStoreProofs --------------------------
(* What any sequence of store calls preserves, for every set of ids. *)
EXTENDS AgentStore, TLAPS

USE NoSessionAssumption DEF sessionRows, toolRows, storeVars

StoreInv == StoreTypeOK /\ RowsConsistent

\* The empty tables are well typed and consistent.
LEMMA StoreInitInv == StoreInit => StoreInv
BY DEF StoreInit, StoreInv, StoreTypeOK, RowsConsistent, Modes, Decisions,
       Approvals, Settled, Busy, Live, Terminal, Authorized

\* Every store call writes values of the columns' types.
LEMMA StoreStepType ==
  ASSUME StoreInv, [StoreNext]_storeVars
  PROVE  StoreTypeOK'
<1> USE DEF StoreInv, StoreTypeOK, Modes, Decisions, Approvals, Settled, Busy,
            Live, Terminal
<1>1. ASSUME NEW s \in Sessions, NEW m \in Modes, CreateAgentSession(s, m)
      PROVE  StoreTypeOK'
  BY <1>1 DEF CreateAgentSession
<1>2. ASSUME NEW s \in Sessions, NEW m \in Modes, UpdateAgentSessionApprovalMode(s, m)
      PROVE  StoreTypeOK'
  BY <1>2 DEF UpdateAgentSessionApprovalMode
<1>3. ASSUME NEW s \in Sessions, NEW v \in Settled \cup Busy, UpdateAgentSessionState(s, v)
      PROVE  StoreTypeOK'
  BY <1>3 DEF UpdateAgentSessionState
<1>4. ASSUME NEW s \in Sessions, BeginAgentTurn(s)
      PROVE  StoreTypeOK'
  BY <1>4 DEF BeginAgentTurn
<1>5. ASSUME NEW s \in Sessions, NEW to \in Shelving, SetAgentSessionArchived(s, to)
      PROVE  StoreTypeOK'
  BY <1>5 DEF SetAgentSessionArchived
<1>6. ASSUME NEW s \in Sessions, DeleteAgentSessionByOwner(s)
      PROVE  StoreTypeOK'
  BY <1>6 DEF DeleteAgentSessionByOwner
<1>7. ASSUME NEW s \in Sessions, NEW t \in Tools, NEW v \in Live,
             CreateAgentToolCall(s, t, v)
      PROVE  StoreTypeOK'
  BY <1>7 DEF CreateAgentToolCall
<1>8. ASSUME NEW t \in Tools, NEW d \in Decisions, DecideAgentToolCall(t, d)
      PROVE  StoreTypeOK'
  BY <1>8 DEF DecideAgentToolCall
<1>9. ASSUME NEW t \in Tools, FailPendingAgentToolCall(t)
      PROVE  StoreTypeOK'
  BY <1>9 DEF FailPendingAgentToolCall
<1>10. ASSUME NEW t \in Tools, StartAgentToolCall(t)
       PROVE  StoreTypeOK'
  BY <1>10 DEF StartAgentToolCall
<1>11. ASSUME NEW t \in Tools, NEW v \in Terminal, FinishAgentToolCall(t, v)
       PROVE  StoreTypeOK'
  BY <1>11 DEF FinishAgentToolCall
<1>12. CASE UnpairDevice
  BY <1>12 DEF UnpairDevice
<1>13. CASE ClaimPairing
  BY <1>13 DEF ClaimPairing
<1>14. CASE UNCHANGED storeVars
  BY <1>14
<1> QED
  BY <1>1, <1>2, <1>3, <1>4, <1>5, <1>6, <1>7, <1>8, <1>9, <1>10, <1>11, <1>12,
     <1>13, <1>14 DEF StoreNext, RowChange

\* One step of the store, as FinalRowsStay and ModeChangeJustified read it.
FinalStep ==
  /\ \A t \in Tools :
       /\ status[t] \in Terminal => status'[t] \in {status[t], "deleted"}
       /\ status[t] \in Terminal \/ decision[t] # "none" => decision'[t] = decision[t]
  /\ \A s \in Sessions : state[s] = "revoked" => state'[s] = "revoked"

ModeStep ==
  \A s \in Sessions : state[s] # "absent" /\ mode'[s] # mode[s] =>
    \/ state[s] \in Settled
    \/ /\ mode'[s] = "full_access"
       /\ \E t \in Tools : /\ sessionOf[t] = s /\ status[t] = "pending"
                           /\ decision[t] = "none"
                           /\ decision'[t] = "approve_session"

\* The call may be handed to the executor: authorized, and past the gate.
Cleared(t) == Authorized(t) /\ status[t] \notin {"absent", "pending", "denied"}

\* What else a turn relies on between two of its own store calls.
OnwardStep ==
  \A t \in Tools :
    /\ born[t] # "absent" => born'[t] = born[t] /\ sessionOf'[t] = sessionOf[t]
    /\ Cleared(t) => Cleared(t)'
    /\ decision'[t] = "approve_session" /\ decision[t] # "approve_session" =>
         mode'[sessionOf[t]] = "full_access"

RowStep == RowsConsistent' /\ FinalStep /\ ModeStep /\ OnwardStep

\* What every store call keeps of the rows, method by method.
LEMMA StoreStepRows ==
  ASSUME StoreInv, [StoreNext]_storeVars
  PROVE  RowStep
<1> USE DEF StoreInv, StoreTypeOK, RowsConsistent, FinalStep, ModeStep, OnwardStep,
            Cleared, Modes, Decisions, Approvals, Settled, Busy, Live, Terminal,
            Authorized, Manageable, Visible, ToolVisible
<1>1. ASSUME NEW s \in Sessions, NEW m \in Modes, CreateAgentSession(s, m)
      PROVE  RowStep
  BY <1>1 DEF RowStep, CreateAgentSession
<1>2. ASSUME NEW s \in Sessions, NEW m \in Modes, UpdateAgentSessionApprovalMode(s, m)
      PROVE  RowStep
  BY <1>2 DEF RowStep, UpdateAgentSessionApprovalMode
<1>3. ASSUME NEW s \in Sessions, NEW v \in Settled \cup Busy, UpdateAgentSessionState(s, v)
      PROVE  RowStep
  BY <1>3 DEF RowStep, UpdateAgentSessionState
<1>4. ASSUME NEW s \in Sessions, BeginAgentTurn(s)
      PROVE  RowStep
  BY <1>4 DEF RowStep, BeginAgentTurn
<1>5. ASSUME NEW s \in Sessions, NEW to \in Shelving, SetAgentSessionArchived(s, to)
      PROVE  RowStep
  BY <1>5 DEF RowStep, SetAgentSessionArchived
<1>6. ASSUME NEW s \in Sessions, DeleteAgentSessionByOwner(s)
      PROVE  RowStep
  BY <1>6 DEF RowStep, DeleteAgentSessionByOwner
<1>7. ASSUME NEW s \in Sessions, NEW t \in Tools, NEW v \in Live,
             CreateAgentToolCall(s, t, v)
      PROVE  RowStep
  BY <1>7 DEF RowStep, CreateAgentToolCall
<1>8. ASSUME NEW t \in Tools, NEW d \in Decisions, DecideAgentToolCall(t, d)
      PROVE  RowStep
  BY <1>8 DEF RowStep, DecideAgentToolCall, Undecided
<1>9. ASSUME NEW t \in Tools, FailPendingAgentToolCall(t)
      PROVE  RowStep
  BY <1>9 DEF RowStep, FailPendingAgentToolCall, Undecided
<1>10. ASSUME NEW t \in Tools, StartAgentToolCall(t)
       PROVE  RowStep
  BY <1>10 DEF RowStep, StartAgentToolCall
<1>11. ASSUME NEW t \in Tools, NEW v \in Terminal, FinishAgentToolCall(t, v)
       PROVE  RowStep
  BY <1>11 DEF RowStep, FinishAgentToolCall, Finishable
<1>12. CASE UnpairDevice
  BY <1>12 DEF RowStep, UnpairDevice
<1>13. CASE ClaimPairing
  BY <1>13 DEF RowStep, ClaimPairing
<1>14. CASE UNCHANGED storeVars
  BY <1>14 DEF RowStep
<1> QED
  BY <1>1, <1>2, <1>3, <1>4, <1>5, <1>6, <1>7, <1>8, <1>9, <1>10, <1>11, <1>12,
     <1>13, <1>14 DEF StoreNext, RowChange

\* Every store call preserves types and consistency.
LEMMA StoreStep == StoreInv /\ [StoreNext]_storeVars => StoreInv'
BY StoreStepType, StoreStepRows DEF StoreInv, RowStep

\* Types and row consistency hold after any sequence of store calls.
THEOREM StoreInvariant == StoreSpec => [](StoreTypeOK /\ RowsConsistent)
BY StoreInitInv, StoreStep, PTL DEF StoreSpec, StoreInv

\* No store call changes a final row: terminal tool calls, recorded decisions
\* and revoked sessions stay, whatever a late handler or cleanup tries.
THEOREM FinalRowsTheorem == StoreSpec => FinalRowsStay
<1>1. StoreInv /\ [StoreNext]_storeVars => [FinalStep]_storeVars
  BY StoreStepRows DEF RowStep
<1> QED
  BY StoreInvariant, <1>1, PTL DEF StoreSpec, StoreInv, FinalRowsStay, FinalStep

\* The approval mode of a session changes only between its turns or by an
\* approve_session decision on an undecided call of that session.
THEOREM ModeChangeTheorem == StoreSpec => ModeChangeJustified
<1>1. StoreInv /\ [StoreNext]_storeVars => [ModeStep]_storeVars
  BY StoreStepRows DEF RowStep
<1> QED
  BY StoreInvariant, <1>1, PTL DEF StoreSpec, StoreInv, ModeChangeJustified, ModeStep

=============================================================================
