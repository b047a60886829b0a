------------------------ MODULE AgentApprovalProofs ------------------------
(***************************************************************************)
(* The agent service implements ToolApproval: store call by store call,    *)
(* a step of the service is a step of the abstract specification or leaves *)
(* its variables alone.                                                    *)
(***************************************************************************)
EXTENDS AgentServiceProofs

\* The empty database refines the abstract initial state.
LEMMA ApprovalInit == Init => Approval!Init
BY DEF Init, StoreInit, Approval!Init, Outcome, Authorized, Approvals

\* Giving up a set of open calls is an abstract step.
LEMMA AbortMaps ==
  ASSUME NEW calls \in SUBSET Tools, Approval!Abort(calls)
  PROVE  Approval!Next
BY Zenon DEF Approval!Next

\* A store call other than the insertion of a tool call refines one abstract
\* step, or none.
LEMMA RowChangeMaps ==
  ASSUME StoreInv, RowChange, UNCHANGED executed
  PROVE  [Approval!Next]_(Approval!approvalVars)
<1> DEFINE Goal == [Approval!Next]_(Approval!approvalVars)
<1> SUFFICES Goal
  OBVIOUS
<1>0. ASSUME NEW calls \in SUBSET Tools, Approval!Abort(calls)
      PROVE  Goal
  BY <1>0, AbortMaps DEF Goal
<1> USE DEF StoreInv, StoreTypeOK, RowsConsistent, sessionRows, toolRows, Outcome,
            Authorized, Approvals, Decisions, Modes, Live, Terminal, Approval!approvalVars
<1> HIDE DEF Goal
<1>1. ASSUME NEW s \in Sessions, NEW m \in Modes,
             CreateAgentSession(s, m) \/ UpdateAgentSessionApprovalMode(s, m)
      PROVE  Goal
  <2>1. Approval!SetGrant(s)
    BY <1>1 DEF CreateAgentSession, UpdateAgentSessionApprovalMode, Approval!SetGrant
  <2> QED
    BY <2>1 DEF Goal, Approval!Next
<1>2. ASSUME NEW s \in Sessions, NEW v \in Settled \cup Busy,
     UpdateAgentSessionState(s, v)
      PROVE  Goal
  BY <1>2 DEF UpdateAgentSessionState, Goal
<1>3. ASSUME NEW s \in Sessions, BeginAgentTurn(s)
      PROVE  Goal
  BY <1>3 DEF BeginAgentTurn, Goal
<1>4. ASSUME NEW s \in Sessions, NEW to \in Shelving, SetAgentSessionArchived(s, to)
      PROVE  Goal
  BY <1>4 DEF SetAgentSessionArchived, Goal
<1>5. ASSUME NEW s \in Sessions, DeleteAgentSessionByOwner(s)
      PROVE  Goal
  <2>1. PICK calls \in SUBSET Tools : calls = {t \in Tools : sessionOf[t] = s /\
       Outcome(t) = "open"}
    BY Zenon
  <2>2. Approval!Abort(calls)
    BY <1>5, <2>1 DEF DeleteAgentSessionByOwner, Approval!Abort
  <2> QED
    BY <2>2, <1>0
<1>6. ASSUME NEW t \in Tools, NEW d \in Decisions, DecideAgentToolCall(t, d)
      PROVE  Goal
  <2>1. CASE d = "deny"
    <3>1. Approval!Deny(t)
      BY <1>6, <2>1, Zenon DEF DecideAgentToolCall, Undecided, Approval!Deny
    <3> QED
      BY <3>1 DEF Goal, Approval!Next
  <2>2. CASE d # "deny"
    <3> DEFINE grant == {s \in Sessions : mode[s] = "full_access"}
    <3>1. grant' = grant \/ grant' = grant \cup {sessionOf[t]}
      <4>1. CASE d = "approve_session"
        BY <1>6, <4>1 DEF DecideAgentToolCall, ToolVisible
      <4>2. CASE d # "approve_session"
        BY <1>6, <4>2 DEF DecideAgentToolCall
      <4> QED
        BY <4>1, <4>2
    <3>2. Outcome(t) = "open" /\ UNCHANGED sessionOf
      BY <1>6 DEF DecideAgentToolCall, Undecided
    <3>3. [u \in Tools |-> Outcome(u)]' =
            [[u \in Tools |-> Outcome(u)] EXCEPT ![t] = "approved"]
      BY <1>6, <2>2, Zenon DEF DecideAgentToolCall, Undecided
    <3>4. Approval!Approve(t)
      BY <3>1, <3>2, <3>3 DEF Approval!Approve
    <3> QED
      BY <3>4 DEF Goal, Approval!Next
  <2> QED
    BY <2>1, <2>2
<1>7. ASSUME NEW t \in Tools, FailPendingAgentToolCall(t)
      PROVE  Goal
  <2>1. Approval!Abort({t})
    BY <1>7 DEF FailPendingAgentToolCall, Undecided, Approval!Abort
  <2> QED
    BY <2>1, Zenon DEF Goal, Approval!Next
<1>8. ASSUME NEW t \in Tools, StartAgentToolCall(t)
      PROVE  Goal
  BY <1>8 DEF StartAgentToolCall, Goal
<1>9. ASSUME NEW t \in Tools, NEW v \in Terminal, FinishAgentToolCall(t, v)
      PROVE  Goal
  <2>1. UNCHANGED <<mode, sessionOf, born, decision>> /\ status' = [status EXCEPT ![t] = v]
    BY <1>9 DEF FinishAgentToolCall
  <2>2. Authorized(t) \/ decision[t] = "deny"
    BY <1>9, Zenon DEF FinishAgentToolCall, Finishable
  <2>3. \A u \in Tools : Outcome(u)' = Outcome(u)
    BY <2>1, <2>2
  <2> QED
    BY <2>1, <2>3 DEF Goal
<1>10. CASE UnpairDevice
  <2>1. PICK calls \in SUBSET Tools : calls = {t \in Tools : Outcome(t) = "open"}
    BY Zenon
  <2>2. Approval!Abort(calls)
    BY <1>10, <2>1 DEF UnpairDevice, Approval!Abort
  <2> QED
    BY <2>2, <1>0
<1>11. CASE ClaimPairing
  BY <1>11 DEF ClaimPairing, Goal
<1> QED
  BY <1>1, <1>2, <1>3, <1>4, <1>5, <1>6, <1>7, <1>8, <1>9, <1>10, <1>11 DEF RowChange

\* Every service step refines one abstract step, or none.
LEMMA ApprovalRefined ==
  ASSUME IInv, [Next]_vars
  PROVE  [Approval!Next]_(Approval!approvalVars)
<1> DEFINE Goal == [Approval!Next]_(Approval!approvalVars)
<1> SUFFICES Goal
  OBVIOUS
<1> HIDE DEF Goal
<1>1. CASE UNCHANGED executed /\ RowChange
  BY <1>1, RowChangeMaps DEF IInv, TypeOK, ApprovalInv, StoreInv, Goal
<1>2. CASE UNCHANGED executed /\ UNCHANGED storeVars
  BY <1>2 DEF storeVars, sessionRows, toolRows, Outcome, Authorized, Goal,
     Approval!approvalVars
<1>3. ASSUME NEW s \in Sessions, Admit(s)
      PROVE  Goal
  <2>1. cur[s] \in Tools /\ Authorized(cur[s]) /\ born[cur[s]] # "absent"
    BY <1>3 DEF Admit, IInv, ApprovalInv, ExecGate, CurrentCall, InvokePC, ExecPC
  <2>2. CASE executed' = executed \cup {cur[s]}
    <3>1. Approval!Run(cur[s])
      BY <1>3, <2>1, <2>2, Zenon DEF Admit, Approval!Run, storeVars, sessionRows,
         toolRows,
         Outcome, Authorized
    <3> QED
      BY <2>1, <3>1 DEF Goal, Approval!Next
  <2>3. CASE UNCHANGED executed
    BY <1>2, <1>3, <2>3, Zenon DEF Admit
  <2> QED
    BY <1>3, <2>2, <2>3 DEF Admit
<1>4. ASSUME NEW s \in Sessions, NEW t \in Tools, CreateToolCall(s, t)
      PROVE  Goal
  <2>1. UNCHANGED executed
    BY <1>4 DEF CreateToolCall, history
  <2>2. CASE CreateAgentToolCall(s, t, "pending")
    <3>1. Approval!Ask(s, t)
      BY <2>1, <2>2, ZenonT(30) DEF CreateAgentToolCall, Approval!Ask, Outcome,
         Authorized, Approvals, sessionRows, IInv, TypeOK, StoreTypeOK, ApprovalInv,
         RowsConsistent
    <3> QED
      BY <3>1 DEF Goal, Approval!Next
  <2>3. CASE CreateAgentToolCall(s, t, "started") /\ mode[s] = "full_access"
    <3>1. Approval!AskGranted(s, t)
      BY <2>1, <2>3, ZenonT(30) DEF CreateAgentToolCall, Approval!AskGranted, Outcome,
         Authorized, Approvals, sessionRows, IInv, TypeOK, StoreTypeOK, ApprovalInv,
         RowsConsistent
    <3> QED
      BY <3>1 DEF Goal, Approval!Next
  <2>4. memMode[s] # "per_command" => mode[s] = "full_access"
    BY <1>4, SMTT(30) DEF CreateToolCall, IInv, TypeOK, TurnTypeOK, ApprovalInv,
       CachedModeCurrent, AdapterPC, InvokePC, Modes
  <2> QED
    BY <1>2, <1>4, <2>1, <2>2, <2>3, <2>4 DEF CreateToolCall, Left, InitialStatus
<1> QED
  BY <1>1, <1>2, <1>3, <1>4, StepKinds DEF IInv, Goal

\* The service implements ToolApproval: one outcome per call, given by the
\* user or a standing grant, and only approved calls run.
THEOREM ApprovalImplemented == Spec => ImplementsToolApproval
<1>1. Spec => []IInv
  BY ServiceInit, ServiceStep, PTL DEF Spec
<1>2. IInv /\ [Next]_vars => [Approval!Next]_(Approval!approvalVars)
  BY ApprovalRefined
<1> QED
  BY ApprovalInit, <1>1, <1>2, PTL DEF Spec, ImplementsToolApproval, Approval!Spec
=============================================================================
