------------------------- MODULE AgentServiceProofs -------------------------
(***************************************************************************)
(* The service's inductive invariant, IInv, and its theorems.              *)
(***************************************************************************)
EXTENDS AgentServiceTurns

\* The turn that moves keeps its part of the invariant.
LEMMA MoveKeeps ==
  ASSUME TypeOK, RowsConsistent, RowStep, NEW s \in Sessions, TurnInv(s), Moves(s)
  PROVE  TurnInv(s)'
<1>1. TurnTypeOK /\ StoreTypeOK /\ StoreInv
  BY DEF TypeOK, StoreInv
<1>2. PICK t : t = cur[s]
  OBVIOUS
<1>3. CASE Starts(s) \/ Ends(s)
  BY <1>1, <1>3, StartMoves, EndMoves, CalllessKeeps DEF TurnTypeOK
<1>4. CASE \E u \in Tools : CreateToolCall(s, u)
  BY <1>1, <1>4, CreateMoves DEF TurnTypeOK
<1>5. CASE Waits(s) \/ Gates(s) \/ Executes(s)
  <2>1. pc[s] \in InvokePC \ {"create"}
    <3>1. CASE Waits(s)
      BY <3>1, Labels DEF Waits, InstallPending, ReconcileDecision, SendDecision,
         WaitForDecision, ReceiveDecision, WaitCanceled, ApprovalTimeout, ApprovalPC
    <3>2. CASE Gates(s)
      BY <3>2, Labels, Zenon DEF Gates, CheckDecision, ResumeRunning, ResolvePendingAbort,
         StartApproved, ApprovalPC
    <3>3. CASE Executes(s)
      BY <3>3, Labels DEF Executes, Execute, Admit, ExecReturns, FinishFailPending,
         FinishFailLookup, FinishWrite, FinishReconcile, ExecPC, FinishPC
    <3> QED
      BY <1>5, <3>1, <3>2, <3>3
  <2>2. t \in Tools
    BY <1>2, <2>1 DEF TurnInv
  <2>3. CallStep(s, t)
    BY <1>1, <1>2, <1>5, <2>2, WaitMoves, GateMoves, ExecMoves DEF TurnTypeOK
  <2> QED
    BY <1>1, <1>2, <2>1, <2>3, CallStepKeeps
<1>6. CASE Announce(s)
  <2>1. pc[s] = "announce" /\ pc'[s] = "adapter" /\ cur'[s] = NoTool
    BY <1>1, <1>6 DEF Announce, Return, Goto, TurnTypeOK
  <2>2. UNCHANGED <<state, mode, running, memMode>>
    BY <1>6 DEF Announce, storeVars, sessionRows, registry
  <2>3. Callless(s)'
    BY <2>1, <2>2, Labels DEF Callless, TurnInv, FinishPC
  <2> QED
    BY <2>3, CalllessInv
<1> QED
  BY <1>3, <1>4, <1>5, <1>6 DEF Moves, TurnStep, Starts, Ends, Waits, Gates, Executes

\* A reservation gives the session its first step and no call.
LEMMA ReserveKeeps ==
  ASSUME TypeOK, RowStep, NEW r \in Requests, ReserveTurn(r), NEW s \in Sessions, TurnInv(s)
  PROVE  TurnInv(s)'
<1>1. UNCHANGED <<storeVars, locals>> /\ running \subseteq running'
  BY ReserveFrame
<1>2. CASE pc'[s] = pc[s]
  BY <1>1, <1>2, StillKeeps DEF Still, Held, storeVars, sessionRows, locals
<1>3. CASE pc'[s] # pc[s]
  <2>1. pc'[s] = "prepare" /\ s \notin running /\ s \in running'
    BY <1>3, ReserveFrame DEF TypeOK, TurnTypeOK
  <2>2. cur'[s] = NoTool
    BY <1>1, <2>1 DEF TurnInv, locals, InvokePC, ApprovalPC, ExecPC, FinishPC
  <2>3. Callless(s)'
    BY <2>1, <2>2 DEF Callless, AdapterPC, InvokePC, ApprovalPC, ExecPC, FinishPC
  <2> QED
    BY <2>3, CalllessInv
<1> QED
  BY <1>2, <1>3

\* Every step keeps every turn's part of the invariant.
LEMMA TurnsStep ==
  ASSUME TypeOK, ApprovalInv, RowStep, [Next]_vars
  PROVE  \A s \in Sessions : TurnInv(s)'
<1>1. RowsConsistent /\ \A s \in Sessions : TurnInv(s)
  BY TurnsApart
<1>2. ASSUME NEW s \in Sessions, Moves(s), NEW u \in Sessions
      PROVE  TurnInv(u)'
  <2>1. CASE u = s
    BY <1>1, <1>2, <2>1, MoveKeeps
  <2>2. CASE u # s
    <3>1. Still(u) /\ Held(u)
      BY <1>2, <2>2, MoveFrame, MoveRows DEF MoveTypes, Held
    <3> QED
      BY <1>1, <3>1, StillKeeps
  <2> QED
    BY <2>1, <2>2
<1>3. ASSUME NEW r \in Requests, ReserveTurn(r), NEW s \in Sessions
      PROVE  TurnInv(s)'
  BY <1>1, <1>3, ReserveKeeps
<1>4. ASSUME Outside, NEW s \in Sessions
      PROVE  TurnInv(s)'
  <2>1. Still(s) /\ Held(s)
    BY <1>4, OutsideFrame, OutsideRows DEF OutsideTypes, Still, locals
  <2> QED
    BY <1>1, <2>1, StillKeeps
<1>5. ASSUME Crash, NEW s \in Sessions
      PROVE  TurnInv(s)'
  <2>1. Callless(s)'
    BY <1>5 DEF Crash, PerSession, Callless, AdapterPC, InvokePC, ApprovalPC, ExecPC,
       FinishPC
  <2> QED
    BY <2>1, CalllessInv
<1> QED
  BY <1>2, <1>3, <1>4, <1>5, StepSplit

\* Only a cleared call is handed to the executor, and it stays cleared.
LEMMA RespectStep ==
  ASSUME TypeOK, ApprovalInv, RowStep, [Next]_vars
  PROVE  ApprovalRespected'
<1>1. \A t \in executed : t \in Tools /\ Cleared(t)
  BY DEF TypeOK, ApprovalInv, ApprovalRespected, Cleared
<1>2. \A t \in executed' : t \in executed \/ (t \in Tools /\ Cleared(t))
  <2>1. ASSUME NEW s \in Sessions, Admit(s)
        PROVE  executed' = executed \/ executed' = executed \cup {cur[s]}
    BY <2>1 DEF Admit
  <2>2. ASSUME NEW s \in Sessions, Admit(s)
        PROVE  cur[s] \in Tools /\ Cleared(cur[s])
    BY <2>2, TurnsApart DEF Admit, TurnInv, InvokePC, ExecPC
  <2>3. ASSUME NEW s \in Sessions, NEW t \in Tools, CreateToolCall(s, t)
        PROVE  UNCHANGED executed
    BY <2>3 DEF CreateToolCall, history
  <2> QED
    BY <2>1, <2>2, <2>3, StepKinds
<1>3. \A t \in executed' : Cleared(t)'
  BY <1>1, <1>2 DEF RowStep, OnwardStep
<1> QED
  BY <1>3 DEF ApprovalRespected, Cleared

\* Every step respects the types.
LEMMA TypesStep ==
  ASSUME TypeOK, ApprovalInv, StoreTypeOK', [Next]_vars
  PROVE  TypeOK'
<1>1. CASE \E s \in Sessions : Moves(s)
  BY <1>1, MoveFrame DEF MoveTypes, TypeOK
<1>2. CASE \E r \in Requests : ReserveTurn(r)
  BY <1>2, ReserveFrame DEF TypeOK, TurnTypeOK, locals, history, PCs, StartPC
<1>3. CASE Outside
  BY <1>3, OutsideFrame DEF OutsideTypes, TypeOK, TurnTypeOK, locals, history
<1>4. CASE Crash
  <2>1. RegistryTypeOK' /\ TurnTypeOK' /\ req' \in [Requests -> Slots]
    BY <1>4, SlotForms DEF Crash, PerSession, PerTool, RegistryTypeOK, TurnTypeOK, PCs,
       Modes
  <2>2. crashes' \in 0 .. MaxCrashes
    <3>1. crashes \in 0 .. MaxCrashes /\ crashes < MaxCrashes /\ crashes' = crashes + 1
      BY <1>4 DEF Crash, TypeOK
    <3> QED
      BY <3>1, BoundsAssumption
  <2> QED
    BY <1>4, <2>1, <2>2 DEF Crash, TypeOK, history
<1> QED
  BY <1>1, <1>2, <1>3, <1>4, StepSplit

-----------------------------------------------------------------------------
(* The theorems *)

\* The inductive invariant holds of a freshly started service.
LEMMA ServiceInit == Init => IInv
<1> SUFFICES ASSUME Init PROVE IInv
  OBVIOUS
<1> USE DEF Init, PerSession, PerTool
<1>1. StoreTypeOK /\ RowsConsistent
  BY StoreInitInv DEF StoreInv
<1>2. RegistryTypeOK
  BY DEF RegistryTypeOK
<1>3. TurnTypeOK
  BY DEF TurnTypeOK, PCs, Modes
<1>4. req \in [Requests -> Slots]
  BY SlotForms
<1>5. TypeOK
  BY <1>1, <1>2, <1>3, <1>4, BoundsAssumption DEF TypeOK
<1>6. ApprovalInv
  BY <1>1, NoToolAssumption DEF ApprovalInv, TurnReserved, BusyWhileRunning,
     CurrentCall, VerdictRecorded,
     UpgradeRecorded, CachedModeCurrent, ExecGate, ApprovalRespected, AdapterPC, InvokePC,
     ApprovalPC, ExecPC, FinishPC
<1> QED
  BY <1>5, <1>6 DEF IInv

\* ... and every step preserves it.
LEMMA ServiceStep == IInv /\ [Next]_vars => IInv'
<1> SUFFICES ASSUME TypeOK, ApprovalInv, [Next]_vars PROVE TypeOK' /\ ApprovalInv'
  BY DEF IInv
<1>1. StoreInv /\ [StoreNext]_storeVars
  BY StoreCalls DEF TypeOK, ApprovalInv, StoreInv
<1>2. StoreTypeOK' /\ RowStep
  BY <1>1, StoreStepType, StoreStepRows
<1>3. TypeOK'
  BY <1>2, TypesStep
<1>4. ApprovalInv'
  BY <1>2, TurnsStep, RespectStep, TurnsTogether DEF RowStep
<1> QED
  BY <1>3, <1>4

\* The type invariant and the approval invariant hold for any number of
\* sessions, calls, concurrent requests, lost store calls and crashes.
THEOREM ServiceInvariant == Spec => [](TypeOK /\ ApprovalInv)
<1>1. Spec => []IInv
  BY ServiceInit, ServiceStep, PTL DEF Spec
<1> QED
  BY <1>1, PTL DEF IInv

\* No remote command runs without the owner's approval of that very call or a
\* call inserted under full access (Invoke, installPending, StartAgentToolCall).
THEOREM ApprovalTheorem == Spec => []ApprovalRespected
BY ServiceInvariant, PTL DEF ApprovalInv

\* The approval mode a running turn holds in memory is never more permissive
\* than the session's row (StartTurn's re-read after BeginAgentTurn).
THEOREM CachedModeTheorem == Spec => []CachedModeCurrent
BY ServiceInvariant, PTL DEF ApprovalInv

\* Every behaviour of the service, seen through its rows, is one of the store:
\* a terminal call, a recorded decision and a revoked session stay.
THEOREM ServiceFinalRows == Spec => FinalRowsStay
<1>1. Init => StoreInit
  BY DEF Init
<1>2. IInv /\ [Next]_vars => [StoreNext]_storeVars
  BY StoreCalls DEF IInv
<1>3. Spec => []IInv
  BY ServiceInit, ServiceStep, PTL DEF Spec
<1>4. Spec => StoreSpec
  BY <1>1, <1>2, <1>3, PTL DEF Spec, StoreSpec
<1> QED
  BY <1>4, FinalRowsTheorem, PTL
=============================================================================
