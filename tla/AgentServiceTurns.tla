-------------------------- MODULE AgentServiceTurns --------------------------
(***************************************************************************)
(* TurnInv is the part of the invariant that is about one session.  A turn *)
(* that does not move keeps it through any store call (StillKeeps); a step *)
(* of a turn without a call is a CalllessStep, one of a turn with a call   *)
(* in hand a CallStep, and both kinds keep it.                             *)
(***************************************************************************)
EXTENDS AgentServiceFrames


-----------------------------------------------------------------------------
(* The invariant, session by session *)

TurnInv(s) ==
  /\ pc[s] # "none" => s \in running
  /\ pc[s] \in {"reread"} \cup AdapterPC => state[s] \in Busy \cup {"revoked"}
  /\ IF pc[s] \in InvokePC \ {"create"}
     THEN cur[s] \in Tools /\ sessionOf[cur[s]] = s /\ born[cur[s]] # "absent"
     ELSE cur[s] = NoTool
  /\ pc[s] = "check" => verdict[s] # "none"
  /\ pc[s] \in {"resume", "start"} =>
       verdict[s] = decision[cur[s]] /\ verdict[s] # "none"
  /\ pc[s] \in FinishPC => want[s] # "none"
  /\ cur[s] \in Tools /\ decision[cur[s]] = "approve_session" => mode[s] = "full_access"
  /\ pc[s] \in AdapterPC /\ memMode[s] = "full_access" => mode[s] = "full_access"
  /\ pc[s] \in ExecPC => Cleared(cur[s])

\* ApprovalInv is the rows' consistency, TurnInv of every session and
\* ApprovalRespected, before a step.
LEMMA TurnsApart ==
  ASSUME ApprovalInv
  PROVE  RowsConsistent /\ ApprovalRespected /\ \A s \in Sessions : TurnInv(s)
BY DEF ApprovalInv, TurnInv, Cleared, TurnReserved, BusyWhileRunning, CurrentCall,
   VerdictRecorded, UpgradeRecorded, CachedModeCurrent, ExecGate

\* The same after the step, in the other direction.
LEMMA TurnsTogether ==
  ASSUME RowsConsistent', ApprovalRespected', \A s \in Sessions : TurnInv(s)'
  PROVE  ApprovalInv'
<1>1. TurnReserved' /\ BusyWhileRunning' /\ CurrentCall' /\ VerdictRecorded'
  BY DEF TurnInv, TurnReserved, BusyWhileRunning, CurrentCall, VerdictRecorded
<1>2. UpgradeRecorded' /\ CachedModeCurrent' /\ ExecGate'
  BY DEF TurnInv, Cleared, UpgradeRecorded, CachedModeCurrent, ExecGate
<1> QED
  BY <1>1, <1>2 DEF ApprovalInv

\* What a store call keeps for the call t in hand.
CallKept(s, t) ==
  /\ t \in Tools /\ sessionOf'[t] = s /\ born'[t] # "absent"
  /\ decision[t] # "none" => decision'[t] = decision[t]
  /\ decision'[t] = "approve_session" => mode'[s] = "full_access"
  /\ Cleared(t) => Cleared(t)'

\* Nobody lowers the mode of a session whose turn runs.
LEMMA ModeOnward ==
  ASSUME NEW s \in Sessions, ModeStep, TurnInv(s), pc[s] \in {"reread"} \cup AdapterPC
  PROVE  mode[s] = "full_access" => mode'[s] = "full_access"
BY DEF ModeStep, TurnInv, Busy, Settled

\* Nobody takes away the call in hand, its decision or its authority.
LEMMA CallOnward ==
  ASSUME RowStep, NEW s \in Sessions, TurnInv(s), pc[s] \in InvokePC \ {"create"},
         NEW t, t = cur[s]
  PROVE  CallKept(s, t)
<1>1. t \in Tools /\ sessionOf[t] = s /\ born[t] # "absent"
  BY DEF TurnInv
<1>2. mode[s] = "full_access" => mode'[s] = "full_access"
  BY ModeOnward DEF RowStep, AdapterPC
<1>3. decision[t] = "approve_session" => mode[s] = "full_access"
  BY <1>1 DEF TurnInv
<1> QED
  BY <1>1, <1>2, <1>3 DEF CallKept, RowStep, FinalStep, OnwardStep

\* A turn that does not move keeps its invariant through any store call.
LEMMA StillKeeps ==
  ASSUME RowStep, NEW s \in Sessions, TurnInv(s), Still(s), Held(s)
  PROVE  TurnInv(s)'
<1>1. pc[s] \in {"reread"} \cup AdapterPC /\ mode[s] = "full_access" =>
        mode'[s] = "full_access"
  BY ModeOnward DEF RowStep
<1>2. CASE pc[s] \in InvokePC \ {"create"}
  <2>1. PICK t : t = cur[s]
    OBVIOUS
  <2>2. CallKept(s, t) /\ t = cur'[s]
    BY <1>2, <2>1, CallOnward DEF Still
  <2> QED
    BY <1>1, <1>2, <2>1, <2>2 DEF TurnInv, Still, Held, CallKept, Cleared, Authorized
<1>3. CASE pc[s] \notin InvokePC \ {"create"}
  <2>1. pc[s] \notin FinishPC \cup ExecPC \cup {"check", "resume", "start"}
    BY <1>3 DEF InvokePC, ApprovalPC, ExecPC, FinishPC
  <2> QED
    BY <1>1, <1>3, <2>1, NoToolAssumption DEF TurnInv, Still, Held
<1> QED
  BY <1>2, <1>3

\* What there is to say of a turn that works on no call.
Callless(s) ==
  /\ cur[s] = NoTool
  /\ pc[s] \notin InvokePC \ {"create"}
  /\ pc[s] # "none" => s \in running
  /\ pc[s] \in {"reread"} \cup AdapterPC => state[s] \in Busy \cup {"revoked"}
  /\ pc[s] \in AdapterPC /\ memMode[s] = "full_access" => mode[s] = "full_access"

\* It is all of the invariant then, before the step and after it.
LEMMA CalllessInv ==
  ASSUME NEW s \in Sessions
  PROVE  /\ TurnInv(s) /\ pc[s] \notin InvokePC \ {"create"} => Callless(s)
         /\ Callless(s)' => TurnInv(s)'
<1>1. \A l \in FinishPC \cup ExecPC \cup {"check", "resume", "start"} :
        l \in InvokePC \ {"create"}
  BY DEF InvokePC, ApprovalPC, ExecPC, FinishPC
<1> QED
  BY <1>1, NoToolAssumption DEF Callless, TurnInv

\* A step of StartTurn or runTurn, as far as the invariant is concerned.
CalllessStep(s) ==
  /\ pc[s] \notin InvokePC \ {"create"} /\ cur'[s] = cur[s]
  /\ pc'[s] # "none" => pc[s] # "none" /\ UNCHANGED running
  /\ \/ pc'[s] \in Quiet
     \/ pc'[s] = "reread" /\ state'[s] = "running"
     \/ /\ pc'[s] \in {"message", "snapshot", "adapter", "create"}
        /\ pc[s] \in {"reread"} \cup AdapterPC
        /\ UNCHANGED <<state, mode>>
        /\ memMode'[s] = mode[s] \/ (pc[s] # "reread" /\ memMode'[s] = memMode[s])

\* Such a step keeps its session's part of the invariant.
LEMMA CalllessKeeps ==
  ASSUME NEW s \in Sessions, TurnInv(s), CalllessStep(s)
  PROVE  TurnInv(s)'
<1>1. Callless(s)
  BY CalllessInv DEF CalllessStep
<1>2. Callless(s)'
  <2>1. pc'[s] \notin InvokePC \ {"create"}
    BY Labels DEF CalllessStep, Quiet
  <2>2. CASE pc'[s] \in Quiet
    BY <1>1, <2>1, <2>2, Labels DEF CalllessStep, Callless, Quiet
  <2>3. CASE pc'[s] = "reread"
    BY <1>1, <2>1, <2>3, Labels DEF CalllessStep, Callless, Quiet, Busy
  <2>4. CASE pc'[s] \in {"message", "snapshot", "adapter", "create"}
    BY <1>1, <2>1, <2>4 DEF CalllessStep, Callless, Quiet
  <2> QED
    BY <2>2, <2>3, <2>4 DEF CalllessStep
<1> QED
  BY <1>2, CalllessInv

Starts(s) == Prepare(s) \/ Begin(s) \/ Reread(s) \/ StoreMessage(s) \/ Snapshot(s)

\* The steps before adapter.Run are such steps.
LEMMA StartMoves ==
  ASSUME NEW s \in Sessions, pc \in [Sessions -> PCs], memMode \in [Sessions -> Modes],
         StoreTypeOK, Starts(s)
  PROVE  CalllessStep(s)
<1>1. CASE Prepare(s)
  BY <1>1, Labels DEF Prepare, Goto, CalllessStep, registry, locals, Quiet
<1>2. CASE Begin(s)
  <2>1. /\ pc[s] = "begin" /\ UNCHANGED <<cur, running>>
        /\ \/ pc'[s] = "reread" /\ state' = [state EXCEPT ![s] = "running"]
           \/ pc'[s] \in {"release", "abandon"}
    BY <1>2 DEF Begin, BeginAgentTurn, Fails, Left, Goto, registry, locals
  <2> QED
    BY <2>1, Labels DEF CalllessStep, StoreTypeOK, Quiet
<1>3. CASE Reread(s)
  BY <1>3, Labels DEF Reread, Goto, CalllessStep, registry, storeVars, sessionRows, Quiet
<1>4. CASE StoreMessage(s)
  BY <1>4, Labels DEF StoreMessage, Goto, CalllessStep, registry, locals, storeVars,
     sessionRows, Quiet
<1>5. CASE Snapshot(s)
  <2>1. /\ pc[s] = "snapshot" /\ UNCHANGED <<cur, running, state, mode, memMode>>
        /\ pc'[s] \in {"adapter", "release", "fail"}
    BY <1>5 DEF Snapshot, Fails, Goto, registry, locals, storeVars, sessionRows
  <2> QED
    BY <2>1, Labels DEF CalllessStep, Quiet
<1> QED
  BY <1>1, <1>2, <1>3, <1>4, <1>5 DEF Starts

Ends(s) ==
  \/ AdapterReturns(s) \/ Invoke(s) \/ PersistTurnTranscript(s)
  \/ Settle(s) \/ FailTurn(s) \/ ReleaseTurn(s)

\* So are those of the end of a turn, and the call of Invoke.
LEMMA EndMoves ==
  ASSUME NEW s \in Sessions, pc \in [Sessions -> PCs], Ends(s)
  PROVE  CalllessStep(s)
<1>1. CASE AdapterReturns(s) \/ Invoke(s)
  <2>1. /\ pc[s] = "adapter" /\ UNCHANGED <<cur, running, state, mode, memMode>>
        /\ pc'[s] \in {"persistOk", "persistErr", "create"}
    BY <1>1 DEF AdapterReturns, Invoke, Goto, registry, locals, storeVars, sessionRows
  <2> QED
    BY <2>1, Labels DEF CalllessStep, Quiet
<1>2. ASSUME pc[s] \in {"persistOk", "persistErr", "settle", "fail", "abandon"},
             UNCHANGED <<cur, running>>,
             pc'[s] \in {"settle", "fail", "abandon", "release"}
      PROVE  CalllessStep(s)
  BY <1>2, Labels DEF CalllessStep, Quiet
<1>3. CASE PersistTurnTranscript(s)
  BY <1>2, <1>3 DEF PersistTurnTranscript, Fails, Goto, registry, locals
<1>4. CASE Settle(s)
  BY <1>2, <1>4 DEF Settle, Goto, registry
<1>5. CASE FailTurn(s)
  BY <1>2, <1>5 DEF FailTurn, AfterLostUpdate, Goto, registry
<1>6. CASE ReleaseTurn(s)
  BY <1>6, Labels DEF ReleaseTurn, Goto, CalllessStep, Quiet
<1> QED
  BY <1>1, <1>3, <1>4, <1>5, <1>6 DEF Ends

\* CreateAgentToolCall opens the gate only for a session in full access.
LEMMA CreateMoves ==
  ASSUME NEW s \in Sessions, pc \in [Sessions -> PCs], cur \in [Sessions -> Tools \cup {NoTool}],
         StoreInv, TurnInv(s), NEW t \in Tools, CreateToolCall(s, t)
  PROVE  TurnInv(s)'
<1>1. UNCHANGED <<state, mode, running, memMode, decision>> /\ pc[s] = "create"
  BY DEF CreateToolCall, CreateAgentToolCall, Left, registry, storeVars, sessionRows,
     toolRows
<1>2. CASE cur' = [cur EXCEPT ![s] = t] /\ CreateAgentToolCall(s, t, InitialStatus(s))
           /\ Goto(s, AfterCreate(s))
  <2>1. /\ cur'[s] = t /\ decision[t] = "none" /\ pc'[s] = AfterCreate(s)
        /\ sessionOf'[t] = s /\ born'[t] = InitialStatus(s) /\ status'[t] = InitialStatus(s)
    BY <1>2 DEF CreateAgentToolCall, Goto, StoreInv, StoreTypeOK, RowsConsistent
  <2>2. AfterCreate(s) \in {"install", "execute"}
    BY DEF AfterCreate
  <2>3. /\ AfterCreate(s) \in InvokePC \ {"create"} /\ AfterCreate(s) \notin FinishPC
        /\ AfterCreate(s) \in ExecPC => AfterCreate(s) = "execute"
    BY <2>2, Labels DEF ApprovalPC, ExecPC
  <2>4. AfterCreate(s) = "execute" => Cleared(cur[s])'
    BY <2>1 DEF AfterCreate, InitialStatus, Cleared, Authorized
  <2>5. born'[t] # "absent"
    BY <2>1 DEF InitialStatus
  <2> QED
    BY <1>1, <2>1, <2>2, <2>3, <2>4, <2>5, Labels DEF TurnInv
<1>3. CASE UNCHANGED cur /\ pc' = [pc EXCEPT ![s] = "adapter"]
  <2>1. CalllessStep(s)
    BY <1>1, <1>3, Labels DEF CalllessStep
  <2> QED
    BY <2>1, CalllessKeeps
<1> QED
  BY <1>2, <1>3 DEF CreateToolCall, Return, Goto

\* A step of Invoke, as far as the invariant is concerned: where it goes and
\* what it knows there about the call t in hand.
CallStep(s, t) ==
  /\ cur'[s] = t /\ running' = running /\ Held(s)
  /\ memMode'[s] = "full_access" =>
       memMode[s] = "full_access" \/ decision[t] = "approve_session"
  /\ \/ pc'[s] \in ApprovalPC \ {"check", "resume", "start"}
     \/ pc'[s] = "check" /\ verdict'[s] # "none"
     \/ /\ pc'[s] \in {"resume", "start"}
        /\ verdict'[s] = decision[t] /\ verdict'[s] # "none"
     \/ pc'[s] \in FinishPC /\ want'[s] # "none"
     \/ pc'[s] \in ExecPC /\ (Cleared(t) \/ Cleared(t)')

\* Such a step keeps its session's part of the invariant.
LEMMA CallStepKeeps ==
  ASSUME RowStep, NEW s \in Sessions, TurnInv(s), pc[s] \in InvokePC \ {"create"},
         NEW t, t = cur[s], CallStep(s, t)
  PROVE  TurnInv(s)'
<1>1. CallKept(s, t)
  BY CallOnward
<1>2. mode[s] = "full_access" => mode'[s] = "full_access"
  BY ModeOnward DEF RowStep, AdapterPC
<1>3. pc'[s] \in InvokePC \ {"create"} /\ pc'[s] # "none"
  BY Labels, Zenon DEF CallStep, ApprovalPC
<1>4. pc[s] # "none" /\ pc[s] \in AdapterPC
  BY Labels DEF Quiet
<1>5. state'[s] \in Busy \cup {"revoked"} /\ s \in running'
  BY <1>4, Zenon DEF TurnInv, CallStep, Held
<1>6. memMode'[s] = "full_access" => mode'[s] = "full_access"
  BY <1>1, <1>2, <1>4 DEF TurnInv, CallStep, CallKept
<1>7. pc'[s] \in ExecPC => Cleared(cur[s])'
  BY <1>1, Labels, Zenon DEF CallStep, CallKept, Cleared, Authorized, ApprovalPC
<1>8. /\ pc'[s] = "check" => verdict'[s] # "none"
      /\ pc'[s] \in {"resume", "start"} =>
           verdict'[s] = decision'[t] /\ verdict'[s] # "none"
      /\ pc'[s] \in FinishPC => want'[s] # "none"
  BY <1>1, Labels DEF CallStep, CallKept, ApprovalPC
<1> QED
  BY <1>1, <1>3, <1>5, <1>6, <1>7, <1>8 DEF TurnInv, CallStep, CallKept

Waits(s) ==
  \/ InstallPending(s) \/ ReconcileDecision(s) \/ SendDecision(s) \/ WaitForDecision(s)
  \/ ReceiveDecision(s) \/ WaitCanceled(s) \/ ApprovalTimeout(s)

\* The steps up to the wait for a decision are such steps.
LEMMA WaitMoves ==
  ASSUME pc \in [Sessions -> PCs], want \in [Sessions -> Terminal \cup {"none"}],
         verdict \in [Sessions -> Decisions \cup {"none"}], StoreTypeOK,
         NEW s \in Sessions, NEW t, t = cur[s], Waits(s)
  PROVE  CallStep(s, t)
<1>1. ASSUME UNCHANGED <<cur, running, memMode>>, Held(s),
             \/ pc'[s] \in {"reconcile", "send", "wait", "select", "abort"}
             \/ pc'[s] = "check" /\ verdict'[s] # "none"
             \/ pc'[s] = "failPending" /\ want'[s] = "failed"
      PROVE  CallStep(s, t)
  BY <1>1 DEF CallStep, ApprovalPC, FinishPC
<1>2. ASSUME UNCHANGED storeVars
      PROVE  Held(s)
  BY <1>2 DEF Held, storeVars, sessionRows
<1>3. CASE InstallPending(s)
  BY <1>1, <1>2, <1>3 DEF InstallPending, FinishTool, Goto
<1>4. CASE ReconcileDecision(s)
  <2>1. UNCHANGED <<cur, running, memMode, storeVars>>
    BY <1>4 DEF ReconcileDecision
  <2>2. Goto(s, AfterLookup(t)) \/ FinishTool(s, "failed")
    BY <1>4, Zenon DEF ReconcileDecision
  <2>3. AfterLookup(t) \in {"send", "wait"}
    BY Zenon DEF AfterLookup
  <2>4. CASE pc' = [pc EXCEPT ![s] = AfterLookup(t)]
    BY <1>1, <1>2, <2>1, <2>3, <2>4
  <2>5. CASE FinishTool(s, "failed")
    BY <1>1, <1>2, <2>1, <2>5 DEF FinishTool, Goto
  <2> QED
    BY <2>2, <2>4, <2>5 DEF Goto
<1>5. CASE SendDecision(s) \/ ReceiveDecision(s)
  BY <1>1, <1>2, <1>5, Zenon DEF SendDecision, ReceiveDecision, Goto, locals
<1>6. CASE WaitCanceled(s) \/ ApprovalTimeout(s)
  BY <1>1, <1>2, <1>6 DEF WaitCanceled, ApprovalTimeout, Goto, registry, locals
<1>7. CASE WaitForDecision(s)
  <2>1. UNCHANGED storeVars \/ state' = [state EXCEPT ![s] = "waiting_approval"]
    BY <1>7 DEF WaitForDecision, UpdateAgentSessionState, Left
  <2>2. Held(s)
    BY <1>2, <2>1 DEF Held, StoreTypeOK, Busy
  <2>3. UNCHANGED <<cur, running, memMode>> /\ pc'[s] \in {"select", "abort"}
    BY <1>7 DEF WaitForDecision, Goto, registry, locals
  <2> QED
    BY <1>1, <2>2, <2>3
<1> QED
  BY <1>3, <1>4, <1>5, <1>6, <1>7 DEF Waits

Gates(s) ==
  CheckDecision(s) \/ ResumeRunning(s) \/ ResolvePendingAbort(s) \/ StartApproved(s)

\* So are those from the decision to the start of the call.
LEMMA GateMoves ==
  ASSUME pc \in [Sessions -> PCs], want \in [Sessions -> Terminal \cup {"none"}],
         verdict \in [Sessions -> Decisions \cup {"none"}],
         memMode \in [Sessions -> Modes], StoreTypeOK,
         NEW s \in Sessions, TurnInv(s), NEW t \in Tools, t = cur[s], Gates(s)
  PROVE  CallStep(s, t)
<1>1. ASSUME UNCHANGED <<cur, running, memMode>>, Held(s),
             \/ UNCHANGED pc /\ pc[s] = "abort"
             \/ ApprovalError(s)
             \/ ApplyDecision(s, decision[t]) /\ decision[t] # "none"
      PROVE  CallStep(s, t)
  <2>1. CASE UNCHANGED pc /\ pc[s] = "abort"
    BY <1>1, <2>1, Zenon DEF CallStep, ApprovalPC
  <2>2. CASE ApprovalError(s)
    BY <1>1, <2>2, Zenon DEF ApprovalError, FinishTool, Goto, CallStep, FinishPC
  <2>3. CASE ApplyDecision(s, decision[t]) /\ decision[t] # "none"
    BY <1>1, <2>3, Zenon DEF ApplyDecision, FinishTool, Goto, CallStep, FinishPC
  <2> QED
    BY <1>1, <2>1, <2>2, <2>3, Zenon
<1>2. /\ pc[s] = "check" => verdict[s] # "none"
      /\ pc[s] \in {"resume", "start"} => verdict[s] = decision[t] /\ verdict[s] # "none"
  BY DEF TurnInv
<1>3. ASSUME UNCHANGED sessionRows
      PROVE  Held(s)
  BY <1>3 DEF Held, sessionRows
<1>4. CASE CheckDecision(s)
  <2>1. UNCHANGED <<cur, running, memMode, storeVars>> /\ pc[s] = "check"
    BY <1>4 DEF CheckDecision
  <2>2. \/ ApprovalError(s)
        \/ UNCHANGED verdict /\ Goto(s, "resume") /\ decision[t] = verdict[s]
    BY <1>4, Zenon DEF CheckDecision, DecisionStands
  <2> QED
    BY <1>1, <1>2, <1>3, <2>1, <2>2, Zenon DEF CallStep, Goto, storeVars
<1>5. CASE ResumeRunning(s)
  <2>1. UNCHANGED storeVars \/ state' = [state EXCEPT ![s] = "running"]
    BY <1>5 DEF ResumeRunning, UpdateAgentSessionState, Left
  <2>2. Held(s)
    BY <1>3, <2>1 DEF Held, StoreTypeOK, Busy, storeVars
  <2>3. UNCHANGED <<cur, running, memMode>> /\ pc[s] = "resume"
    BY <1>5 DEF ResumeRunning
  <2>4. ApprovalError(s) \/ ApplyDecision(s, verdict[s])
    BY <1>5, Zenon DEF ResumeRunning
  <2> QED
    BY <1>1, <1>2, <2>2, <2>3, <2>4, Zenon
<1>6. CASE ResolvePendingAbort(s)
  <2>1. UNCHANGED <<sessionRows, running, cur, memMode>> /\ pc[s] = "abort"
    BY <1>6, Zenon DEF ResolvePendingAbort, FailPendingAgentToolCall, Left, storeVars
  <2>2. \/ ApprovalError(s)
        \/ UNCHANGED pc
        \/ decision[t] # "none" /\ ApplyDecision(s, decision[t])
    BY <1>6, Zenon DEF ResolvePendingAbort, FailPendingConflict, Undecided
  <2> QED
    BY <1>1, <1>3, <2>1, <2>2
<1>7. CASE StartApproved(s)
  <2>1. UNCHANGED <<sessionRows, running, cur, verdict>> /\ pc[s] = "start"
    BY <1>7, Zenon DEF StartApproved, StartAgentToolCall, Left, storeVars, registry
  <2>2. \/ /\ StartAgentToolCall(t) /\ Goto(s, "execute")
           /\ memMode' = [memMode EXCEPT ![s] =
                            IF verdict[s] = "approve_session" THEN "full_access" ELSE @]
        \/ UNCHANGED memMode /\ FinishTool(s, "failed")
    BY <1>7, Zenon DEF StartApproved
  <2>3. ASSUME StartAgentToolCall(t)
        PROVE  Cleared(t)'
    BY <2>3 DEF StartAgentToolCall, StoreTypeOK, Cleared, Authorized
  <2> QED
    BY <1>2, <1>3, <2>1, <2>2, <2>3, Zenon DEF CallStep, FinishTool, Goto, ExecPC,
       FinishPC
<1> QED
  BY <1>4, <1>5, <1>6, <1>7 DEF Gates

Executes(s) ==
  \/ Execute(s) \/ Admit(s) \/ ExecReturns(s) \/ FinishFailPending(s)
  \/ FinishFailLookup(s) \/ FinishWrite(s) \/ FinishReconcile(s)

\* So are those of execute and finishTool.
LEMMA ExecMoves ==
  ASSUME pc \in [Sessions -> PCs], want \in [Sessions -> Terminal \cup {"none"}],
         NEW s \in Sessions, TurnInv(s), NEW t, t = cur[s], Executes(s)
  PROVE  CallStep(s, t)
<1>1. ASSUME UNCHANGED <<cur, running, memMode, sessionRows>>,
             \/ pc'[s] \in FinishPC /\ want'[s] # "none"
             \/ pc'[s] \in ExecPC /\ Cleared(t)
      PROVE  CallStep(s, t)
  BY <1>1, Zenon DEF CallStep, Held, sessionRows
<1>2. /\ pc[s] \in FinishPC => want[s] # "none"
      /\ pc[s] \in ExecPC => Cleared(t)
  BY DEF TurnInv, Cleared, Authorized
<1>3. CASE Execute(s)
  BY <1>1, <1>2, <1>3 DEF Execute, FinishTool, Goto, registry, storeVars, ExecPC, FinishPC
<1>4. CASE Admit(s)
  BY <1>1, <1>2, <1>4 DEF Admit, FinishTool, Goto, registry, storeVars, ExecPC, FinishPC
<1>5. CASE ExecReturns(s)
  BY <1>1, <1>5 DEF ExecReturns, FinishTool, Goto, registry, storeVars, FinishPC
<1>6. CASE FinishFailPending(s)
  <2>1. UNCHANGED <<cur, running, memMode, sessionRows, want>> /\ pc[s] = "failPending"
    BY <1>6, Zenon DEF FinishFailPending, FailPendingAgentToolCall, Left, storeVars,
       registry
  <2>2. pc'[s] \in {"announce", "failLookup", "failPending"}
    BY <1>6, Zenon DEF FinishFailPending, Finished, Again, Leave, Goto
  <2> QED
    BY <1>1, <1>2, <2>1, <2>2 DEF FinishPC
<1>7. CASE FinishFailLookup(s)
  <2>1. UNCHANGED <<cur, running, memMode, sessionRows, want>> /\ pc[s] = "failLookup"
    BY <1>7 DEF FinishFailLookup, storeVars, registry
  <2>2. pc'[s] \in {"announce", "finish"}
    BY <1>7 DEF FinishFailLookup, Finished, Leave, Goto
  <2> QED
    BY <1>1, <1>2, <2>1, <2>2, Zenon DEF FinishPC
<1>8. CASE FinishWrite(s)
  <2>1. /\ UNCHANGED <<cur, running, memMode, sessionRows, want>>
        /\ pc[s] \in {"finish", "compensate"}
    BY <1>8 DEF FinishWrite, FinishAgentToolCall, Left, storeVars, registry
  <2>2. pc'[s] \in {"announce", "finishLookup", "compensateLookup"}
    BY <1>8 DEF FinishWrite, Finished, Goto
  <2> QED
    BY <1>1, <1>2, <2>1, <2>2, Zenon DEF FinishPC
<1>9. CASE FinishReconcile(s)
  <2>1. /\ UNCHANGED <<cur, running, memMode, sessionRows, want>>
        /\ pc[s] \in {"finishLookup", "compensateLookup"}
    BY <1>9, Zenon DEF FinishReconcile, storeVars, registry
  <2>2. pc'[s] \in {"announce", "finish", "compensate"}
    BY <1>9, Zenon DEF FinishReconcile, Finished, Again, Leave, Goto
  <2> QED
    BY <1>1, <1>2, <2>1, <2>2, Zenon DEF FinishPC
<1> QED
  BY <1>3, <1>4, <1>5, <1>6, <1>7, <1>8, <1>9 DEF Executes
=============================================================================
