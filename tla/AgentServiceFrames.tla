------------------------- MODULE AgentServiceFrames -------------------------
(***************************************************************************)
(* What one step of the agent service leaves alone, for every set of       *)
(* sessions, calls and requests and every bound on faults.  A step is a    *)
(* step of one turn, the reservation of one, a step outside the turns, or  *)
(* a crash (StepSplit).  For each of them a frame lemma says that the      *)
(* types hold and what is unchanged, and a row lemma that the rows change  *)
(* by at most one store call, whose effect AgentStoreProofs knows.         *)
(***************************************************************************)
EXTENDS AgentService, AgentStoreProofs

IInv == TypeOK /\ ApprovalInv

\* A step of the turn's goroutine, its approval timer included.
Moves(s) == TurnStep(s) \/ ApprovalTimeout(s)

\* A step of a request handler other than reserveTurn.
Handles(r) ==
  \/ EndMutation(r) \/ SetArchivedTombstone(r) \/ DeleteTombstone(r)
  \/ SignalDecision(r) \/ MarkDeviceRevoked(r) \/ CancelRevoked(r)
  \/ BeginMutation(r) \/ Unpair(r)
  \/ \E s \in Sessions, m \in Modes :
       CreateSession(r, s, m) \/ UpdateSessionApprovalMode(r, s, m)
  \/ \E s \in Sessions :
       StartTurn(r, s) \/ DeleteSession(r, s)
  \/ \E s \in Sessions, to \in Shelving : SetSessionArchived(r, s, to)
  \/ \E t \in Tools, d \in Decisions : Decide(r, t, d)

Outside ==
  \/ \E r \in Requests : Handles(r)
  \/ \E s \in Sessions : TurnTimeout(s) \/ CancelCall(s)
  \/ Pair \/ Close \/ CloseReturns
  \/ UNCHANGED vars

\* The steps, by who takes them.
LEMMA StepSplit ==
  ASSUME [Next]_vars
  PROVE  \/ \E s \in Sessions : Moves(s)
         \/ \E r \in Requests : ReserveTurn(r)
         \/ Outside
         \/ Crash
<1>1. ASSUME NEW s \in Sessions,
             TurnStep(s) \/ ApprovalTimeout(s) \/ TurnTimeout(s) \/ CancelCall(s)
      PROVE  Moves(s) \/ Outside
  BY <1>1 DEF Moves, Outside
<1>2. ASSUME NEW r \in Requests, RequestStep(r)
      PROVE  ReserveTurn(r) \/ Handles(r)
  BY <1>2 DEF RequestStep, Handles
<1>3. ASSUME UserStep
      PROVE  Outside
  BY <1>3 DEF UserStep, Outside, Handles
<1> QED
  BY <1>1, <1>2, <1>3 DEF Next, Outside

\* The places of a turn outside adapter.Run, but for the re-read.
Quiet == {"none", "prepare", "begin", "abandon", "persistOk", "persistErr", "settle",
          "fail", "release"}

\* How the sets of places lie to each other.
LEMMA Labels ==
  /\ \A l \in Quiet \cup {"reread"} : l \notin AdapterPC /\ l \in PCs
  /\ \A l \in {"message", "snapshot", "adapter", "create"} :
       l \in AdapterPC /\ l \notin InvokePC \ {"create"} /\ l \in PCs
  /\ \A l \in ApprovalPC \cup ExecPC \cup FinishPC : l \in InvokePC \ {"create"} /\ l \in PCs
  /\ \A l \in InvokePC : l \in AdapterPC
  /\ \A l \in ApprovalPC : l \notin ExecPC /\ l \notin FinishPC
  /\ \A l \in FinishPC : l \notin ExecPC /\ l \notin {"check", "resume", "start", "none"}
  /\ \A l \in ExecPC : l \notin {"check", "resume", "start", "none"}
BY DEF Quiet, PCs, StartPC, RunPC, AdapterPC, InvokePC, ApprovalPC, ExecPC, FinishPC

\* Past CreateAgentToolCall the turn names a call, and finishTool knows its status.
LEMMA CallInHand ==
  ASSUME TypeOK, ApprovalInv, NEW s \in Sessions
  PROVE  /\ pc[s] \in InvokePC \ {"create"} => cur[s] \in Tools
         /\ pc[s] \in FinishPC => want[s] \in Terminal
BY DEF TypeOK, TurnTypeOK, ApprovalInv, CurrentCall, VerdictRecorded

\* The slots the handlers write are well formed.
LEMMA SlotForms ==
  /\ FreeSlot \in Slots
  /\ \A op \in {"begun", "join"} \cup Unpairing :
       Slot(op, NoSession, NoTool, "none") \in Slots
  /\ \A op \in SessionOps, s \in Sessions : Slot(op, s, NoTool, "none") \in Slots
  /\ \A t \in Tools, d \in Decisions : Slot("signal", NoSession, t, d) \in Slots
BY DEF FreeSlot, Slot, Slots, SessionOps, Unpairing, Shelving

\* A slot names the session or the call its handler works on.
LEMMA SlotUse ==
  ASSUME NEW x \in Slots
  PROVE  /\ x.op \in SessionOps => x.sess \in Sessions
         /\ x.op = "signal" => x.tool \in Tools /\ x.arg \in Decisions
BY DEF Slots, SessionOps, Unpairing, Shelving

-----------------------------------------------------------------------------
(* Frames *)

\* Nothing the invariant says about session s is written.
Still(s) ==
  /\ pc'[s] = pc[s] /\ cur'[s] = cur[s] /\ memMode'[s] = memMode[s]
  /\ verdict'[s] = verdict[s] /\ want'[s] = want[s]
  /\ s \in running => s \in running'

\* A busy row is not settled, nor a revoked one revived.
Held(s) == state[s] \in Busy \cup {"revoked"} => state'[s] \in Busy \cup {"revoked"}

OutsideTypes ==
  /\ RegistryTypeOK'
  /\ ctx' \in [Sessions -> {"live", "call", "done"}]
  /\ req' \in [Requests -> Slots]
  /\ UNCHANGED <<pc, locals, history, lost, crashes, running>>

\* A handler leaves every turn's locals alone.
LEMMA HandlerTypes ==
  ASSUME RegistryTypeOK, ctx \in [Sessions -> {"live", "call", "done"}],
         req \in [Requests -> Slots], NEW r \in Requests, Handles(r)
  PROVE  OutsideTypes
<1>1. CASE EndMutation(r) \/ BeginMutation(r) \/ Unpair(r)
  BY <1>1, SlotForms DEF EndMutation, BeginMutation, Unpair, OutsideTypes, RegistryTypeOK,
     registry, Put, Free, Unpairing
<1>2. CASE SetArchivedTombstone(r) \/ DeleteTombstone(r)
  <2>1. req[r].sess \in Sessions
    BY <1>2, SlotUse DEF SetArchivedTombstone, DeleteTombstone, SessionOps, Shelving
  <2> QED
    BY <1>2, <2>1, SlotForms DEF SetArchivedTombstone, DeleteTombstone, OutsideTypes,
       RegistryTypeOK, Free
<1>3. CASE SignalDecision(r)
  <2>1. req[r].tool \in Tools /\ req[r].arg \in Decisions
    BY <1>3, SlotUse DEF SignalDecision
  <2> QED
    BY <1>3, <2>1, SlotForms DEF SignalDecision, OutsideTypes, RegistryTypeOK, Free
<1>4. CASE MarkDeviceRevoked(r) \/ CancelRevoked(r)
  BY <1>4, SlotForms DEF MarkDeviceRevoked, CancelRevoked, OutsideTypes, RegistryTypeOK,
     registry, Put, Free, Unpairing
<1>5. ASSUME NEW s \in Sessions, NEW m \in Modes,
             CreateSession(r, s, m) \/ UpdateSessionApprovalMode(r, s, m)
      PROVE  OutsideTypes
  BY <1>5, SlotForms DEF CreateSession, UpdateSessionApprovalMode, OutsideTypes,
     RegistryTypeOK, registry, Free
<1>6. ASSUME NEW s \in Sessions, StartTurn(r, s) \/ DeleteSession(r, s)
      PROVE  OutsideTypes
  BY <1>6, SlotForms DEF StartTurn, DeleteSession, OutsideTypes, RegistryTypeOK,
     registry, Put, SessionOps
<1>7. ASSUME NEW s \in Sessions, NEW to \in Shelving, SetSessionArchived(r, s, to)
      PROVE  OutsideTypes
  <2>1. Slot(to, s, NoTool, "none") \in Slots
    BY SlotForms, Zenon DEF SessionOps
  <2> QED
    BY <1>7, <2>1, SlotForms DEF SetSessionArchived, OutsideTypes, RegistryTypeOK,
       registry,
       Put, Free
<1>8. ASSUME NEW t \in Tools, NEW d \in Decisions, Decide(r, t, d)
      PROVE  OutsideTypes
  BY <1>8, SlotForms DEF Decide, OutsideTypes, RegistryTypeOK, registry, Put
<1> QED
  BY <1>1, <1>2, <1>3, <1>4, <1>5, <1>6, <1>7, <1>8 DEF Handles

\* So does every other step outside the turns.
LEMMA OutsideFrame ==
  ASSUME TypeOK, Outside
  PROVE  OutsideTypes
<1>1. /\ RegistryTypeOK /\ req \in [Requests -> Slots]
      /\ ctx \in [Sessions -> {"live", "call", "done"}]
  BY DEF TypeOK, TurnTypeOK
<1>2. ASSUME NEW r \in Requests, Handles(r)
      PROVE  OutsideTypes
  BY <1>1, <1>2, HandlerTypes
<1>3. ASSUME NEW s \in Sessions, TurnTimeout(s) \/ CancelCall(s)
      PROVE  OutsideTypes
  BY <1>1, <1>3 DEF TurnTimeout, CancelCall, OutsideTypes, RegistryTypeOK, registry
<1>4. CASE Pair \/ Close \/ CloseReturns
  BY <1>1, <1>4 DEF Pair, Close, CloseReturns, OutsideTypes, RegistryTypeOK, registry
<1>5. CASE UNCHANGED vars
  BY <1>1, <1>5 DEF vars, OutsideTypes, RegistryTypeOK, registry
<1> QED
  BY <1>2, <1>3, <1>4, <1>5 DEF Outside

\* reserveTurn moves one turn from nowhere to its preparation.
LEMMA ReserveFrame ==
  ASSUME TypeOK, NEW r \in Requests, ReserveTurn(r)
  PROVE  /\ RegistryTypeOK' /\ req' \in [Requests -> Slots]
         /\ UNCHANGED <<storeVars, ctx, locals, history, lost, crashes>>
         /\ running \subseteq running'
         /\ \/ UNCHANGED pc
            \/ \E s \in Sessions : /\ s \notin running /\ s \in running'
                                   /\ pc' = [pc EXCEPT ![s] = "prepare"]
<1>1. req[r].sess \in Sessions
  BY SlotUse DEF TypeOK, ReserveTurn, SessionOps
<1>2. FreeSlot \in Slots
  BY SlotForms
<1> QED
  BY <1>1, <1>2 DEF TypeOK, ReserveTurn, Reservable, RegistryTypeOK, Free, Goto

MoveTypes(s) ==
  /\ TurnTypeOK' /\ RegistryTypeOK' /\ UNCHANGED <<req, crashes>>
  /\ executed' \in SUBSET Tools
  /\ announced' \in [Tools -> Terminal \cup {"none"}]
  /\ lost' \in 0 .. MaxLost
  /\ \A u \in Sessions \ {s} : Still(u)

\* A step of a turn writes only that turn's locals, within their types.
LEMMA MoveFrame ==
  ASSUME TypeOK, ApprovalInv, NEW s \in Sessions, Moves(s)
  PROVE  MoveTypes(s)
<1>1. /\ TurnTypeOK /\ RegistryTypeOK /\ executed \in SUBSET Tools
      /\ announced \in [Tools -> Terminal \cup {"none"}]
      /\ lost \in 0 .. MaxLost /\ MaxLost \in Nat
  BY BoundsAssumption DEF TypeOK
<1>2. StoreTypeOK
  BY DEF TypeOK
<1>3. /\ pc[s] \in InvokePC \ {"create"} => cur[s] \in Tools
      /\ pc[s] \in FinishPC => want[s] \in Terminal
  BY CallInHand
<1> USE DEF TurnTypeOK, RegistryTypeOK, MoveTypes, Still, registry, locals, history, Goto,
            PCs, StartPC, RunPC, AdapterPC, InvokePC, ApprovalPC, ExecPC, FinishPC
<1>4. CASE Prepare(s) \/ StoreMessage(s) \/ AdapterReturns(s) \/ Invoke(s)
  BY <1>1, <1>4 DEF Prepare, StoreMessage, AdapterReturns, Invoke
<1>5. CASE Begin(s) \/ Reread(s)
  BY <1>1, <1>2, <1>5 DEF Begin, Reread, Fails, Lost, StoreTypeOK
<1>6. CASE Snapshot(s) \/ PersistTurnTranscript(s)
  BY <1>1, <1>6 DEF Snapshot, PersistTurnTranscript, Fails, Lost
<1>7. CASE Settle(s) \/ FailTurn(s)
  BY <1>1, <1>7 DEF Settle, FailTurn, AfterLostUpdate, Lost
<1>8. CASE ReleaseTurn(s)
  BY <1>1, <1>8 DEF ReleaseTurn, Modes
<1>9. ASSUME NEW t \in Tools, CreateToolCall(s, t)
      PROVE  MoveTypes(s)
  BY <1>1, <1>9 DEF CreateToolCall, AfterCreate, Return, Fails, Lost
<1>10. CASE InstallPending(s) \/ ReconcileDecision(s)
  <2>1. CASE InstallPending(s)
    BY <1>1, <1>3, <2>1, SMTT(30) DEF InstallPending, FinishTool, Terminal
  <2>2. CASE ReconcileDecision(s)
    BY <1>1, <1>3, <2>2, SMTT(30) DEF ReconcileDecision, FinishTool, AfterLookup, Fails,
       Lost, Terminal
  <2> QED
    BY <1>10, <2>1, <2>2
<1>11. CASE SendDecision(s) \/ ReceiveDecision(s)
  <2>1. cur[s] \in Tools /\ decision[cur[s]] \in Decisions \cup {"none"}
    BY <1>2, <1>3, <1>11, Zenon DEF SendDecision, ReceiveDecision, StoreTypeOK
  <2>2. CASE SendDecision(s)
    BY <1>1, <2>1, <2>2, SMTT(30) DEF SendDecision
  <2>3. CASE ReceiveDecision(s)
    BY <1>1, <2>1, <2>3, SMTT(30) DEF ReceiveDecision
  <2> QED
    BY <1>11, <2>2, <2>3
<1>12. CASE WaitForDecision(s) \/ WaitCanceled(s) \/ ApprovalTimeout(s)
  BY <1>1, <1>12 DEF WaitForDecision, WaitCanceled, ApprovalTimeout, Fails, Lost
<1>13. CASE CheckDecision(s)
  BY <1>1, <1>13 DEF CheckDecision, ApprovalError, Unregister, FinishTool, Fails, Lost,
     Terminal
<1>14. CASE ResumeRunning(s)
  <2>1. /\ UNCHANGED <<closed, running, revoked, archived, channel, ctx, cur, memMode, term,
                       req, history, crashes>>
        /\ lost' \in 0 .. MaxLost
    BY <1>1, <1>14 DEF ResumeRunning, Fails, Lost
  <2>2. ApplyDecision(s, verdict[s]) \/ ApprovalError(s)
    BY <1>14, Zenon DEF ResumeRunning
  <2> QED
    BY <1>1, <2>1, <2>2, SMTT(30) DEF ApplyDecision, ApprovalError, Unregister,
       FinishTool,
       Terminal
<1>15. CASE ResolvePendingAbort(s)
  <2>1. cur[s] \in Tools /\ decision[cur[s]] \in Decisions \cup {"none"}
    BY <1>2, <1>3, <1>15, Zenon DEF ResolvePendingAbort, StoreTypeOK
  <2>2. /\ UNCHANGED <<closed, running, revoked, archived, channel, ctx, cur, memMode, term,
                       req, history, crashes>>
        /\ lost' \in 0 .. MaxLost
    BY <1>1, <1>15 DEF ResolvePendingAbort, Fails, Lost
  <2>3. \/ ApplyDecision(s, decision[cur[s]])
        \/ ApprovalError(s)
        \/ /\ tries' = [tries EXCEPT ![s] = 1]
           /\ UNCHANGED <<pc, pending, want, verdict>>
    BY <1>15, Zenon DEF ResolvePendingAbort
  <2> QED
    BY <1>1, <2>1, <2>2, <2>3, SMTT(30) DEF ApplyDecision, ApprovalError, Unregister,
       FinishTool, Terminal
<1>16. CASE StartApproved(s)
  BY <1>1, <1>16 DEF StartApproved, FinishTool, Fails, Lost, Terminal, Modes
<1>17. CASE Execute(s) \/ Admit(s) \/ ExecReturns(s)
  BY <1>1, <1>3, <1>17 DEF Execute, Admit, ExecReturns, FinishTool, Terminal
<1>18. CASE FinishFailPending(s) \/ FinishFailLookup(s)
  BY <1>1, <1>18 DEF FinishFailPending, FinishFailLookup, Finished, Again, Leave, Fails,
     Lost, Terminal
<1>19. CASE FinishWrite(s) \/ FinishReconcile(s)
  BY <1>1, <1>3, <1>19 DEF FinishWrite, FinishReconcile, Finished, Again, Leave, Fails,
     Lost, Terminal
<1>20. CASE Announce(s)
  BY <1>1, <1>3, <1>20 DEF Announce, Return
<1> QED
  BY <1>4, <1>5, <1>7, <1>9, <1>10, <1>11, <1>12, <1>13, <1>14, <1>15, <1>16, <1>18,
     <1>19,
     <1>20, <1>6, <1>17, <1>8, Zenon DEF Moves, TurnStep

-----------------------------------------------------------------------------
(* Rows *)

\* A step of a turn changes its own row only, by at most one store call.
LEMMA MoveRows ==
  ASSUME TypeOK, ApprovalInv, NEW s \in Sessions, Moves(s)
  PROVE  /\ \/ UNCHANGED executed /\ [RowChange]_storeVars
            \/ Admit(s)
            \/ \E t \in Tools : CreateToolCall(s, t)
         /\ \A u \in Sessions \ {s} : state'[u] = state[u]
<1> DEFINE Kept == /\ UNCHANGED executed /\ [RowChange]_storeVars
                   /\ \A u \in Sessions \ {s} : state'[u] = state[u]
<1>1. /\ pc[s] \in InvokePC \ {"create"} => cur[s] \in Tools
      /\ pc[s] \in FinishPC => want[s] \in Terminal
  BY CallInHand
<1>2. StoreTypeOK
  BY DEF TypeOK
<1>3. ASSUME \/ UNCHANGED storeVars
             \/ BeginAgentTurn(s)
             \/ \E v \in Settled \cup Busy : UpdateAgentSessionState(s, v)
             \/ \E t \in Tools : \/ FailPendingAgentToolCall(t) \/ StartAgentToolCall(t)
                                 \/ \E v \in Terminal : FinishAgentToolCall(t, v),
             UNCHANGED executed
      PROVE  Kept
  <2>1. [RowChange]_storeVars
    BY <1>3 DEF RowChange
  <2>2. \A u \in Sessions \ {s} : state'[u] = state[u]
    BY <1>2, <1>3, Zenon DEF BeginAgentTurn, UpdateAgentSessionState,
       FailPendingAgentToolCall,
       StartAgentToolCall, FinishAgentToolCall, StoreTypeOK, storeVars, sessionRows
  <2> QED
    BY <1>3, <2>1, <2>2
<1>4. CASE Prepare(s) \/ Begin(s) \/ Reread(s) \/ StoreMessage(s) \/ Snapshot(s)
  BY <1>3, <1>4, Zenon DEF Prepare, Begin, Reread, StoreMessage, Snapshot, Left, history
<1>5. CASE AdapterReturns(s) \/ PersistTurnTranscript(s) \/ Invoke(s) \/ ReleaseTurn(s)
  BY <1>3, <1>5, Zenon DEF AdapterReturns, PersistTurnTranscript, Invoke, ReleaseTurn,
     history
<1>6. CASE Settle(s) \/ FailTurn(s)
  BY <1>3, <1>6, Zenon DEF Settle, FailTurn, Left, history, Settled
<1>7. CASE InstallPending(s) \/ ReconcileDecision(s) \/ SendDecision(s) \/ CheckDecision(s)
  BY <1>3, <1>7, Zenon DEF InstallPending, ReconcileDecision, SendDecision,
     CheckDecision, history
<1>8. CASE ReceiveDecision(s) \/ WaitCanceled(s) \/ ApprovalTimeout(s) \/ Execute(s)
  BY <1>3, <1>8, Zenon DEF ReceiveDecision, WaitCanceled, ApprovalTimeout, Execute,
     history
<1>9. CASE WaitForDecision(s) \/ ResumeRunning(s)
  BY <1>3, <1>9, Zenon DEF WaitForDecision, ResumeRunning, Left, history, Busy
<1>10. CASE ResolvePendingAbort(s) \/ StartApproved(s)
  BY <1>1, <1>3, <1>10, Zenon DEF ResolvePendingAbort, StartApproved, Left, history,
     InvokePC,
     ApprovalPC
<1>11. CASE ExecReturns(s) \/ FinishFailPending(s) \/ FinishFailLookup(s)
  BY <1>1, <1>3, <1>11, Zenon DEF ExecReturns, FinishFailPending, FinishFailLookup,
     Left, history,
     InvokePC, FinishPC
<1>12. CASE FinishWrite(s)
  <2> DEFINE v == IF pc[s] = "finish" THEN want[s] ELSE "failed"
  <2>1. cur[s] \in Tools /\ v \in Terminal
    BY <1>1, <1>12, Zenon DEF FinishWrite, InvokePC, FinishPC, Terminal
  <2>2. UNCHANGED executed /\ (FinishAgentToolCall(cur[s], v) \/ UNCHANGED storeVars)
    BY <1>12, Zenon DEF FinishWrite, Left, history
  <2> QED
    BY <1>3, <2>1, <2>2, Zenon
<1>13. CASE FinishReconcile(s) \/ Announce(s)
  BY <1>3, <1>13, Zenon DEF FinishReconcile, Announce, history
<1>14. CASE Admit(s)
  BY <1>14, Zenon DEF Admit, storeVars, sessionRows
<1>15. ASSUME NEW t \in Tools, CreateToolCall(s, t)
       PROVE  \A u \in Sessions \ {s} : state'[u] = state[u]
  BY <1>15, Zenon DEF CreateToolCall, CreateAgentToolCall, Left, storeVars, sessionRows
<1> QED
  BY <1>4, <1>5, <1>6, <1>7, <1>8, <1>9, <1>10, <1>11, <1>12, <1>13, <1>14, <1>15, Zenon
     DEF Moves, TurnStep

\* A step outside the turns settles no busy row.
LEMMA OutsideRows ==
  ASSUME TypeOK, Outside
  PROVE  [RowChange]_storeVars /\ \A u \in Sessions : Held(u)
<1> DEFINE Kept == [RowChange]_storeVars /\ \A u \in Sessions : Held(u)
<1>1. StoreTypeOK
  BY DEF TypeOK
<1>2. ASSUME UNCHANGED storeVars
      PROVE  Kept
  BY <1>2 DEF Held, storeVars, sessionRows
<1>3. ASSUME NEW s \in Sessions, NEW m \in Modes,
             CreateAgentSession(s, m) \/ UpdateAgentSessionApprovalMode(s, m)
      PROVE  Kept
  BY <1>1, <1>3, Zenon DEF CreateAgentSession, UpdateAgentSessionApprovalMode,
     RowChange, Held,
     StoreTypeOK, Busy
<1>4. ASSUME NEW s \in Sessions,
             \/ DeleteAgentSessionByOwner(s)
             \/ \E to \in Shelving : SetAgentSessionArchived(s, to)
      PROVE  Kept
  BY <1>1, <1>4, Zenon DEF DeleteAgentSessionByOwner, SetAgentSessionArchived,
     RowChange, Held,
     StoreTypeOK, Busy, Settled
<1>5. ASSUME NEW t \in Tools, NEW d \in Decisions, DecideAgentToolCall(t, d)
      PROVE  Kept
  BY <1>5, Zenon DEF DecideAgentToolCall, RowChange, Held, storeVars
<1>6. CASE UnpairDevice \/ ClaimPairing
  BY <1>1, <1>6, Zenon DEF UnpairDevice, ClaimPairing, RowChange, Held, StoreTypeOK,
     Busy, sessionRows
<1>7. ASSUME NEW r \in Requests, Handles(r)
      PROVE  Kept
  <2>1. CASE EndMutation(r) \/ SetArchivedTombstone(r) \/ DeleteTombstone(r)
    BY <1>2, <2>1, Zenon DEF EndMutation, SetArchivedTombstone, DeleteTombstone
  <2>2. CASE SignalDecision(r) \/ MarkDeviceRevoked(r) \/ CancelRevoked(r) \/ BeginMutation(r)
    BY <1>2, <2>2, Zenon DEF SignalDecision, MarkDeviceRevoked, CancelRevoked,
       BeginMutation
  <2>3. ASSUME NEW s \in Sessions, NEW m \in Modes,
               CreateSession(r, s, m) \/ UpdateSessionApprovalMode(r, s, m)
        PROVE  Kept
    BY <1>3, <2>3, Zenon DEF CreateSession, UpdateSessionApprovalMode
  <2>4. ASSUME NEW s \in Sessions,
               \/ StartTurn(r, s) \/ DeleteSession(r, s)
               \/ \E to \in Shelving : SetSessionArchived(r, s, to)
        PROVE  Kept
    BY <1>2, <1>4, <2>4, Zenon DEF StartTurn, DeleteSession, SetSessionArchived
  <2>5. ASSUME NEW t \in Tools, NEW d \in Decisions, Decide(r, t, d)
        PROVE  Kept
    BY <1>5, <2>5, Zenon DEF Decide
  <2>6. CASE Unpair(r)
    BY <1>6, <2>6 DEF Unpair
  <2> QED
    BY <1>7, <2>1, <2>2, <2>3, <2>4, <2>5, <2>6 DEF Handles
<1>8. CASE \E s \in Sessions : TurnTimeout(s) \/ CancelCall(s)
  BY <1>2, <1>8 DEF TurnTimeout, CancelCall
<1>9. CASE Pair \/ Close \/ CloseReturns
  BY <1>2, <1>6, <1>9 DEF Pair, Close, CloseReturns
<1>10. CASE UNCHANGED vars
  BY <1>2, <1>10 DEF vars
<1> QED
  BY <1>7, <1>8, <1>9, <1>10 DEF Outside

\* A step that neither admits an execution nor inserts a tool call leaves the
\* executed calls alone and makes at most one other store call.
LEMMA StepKinds ==
  ASSUME TypeOK, ApprovalInv, [Next]_vars
  PROVE  \/ UNCHANGED executed /\ [RowChange]_storeVars
         \/ \E s \in Sessions : Admit(s)
         \/ \E s \in Sessions, t \in Tools : CreateToolCall(s, t)
<1>1. CASE \E s \in Sessions : Moves(s)
  BY <1>1, MoveRows
<1>2. CASE \E r \in Requests : ReserveTurn(r)
  BY <1>2, ReserveFrame DEF history
<1>3. CASE Outside
  BY <1>3, OutsideRows, OutsideFrame DEF OutsideTypes, history
<1>4. CASE Crash
  BY <1>4 DEF Crash, history
<1> QED
  BY <1>1, <1>2, <1>3, <1>4, StepSplit

\* The service changes rows only through the methods of the store.
LEMMA StoreCalls ==
  ASSUME TypeOK, ApprovalInv, [Next]_vars
  PROVE  [StoreNext]_storeVars
<1>1. CASE \E s \in Sessions : Admit(s)
  BY <1>1 DEF Admit
<1>2. CASE \E s \in Sessions, t \in Tools : CreateToolCall(s, t)
  BY <1>2, Zenon DEF CreateToolCall, Left, InitialStatus, StoreNext, Live
<1> QED
  BY <1>1, <1>2, StepKinds DEF StoreNext
=============================================================================
