---------------------------- MODULE AgentService ----------------------------
(***************************************************************************)
(* The agent service of the server (internal/agent/service.go): turns,     *)
(* approval-gated tool calls, the user's decisions, session management,    *)
(* the device unpair hook and Close, over the rows of AgentStore.          *)
(*                                                                         *)
(* A turn is a goroutine with a program counter per session; an HTTP       *)
(* mutation is a request slot that holds what the handler knows between    *)
(* its store call and its critical section under Service.mu.  Every store  *)
(* call and every critical section is one step.                            *)
(*                                                                         *)
(* A store call made with the turn's context fails once that context is    *)
(* done; one made with a fresh cleanup context does not.  Any of them may  *)
(* also fail for an infrastructure reason (busy, I/O, deadline): MaxLost   *)
(* bounds how often in a behaviour.  A call of a method in Ambiguous may   *)
(* have committed although it failed: its answer was lost, or the re-read  *)
(* that follows its UPDATE failed.                                         *)
(*                                                                         *)
(* Left out: what the events say, audit rows, output text, the runtime's   *)
(* external session id and the message rows.                               *)
(***************************************************************************)
EXTENDS AgentStore

CONSTANTS
  Requests,     \* slots for concurrent HTTP mutations
  Ops,          \* the operations users and operators perform in this instance
  NoTool,       \* no tool call
  Ambiguous,    \* store methods that may commit and still report an error
  MaxLost,      \* bound: store calls that fail for an infrastructure reason
  MaxCrashes    \* bound: hard process crashes

ASSUME NoToolAssumption == NoTool \notin Tools
ASSUME BoundsAssumption == MaxLost \in Nat /\ MaxCrashes \in Nat

VARIABLES
  closed,       \* Service.closed and closeDone: "open", "closing", "closed"
  running,      \* Service.running
  revoked,      \* Service.revoked, the runtime tombstones
  archived,     \* Service.archived
  pending,      \* Service.pending
  channel,      \* pendingDecision.decision, a channel of capacity one
  ctx,          \* turn context: "live", "call" (only this callback), "done"
  pc,           \* where StartTurn, runTurn or Invoke stands for the session
  cur,          \* Invoke: toolCallID
  memMode,      \* turnInvoker.session.ApprovalMode
  verdict,      \* Invoke: the decision received
  want,         \* finishTool: desiredStatus
  tries,        \* attempt counter of the two-attempt loops
  term,         \* finishTool: the status returned, "none" for ""
  req,          \* the HTTP mutations in flight
  executed,     \* history: tool calls handed to RemoteExecutor.Exec
  announced,    \* history: status of the tool_call.completed event sent
  lost,         \* store failures so far
  crashes       \* crashes so far

registry == <<closed, running, revoked, archived, pending, channel>>
locals == <<cur, memMode, verdict, want, tries, term>>
history == <<executed, announced>>
vars == <<storeVars, registry, ctx, pc, locals, req, history, lost, crashes>>

StartPC == {"prepare", "begin", "reread", "message", "abandon"}
ApprovalPC == {"install", "reconcile", "send", "wait", "select", "check",
               "resume", "abort", "start"}
ExecPC == {"execute", "admit", "exec"}
FinishPC == {"failPending", "failLookup", "finish", "finishLookup",
             "compensate", "compensateLookup", "announce"}
InvokePC == {"create"} \cup ApprovalPC \cup ExecPC \cup FinishPC
\* From the re-read of the session to the end of adapter.Run: memMode counts.
AdapterPC == {"message", "snapshot", "adapter"} \cup InvokePC
RunPC == AdapterPC \cup {"persistOk", "persistErr", "settle", "fail"}
PCs == {"none", "release"} \cup StartPC \cup RunPC

Slot(op, s, t, a) == [op |-> op, sess |-> s, tool |-> t, arg |-> a]
FreeSlot == Slot("free", NoSession, NoTool, "none")
\* Handlers counted by Service.mutations: admitted by beginMutation, or past
\* their store call and about to enter their critical section.
SessionOps == {"reserve", "delete"} \cup Shelving
Mutations == {"begun", "signal"} \cup SessionOps
Unpairing == {"mark", "cancel"}
Slots ==
  [op : {"free", "begun", "join"} \cup Unpairing,
   sess : {NoSession}, tool : {NoTool}, arg : {"none"}]
  \cup [op : SessionOps, sess : Sessions, tool : {NoTool}, arg : {"none"}]
  \cup [op : {"signal"}, sess : {NoSession}, tool : Tools, arg : Decisions]

RegistryTypeOK ==
  /\ closed \in {"open", "closing", "closed"}
  /\ running \in SUBSET Sessions
  /\ revoked \in SUBSET Sessions
  /\ archived \in SUBSET Sessions
  /\ pending \in SUBSET Tools
  /\ channel \in [Tools -> Decisions \cup {"none"}]

TurnTypeOK ==
  /\ ctx \in [Sessions -> {"live", "call", "done"}]
  /\ pc \in [Sessions -> PCs]
  /\ cur \in [Sessions -> Tools \cup {NoTool}]
  /\ memMode \in [Sessions -> Modes]
  /\ verdict \in [Sessions -> Decisions \cup {"none"}]
  /\ want \in [Sessions -> Terminal \cup {"none"}]
  /\ tries \in [Sessions -> {0, 1}]
  /\ term \in [Sessions -> Terminal \cup {"none"}]

TypeOK ==
  /\ StoreTypeOK
  /\ RegistryTypeOK
  /\ TurnTypeOK
  /\ req \in [Requests -> Slots]
  /\ executed \in SUBSET Tools
  /\ announced \in [Tools -> Terminal \cup {"none"}]
  /\ lost \in 0 .. MaxLost
  /\ crashes \in 0 .. MaxCrashes

PerSession(v) == [s \in Sessions |-> v]
PerTool(v) == [t \in Tools |-> v]

Init ==
  /\ StoreInit
  /\ closed = "open"
  /\ running = {} /\ revoked = {} /\ archived = {} /\ pending = {}
  /\ channel = PerTool("none")
  /\ ctx = PerSession("live")
  /\ pc = PerSession("none")
  /\ cur = PerSession(NoTool)
  /\ memMode = PerSession("per_command")
  /\ verdict = PerSession("none")
  /\ want = PerSession("none")
  /\ tries = PerSession(0)
  /\ term = PerSession("none")
  /\ req = [r \in Requests |-> FreeSlot]
  /\ executed = {}
  /\ announced = PerTool("none")
  /\ lost = 0
  /\ crashes = 0

-----------------------------------------------------------------------------
Goto(s, label) == pc' = [pc EXCEPT ![s] = label]

Lost == lost < MaxLost /\ lost' = lost + 1

\* A store call returns an error: because of c, or for want of the store.
Fails(c) == (c /\ UNCHANGED lost) \/ Lost

\* What an erroneous call of the method left behind: nothing, or its write.
Left(method, write) ==
  UNCHANGED storeVars \/ (method \in Ambiguous /\ lost' # lost /\ write)

CtxErr(s) == ctx[s] # "live"

-----------------------------------------------------------------------------
(* Session management: one store statement, then the in-memory part. *)

Put(r, op, s, t, a) == req' = [req EXCEPT ![r] = Slot(op, s, t, a)]
Free(r) == req' = [req EXCEPT ![r] = FreeSlot]

\* beginMutation.  A handler admitted before Close may still commit after it:
\* Close cancels the request's context from another goroutine.
BeginMutation(r) ==
  /\ closed = "open"
  /\ req[r].op = "free"
  /\ Put(r, "begun", NoSession, NoTool, "none")
  /\ UNCHANGED <<storeVars, registry, ctx, pc, locals, history, lost, crashes>>

\* The handler returns an error: bad input, a missing row, a conflict, a done
\* context, a failing store.
EndMutation(r) ==
  /\ req[r].op = "begun"
  /\ Free(r)
  /\ UNCHANGED <<storeVars, registry, ctx, pc, locals, history, lost, crashes>>

CreateSession(r, s, m) ==
  /\ req[r].op = "begun"
  /\ CreateAgentSession(s, m)
  /\ Free(r)
  /\ UNCHANGED <<registry, ctx, pc, locals, history, lost, crashes>>

UpdateSessionApprovalMode(r, s, m) ==
  /\ req[r].op = "begun"
  /\ UpdateAgentSessionApprovalMode(s, m)
  /\ Free(r)
  /\ UNCHANGED <<registry, ctx, pc, locals, history, lost, crashes>>

\* The store's second statement re-reads the row with the request's context:
\* when that fails the handler returns and the in-memory part is skipped.
SetSessionArchived(r, s, to) ==
  /\ req[r].op = "begun"
  /\ SetAgentSessionArchived(s, to)
  /\ \/ Put(r, to, s, NoTool, "none")
     \/ Free(r)
  /\ UNCHANGED <<registry, ctx, pc, locals, history, lost, crashes>>

SetArchivedTombstone(r) ==
  /\ req[r].op \in {"archive", "restore"}
  /\ archived' = IF req[r].op = "archive" THEN archived \cup {req[r].sess}
                                          ELSE archived \ {req[r].sess}
  /\ Free(r)
  /\ UNCHANGED <<storeVars, closed, running, revoked, pending, channel, ctx,
                 pc, locals, history, lost, crashes>>

DeleteSession(r, s) ==
  /\ req[r].op = "begun"
  /\ DeleteAgentSessionByOwner(s)
  /\ Put(r, "delete", s, NoTool, "none")
  /\ UNCHANGED <<registry, ctx, pc, locals, history, lost, crashes>>

DeleteTombstone(r) ==
  /\ req[r].op = "delete"
  /\ archived' = archived \ {req[r].sess}
  /\ revoked' = revoked \cup {req[r].sess}
  /\ Free(r)
  /\ UNCHANGED <<storeVars, closed, running, pending, channel, ctx, pc, locals,
                 history, lost, crashes>>

-----------------------------------------------------------------------------
(* StartTurn.  Its store calls use the request's context, which ends when  *)
(* the client goes away (at any moment) or when Close cancels the root     *)
(* context: each of them may fail.                                         *)

\* The owner lookup that precedes the reservation.
StartTurn(r, s) ==
  /\ req[r].op = "begun"
  /\ Visible(s)
  /\ Put(r, "reserve", s, NoTool, "none")
  /\ UNCHANGED <<storeVars, registry, ctx, pc, locals, history, lost, crashes>>

\* Mutant: two turns of one session at a time.
ReservableTwice(s) == closed = "open" /\ s \notin revoked \cup archived

Reservable(s) ==
  closed = "open" /\ s \notin revoked /\ s \notin archived /\ s \notin running

\* Mutant: a refused reservation does not end its mutation.
ReserveLeaks(r) ==
  LET s == req[r].sess IN
  /\ req[r].op = "reserve"
  /\ \/ /\ Reservable(s)
        /\ Free(r)
        /\ running' = running \cup {s}
        /\ Goto(s, "prepare")
     \/ ~Reservable(s) /\ UNCHANGED <<running, pc, req>>
  /\ UNCHANGED <<storeVars, closed, revoked, archived, pending, channel, ctx,
                 locals, history, lost, crashes>>

\* reserveTurn, or its refusal.
ReserveTurn(r) ==
  LET s == req[r].sess IN
  /\ req[r].op = "reserve"
  /\ Free(r)
  /\ \/ /\ Reservable(s)
        /\ running' = running \cup {s}
        /\ Goto(s, "prepare")
     \/ ~Reservable(s) /\ UNCHANGED <<running, pc>>
  /\ UNCHANGED <<storeVars, closed, revoked, archived, pending, channel, ctx,
                 locals, history, lost, crashes>>

\* The runtime's session preparation and preflight: no row of the model.
Prepare(s) ==
  /\ pc[s] = "prepare"
  /\ \/ Goto(s, "begin")
     \/ Goto(s, "release")
  /\ UNCHANGED <<storeVars, registry, ctx, locals, req, history, lost, crashes>>

\* Another turn's row conflicts without being touched; any other error marks
\* the session failed.
Begin(s) ==
  /\ pc[s] = "begin"
  /\ \/ BeginAgentTurn(s) /\ Goto(s, "reread") /\ UNCHANGED lost
     \/ BeginConflict(s) /\ Goto(s, "release") /\ UNCHANGED <<storeVars, lost>>
     \/ Fails(TRUE) /\ Left("begin", BeginAgentTurn(s)) /\ Goto(s, "abandon")
  /\ UNCHANGED <<registry, ctx, locals, req, history, crashes>>

\* The session is read again after BeginAgentTurn: this row's approval mode is
\* the one the whole turn works with.
Reread(s) ==
  /\ pc[s] = "reread"
  /\ \/ /\ Visible(s)
        /\ memMode' = [memMode EXCEPT ![s] = mode[s]]
        /\ Goto(s, "message")
     \/ Goto(s, "abandon") /\ UNCHANGED memMode
  /\ UNCHANGED <<storeVars, registry, ctx, cur, verdict, want, tries, term, req,
                 history, lost, crashes>>

StoreMessage(s) ==
  /\ pc[s] = "message"
  /\ \/ Visible(s) /\ Goto(s, "snapshot")
     \/ Goto(s, "abandon")
  /\ UNCHANGED <<storeVars, registry, ctx, locals, req, history, lost, crashes>>

-----------------------------------------------------------------------------
(* runTurn *)

Snapshot(s) ==
  /\ pc[s] = "snapshot"
  /\ \/ ~CtxErr(s) /\ Visible(s) /\ Goto(s, "adapter") /\ UNCHANGED lost
     \/ /\ Fails(CtxErr(s) \/ ~Visible(s))
        /\ Goto(s, IF s \in revoked THEN "release" ELSE "fail")
  /\ UNCHANGED <<storeVars, registry, ctx, locals, req, history, crashes>>

\* adapter.Run returns; a nil error is replaced by the context's error.
AdapterReturns(s) ==
  /\ pc[s] = "adapter"
  /\ \/ ctx[s] # "done" /\ Goto(s, "persistOk")
     \/ Goto(s, "persistErr")
  /\ UNCHANGED <<storeVars, registry, ctx, locals, req, history, lost, crashes>>

\* The transcript is empty, is stored, or cannot be stored.
PersistTurnTranscript(s) ==
  /\ \/ /\ pc[s] = "persistOk"
        /\ Goto(s, "settle") /\ UNCHANGED lost
     \/ /\ pc[s] = "persistErr"
        /\ Goto(s, "fail") /\ UNCHANGED lost
     \/ /\ pc[s] \in {"persistOk", "persistErr"}
        /\ Fails(~Visible(s))
        /\ Goto(s, "fail")
  /\ UNCHANGED <<storeVars, registry, ctx, locals, req, history, crashes>>

\* persistSessionState(idle): two attempts, a missing row ends the turn.
Settle(s) ==
  /\ pc[s] = "settle"
  /\ \/ /\ UpdateAgentSessionState(s, "idle")
        /\ Goto(s, "release")
        /\ tries' = [tries EXCEPT ![s] = 0]
        /\ UNCHANGED lost
     \/ /\ ~Visible(s)
        /\ Goto(s, "release")
        /\ tries' = [tries EXCEPT ![s] = 0]
        /\ UNCHANGED <<storeVars, lost>>
     \/ /\ Lost
        /\ Goto(s, IF tries[s] = 0 THEN "settle" ELSE "fail")
        /\ tries' = [tries EXCEPT ![s] = 1 - @]
        /\ Left("state", UpdateAgentSessionState(s, "idle"))
  /\ UNCHANGED <<registry, ctx, cur, memMode, verdict, want, term, req, history,
                 crashes>>

\* Mutant: one attempt to record the failure.
NoSecondAttempt(s) == "release"

\* The handler of a failed turn tries its update twice.
AfterLostUpdate(s) == IF tries[s] = 0 THEN pc[s] ELSE "release"

\* failTurn, and the same persistSessionState(failed) on StartTurn's error
\* paths: nothing for a revoked session, two attempts otherwise.
FailTurn(s) ==
  /\ pc[s] \in {"fail", "abandon"}
  /\ \/ /\ s \in revoked \/ ~Visible(s)
        /\ Goto(s, "release")
        /\ tries' = [tries EXCEPT ![s] = 0]
        /\ UNCHANGED <<storeVars, lost>>
     \/ /\ UpdateAgentSessionState(s, "failed")
        /\ Goto(s, "release")
        /\ tries' = [tries EXCEPT ![s] = 0]
        /\ UNCHANGED lost
     \/ /\ Lost
        /\ Goto(s, AfterLostUpdate(s))
        /\ tries' = [tries EXCEPT ![s] = 1 - @]
        /\ Left("state", UpdateAgentSessionState(s, "failed"))
  /\ UNCHANGED <<registry, ctx, cur, memMode, verdict, want, term, req, history,
                 crashes>>

\* Mutant: the registration outlives the turn.
ReleaseKeepsRunning(s) ==
  /\ pc[s] = "release"
  /\ running' = running
  /\ pending' = {t \in pending : sessionOf[t] # s}
  /\ ctx' = [ctx EXCEPT ![s] = "live"]
  /\ memMode' = [memMode EXCEPT ![s] = "per_command"]
  /\ Goto(s, "none")
  /\ UNCHANGED <<storeVars, closed, revoked, archived, channel, cur, verdict, want,
                 tries, term, req, history, lost, crashes>>

\* releaseTurn; the turn's context and its copy of the session go with it.
ReleaseTurn(s) ==
  /\ pc[s] = "release"
  /\ running' = running \ {s}
  /\ pending' = {t \in pending : sessionOf[t] # s}
  /\ ctx' = [ctx EXCEPT ![s] = "live"]
  /\ memMode' = [memMode EXCEPT ![s] = "per_command"]
  /\ Goto(s, "none")
  /\ UNCHANGED <<storeVars, closed, revoked, archived, channel, cur, verdict, want,
                 tries, term, req, history, lost, crashes>>

-----------------------------------------------------------------------------
(* turnInvoker.Invoke: the gate lets one callback of a turn through.       *)

Invoke(s) ==
  /\ pc[s] = "adapter"
  /\ ~CtxErr(s)
  /\ Goto(s, "create")
  /\ UNCHANGED <<storeVars, registry, ctx, locals, req, history, lost, crashes>>

\* Back in adapter.Run: the callback's own context is gone with it.
Return(s) ==
  /\ Goto(s, "adapter")
  /\ ctx' = [ctx EXCEPT ![s] = IF @ = "call" THEN "live" ELSE @]

\* Mutant: the approval gate is skipped.
Ungated(s) == "execute"

InitialStatus(s) == IF memMode[s] = "per_command" THEN "pending" ELSE "started"

\* The gate: only the invoker's copy of the mode is consulted.
AfterCreate(s) == IF memMode[s] = "per_command" THEN "install" ELSE "execute"

\* The model's supply of tool call ids is Tools; a turn that asks for one more
\* sees id.New fail.
CreateToolCall(s, t) ==
  /\ pc[s] = "create"
  /\ \/ /\ ~CtxErr(s)
        /\ CreateAgentToolCall(s, t, InitialStatus(s))
        /\ cur' = [cur EXCEPT ![s] = t]
        /\ Goto(s, AfterCreate(s))
        /\ UNCHANGED <<ctx, lost>>
     \/ /\ Fails(CtxErr(s) \/ ~Visible(s) \/ "absent" \notin {status[u] : u \in Tools})
        /\ Left("create", CreateAgentToolCall(s, t, InitialStatus(s)))
        /\ Return(s)
        /\ UNCHANGED cur
  /\ UNCHANGED <<registry, memMode, verdict, want, tries, term, req, history,
                 crashes>>

\* finishTool(desired) is called.
FinishTool(s, desired) ==
  /\ want' = [want EXCEPT ![s] = desired]
  /\ tries' = [tries EXCEPT ![s] = 0]
  /\ Goto(s, IF desired = "failed" THEN "failPending" ELSE "finish")

InstallPending(s) ==
  /\ pc[s] = "install"
  /\ \/ /\ closed = "open" /\ s \notin revoked
        /\ pending' = pending \cup {cur[s]}
        /\ Goto(s, "reconcile")
        /\ UNCHANGED <<want, tries>>
     \/ /\ closed # "open" \/ s \in revoked
        /\ FinishTool(s, "failed")
        /\ UNCHANGED pending
  /\ UNCHANGED <<storeVars, closed, running, revoked, archived, channel, ctx, cur,
                 memMode, verdict, term, req, history, lost, crashes>>

\* Mutant: a decision recorded before the waiter is not looked for.
NeverSend(t) == "wait"

AfterLookup(t) == IF decision[t] = "none" THEN "wait" ELSE "send"

\* installPending looks the row up after registering the waiter.
ReconcileDecision(s) ==
  LET t == cur[s] IN
  /\ pc[s] = "reconcile"
  /\ \/ /\ ToolVisible(t)
        /\ Goto(s, AfterLookup(t))
        /\ UNCHANGED <<pending, want, tries, lost>>
     \/ /\ Fails(~ToolVisible(t))
        /\ pending' = pending \ {t}
        /\ FinishTool(s, "failed")
  /\ UNCHANGED <<storeVars, closed, running, revoked, archived, channel, ctx, cur,
                 memMode, verdict, term, req, history, crashes>>

\* The blocking send of the looked-up decision: it waits for room.
SendDecision(s) ==
  /\ pc[s] = "send"
  /\ channel[cur[s]] = "none"
  /\ channel' = [channel EXCEPT ![cur[s]] = decision[cur[s]]]
  /\ Goto(s, "wait")
  /\ UNCHANGED <<storeVars, closed, running, revoked, archived, pending, ctx,
                 locals, req, history, lost, crashes>>

\* waitForDecision: the durable waiting_approval state.
WaitForDecision(s) ==
  /\ pc[s] = "wait"
  /\ \/ /\ ~CtxErr(s)
        /\ UpdateAgentSessionState(s, "waiting_approval")
        /\ Goto(s, "select")
        /\ UNCHANGED lost
     \/ /\ Fails(CtxErr(s) \/ ~Visible(s))
        /\ Left("state", UpdateAgentSessionState(s, "waiting_approval"))
        /\ Goto(s, "abort")
  /\ UNCHANGED <<registry, ctx, locals, req, history, crashes>>

\* The three arms of waitForDecision's select.
ReceiveDecision(s) ==
  LET t == cur[s] IN
  /\ pc[s] = "select"
  /\ channel[t] # "none"
  /\ verdict' = [verdict EXCEPT ![s] = channel[t]]
  /\ channel' = [channel EXCEPT ![t] = "none"]
  /\ Goto(s, "check")
  /\ UNCHANGED <<storeVars, closed, running, revoked, archived, pending, ctx, cur,
                 memMode, want, tries, term, req, history, lost, crashes>>

ApprovalTimeout(s) ==
  /\ pc[s] = "select"
  /\ Goto(s, "abort")
  /\ UNCHANGED <<storeVars, registry, ctx, locals, req, history, lost, crashes>>

WaitCanceled(s) ==
  /\ pc[s] = "select"
  /\ CtxErr(s)
  /\ Goto(s, "abort")
  /\ UNCHANGED <<storeVars, registry, ctx, locals, req, history, lost, crashes>>

\* waitForDecision returns: its deferred delete of the waiter is part of the
\* returning step, since nothing reads the channel in between.
Unregister(s) == pending' = pending \ {cur[s]}

\* What Invoke does with the decision waitForDecision returned.
ApplyDecision(s, d) ==
  /\ Unregister(s)
  /\ verdict' = [verdict EXCEPT ![s] = d]
  /\ IF d = "deny" THEN FinishTool(s, "denied")
     ELSE /\ Goto(s, "start")
          /\ tries' = [tries EXCEPT ![s] = 0]
          /\ UNCHANGED want

\* What Invoke does with the error waitForDecision returned.
ApprovalError(s) ==
  /\ Unregister(s)
  /\ FinishTool(s, "failed")
  /\ UNCHANGED verdict

\* The received decision is compared with the row.
DecisionStands(t, d) == ToolVisible(t) /\ status[t] = "pending" /\ decision[t] = d

CheckDecision(s) ==
  /\ pc[s] = "check"
  /\ \/ /\ DecisionStands(cur[s], verdict[s])
        /\ Goto(s, "resume")
        /\ UNCHANGED <<pending, want, tries, verdict, lost>>
     \/ /\ Fails(~DecisionStands(cur[s], verdict[s]))
        /\ ApprovalError(s)
  /\ UNCHANGED <<storeVars, closed, running, revoked, archived, channel, ctx, cur,
                 memMode, term, req, history, crashes>>

ResumeRunning(s) ==
  /\ pc[s] = "resume"
  /\ \/ /\ ~CtxErr(s)
        /\ UpdateAgentSessionState(s, "running")
        /\ ApplyDecision(s, verdict[s])
        /\ UNCHANGED lost
     \/ /\ Fails(CtxErr(s) \/ ~Visible(s))
        /\ Left("state", UpdateAgentSessionState(s, "running"))
        /\ ApprovalError(s)
  /\ UNCHANGED <<closed, running, revoked, archived, channel, ctx, cur, memMode,
                 term, req, history, crashes>>

\* resolvePendingAbort: the abort contends with Decide in the store; a decision
\* that won is resumed.  Two attempts.
ResolvePendingAbort(s) ==
  LET t == cur[s] IN
  /\ pc[s] = "abort"
  /\ \/ /\ FailPendingAgentToolCall(t)
        /\ ApprovalError(s)
        /\ UNCHANGED lost
     \/ /\ FailPendingConflict(t)
        /\ IF status[t] = "pending" THEN ApplyDecision(s, decision[t])
                                    ELSE ApprovalError(s)
        /\ UNCHANGED <<storeVars, lost>>
     \/ /\ Fails(~ToolVisible(t))
        /\ \/ /\ tries[s] = 0
              /\ tries' = [tries EXCEPT ![s] = 1]
              /\ UNCHANGED <<pc, pending, want, verdict>>
           \/ tries[s] = 1 /\ ApprovalError(s)
        /\ Left("fail", FailPendingAgentToolCall(t))
  /\ UNCHANGED <<closed, running, revoked, archived, channel, ctx, cur, memMode,
                 term, req, history, crashes>>

\* An approved call is started; approve_session upgrades the invoker's copy of
\* the approval mode for the rest of the turn.
StartApproved(s) ==
  LET t == cur[s] IN
  /\ pc[s] = "start"
  /\ \/ /\ ~CtxErr(s)
        /\ StartAgentToolCall(t)
        /\ memMode' = [memMode EXCEPT ![s] =
                         IF verdict[s] = "approve_session" THEN "full_access" ELSE @]
        /\ Goto(s, "execute")
        /\ UNCHANGED <<want, tries, lost>>
     \/ /\ Fails(\/ CtxErr(s) \/ ~ToolVisible(t)
                 \/ status[t] # "pending" \/ decision[t] \notin Approvals)
        /\ Left("start", StartAgentToolCall(t))
        /\ FinishTool(s, "failed")
        /\ UNCHANGED memMode
  /\ UNCHANGED <<registry, ctx, cur, verdict, term, req, history, crashes>>

-----------------------------------------------------------------------------
(* execute *)

\* The first cancellation check, the owner lookup and the online check.
Execute(s) ==
  /\ pc[s] = "execute"
  /\ \/ /\ ~CtxErr(s) /\ s \notin revoked /\ owned
        /\ Goto(s, "admit")
        /\ UNCHANGED <<want, tries>>
     \/ FinishTool(s, "failed")
  /\ UNCHANGED <<storeVars, registry, ctx, cur, memMode, verdict, term, req,
                 history, lost, crashes>>

\* The second cancellation check; then the command goes to the executor.
Admit(s) ==
  /\ pc[s] = "admit"
  /\ \/ /\ ~CtxErr(s) /\ s \notin revoked
        /\ executed' = executed \cup {cur[s]}
        /\ Goto(s, "exec")
        /\ UNCHANGED <<want, tries>>
     \/ /\ CtxErr(s) \/ s \in revoked
        /\ FinishTool(s, "failed")
        /\ UNCHANGED executed
  /\ UNCHANGED <<storeVars, registry, ctx, cur, memMode, verdict, term, req,
                 announced, lost, crashes>>

\* The executor answers, or fails, times out or is canceled.
ExecReturns(s) ==
  /\ pc[s] = "exec"
  /\ \/ FinishTool(s, "completed")
     \/ FinishTool(s, "failed")
  /\ UNCHANGED <<storeVars, registry, ctx, cur, memMode, verdict, term, req,
                 history, lost, crashes>>

-----------------------------------------------------------------------------
(* finishTool *)

\* finishTool returns the status v ("none" for the empty string).
Finished(s, v) ==
  /\ term' = [term EXCEPT ![s] = v]
  /\ tries' = [tries EXCEPT ![s] = 0]
  /\ Goto(s, "announce")

\* Mutant: the event is published although the write failed.
AgainAnnounced(s, label) == tries[s] = 0 /\ Finished(s, want[s])

\* The next attempt of a two-attempt loop, at label; then what follows it.
Again(s, label) ==
  /\ tries[s] = 0
  /\ tries' = [tries EXCEPT ![s] = 1]
  /\ Goto(s, label)
  /\ UNCHANGED term

Leave(s, label) ==
  /\ tries' = [tries EXCEPT ![s] = 0]
  /\ Goto(s, label)
  /\ UNCHANGED term

\* A failure first contends with Decide for an undecided pending row.
FinishFailPending(s) ==
  LET t == cur[s] IN
  /\ pc[s] = "failPending"
  /\ \/ /\ FailPendingAgentToolCall(t)
        /\ Finished(s, "failed")
        /\ UNCHANGED lost
     \/ /\ FailPendingConflict(t)
        /\ IF status[t] \in Terminal THEN Finished(s, status[t])
                                     ELSE Leave(s, "failLookup")
        /\ UNCHANGED <<storeVars, lost>>
     \/ /\ Fails(~ToolVisible(t))
        /\ Left("fail", FailPendingAgentToolCall(t))
        /\ Again(s, "failPending") \/ (tries[s] = 1 /\ Leave(s, "failLookup"))
  /\ UNCHANGED <<registry, ctx, cur, memMode, verdict, want, req, history, crashes>>

\* An undecided row that is still pending is given up.
FinishFailLookup(s) ==
  LET t == cur[s] IN
  /\ pc[s] = "failLookup"
  /\ \/ /\ ToolVisible(t) /\ Undecided(t)
        /\ Finished(s, "none")
        /\ UNCHANGED lost
     \/ /\ Fails(~ToolVisible(t) \/ ~Undecided(t))
        /\ Leave(s, "finish")
  /\ UNCHANGED <<storeVars, registry, ctx, cur, memMode, verdict, want, req,
                 history, crashes>>

\* FinishAgentToolCall with the desired status, or with failed to compensate.
FinishWrite(s) ==
  LET t == cur[s]
      v == IF pc[s] = "finish" THEN want[s] ELSE "failed"
  IN
  /\ pc[s] \in {"finish", "compensate"}
  /\ \/ /\ FinishAgentToolCall(t, v)
        /\ Finished(s, v)
        /\ UNCHANGED lost
     \/ /\ Fails(~ToolVisible(t) \/ ~Finishable(t, v))
        /\ Left("finish", FinishAgentToolCall(t, v))
        /\ Goto(s, IF pc[s] = "finish" THEN "finishLookup" ELSE "compensateLookup")
        /\ UNCHANGED <<term, tries>>
  /\ UNCHANGED <<registry, ctx, cur, memMode, verdict, want, req, history, crashes>>

\* The row is read after a failed write: a terminal one is the answer.
FinishReconcile(s) ==
  LET t == cur[s]
      first == pc[s] = "finishLookup"
      terminal == ToolVisible(t) /\ status[t] \in Terminal
  IN
  /\ pc[s] \in {"finishLookup", "compensateLookup"}
  /\ \/ terminal /\ Finished(s, status[t]) /\ UNCHANGED lost
     \/ /\ Fails(~terminal)
        /\ \/ Again(s, IF first THEN "finish" ELSE "compensate")
           \/ /\ tries[s] = 1
              /\ IF first /\ want[s] # "failed" THEN Leave(s, "compensate")
                                                ELSE Finished(s, "none")
  /\ UNCHANGED <<storeVars, registry, ctx, cur, memMode, verdict, want, req,
                 history, crashes>>

\* tool_call.completed is published unless the session is revoked or archived
\* (after Close the hub has nobody left to deliver it to), and Invoke returns to
\* the adapter.
Announce(s) ==
  /\ pc[s] = "announce"
  /\ announced' = IF term[s] # "none" /\ s \notin revoked \cup archived
                  THEN [announced EXCEPT ![cur[s]] = term[s]] ELSE announced
  /\ Return(s)
  /\ cur' = [cur EXCEPT ![s] = NoTool]
  /\ verdict' = [verdict EXCEPT ![s] = "none"]
  /\ want' = [want EXCEPT ![s] = "none"]
  /\ term' = [term EXCEPT ![s] = "none"]
  /\ UNCHANGED <<storeVars, registry, memMode, tries, req, executed, lost, crashes>>

-----------------------------------------------------------------------------
(* Decide: the durable decision, then the waiter is woken.                 *)

Decide(r, t, d) ==
  /\ req[r].op = "begun"
  /\ DecideAgentToolCall(t, d)
  /\ Put(r, "signal", NoSession, t, d)
  /\ UNCHANGED <<registry, ctx, pc, locals, history, lost, crashes>>

\* A non-blocking send to a registered waiter of a session not revoked.
SignalDecision(r) ==
  LET t == req[r].tool IN
  /\ req[r].op = "signal"
  /\ channel' = IF t \in pending /\ sessionOf[t] \notin revoked /\ channel[t] = "none"
                THEN [channel EXCEPT ![t] = req[r].arg] ELSE channel
  /\ Free(r)
  /\ UNCHANGED <<storeVars, closed, running, revoked, archived, pending, ctx, pc,
                 locals, history, lost, crashes>>

-----------------------------------------------------------------------------
(* device.Service.Unpair, as far as the agent service sees it, and pairing *)

\* The device gate lets one unpair through up to the end of its cancellations.
Unpair(r) ==
  /\ req[r].op = "free"
  /\ \A q \in Requests : req[q].op \notin Unpairing
  /\ UnpairDevice
  /\ Put(r, "mark", NoSession, NoTool, "none")
  /\ UNCHANGED <<registry, ctx, pc, locals, history, lost, crashes>>

\* MarkDeviceRevoked under Service.mu, with the session ids of the commit.
MarkDeviceRevoked(r) ==
  /\ req[r].op = "mark"
  /\ revoked' = revoked \cup {s \in Sessions : state[s] = "revoked"}
  /\ Put(r, "cancel", NoSession, NoTool, "none")
  /\ UNCHANGED <<storeVars, closed, running, archived, pending, channel, ctx, pc,
                 locals, history, lost, crashes>>

\* Its cancellations after the unlock, still under the gate; then the same in
\* InvalidateDevice, after the gate.  The wait for the turns is not modelled:
\* it has a deadline and nothing depends on its outcome.
CancelRevoked(r) ==
  /\ req[r].op \in {"cancel", "join"}
  /\ ctx' = [s \in Sessions |-> IF s \in running \cap revoked THEN "done" ELSE ctx[s]]
  /\ IF req[r].op = "cancel" THEN Put(r, "join", NoSession, NoTool, "none") ELSE Free(r)
  /\ UNCHANGED <<storeVars, registry, pc, locals, history, lost, crashes>>

Pair ==
  /\ ClaimPairing
  /\ UNCHANGED <<registry, ctx, pc, locals, req, history, lost, crashes>>

-----------------------------------------------------------------------------
(* Contexts, Close and crashes *)

\* The turn's overall timeout, or CancelDevice.
TurnTimeout(s) ==
  /\ s \in running
  /\ ctx[s] # "done"
  /\ ctx' = [ctx EXCEPT ![s] = "done"]
  /\ UNCHANGED <<storeVars, registry, pc, locals, req, history, lost, crashes>>

\* The adapter gives up one callback only, as the capability bridge does when
\* its HTTP caller disconnects.
CancelCall(s) ==
  /\ pc[s] \in InvokePC
  /\ ctx[s] = "live"
  /\ ctx' = [ctx EXCEPT ![s] = "call"]
  /\ UNCHANGED <<storeVars, registry, pc, locals, req, history, lost, crashes>>

Close ==
  /\ closed = "open"
  /\ closed' = "closing"
  /\ ctx' = [s \in Sessions |-> IF s \in running THEN "done" ELSE ctx[s]]
  /\ UNCHANGED <<storeVars, running, revoked, archived, pending, channel, pc,
                 locals, req, history, lost, crashes>>

MutationsDone ==
  /\ \A r \in Requests : req[r].op \notin Mutations
  /\ \A s \in Sessions : pc[s] \notin StartPC

\* Mutant: Close does not wait for the turns.
TurnsForgotten == TRUE

TurnsDone == running = {}

\* mutations.Wait and turns.Wait have both returned.
CloseReturns ==
  /\ closed = "closing"
  /\ MutationsDone
  /\ TurnsDone
  /\ closed' = "closed"
  /\ UNCHANGED <<storeVars, running, revoked, archived, pending, channel, ctx, pc,
                 locals, req, history, lost, crashes>>

\* The process dies and starts again: only the rows survive.
Crash ==
  /\ crashes < MaxCrashes
  /\ crashes' = crashes + 1
  /\ closed' = "open"
  /\ running' = {} /\ revoked' = {} /\ archived' = {} /\ pending' = {}
  /\ channel' = PerTool("none")
  /\ ctx' = PerSession("live")
  /\ pc' = PerSession("none")
  /\ cur' = PerSession(NoTool)
  /\ memMode' = PerSession("per_command")
  /\ verdict' = PerSession("none")
  /\ want' = PerSession("none")
  /\ tries' = PerSession(0)
  /\ term' = PerSession("none")
  /\ req' = [r \in Requests |-> FreeSlot]
  /\ UNCHANGED <<storeVars, history, lost>>

-----------------------------------------------------------------------------
\* The steps of a turn that depend on nobody else's will.
TurnStep(s) ==
  \/ Prepare(s) \/ Begin(s) \/ Reread(s) \/ StoreMessage(s)
  \/ Snapshot(s) \/ AdapterReturns(s) \/ PersistTurnTranscript(s)
  \/ Settle(s) \/ FailTurn(s) \/ ReleaseTurn(s)
  \/ Invoke(s) \/ \E t \in Tools : CreateToolCall(s, t)
  \/ InstallPending(s) \/ ReconcileDecision(s) \/ SendDecision(s)
  \/ WaitForDecision(s) \/ ReceiveDecision(s) \/ WaitCanceled(s)
  \/ CheckDecision(s) \/ ResumeRunning(s) \/ ResolvePendingAbort(s)
  \/ StartApproved(s) \/ Execute(s) \/ Admit(s) \/ ExecReturns(s)
  \/ FinishFailPending(s) \/ FinishFailLookup(s) \/ FinishWrite(s)
  \/ FinishReconcile(s) \/ Announce(s)

\* The in-memory part of a handler whose store call has returned.
RequestStep(r) ==
  \/ EndMutation(r)
  \/ SetArchivedTombstone(r) \/ DeleteTombstone(r) \/ ReserveTurn(r)
  \/ SignalDecision(r) \/ MarkDeviceRevoked(r) \/ CancelRevoked(r)

UserStep ==
  \/ \E r \in Requests :
       \/ BeginMutation(r)
       \/ \E s \in Sessions, m \in Modes :
            \/ CreateSession(r, s, m)
            \/ "mode" \in Ops /\ UpdateSessionApprovalMode(r, s, m)
       \/ \E s \in Sessions :
            \/ StartTurn(r, s)
            \/ "delete" \in Ops /\ DeleteSession(r, s)
            \/ /\ "archive" \in Ops
               /\ \E to \in Shelving : SetSessionArchived(r, s, to)
       \/ \E t \in Tools, d \in Decisions : Decide(r, t, d)
       \/ "unpair" \in Ops /\ Unpair(r)
  \/ "pair" \in Ops /\ Pair
  \/ "close" \in Ops /\ Close

Next ==
  \/ \E s \in Sessions :
       TurnStep(s) \/ ApprovalTimeout(s) \/ TurnTimeout(s) \/ CancelCall(s)
  \/ \E r \in Requests : RequestStep(r)
  \/ UserStep
  \/ CloseReturns
  \/ Crash

Spec == Init /\ [][Next]_vars

-----------------------------------------------------------------------------
(* Properties *)

\* No command reaches the remote executor unless its call was authorized, and
\* never one whose row says it was denied or timed out undecided (Invoke runs
\* execute only behind the approval gate).
ApprovalRespected ==
  \A t \in executed : Authorized(t) /\ status[t] \notin {"absent", "pending", "denied"}

\* While the adapter of a turn runs, the invoker's private copy of the approval
\* mode never grants more than the session's row does: the row is re-read after
\* BeginAgentTurn and cannot be downgraded during a turn.
CachedModeCurrent ==
  \A s \in Sessions :
    pc[s] \in AdapterPC /\ memMode[s] = "full_access" => mode[s] = "full_access"

\* A session nobody runs a turn for is not left busy in the database, where
\* BeginAgentTurn, archive, delete and mode changes would refuse it for ever:
\* one failing store call is absorbed by the two-attempt loops.
NoStrandedSession ==
  crashes = 0 => \A s \in Sessions : pc[s] = "none" => state[s] \notin Busy

\* A tool call row that is pending or started has a turn that still works on
\* it: every exit of Invoke leaves the row terminal.
NoOrphanToolCall ==
  crashes = 0 => \A t \in Tools : status[t] \in Live => \E s \in Sessions : cur[s] = t

\* Nothing that a turn has begun stays begun without it.
NothingStranded == NoStrandedSession /\ NoOrphanToolCall

\* A tool_call.completed event names the status that the row has, and keeps:
\* finishTool publishes only a confirmed durable terminal row.
AnnouncedIsDurable ==
  \A t \in Tools : announced[t] # "none" => status[t] \in {announced[t], "deleted"}

\* When Close has returned nothing of a turn is left: no registration, no
\* waiter, no busy session row and no live tool call row.
CloseIsJoined ==
  closed = "closed" =>
    /\ running = {} /\ pending = {}
    /\ \A s \in Sessions : pc[s] = "none"
    /\ crashes = 0 => /\ \A s \in Sessions : state[s] \notin Busy
                      /\ \A t \in Tools : status[t] \notin Live

\* Archive and restore are safe against admission races: once no request is
\* working on a session, one that is listed as active can be given a turn.
RestoredIsAdmissible ==
  \A s \in Sessions :
    Visible(s) /\ (\A r \in Requests : req[r].sess # s) => s \notin archived

-----------------------------------------------------------------------------
(* What makes ApprovalRespected and CachedModeCurrent inductive.           *)

\* The row of a session whose turn has begun can be neither reconfigured nor
\* deleted: it is busy, or revoked by an unpair.
BusyWhileRunning ==
  \A s \in Sessions :
    pc[s] \in {"reread"} \cup AdapterPC => state[s] \in Busy \cup {"revoked"}

\* Invoke works on a row of its own session.
CurrentCall ==
  \A s \in Sessions :
    IF pc[s] \in InvokePC \ {"create"}
    THEN cur[s] \in Tools /\ sessionOf[cur[s]] = s /\ born[cur[s]] # "absent"
    ELSE cur[s] = NoTool

\* A turn holds its session's entry of Service.running from reserveTurn to
\* releaseTurn.
TurnReserved == \A s \in Sessions : pc[s] # "none" => s \in running

\* A decision Invoke acts on is the recorded one, and finishTool knows the
\* status it was asked for.
VerdictRecorded ==
  \A s \in Sessions :
    /\ pc[s] = "check" => verdict[s] # "none"
    /\ pc[s] \in {"resume", "start"} =>
         verdict[s] = decision[cur[s]] /\ verdict[s] # "none"
    /\ pc[s] \in FinishPC => want[s] # "none"

\* approve_session on the call in hand has upgraded the session's row.
UpgradeRecorded ==
  \A s \in Sessions :
    cur[s] \in Tools /\ decision[cur[s]] = "approve_session" => mode[s] = "full_access"

\* Behind the approval gate the call is authorized and no longer pending.
ExecGate ==
  \A s \in Sessions :
    pc[s] \in ExecPC =>
      /\ Authorized(cur[s])
      /\ status[cur[s]] \notin {"absent", "pending", "denied"}

\* The inductive invariant behind the approval theorems: rows, turn and cached
\* mode of every session agree at every step of StartTurn, Invoke and Decide.
ApprovalInv ==
  /\ RowsConsistent
  /\ TurnReserved
  /\ BusyWhileRunning
  /\ CurrentCall
  /\ VerdictRecorded
  /\ UpgradeRecorded
  /\ CachedModeCurrent
  /\ ExecGate
  /\ ApprovalRespected

-----------------------------------------------------------------------------
(* The promise to the user, as a more abstract specification.              *)

Outcome(t) ==
  IF born[t] = "absent" THEN "none"
  ELSE IF Authorized(t) THEN "approved"
  ELSE IF decision[t] = "deny" THEN "denied"
  ELSE IF status[t] = "pending" THEN "open"
  ELSE "aborted"

Approval == INSTANCE ToolApproval WITH
  grant <- {s \in Sessions : mode[s] = "full_access"},
  of <- sessionOf,
  outcome <- [t \in Tools |-> Outcome(t)],
  ran <- executed

\* Every step of the service, with its store failures, races and crashes, is a
\* step of ToolApproval or invisible there: one outcome per call, decided by
\* the user or by a standing grant, and nothing else runs.
ImplementsToolApproval == Approval!Spec

-----------------------------------------------------------------------------
(* Liveness *)

\* Goroutines and handlers keep running: every store call has a deadline, the
\* executor's call has one, and adapter.Run returns once its context is done.
FairTurns ==
  /\ \A s \in Sessions : WF_vars(TurnStep(s))
  /\ \A r \in Requests : WF_vars(RequestStep(r))
  /\ WF_vars(CloseReturns)

\* The approval timer and the turn's overall timeout are real timers.
FairTimers ==
  \A s \in Sessions : WF_vars(ApprovalTimeout(s)) /\ WF_vars(TurnTimeout(s))

\* No timer needs to fire, nor any user to act.
PromptSpec == Spec /\ FairTurns
FairSpec == Spec /\ FairTurns /\ FairTimers

\* installPending's send into its own full channel: the goroutine is the only
\* receiver.
Blocked(s) == pc[s] = "send" /\ channel[cur[s]] # "none"

\* A turn has a bounded lifetime: whatever the user, the executor and the
\* store do, its registration is released.
TurnEnds ==
  \A s \in Sessions : s \in running ~> s \notin running

\* The same with timers that fire, but for a turn blocked in installPending's
\* send: nothing else keeps a turn, or a Close that waits for it, from ending.
TurnEndsOrBlocks ==
  FairTimers => \A s \in Sessions : s \in running ~> (s \notin running \/ Blocked(s))

\* Close returns, unless a turn it waits for is blocked there.
CloseEndsOrBlocks ==
  FairTimers =>
    (closed = "closing" ~> (closed # "closing" \/ \E s \in Sessions : Blocked(s)))

\* Both: nothing but that send keeps the service from settling.
EndsOrBlocks == TurnEndsOrBlocks /\ CloseEndsOrBlocks

\* A recorded decision reaches the turn that waits for it, without the help of
\* any timer, whether Decide commits before the waiter is registered, between
\* that and the lookup, or later.
DecisionIsTaken ==
  \A s \in Sessions, t \in Tools :
    (cur[s] = t /\ status[t] = "pending" /\ decision[t] # "none")
      ~> (status[t] # "pending" \/ Blocked(s))

=============================================================================
