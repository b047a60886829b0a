----------------------------- MODULE DeepSeekTurn -----------------------------
(***************************************************************************)
(* A turn of the direct DeepSeek adapter (internal/deepseek/adapter.go):   *)
(* requests, streamed replies whose tool calls come in fragments, the      *)
(* execution of complete calls, and the watchdog of a silent stream.       *)
(*                                                                         *)
(* The provider is external: it may interleave the fragments of its calls, *)
(* reuse or change identities, leave out an index, stop at any point or    *)
(* fall silent.  Reasoning, the limits on sizes and the decoding of        *)
(* records are left out: they fail the stream, which any record may do     *)
(* here.                                                                   *)
(***************************************************************************)
EXTENDS Naturals, Sequences, SequencesExt, FiniteSets

CONSTANTS MaxCalls,    \* tool calls of a reply
          Fragments,   \* of the arguments of a call
          MaxRounds    \* bound on the replies of a turn

Indexes == 1..MaxCalls
Ids == 1..MaxCalls
NoId == 0

VARIABLES
  pc,            \* Run: "idle", "request", "stream", "tools", "done"
  round, messages, result,
  calls,         \* toolCalls of the reply: identity and fragments by index
  finish, text, doneMarker,
  reply,         \* result.toolCalls, checked and in order
  invoked,       \* history: fragments of every call that was executed
  watchdog,      \* "off", "armed", "fired"
  activity,      \* the channel has a token
  turnCtx

stream == <<calls, finish, text, doneMarker, reply>>
vars == <<pc, round, messages, result, stream, invoked, watchdog, activity, turnCtx>>

Init ==
  /\ pc = "idle" /\ round = 0 /\ messages = <<[role |-> "user", ids |-> <<>>]>>
  /\ result = "none"
  /\ calls = [i \in Indexes |-> [id |-> NoId, got |-> 0]]
  /\ finish = "none" /\ text = FALSE /\ doneMarker = FALSE /\ reply = <<>>
  /\ invoked = {} /\ watchdog = "off" /\ activity = FALSE /\ turnCtx = "live"

Return(r) == pc' = "done" /\ result' = r

\* The end of complete: the watchdog is stopped and joined.
StopWatchdog == watchdog' = "off" /\ activity' = FALSE

Run ==
  /\ pc = "idle"
  /\ pc' = "request"
  /\ UNCHANGED <<round, messages, result, stream, invoked, watchdog, activity, turnCtx>>

\* complete sends all messages and starts the watchdog.
Request ==
  /\ pc = "request" /\ round < MaxRounds
  /\ IF turnCtx = "done"
       THEN Return("canceled") /\ UNCHANGED <<round, stream, watchdog>>
       ELSE /\ pc' = "stream" /\ round' = round + 1 /\ watchdog' = "armed"
            /\ calls' = [i \in Indexes |-> [id |-> NoId, got |-> 0]]
            /\ finish' = "none" /\ text' = FALSE /\ doneMarker' = FALSE /\ reply' = <<>>
            /\ UNCHANGED result
  /\ UNCHANGED <<messages, invoked, activity, turnCtx>>

\* The stream ends the reply with an error: a malformed record, a broken
\* connection, a status, the watchdog or the turn's context.
StreamFails ==
  /\ pc = "stream"
  /\ Return("error") /\ StopWatchdog
  /\ UNCHANGED <<round, messages, stream, invoked, turnCtx>>

-----------------------------------------------------------------------------
(* consumeStream.  The context is checked and the watchdog told at each line. *)

Streaming == pc = "stream" /\ watchdog = "armed" /\ turnCtx = "live" /\ ~doneMarker

ContentDelta ==
  /\ Streaming
  /\ text' = TRUE /\ activity' = TRUE
  /\ UNCHANGED <<pc, round, messages, result, calls, finish, doneMarker, reply, invoked, watchdog,
                 turnCtx>>

SameIdentity(i, id) == calls[i].id \in {NoId, id}

\* A fragment of the call at index i, with its identity or without; a provider sends
\* none after the finish reason.
ToolDelta(i, id) ==
  /\ Streaming /\ finish = "none" /\ calls[i].got < Fragments
  /\ IF id # NoId /\ ~SameIdentity(i, id)
       THEN Return("error") /\ StopWatchdog /\ UNCHANGED calls
       ELSE /\ calls' = [calls EXCEPT ![i] = [id |-> IF id = NoId THEN @.id ELSE id,
                                              got |-> @.got + 1]]
            /\ activity' = TRUE /\ UNCHANGED <<pc, result, watchdog>>
  /\ UNCHANGED <<round, messages, finish, text, doneMarker, reply, invoked, turnCtx>>

Begun == {i \in Indexes : calls[i].got > 0}

\* finish_reason: "length" may come at any point, the others after the last fragment.
FinishReason(f) ==
  /\ Streaming /\ (f = "length" \/ \A i \in Begun : calls[i].got = Fragments)
  /\ IF finish # "none" THEN Return("error") /\ StopWatchdog /\ UNCHANGED finish
     ELSE finish' = f /\ activity' = TRUE /\ UNCHANGED <<pc, result, watchdog>>
  /\ UNCHANGED <<round, messages, calls, text, doneMarker, reply, invoked, turnCtx>>

\* data: [DONE]
DoneMarker ==
  /\ Streaming
  /\ doneMarker' = TRUE /\ activity' = TRUE
  /\ UNCHANGED <<pc, round, messages, result, calls, finish, text, reply, invoked, watchdog,
                 turnCtx>>

\* finishSeen and doneMarker
Complete == finish # "none" /\ doneMarker

\* Mutant: identities may repeat.
Contiguous == Begun = 1..Cardinality(Begun) /\ \A i \in Begun : calls[i].id # NoId

\* Indexes without a gap, identities present and distinct
WellFormed ==
  /\ Begun = 1..Cardinality(Begun)
  /\ \A i \in Begun : calls[i].id # NoId /\ \A j \in Begun \ {i} : calls[i].id # calls[j].id

\* Mutant: calls are executed whatever the finish reason.
AnyTools(ids) == ids # <<>>

WantsTools(ids) == finish = "tool_calls" /\ ids # <<>>

\* The stream has ended, with [DONE] or without; Run looks at the finish reason.
\* Arguments that are not valid JSON fail the stream as well: see StreamFails.
EndOfStream ==
  /\ pc = "stream"
  /\ IF ~(Complete /\ WellFormed)
       THEN Return("error") /\ UNCHANGED <<messages, reply>>
       ELSE LET ids == [i \in 1..Cardinality(Begun) |-> calls[i].id] IN
            /\ messages' = Append(messages, [role |-> "assistant", ids |-> ids])
            /\ reply' = [i \in 1..Cardinality(Begun) |-> calls[i]]
            /\ CASE WantsTools(ids) -> pc' = "tools" /\ UNCHANGED result
                 [] finish = "stop" /\ ids = <<>> /\ text -> Return("ok")
                 [] OTHER -> Return("error")
  /\ StopWatchdog
  /\ UNCHANGED <<round, calls, finish, text, doneMarker, invoked, turnCtx>>

-----------------------------------------------------------------------------
(* The calls of a reply are executed one after the other. *)

AppendResult(id) == Append(messages, [role |-> "tool", ids |-> <<id>>])

\* RemoteExec.Invoke; see AgentService
Invoke ==
  /\ pc = "tools" /\ reply # <<>>
  /\ invoked' = invoked \cup {Head(reply).got}
  /\ \/ /\ messages' = AppendResult(Head(reply).id)
        /\ reply' = Tail(reply) /\ UNCHANGED <<pc, result>>
     \/ Return("error") /\ UNCHANGED <<messages, reply>>
  /\ UNCHANGED <<round, calls, finish, text, doneMarker, watchdog, activity, turnCtx>>

NextRound ==
  /\ pc = "tools" /\ reply = <<>>
  /\ pc' = "request"
  /\ UNCHANGED <<round, messages, result, stream, invoked, watchdog, activity, turnCtx>>

-----------------------------------------------------------------------------
(* The watchdog *)

\* The timer is reset.
Pulse ==
  /\ watchdog = "armed" /\ activity
  /\ activity' = FALSE
  /\ UNCHANGED <<pc, round, messages, result, stream, invoked, watchdog, turnCtx>>

\* Mutant: the timer is looked at only when there was activity.
FireIfActive ==
  /\ watchdog = "armed" /\ activity
  /\ watchdog' = "fired"
  /\ UNCHANGED <<pc, round, messages, result, stream, invoked, activity, turnCtx>>

\* The timer fires: streamCtx is canceled.
Fire ==
  /\ watchdog = "armed"
  /\ watchdog' = "fired"
  /\ UNCHANGED <<pc, round, messages, result, stream, invoked, activity, turnCtx>>

CancelTurn ==
  /\ turnCtx = "live" /\ pc # "done"
  /\ turnCtx' = "done"
  /\ UNCHANGED <<pc, round, messages, result, stream, invoked, watchdog, activity>>

Next ==
  \/ Run \/ Request \/ StreamFails \/ ContentDelta \/ DoneMarker \/ EndOfStream
  \/ \E i \in Indexes, id \in Ids \cup {NoId} : ToolDelta(i, id)
  \/ \E f \in {"stop", "tool_calls", "length"} : FinishReason(f)
  \/ Invoke \/ NextRound \/ Pulse \/ Fire \/ CancelTurn

Spec == Init /\ [][Next]_vars

\* The adapter continues, a canceled read returns, and the timer fires if nothing
\* resets it.  Nothing is assumed of the provider, and nobody cancels.
Fairness ==
  /\ WF_vars(Request \/ Invoke \/ NextRound)
  /\ WF_vars(watchdog = "fired" /\ StreamFails)
  /\ WF_vars(Pulse) /\ WF_vars(~activity /\ Fire)

FairSpec == Spec /\ Fairness

-----------------------------------------------------------------------------
(* Properties *)

TypeOK ==
  /\ pc \in {"idle", "request", "stream", "tools", "done"} /\ round \in 0..MaxRounds
  /\ result \in {"none", "ok", "error", "canceled"}
  /\ calls \in [Indexes -> [id : Ids \cup {NoId}, got : 0..Fragments]]
  /\ watchdog \in {"off", "armed", "fired"}
  /\ watchdog # "off" <=> pc = "stream"

\* A command is executed only with all of its arguments: one that a broken stream
\* cut off is not, even if what arrived is valid JSON.
OnlyWholeCommands == invoked \subseteq {Fragments}

\* Every request has, after each assistant message with calls, the result of each of
\* them in order and under its own identity, however the fragments were
\* interleaved.
ResultsPaired ==
  pc = "request" =>
    \A k \in 1..Len(messages) : messages[k].role = "assistant" =>
      LET ids == messages[k].ids IN
      /\ IsInjective(ids)
      /\ \A j \in 1..Len(ids) :
           k + j <= Len(messages) /\ messages[k + j] = [role |-> "tool", ids |-> <<ids[j]>>]

\* A silent provider does not hold the turn: unless lines keep arriving, a stream
\* ends, by the provider or by the watchdog.
SilenceEnds == []<>activity \/ []<>(pc # "stream")
=============================================================================
