------------------------------- MODULE DSHTurn -------------------------------
(***************************************************************************)
(* Turns of one session over the DSH Host's multiplexed event stream       *)
(* (internal/dsh/adapter.go: Run, subscribe, readStream, consumeTurn,      *)
(* cancel).                                                                *)
(*                                                                         *)
(* The Host is external: it queues accepted prompts, runs one turn after   *)
(* the other and numbers the events of a session.  A cancellation drops    *)
(* the queue and aborts the turn, whose end it announces later.  A prompt  *)
(* call that fails was either accepted or never will be.  The capability   *)
(* of a turn is in CapabilityBridge; its failure, the end of the turn's    *)
(* context and a malformed frame are one cause to give up here.  Sessions  *)
(* other than this one, part kinds and error codes are left out.           *)
(***************************************************************************)
EXTENDS Naturals, Sequences, SequencesExt

CONSTANTS Runs,           \* calls of Run: 1..Runs, one after the other
          Chunks,         \* of an answer
          Capacity,       \* of the channel between reader and consumer
          CancelMayFail   \* session.cancel may be lost

VARIABLES
  seqno, prompts,                  \* the Host: last event, queued prompts,
  turn, from, said, aborted,       \* running turn, its prompt, chunks said
  turns,                           \* number of turns so far
  pc, lastSeq, activeTurn,         \* Run and consumeTurn
  wire, reader, held, stream,      \* the connection, readStream, the channel
  shown, result, turnCtx

host == <<seqno, prompts, turn, from, said, aborted, turns>>
conn == <<wire, reader, held, stream>>
run == <<pc, lastSeq, activeTurn, shown, result>>
vars == <<host, conn, run, turnCtx>>

NoItem == [type |-> "none", seq |-> 0, turn |-> 0, from |-> 0, k |-> 0]

Init ==
  /\ seqno = 0 /\ prompts = <<>> /\ turn = 0 /\ from = 0 /\ said = 0 /\ aborted = FALSE
  /\ turns = 0
  /\ pc = [r \in 1..Runs |-> "idle"] /\ lastSeq = 0 /\ activeTurn = 0
  /\ wire = <<>> /\ reader = "off" /\ held = NoItem /\ stream = <<>>
  /\ shown = [r \in 1..Runs |-> <<>>] /\ result = [r \in 1..Runs |-> "none"]
  /\ turnCtx = [r \in 1..Runs |-> "live"]

-----------------------------------------------------------------------------
(* The Host *)

Event(type, k) == [type |-> type, seq |-> seqno + 1, turn |-> turn', from |-> from', k |-> k]

\* A session event is sent to whoever is subscribed.
Say(type, k) ==
  /\ seqno' = seqno + 1
  /\ wire' = IF reader = "off" THEN wire ELSE Append(wire, Event(type, k))
  /\ UNCHANGED <<reader, held, stream, run, turnCtx>>

HostStart ==
  /\ turn = 0 /\ prompts # <<>>
  /\ turns' = turns + 1 /\ turn' = turns + 1 /\ from' = Head(prompts)
  /\ prompts' = Tail(prompts) /\ said' = 0 /\ aborted' = FALSE
  /\ Say("start", 0)

HostChunk ==
  /\ turn # 0 /\ ~aborted /\ said < Chunks
  /\ said' = said + 1
  /\ UNCHANGED <<prompts, turn, from, aborted, turns>>
  /\ Say("chunk", said + 1)

\* The event has the number of the turn it ends.
HostEnd ==
  /\ turn # 0 /\ (aborted \/ said = Chunks)
  /\ seqno' = seqno + 1
  /\ wire' = IF reader = "off" THEN wire
             ELSE Append(wire, [type |-> IF aborted THEN "aborted" ELSE "completed",
                                seq |-> seqno + 1, turn |-> turn, from |-> from, k |-> 0])
  /\ turn' = 0 /\ from' = 0 /\ said' = 0 /\ aborted' = FALSE
  /\ UNCHANGED <<prompts, turns, reader, held, stream, run, turnCtx>>

-----------------------------------------------------------------------------
(* Run *)

Go(r, p) == pc' = [pc EXCEPT ![r] = p]

\* subscribe: the baseline is the last event before the connection.
subscribe(r) ==
  /\ pc[r] = "idle" /\ \A q \in 1..(r - 1) : pc[q] = "done"
  /\ lastSeq' = seqno /\ activeTurn' = 0
  /\ wire' = <<>> /\ stream' = <<>> /\ held' = NoItem /\ reader' = "reading"
  /\ Go(r, "prompt")
  /\ UNCHANGED <<host, shown, result, turnCtx>>

\* The session cannot be prepared, subscribed to or given a capability.
SubscribeFails(r) ==
  /\ pc[r] = "idle" /\ \A q \in 1..(r - 1) : pc[q] = "done"
  /\ result' = [result EXCEPT ![r] = "error"] /\ Go(r, "done")
  /\ UNCHANGED <<host, conn, lastSeq, activeTurn, shown, turnCtx>>

\* prompt: the call reaches the Host or not,
SendPrompt(r) ==
  /\ pc[r] = "prompt"
  /\ \E accepted \in BOOLEAN :
       /\ prompts' = IF accepted THEN Append(prompts, r) ELSE prompts
       /\ result' = [result EXCEPT ![r] = IF accepted THEN @ ELSE "error"]
  /\ Go(r, "called")
  /\ UNCHANGED <<seqno, turn, from, said, aborted, turns, conn, lastSeq, activeTurn, shown,
                 turnCtx>>

\* and its answer comes back or not.  The turn may have started by then.
PromptReturns(r) ==
  /\ pc[r] = "called"
  /\ \/ result[r] = "none" /\ Go(r, "consume") /\ UNCHANGED result
     \/ result' = [result EXCEPT ![r] = "error"] /\ Go(r, "cancel")
  /\ UNCHANGED <<host, conn, lastSeq, activeTurn, shown, turnCtx>>

\* readStream: a frame is read,
ReadFrame ==
  /\ reader = "reading" /\ wire # <<>>
  /\ held' = Head(wire) /\ wire' = Tail(wire) /\ reader' = "holding"
  /\ UNCHANGED <<host, stream, run, turnCtx>>

\* Mutant: a full channel drops the frame.
PassOrDrop ==
  /\ reader = "holding"
  /\ stream' = IF Len(stream) < Capacity THEN Append(stream, held) ELSE stream
  /\ held' = NoItem /\ reader' = "reading"
  /\ UNCHANGED <<host, wire, run, turnCtx>>

\* and given to the consumer
PassFrame ==
  /\ reader = "holding" /\ Len(stream) < Capacity
  /\ stream' = Append(stream, held) /\ held' = NoItem /\ reader' = "reading"
  /\ UNCHANGED <<host, wire, run, turnCtx>>

\* streamCtx is a child of the turn's context.
Closing == \E r \in 1..Runs :
  pc[r] = "join" \/ (turnCtx[r] = "done" /\ pc[r] \notin {"idle", "done"})

\* Mutant: a reader that holds a frame waits for the channel only.
StopBetweenFrames ==
  /\ reader = "reading" /\ Closing
  /\ reader' = "done"
  /\ UNCHANGED <<host, wire, held, stream, run, turnCtx>>

\* unless streamCtx is done.
StopReading ==
  /\ reader \in {"reading", "holding"} /\ Closing
  /\ reader' = "done"
  /\ UNCHANGED <<host, wire, held, stream, run, turnCtx>>

\* Where Run goes after consumeTurn: a failed turn is canceled first.
Finish(r, outcome) ==
  /\ result' = [result EXCEPT ![r] = outcome]
  /\ Go(r, IF outcome = "ok" THEN "join" ELSE "cancel")

\* assistant/chunk of the turn that started
AcceptsChunk(e) == e.type = "chunk" /\ activeTurn # 0 /\ e.turn = activeTurn

\* turn/end must be that of the turn that started.
ValidEnd(e) == activeTurn # 0 /\ e.turn = activeTurn

consumeTurn(r) ==
  /\ pc[r] = "consume" /\ stream # <<>>
  /\ LET e == Head(stream) IN
       /\ stream' = Tail(stream)
       /\ IF e.seq <= lastSeq \/ (e.type = "start" /\ activeTurn # 0)
               \/ (e.type \in {"completed", "aborted"} /\ ~ValidEnd(e))
            THEN Finish(r, "protocol_error") /\ UNCHANGED <<lastSeq, activeTurn, shown>>
            ELSE /\ lastSeq' = e.seq
                 /\ activeTurn' = IF e.type = "start" THEN e.turn ELSE activeTurn
                 /\ shown' = IF AcceptsChunk(e)
                               THEN [shown EXCEPT ![r] = Append(@, <<e.from, e.k>>)] ELSE shown
                 /\ IF e.type \in {"completed", "aborted"}
                      THEN Finish(r, IF e.type = "completed" THEN "ok" ELSE "error")
                      ELSE UNCHANGED <<pc, result>>
  /\ UNCHANGED <<host, wire, reader, held, turnCtx>>

\* A failure of the capability, a broken stream, a malformed frame, or ctx is done
GiveUp(r) ==
  /\ pc[r] = "consume"
  /\ Finish(r, "error")
  /\ UNCHANGED <<host, conn, lastSeq, activeTurn, shown, turnCtx>>

\* Mutant: the Host is not told.
CancelNothing(r) ==
  /\ pc[r] = "cancel"
  /\ Go(r, "join")
  /\ UNCHANGED <<host, conn, lastSeq, activeTurn, shown, result, turnCtx>>

\* cancel, before the activation and the stream are closed
cancel(r) ==
  /\ pc[r] = "cancel"
  /\ \/ prompts' = <<>> /\ aborted' = (turn # 0)
     \/ CancelMayFail /\ UNCHANGED <<prompts, aborted>>
  /\ Go(r, "join")
  /\ UNCHANGED <<seqno, turn, from, said, turns, conn, lastSeq, activeTurn, shown, result,
                 turnCtx>>

\* <-streamDone
Join(r) ==
  /\ pc[r] = "join" /\ reader = "done"
  /\ reader' = "off" /\ wire' = <<>> /\ stream' = <<>> /\ held' = NoItem
  /\ Go(r, "done")
  /\ UNCHANGED <<host, lastSeq, activeTurn, shown, result, turnCtx>>

\* The service ends the turn's context.
EndContext(r) ==
  /\ turnCtx[r] = "live" /\ pc[r] # "done"
  /\ turnCtx' = [turnCtx EXCEPT ![r] = "done"]
  /\ UNCHANGED <<host, conn, run>>

-----------------------------------------------------------------------------
RunStep(r) == \/ subscribe(r) \/ SubscribeFails(r) \/ SendPrompt(r) \/ PromptReturns(r)
              \/ consumeTurn(r) \/ cancel(r) \/ Join(r)

Next ==
  \/ HostStart \/ HostChunk \/ HostEnd \/ ReadFrame \/ PassFrame \/ StopReading
  \/ \E r \in 1..Runs : RunStep(r) \/ GiveUp(r) \/ EndContext(r)

Spec == Init /\ [][Next]_vars

\* Run and its reader continue; the Host need not.
Fairness ==
  /\ WF_vars(ReadFrame \/ PassFrame) /\ WF_vars(StopReading)
  /\ \A r \in 1..Runs :
       WF_vars(pc[r] # "idle" /\ RunStep(r)) /\ WF_vars(turnCtx[r] = "done" /\ GiveUp(r))

FairSpec == Spec /\ Fairness

-----------------------------------------------------------------------------
(* Properties *)

TypeOK ==
  /\ seqno \in Nat /\ turn \in 0..turns /\ said \in 0..Chunks /\ aborted \in BOOLEAN
  /\ Len(stream) <= Capacity
  /\ reader \in {"off", "reading", "holding", "done"}
  /\ (reader = "holding") => held # NoItem
  /\ pc \in [1..Runs -> {"idle", "prompt", "called", "consume", "cancel", "join", "done"}]
  /\ result \in [1..Runs -> {"none", "ok", "error", "protocol_error"}]
  /\ turnCtx \in [1..Runs -> {"live", "done"}]

Answer(r) == [k \in 1..Chunks |-> <<r, k>>]

\* What a turn shows is the beginning of the answer to its own prompt, although an
\* earlier turn that was given up may still be speaking or ending.
OwnAnswer == \A r \in 1..Runs : IsPrefix(shown[r], Answer(r))

\* A turn that succeeds has shown a whole answer: no event between the subscription
\* and the prompt, and none of the queue, was missed.
SuccessIsWhole ==
  \A r \in 1..Runs : result[r] = "ok" => Len(shown[r]) = Chunks

\* When Run returns with an error, the Host has nothing of that turn left to do: its
\* prompt is not queued, and if it runs it is being aborted.
FailedIsStopped ==
  \A r \in 1..Runs : pc[r] = "done" /\ result[r] # "ok" =>
    ~Contains(prompts, r) /\ (from = r => aborted)

\* Once its context is done, Run returns: its reader does not stay blocked on a
\* channel that nobody reads.
RunEnds == \A r \in 1..Runs :
  []<>(turnCtx[r] = "done" => pc[r] \in {"idle", "done"})
=============================================================================
