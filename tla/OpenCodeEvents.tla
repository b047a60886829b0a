---------------------------- MODULE OpenCodeEvents ----------------------------
(***************************************************************************)
(* How the OpenCode adapter turns the provider's event stream into the     *)
(* text of one turn (internal/opencode/sse.go).                            *)
(*                                                                         *)
(* The stream is ordered, so an event is consumed as it is emitted.  The   *)
(* provider is external and is modelled by what the tracker is written     *)
(* for: the turn has a user message and two assistant messages, the first  *)
(* of which calls a tool; an earlier turn's assistant may still be         *)
(* speaking; the text of a message comes by either or both of two families *)
(* of events, by deltas and by snapshots; its announcement comes before or *)
(* after its first text; idle comes early, late or twice; any event may be *)
(* delivered twice.  A message has one part, whose text is a sequence of   *)
(* numbered chunks.  Part kinds, the record framing and the validation of  *)
(* identities are left out.                                                *)
(***************************************************************************)
EXTENDS Naturals, SequencesExt

CONSTANTS Chunks,               \* chunks of a message's text
          maximumPendingParts

Current == {"a1", "a2"}                 \* assistants of this turn
Messages == Current \cup {"old"}
Parent(m) == IF m = "old" THEN "u0" ELSE "u1"
Text == [i \in 1..Chunks |-> i]
Families == {"message-part", "compatibility"}

VARIABLES
  dispatched,   \* the prompt request is on its way
  tracker,      \* eventTracker, with what it gave to the sink in shown
  outcome,      \* what consumeEvents returned
  textID,       \* compatibility events of this provider carry a text id
  uses,         \* the families each message is sent by
  pos,          \* chunks of each message published by each family
  stage         \* of the turn: "none", "user", "a1", "a2", "final"

provider == <<textID, uses, pos, stage>>
vars == <<dispatched, tracker, outcome, provider>>

Init ==
  /\ dispatched = FALSE /\ outcome = "none"
  /\ tracker = [roles |-> {}, prompt |-> "", promptSeen |-> FALSE, current |-> {},
                activity |-> FALSE, final |-> FALSE, idle |-> FALSE,
                first |-> [m \in Messages |-> ""], fallback |-> [m \in Messages |-> ""],
                families |-> [m \in Messages |-> ""], text |-> [m \in Messages |-> <<>>],
                pending |-> [m \in Messages |-> <<>>], pendingRecords |-> 0,
                shown |-> [m \in Messages |-> <<>>], err |-> "none"]
  /\ textID \in BOOLEAN
  /\ uses \in [Messages -> {s \in SUBSET Families : s # {}}] /\ uses["old"] # Families
  /\ pos = [m \in Messages |-> [f \in Families |-> 0]] /\ stage = "none"

-----------------------------------------------------------------------------
(* The text of a message.  tr is a tracker. *)

\* recordFirstFamily, assistantActivity and the sink
Show(tr, m, family, chunks) ==
  [tr EXCEPT !.first[m] = IF @ = "" THEN family ELSE @,
             !.activity = TRUE, !.shown[m] = @ \o chunks]

emitCompatibility(tr, m, chunks) ==
  IF ~textID
    THEN LET family == IF tr.fallback[m] # "" THEN tr.fallback[m]
                       ELSE IF tr.first[m] # "" THEN tr.first[m] ELSE "compatibility"
             settled == [tr EXCEPT !.fallback[m] = family]
         IN IF family = "compatibility" THEN Show(settled, m, "compatibility", chunks) ELSE settled
    ELSE IF tr.families[m] = "message-part" THEN tr
         ELSE Show([tr EXCEPT !.families[m] = "compatibility"], m, "compatibility", chunks)

\* The message is already shown from the other family.
Other(tr, m) == "compatibility" \in {tr.fallback[m], tr.families[m]}

emitDelta(tr, m, chunks) ==
  IF Other(tr, m) THEN tr
  ELSE Show([tr EXCEPT !.families[m] = "message-part", !.text[m] = @ \o chunks],
            m, "message-part", chunks)

emitFull(tr, m, chunks) ==
  IF Other(tr, m) \/ IsPrefix(chunks, tr.text[m]) THEN tr
  ELSE IF ~IsPrefix(tr.text[m], chunks) THEN [tr EXCEPT !.err = "protocol_error"]
  ELSE Show([tr EXCEPT !.families[m] = "message-part", !.text[m] = chunks],
            m, "message-part", SubSeq(chunks, Len(tr.text[m]) + 1, Len(chunks)))

Emit(tr, m, e) ==
  CASE e.type = "compatibility" -> emitCompatibility(tr, m, e.chunks)
    [] e.type = "delta" -> emitDelta(tr, m, e.chunks)
    [] e.type = "full" -> emitFull(tr, m, e.chunks)

queue(tr, m, e) ==
  IF tr.pendingRecords >= maximumPendingParts THEN [tr EXCEPT !.err = "protocol_error"]
  ELSE [tr EXCEPT !.pending[m] = Append(@, e), !.pendingRecords = @ + 1]

clearPending(tr, m) ==
  [tr EXCEPT !.pending[m] = <<>>, !.pendingRecords = @ - Len(tr.pending[m])]

\* Mutant: text is shown before it is known whose it is.
TextUnassociated(tr, e) == Emit(tr, e.m, e)

\* messageDelta, messagePartUpdated, compatibilityDelta
TextEvent(tr, e) ==
  IF e.m \in tr.current THEN Emit(tr, e.m, e)
  ELSE IF e.m \in tr.roles THEN tr
  ELSE queue(tr, e.m, e)

-----------------------------------------------------------------------------
(* Messages and states *)

messageUpdated(tr, e) ==
  IF e.m = "u1"
    THEN [tr EXCEPT !.prompt = IF @ = "" THEN e.m ELSE @, !.promptSeen = TRUE]
    ELSE LET known == [tr EXCEPT !.roles = @ \cup {e.m}] IN
         IF tr.prompt = "" \/ Parent(e.m) # tr.prompt THEN clearPending(known, e.m)
         ELSE LET mine == [known EXCEPT !.current = @ \cup {e.m}, !.activity = TRUE,
                                        !.final = @ \/ e.finish = "stop"]
              IN IF e.finish = "error" THEN [mine EXCEPT !.err = "provider"]
                 ELSE clearPending(FoldLeft(LAMBDA t, x : Emit(t, e.m, x), mine, tr.pending[e.m]),
                                   e.m)

sessionIdle(tr) == [tr EXCEPT !.idle = @ \/ tr.activity]

\* Mutant: any failure of the session is this turn's.
ErrorAlways(tr) == [tr EXCEPT !.err = "provider"]

sessionError(tr) ==
  IF tr.promptSeen \/ tr.activity THEN [tr EXCEPT !.err = "provider"] ELSE tr

Handle(tr, e) ==
  CASE e.type = "message" -> messageUpdated(tr, e)
    [] e.type \in {"delta", "full", "compatibility"} -> TextEvent(tr, e)
    [] e.type = "idle" -> sessionIdle(tr)
    [] e.type = "error" -> sessionError(tr)

\* Mutant: idle ends the turn.
IdleEnds(e, tr) == e.type \in {"message", "idle"} /\ tr.idle

\* The event ends the turn.
Terminal(e, tr) == e.type \in {"message", "idle"} /\ tr.idle /\ tr.final

\* Mutant: an event id is not remembered.
HandleAgain(tr, e, twice) ==
  IF twice THEN Handle(Handle(tr, e), e) ELSE Handle(tr, e)

\* An event that is delivered twice has the same id, and seenIDs has it the second
\* time.
HandleOnce(tr, e, twice) == Handle(tr, e)

\* consume, and what consumeEvents does with its result.  The limit on event ids,
\* a long record or a malformed one may end the turn at any event.
consume(e) ==
  /\ outcome = "none"
  /\ \/ outcome' = "protocol_error" /\ UNCHANGED tracker
     \/ ~dispatched /\ UNCHANGED <<tracker, outcome>>
     \/ /\ dispatched
        /\ \E twice \in BOOLEAN :
             LET tr == HandleOnce(tracker, e, twice) IN
             /\ tracker' = tr
             /\ outcome' = IF tr.err # "none" THEN tr.err
                           ELSE IF Terminal(e, tr) THEN "ok" ELSE "none"

-----------------------------------------------------------------------------
(* The provider *)

\* Messages that may speak: an earlier turn's until this turn's first answer.
Speaking == (IF stage \in {"none", "user"} THEN {"old"} ELSE {})
            \cup (IF stage = "user" THEN {"a1"} ELSE IF stage = "a1" THEN {"a2"} ELSE {})

Dispatch ==
  /\ ~dispatched
  /\ dispatched' = TRUE
  /\ UNCHANGED <<tracker, outcome, provider>>

\* The next chunk by either family, or a snapshot that may run ahead or behind.
PublishText(m, f) ==
  /\ m \in Speaking /\ f \in uses[m]
  /\ \E k \in 1..Chunks :
       /\ f = "compatibility" => k = pos[m][f] + 1
       /\ pos' = [pos EXCEPT ![m][f] = IF k > @ THEN k ELSE @]
       /\ \/ /\ f = "message-part"
             /\ consume([type |-> "full", m |-> m, chunks |-> SubSeq(Text, 1, k)])
          \/ /\ k = pos[m][f] + 1
             /\ consume([type |-> IF f = "compatibility" THEN f ELSE "delta", m |-> m,
                         chunks |-> <<k>>])
  /\ UNCHANGED <<dispatched, textID, uses, stage>>

\* message.updated of an assistant that is speaking, or that has failed
Announce(m) ==
  /\ m \in Speaking
  /\ \E finish \in {"", "error"} : consume([type |-> "message", m |-> m, finish |-> finish])
  /\ UNCHANGED <<dispatched, provider>>

\* message.updated of the prompt
AnnounceUser ==
  /\ dispatched /\ stage = "none"
  /\ stage' = "user"
  /\ consume([type |-> "message", m |-> "u1", finish |-> ""])
  /\ UNCHANGED <<dispatched, textID, uses, pos>>

\* message.updated with a finish, once the text is published
FinishMessage(m) ==
  /\ m \in Speaking \cap Current
  /\ \A f \in uses[m] : pos[m][f] = Chunks
  /\ stage' = IF m = "a1" THEN "a1" ELSE "final"
  /\ consume([type |-> "message", m |-> m,
              finish |-> IF m = "a1" THEN "tool-calls" ELSE "stop"])
  /\ UNCHANGED <<dispatched, textID, uses, pos>>

\* session.idle or session.status
Idle ==
  /\ consume([type |-> "idle"])
  /\ UNCHANGED <<dispatched, provider>>

\* session.error, of an earlier turn or of this one
Fail ==
  /\ consume([type |-> "error"])
  /\ UNCHANGED <<dispatched, provider>>

Next ==
  \/ Dispatch \/ AnnounceUser \/ Idle \/ Fail
  \/ \E m \in Messages : Announce(m) \/ \E f \in Families : PublishText(m, f)
  \/ \E m \in Current : FinishMessage(m)

Spec == Init /\ [][Next]_vars

-----------------------------------------------------------------------------
(* Properties *)

TypeOK ==
  /\ dispatched \in BOOLEAN
  /\ outcome \in {"none", "ok", "provider", "protocol_error"}
  /\ tracker.current \subseteq tracker.roles /\ tracker.roles \subseteq Messages
  /\ tracker.pendingRecords \in 0..maximumPendingParts
  /\ tracker.pendingRecords =
       FoldSet(LAMBDA m, n : n + Len(tracker.pending[m]), 0, Messages)

\* Every message is shown in order, nothing twice and nothing left out in between,
\* although its text comes by two families, by deltas and snapshots, before and
\* after its announcement.
ShownIsPrefix == \A m \in Messages : IsPrefix(tracker.shown[m], Text)

\* Nothing an earlier turn still says becomes part of this turn's answer.
OnlyThisTurn == tracker.shown["old"] = <<>> /\ "old" \notin tracker.current

\* A turn that succeeds has shown the whole text of both its messages, and the
\* provider has finished the last of them.
SuccessIsComplete ==
  outcome = "ok" => stage = "final" /\ \A m \in Current : tracker.shown[m] = Text

\* Before the prompt's own message is seen, a failure reported for the session does
\* not fail the turn.
EarlierFailureIgnored == outcome = "provider" => stage # "none"
=============================================================================
