------------------------------- MODULE EventHub -------------------------------
(***************************************************************************)
(* The event stream of one agent session: eventHub (internal/agent/hub.go),*)
(* Subscribe and publish of the service, and the server-sent-events loop   *)
(* of internal/agentapi/api.go.                                            *)
(*                                                                         *)
(* The turn publishes; browsers subscribe, read at their own pace and      *)
(* leave; archive, restore, delete, unpair and Close end the streams.      *)
(* Each of these takes the row, the tombstone and the hub one after the    *)
(* other.  Events are numbered in the order of publication.                *)
(***************************************************************************)
EXTENDS Naturals, Sequences

CONSTANTS
  Subscribers,    \* requests for the event stream
  Endings,        \* requests that end streams
  bufferSize,     \* capacity of a subscriber's channel
  MaxEvents       \* bound: events published

VARIABLES
  row,            \* "active", "archived" or "hidden" (deleted, or device unpaired)
  tombstones,     \* the session is in Service.archived, in Service.revoked
  closed,         \* Service.closed
  hubClosed,      \* eventHub.closed
  bySession,      \* the registered subscribers
  events,         \* their channels
  chClosed,       \* those that are closed
  spc,            \* position of a request in API.events
  got,            \* the last event its browser was sent
  published,      \* number of events the hub accepted
  epc, kind       \* position and kind of an ending

service == <<row, tombstones, closed>>
hub == <<hubClosed, bySession, chClosed>>
vars == <<service, hub, events, spc, got, published, epc, kind>>

TypeOK ==
  /\ row \in {"active", "archived", "hidden"}
  /\ tombstones \subseteq {"archived", "revoked"}
  /\ closed \in BOOLEAN /\ hubClosed \in BOOLEAN
  /\ bySession \subseteq Subscribers
  /\ events \in [Subscribers -> Seq(Nat)]
  /\ \A x \in Subscribers : Len(events[x]) <= bufferSize
  /\ chClosed \in [Subscribers -> BOOLEAN]
  /\ spc \in [Subscribers -> {"new", "found", "streaming", "gone"}]
  /\ got \in [Subscribers -> Nat]
  /\ published \in Nat
  /\ epc \in [Endings -> {"new", "committed", "marked", "done"}]
  /\ kind \in [Endings -> {"none", "archive", "restore", "delete", "unpair"}]

Init ==
  /\ row = "active" /\ tombstones = {} /\ closed = FALSE
  /\ hubClosed = FALSE /\ bySession = {} /\ published = 0
  /\ events = [x \in Subscribers |-> <<>>]
  /\ chClosed = [x \in Subscribers |-> FALSE]
  /\ spc = [x \in Subscribers |-> "new"]
  /\ got = [x \in Subscribers |-> 0]
  /\ epc = [e \in Endings |-> "new"] /\ kind = [e \in Endings |-> "none"]

-----------------------------------------------------------------------------
(* The hub *)

\* close(value.events), and out of the registry.
CloseChannels(xs) ==
  /\ chClosed' = [x \in Subscribers |-> chClosed[x] \/ x \in xs]
  /\ bySession' = bySession \ xs

Full(x) == Len(events[x]) = bufferSize

Deliver == events' = [x \in Subscribers |-> IF x \in bySession /\ ~Full(x)
                        THEN Append(events[x], published + 1) ELSE events[x]]

\* Mutant: an event that does not fit is dropped, and the subscriber stays.
PublishDrops ==
  /\ published < MaxEvents
  /\ tombstones = {} /\ ~hubClosed
  /\ Deliver
  /\ published' = published + 1
  /\ UNCHANGED <<service, hub, spc, got, epc, kind>>

\* Mutant: a full subscriber is closed and stays registered.
PublishKeeps ==
  /\ published < MaxEvents
  /\ tombstones = {} /\ ~hubClosed
  /\ Deliver
  /\ chClosed' = [x \in Subscribers |-> chClosed[x] \/ (x \in bySession /\ Full(x))]
  /\ published' = published + 1
  /\ UNCHANGED <<service, hubClosed, bySession, spc, got, epc, kind>>

\* Service.publish and eventHub.publish: never waits; whoever has no room left
\* is closed.
publish ==
  /\ published < MaxEvents
  /\ tombstones = {} /\ ~hubClosed
  /\ Deliver
  /\ CloseChannels({x \in bySession : Full(x)})
  /\ published' = published + 1
  /\ UNCHANGED <<service, hubClosed, spc, got, epc, kind>>

-----------------------------------------------------------------------------
(* API.events *)

SGo(x, position) == spc' = [spc EXCEPT ![x] = position]

\* Subscribe: the store lookup ...
FindSession(x) ==
  /\ spc[x] = "new"
  /\ SGo(x, IF row = "active" THEN "found" ELSE "gone")
  /\ UNCHANGED <<service, hub, events, got, published, epc, kind>>

\* Mutant: the registration trusts the lookup.
SubscribeUnchecked(x) ==
  /\ spc[x] = "found"
  /\ ~closed /\ ~hubClosed
  /\ bySession' = bySession \cup {x}
  /\ got' = [got EXCEPT ![x] = published]
  /\ SGo(x, "streaming")
  /\ UNCHANGED <<service, hubClosed, chClosed, events, published, epc, kind>>

\* ... and, in one critical section, the tombstones and the registration.
subscribe(x) ==
  /\ spc[x] = "found"
  /\ ~closed /\ tombstones = {} /\ ~hubClosed
  /\ bySession' = bySession \cup {x}
  /\ got' = [got EXCEPT ![x] = published]
  /\ SGo(x, "streaming")
  /\ UNCHANGED <<service, hubClosed, chClosed, events, published, epc, kind>>

RefuseSubscription(x) ==
  /\ spc[x] = "found"
  /\ closed \/ tombstones # {} \/ hubClosed
  /\ SGo(x, "gone")
  /\ UNCHANGED <<service, hub, events, got, published, epc, kind>>

\* A frame is written.
SendEvent(x) ==
  /\ spc[x] = "streaming"
  /\ events[x] # <<>>
  /\ got' = [got EXCEPT ![x] = Head(events[x])]
  /\ events' = [events EXCEPT ![x] = Tail(@)]
  /\ UNCHANGED <<service, hub, spc, published, epc, kind>>

\* The browser leaves or a write fails; the deferred unsubscribe is remove.
Stop(x) ==
  /\ spc[x] = "streaming"
  /\ CloseChannels({x} \cap bySession)
  /\ SGo(x, "gone")
  /\ UNCHANGED <<service, hubClosed, events, got, published, epc, kind>>

\* The channel is closed and drained.
EndOfStream(x) ==
  /\ events[x] = <<>> /\ chClosed[x]
  /\ Stop(x)

-----------------------------------------------------------------------------
(* Archive, restore, delete, unpair and Close *)

\* The statement that changes the row, for a request that was admitted before
\* Close, which waits for it, or for an unpair, which needs no admission.  A
\* session with a turn cannot be archived or deleted, but its last events may
\* still be in the channels.
Commit(e, k) ==
  /\ epc[e] = "new"
  /\ \/ k = "archive" /\ row # "hidden" /\ row' = "archived"
     \/ k = "restore" /\ row # "hidden" /\ row' = "active"
     \/ k \in {"delete", "unpair"} /\ row # "hidden" /\ row' = "hidden"
  /\ kind' = [kind EXCEPT ![e] = k]
  /\ epc' = [epc EXCEPT ![e] = "committed"]
  /\ UNCHANGED <<tombstones, closed, hub, events, spc, got, published>>

\* Mutant: a deleted session is not marked.
MarkForgets(e) ==
  /\ epc[e] = "committed"
  /\ \/ kind[e] = "archive" /\ tombstones' = tombstones \cup {"archived"}
     \/ kind[e] \in {"restore", "delete"} /\ tombstones' = tombstones \ {"archived"}
     \/ kind[e] = "unpair" /\ tombstones' = tombstones \cup {"revoked"}
  /\ epc' = [epc EXCEPT ![e] = IF kind[e] = "restore" THEN "done" ELSE "marked"]
  /\ UNCHANGED <<row, closed, hub, events, spc, got, published, kind>>

\* The critical section: SetSessionArchived, DeleteSession, MarkDeviceRevoked.
Mark(e) ==
  /\ epc[e] = "committed"
  /\ \/ kind[e] = "archive" /\ tombstones' = tombstones \cup {"archived"}
     \/ kind[e] = "restore" /\ tombstones' = tombstones \ {"archived"}
     \/ kind[e] = "delete" /\ tombstones' = {"revoked"}
     \/ kind[e] = "unpair" /\ tombstones' = tombstones \cup {"revoked"}
  /\ epc' = [epc EXCEPT ![e] = IF kind[e] = "restore" THEN "done" ELSE "marked"]
  /\ UNCHANGED <<row, closed, hub, events, spc, got, published, kind>>

closeSession(e) ==
  /\ epc[e] = "marked"
  /\ CloseChannels(bySession)
  /\ epc' = [epc EXCEPT ![e] = "done"]
  /\ UNCHANGED <<service, hubClosed, events, spc, got, published, kind>>

Close ==
  /\ ~closed
  /\ closed' = TRUE
  /\ UNCHANGED <<row, tombstones, hub, events, spc, got, published, epc, kind>>

\* Mutant: Close leaves the streams to their browsers.
CloseHubQuietly ==
  /\ closed /\ ~hubClosed
  /\ hubClosed' = TRUE
  /\ bySession' = {}
  /\ UNCHANGED <<service, chClosed, events, spc, got, published, epc, kind>>

CloseHub ==
  /\ closed /\ ~hubClosed
  /\ hubClosed' = TRUE
  /\ CloseChannels(bySession)
  /\ UNCHANGED <<service, events, spc, got, published, epc, kind>>

-----------------------------------------------------------------------------
Next ==
  \/ publish \/ Close \/ CloseHub
  \/ \E x \in Subscribers :
       \/ FindSession(x) \/ subscribe(x) \/ RefuseSubscription(x)
       \/ SendEvent(x) \/ Stop(x) \/ EndOfStream(x)
  \/ \E e \in Endings :
       \/ \E k \in {"archive", "restore", "delete", "unpair"} : Commit(e, k)
       \/ Mark(e) \/ closeSession(e)

Spec == Init /\ [][Next]_vars

\* A frame is written or its deadline passes, an ending that began goes on, and
\* Close reaches the hub.  No browser needs to leave.
Fairness ==
  /\ \A x \in Subscribers :
       WF_vars(subscribe(x) \/ RefuseSubscription(x) \/ SendEvent(x) \/ EndOfStream(x))
  /\ \A e \in Endings : WF_vars(Mark(e) \/ closeSession(e))
  /\ WF_vars(CloseHub)

FairSpec == Spec /\ Fairness

-----------------------------------------------------------------------------
(* Properties *)

\* The hub never sends on a closed channel nor closes one twice (both panic under
\* the service's mutex), and no stream is left with an open channel that the
\* hub has forgotten.
HubInv ==
  /\ \A x \in bySession : ~chClosed[x] /\ spc[x] = "streaming"
  /\ \A x \in Subscribers : spc[x] = "streaming" /\ x \notin bySession => chClosed[x]
  /\ \A x \in Subscribers : spc[x] \in {"new", "found"} => ~chClosed[x]
  /\ hubClosed => bySession = {}

\* A stream has no silent gap: a slow browser is disconnected, and until then it
\* is sent every event since it subscribed, in order.
NoGap ==
  \A x \in Subscribers :
    /\ \A i \in 1..Len(events[x]) : events[x][i] = got[x] + i
    /\ x \in bySession => got[x] + Len(events[x]) = published

\* "MarkDeviceRevoked therefore either sees this subscriber and later closes it,
\* or makes this registration fail": a session with a tombstone has subscribers
\* only while the request that set it is on its way to the hub.
TombstoneSilences ==
  tombstones # {} /\ (\A e \in Endings : epc[e] # "marked") => bySession = {}

\* What makes this inductive: the request that set "revoked" never has it taken
\* away, and a stream that was not registered has nothing in its channel.
HubHistory ==
  /\ \A e \in Endings :
       epc[e] \in {"marked", "done"} /\ kind[e] \in {"delete", "unpair"} =>
         "revoked" \in tombstones
  /\ \A x \in Subscribers : spc[x] \in {"new", "found"} => events[x] = <<>>

\* After a delete or an unpair has returned, no stream is ever registered again.
EndingIsFinal ==
  [][\A e \in Endings :
       epc[e] = "done" /\ kind[e] \in {"delete", "unpair"} => bySession' \subseteq bySession]_vars

\* All of it: a stream has no silent gap, is closed once by whoever removes it
\* first, and none is open or opened after its session was deleted or its device
\* unpaired.
StreamsFaithful ==
  /\ [](TypeOK /\ HubInv /\ NoGap /\ TombstoneSilences /\ HubHistory)
  /\ EndingIsFinal

\* Close ends every stream, however slow its browser.
StreamsEnd ==
  \A x \in Subscribers : []<>(closed => spc[x] # "streaming")
=============================================================================
