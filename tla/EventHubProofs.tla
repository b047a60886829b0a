---------------------------- MODULE EventHubProofs ----------------------------
(***************************************************************************)
(* The event stream of a session, for any number of browsers, of requests  *)
(* that end streams, of events, and any capacity of the channels.          *)
(***************************************************************************)
EXTENDS EventHub, TLAPS

\* A new service has no stream.
LEMMA HubInit ==
  ASSUME bufferSize \in Nat, Init
  PROVE  TypeOK /\ HubInv /\ NoGap /\ TombstoneSilences /\ HubHistory
<1>0. <<>> \in Seq(Nat) /\ Len(<<>>) = 0
  OBVIOUS
<1>1. TypeOK
  <2>1. /\ events \in [Subscribers -> Seq(Nat)]
        /\ \A x \in Subscribers : Len(events[x]) <= bufferSize
    BY <1>0 DEF Init
  <2> QED BY <2>1 DEF Init, TypeOK
<1>2. HubInv
  BY DEF Init, HubInv
<1>3. NoGap
  <2>1. \A x \in Subscribers : events[x] = <<>> /\ 1..Len(events[x]) = {}
    <3> SUFFICES ASSUME NEW x \in Subscribers PROVE events[x] = <<>> /\ 1..Len(events[x]) = {}
      OBVIOUS
    <3>1. events[x] = <<>>
      BY DEF Init
    <3>2. 1..0 = {}
      OBVIOUS
    <3> QED BY <1>0, <3>1, <3>2, Zenon
  <2>2. bySession = {}
    BY DEF Init
  <2> QED BY <2>1, <2>2, Zenon DEF NoGap
<1>4. TombstoneSilences
  BY DEF Init, TombstoneSilences
<1>5. HubHistory
  BY DEF Init, HubHistory
<1> QED BY <1>1, <1>2, <1>3, <1>4, <1>5

\* A channel never holds more than its capacity, and every step keeps the types.
LEMMA HubTypes ==
  ASSUME bufferSize \in Nat, TypeOK, Next
  PROVE  TypeOK'
<1> USE DEF TypeOK, SGo, CloseChannels, service, hub
<1>1. CASE publish
  <2>1. events' \in [Subscribers -> Seq(Nat)]
    BY <1>1 DEF publish, Deliver
  <2>2. \A x \in Subscribers : Len(events'[x]) <= bufferSize
    <3> SUFFICES ASSUME NEW x \in Subscribers PROVE Len(events'[x]) <= bufferSize
      OBVIOUS
    <3>1. events[x] \in Seq(Nat) /\ Len(events[x]) \in Nat /\ Len(events[x]) <= bufferSize
      OBVIOUS
    <3>2. Len(Append(events[x], published + 1)) = Len(events[x]) + 1
      BY <3>1
    <3>3. \/ events'[x] = events[x]
          \/ Len(events[x]) # bufferSize /\ events'[x] = Append(events[x], published + 1)
      BY <1>1 DEF publish, Deliver, Full
    <3> QED BY <3>1, <3>2, <3>3
  <2> QED BY <1>1, <2>1, <2>2 DEF publish
<1>2. CASE Close
  BY <1>2 DEF Close
<1>3. CASE CloseHub
  <2>1. chClosed' \in [Subscribers -> BOOLEAN] /\ bySession' \subseteq Subscribers
    BY <1>3, Zenon DEF CloseHub
  <2>2. hubClosed' \in BOOLEAN
    BY <1>3 DEF CloseHub
  <2>3. /\ row' = row /\ tombstones' = tombstones /\ closed' = closed /\ events' = events
        /\ spc' = spc /\ got' = got /\ published' = published /\ epc' = epc /\ kind' = kind
    BY <1>3 DEF CloseHub
  <2> QED BY <2>1, <2>2, <2>3, Zenon
<1>4. ASSUME NEW x \in Subscribers, FindSession(x) \/ RefuseSubscription(x)
      PROVE  TypeOK'
  BY <1>4 DEF FindSession, RefuseSubscription
<1>5. ASSUME NEW x \in Subscribers, subscribe(x)
      PROVE  TypeOK'
  BY <1>5 DEF subscribe
<1>6. ASSUME NEW x \in Subscribers, SendEvent(x)
      PROVE  TypeOK'
  <2>1. events[x] \in Seq(Nat) /\ events[x] # <<>>
    BY <1>6 DEF SendEvent
  <2>2. /\ Head(events[x]) \in Nat /\ Tail(events[x]) \in Seq(Nat)
        /\ Len(Tail(events[x])) = Len(events[x]) - 1
        /\ Len(events[x]) \in Nat
    BY <2>1
  <2>3. events' = [events EXCEPT ![x] = Tail(events[x])]
    BY <1>6 DEF SendEvent
  <2>4. \A y \in Subscribers : Len(events'[y]) <= bufferSize
    BY <2>2, <2>3
  <2> QED BY <1>6, <2>2, <2>3, <2>4 DEF SendEvent
<1>7. ASSUME NEW x \in Subscribers, Stop(x) \/ EndOfStream(x)
      PROVE  TypeOK'
  BY <1>7 DEF Stop, EndOfStream
<1>8. ASSUME NEW e \in Endings, NEW k \in {"archive", "restore", "delete", "unpair"}, Commit(e, k)
      PROVE  TypeOK'
  BY <1>8 DEF Commit
<1>9. ASSUME NEW e \in Endings, Mark(e) \/ closeSession(e)
      PROVE  TypeOK'
  BY <1>9 DEF Mark, closeSession
<1> QED BY <1>1, <1>2, <1>3, <1>4, <1>5, <1>6, <1>7, <1>8, <1>9 DEF Next

\* A registered channel is open and has a reader, and a reader whose channel the
\* hub has forgotten finds it closed.
LEMMA HubClosesOnce ==
  ASSUME TypeOK, HubInv, Next
  PROVE  HubInv'
<1> USE DEF TypeOK, HubInv, service, hub
<1>1. ASSUME NEW xs, CloseChannels(xs), spc' = spc, xs \subseteq bySession,
             hubClosed' = hubClosed \/ xs = bySession
      PROVE  HubInv'
  <2>1. \A x \in bySession' : ~chClosed'[x] /\ spc'[x] = "streaming"
    BY <1>1 DEF CloseChannels
  <2>2. \A x \in Subscribers : spc'[x] = "streaming" /\ x \notin bySession' => chClosed'[x]
    BY <1>1 DEF CloseChannels
  <2>3. \A x \in Subscribers : spc'[x] \in {"new", "found"} => ~chClosed'[x]
    BY <1>1 DEF CloseChannels
  <2>4. hubClosed' => bySession' = {}
    BY <1>1 DEF CloseChannels
  <2> QED BY <2>1, <2>2, <2>3, <2>4
<1>2. CASE publish
  BY <1>1, <1>2 DEF publish
<1>3. CASE CloseHub
  BY <1>1, <1>3 DEF CloseHub
<1>4. ASSUME NEW e \in Endings, closeSession(e)
      PROVE  HubInv'
  BY <1>1, <1>4 DEF closeSession
<1>5. CASE Close
  BY <1>5 DEF Close
<1>6. ASSUME NEW x \in Subscribers, FindSession(x) \/ RefuseSubscription(x)
      PROVE  HubInv'
  BY <1>6 DEF FindSession, RefuseSubscription, SGo
<1>7. ASSUME NEW x \in Subscribers, subscribe(x)
      PROVE  HubInv'
  BY <1>7 DEF subscribe, SGo
<1>8. ASSUME NEW x \in Subscribers, SendEvent(x)
      PROVE  HubInv'
  BY <1>8 DEF SendEvent
<1>9. ASSUME NEW x \in Subscribers, Stop(x)
      PROVE  HubInv'
  BY <1>9 DEF Stop, CloseChannels, SGo
<1>10. ASSUME NEW e \in Endings, NEW k \in {"archive", "restore", "delete", "unpair"}, Commit(e, k)
      PROVE  HubInv'
  BY <1>10 DEF Commit
<1>11. ASSUME NEW e \in Endings, Mark(e)
      PROVE  HubInv'
  BY <1>11 DEF Mark
<1> QED BY <1>2, <1>3, <1>4, <1>5, <1>6, <1>7, <1>8, <1>9, <1>10, <1>11 DEF Next, EndOfStream

\* What Append does to the length and the elements of a channel.
LEMMA Appended ==
  ASSUME NEW s \in Seq(Nat), NEW n \in Nat
  PROVE  /\ Len(Append(s, n)) = Len(s) + 1
         /\ Append(s, n)[Len(s) + 1] = n
         /\ \A i \in 1..Len(s) : Append(s, n)[i] = s[i]
OBVIOUS

\* publish appends the next number to every registered channel with room and takes
\* the others from the registry; a new reader starts at the last number.
LEMMA HubLeavesNoGap ==
  ASSUME TypeOK, HubInv, NoGap, HubHistory, Next
  PROVE  NoGap'
<1>1. CASE publish
  <2> SUFFICES ASSUME NEW x \in Subscribers
               PROVE  /\ \A i \in 1..Len(events'[x]) : events'[x][i] = got'[x] + i
                      /\ x \in bySession' => got'[x] + Len(events'[x]) = published'
    BY DEF NoGap
  <2>1. /\ events[x] \in Seq(Nat) /\ Len(events[x]) \in Nat /\ got[x] \in Nat /\ published \in Nat
        /\ got'[x] = got[x] /\ published' = published + 1 /\ published + 1 \in Nat
        /\ \A i \in 1..Len(events[x]) : events[x][i] = got[x] + i
    BY <1>1 DEF publish, TypeOK, NoGap
  <2>2. CASE x \in bySession /\ ~Full(x)
    <3>1. events'[x] = Append(events[x], published + 1)
      BY <1>1, <2>2 DEF publish, Deliver
    <3>2. got[x] + Len(events[x]) = published
      BY <2>2 DEF NoGap
    <3>3. /\ Len(events'[x]) = Len(events[x]) + 1
          /\ events'[x][Len(events[x]) + 1] = published + 1
          /\ \A i \in 1..Len(events[x]) : events'[x][i] = events[x][i]
      <4>1. /\ Len(Append(events[x], published + 1)) = Len(events[x]) + 1
            /\ Append(events[x], published + 1)[Len(events[x]) + 1] = published + 1
            /\ \A i \in 1..Len(events[x]) : Append(events[x], published + 1)[i] = events[x][i]
        BY <2>1, Appended
      <4> QED BY <3>1, <4>1, Zenon
    <3>4. got'[x] + Len(events'[x]) = published'
      <4>1. got[x] \in Nat /\ Len(events[x]) \in Nat
        BY <2>1
      <4>2. got[x] + (Len(events[x]) + 1) = (got[x] + Len(events[x])) + 1
        BY <4>1
      <4> QED BY <2>1, <3>2, <3>3, <4>2, Zenon
    <3>5. ASSUME NEW i \in 1..Len(events'[x]) PROVE events'[x][i] = got'[x] + i
      <4>1. CASE i \in 1..Len(events[x])
        BY <2>1, <3>3, <4>1, Zenon
      <4>2. CASE i = Len(events[x]) + 1
        <5>1. published + 1 = got[x] + i
          BY <2>1, <3>2, <4>2
        <5> QED BY <2>1, <3>3, <4>2, <5>1, Zenon
      <4> QED BY <2>1, <3>3, <4>1, <4>2
    <3> QED BY <3>4, <3>5
  <2>3. CASE ~(x \in bySession /\ ~Full(x))
    <3>1. events'[x] = events[x] /\ x \notin bySession'
      BY <1>1, <2>3 DEF publish, Deliver, CloseChannels
    <3> QED BY <2>1, <3>1
  <2> QED BY <2>2, <2>3
<1>2. ASSUME NEW x \in Subscribers, subscribe(x)
      PROVE  NoGap'
  <2> SUFFICES ASSUME NEW y \in Subscribers
               PROVE  /\ \A i \in 1..Len(events'[y]) : events'[y][i] = got'[y] + i
                      /\ y \in bySession' => got'[y] + Len(events'[y]) = published'
    BY DEF NoGap
  <2>1. CASE y = x
    <3>1. events'[x] = <<>> /\ got'[x] = published /\ published' = published /\ published \in Nat
      BY <1>2 DEF subscribe, HubHistory, TypeOK
    <3> QED BY <2>1, <3>1
  <2>2. CASE y # x
    <3>1. /\ events'[y] = events[y] /\ got'[y] = got[y] /\ published' = published
          /\ y \in bySession' => y \in bySession
      BY <1>2, <2>2 DEF subscribe, TypeOK
    <3> QED BY <3>1 DEF NoGap
  <2> QED BY <2>1, <2>2
<1>3. ASSUME NEW x \in Subscribers, SendEvent(x)
      PROVE  NoGap'
  <2> SUFFICES ASSUME NEW y \in Subscribers
               PROVE  /\ \A i \in 1..Len(events'[y]) : events'[y][i] = got'[y] + i
                      /\ y \in bySession' => got'[y] + Len(events'[y]) = published'
    BY DEF NoGap
  <2>0. bySession' = bySession /\ published' = published
    BY <1>3 DEF SendEvent, hub
  <2>1. CASE y = x
    <3>1. /\ events[x] \in Seq(Nat) /\ events[x] # <<>> /\ got[x] \in Nat
          /\ events'[x] = Tail(events[x]) /\ got'[x] = Head(events[x])
      BY <1>3 DEF SendEvent, TypeOK
    <3>2. /\ \A i \in 1..Len(events[x]) : events[x][i] = got[x] + i
          /\ x \in bySession => got[x] + Len(events[x]) = published
      BY DEF NoGap
    <3>3. /\ Len(events[x]) \in Nat /\ Len(events[x]) # 0
          /\ Len(Tail(events[x])) = Len(events[x]) - 1
          /\ Head(events[x]) = events[x][1]
          /\ \A i \in 1..Len(Tail(events[x])) : Tail(events[x])[i] = events[x][i + 1]
      BY <3>1
    <3>4. got'[x] = got[x] + 1
      BY <3>1, <3>2, <3>3
    <3>5. ASSUME NEW i \in 1..Len(events'[x]) PROVE events'[x][i] = got'[x] + i
      <4>1. i + 1 \in 1..Len(events[x]) /\ i \in Nat
        BY <3>1, <3>3
      <4>2. events'[x][i] = events[x][i + 1]
        BY <3>1, <3>3
      <4>3. events[x][i + 1] = got[x] + (i + 1)
        BY <3>2, <4>1
      <4>4. got[x] \in Nat
        BY <3>1
      <4>5. i \in Nat
        BY <4>1
      <4>6. got[x] + (i + 1) = (got[x] + 1) + i
        BY <4>4, <4>5
      <4> QED BY <3>4, <4>2, <4>3, <4>6, Zenon
    <3>6. x \in bySession => got'[x] + Len(events'[x]) = published
      <4>1. Len(events'[x]) = Len(events[x]) - 1
        BY <3>1, <3>3
      <4> QED BY <3>1, <3>2, <3>3, <3>4, <4>1
    <3> QED BY <2>0, <2>1, <3>5, <3>6
  <2>2. CASE y # x
    <3>1. events'[y] = events[y] /\ got'[y] = got[y]
      BY <1>3, <2>2 DEF SendEvent, TypeOK
    <3> QED BY <2>0, <3>1 DEF NoGap
  <2> QED BY <2>1, <2>2
<1>4. ASSUME events' = events, got' = got, published' = published, bySession' \subseteq bySession
      PROVE  NoGap'
  BY <1>4 DEF NoGap
<1>5. CASE Close
  BY <1>4, <1>5 DEF Close, hub
<1>6. CASE CloseHub
  BY <1>4, <1>6 DEF CloseHub, CloseChannels
<1>7. ASSUME NEW x \in Subscribers, FindSession(x) \/ RefuseSubscription(x)
      PROVE  NoGap'
  BY <1>4, <1>7 DEF FindSession, RefuseSubscription, hub
<1>8. ASSUME NEW x \in Subscribers, Stop(x)
      PROVE  NoGap'
  BY <1>4, <1>8 DEF Stop, CloseChannels
<1>9. ASSUME NEW e \in Endings, NEW k \in {"archive", "restore", "delete", "unpair"}, Commit(e, k)
      PROVE  NoGap'
  BY <1>4, <1>9 DEF Commit, hub
<1>10. ASSUME NEW e \in Endings, Mark(e)
      PROVE  NoGap'
  BY <1>4, <1>10 DEF Mark, hub
<1>11. ASSUME NEW e \in Endings, closeSession(e)
      PROVE  NoGap'
  BY <1>4, <1>11 DEF closeSession, CloseChannels
<1> QED BY <1>1, <1>2, <1>3, <1>5, <1>6, <1>7, <1>8, <1>9, <1>10, <1>11 DEF Next, EndOfStream

\* A tombstone is set before the streams are closed and refuses registrations
\* from then on; "revoked" is never taken back.
LEMMA HubRemembers ==
  ASSUME TypeOK, HubInv, TombstoneSilences, HubHistory, Next
  PROVE  /\ TombstoneSilences' /\ HubHistory'
         /\ \A e \in Endings : epc[e] = "done" /\ kind[e] \in {"delete", "unpair"} =>
              bySession' \subseteq bySession
<1> DEFINE Goal == /\ TombstoneSilences' /\ HubHistory'
                   /\ \A e \in Endings : epc[e] = "done" /\ kind[e] \in {"delete", "unpair"} =>
                        bySession' \subseteq bySession
<1> USE DEF TypeOK, TombstoneSilences, HubHistory
<1>1. CASE publish
  <2>1. \A x \in Subscribers : spc[x] \in {"new", "found"} => events'[x] = events[x]
    BY <1>1 DEF publish, Deliver, HubInv
  <2>2. spc' = spc /\ epc' = epc /\ kind' = kind /\ tombstones' = tombstones /\ tombstones = {}
        /\ bySession' \subseteq bySession
    BY <1>1 DEF publish, service, CloseChannels
  <2> QED BY <2>1, <2>2
<1>2. CASE Close
  BY <1>2 DEF Close, hub
<1>3. CASE CloseHub
  BY <1>3 DEF CloseHub, CloseChannels, service
<1>4. ASSUME NEW x \in Subscribers, FindSession(x) \/ RefuseSubscription(x)
      PROVE  Goal
  BY <1>4 DEF FindSession, RefuseSubscription, SGo, hub, service
<1>5. ASSUME NEW x \in Subscribers, subscribe(x)
      PROVE  Goal
  BY <1>5 DEF subscribe, SGo, service
<1>6. ASSUME NEW x \in Subscribers, SendEvent(x)
      PROVE  Goal
  BY <1>6 DEF SendEvent, hub, service
<1>7. ASSUME NEW x \in Subscribers, Stop(x)
      PROVE  Goal
  BY <1>7 DEF Stop, SGo, CloseChannels, service
<1>8. ASSUME NEW e \in Endings, NEW k \in {"archive", "restore", "delete", "unpair"}, Commit(e, k)
      PROVE  Goal
  BY <1>8 DEF Commit, hub
<1>9. ASSUME NEW e \in Endings, Mark(e)
      PROVE  Goal
  BY <1>9 DEF Mark, hub
<1>10. ASSUME NEW e \in Endings, closeSession(e)
      PROVE  Goal
  BY <1>10 DEF closeSession, CloseChannels, service
<1> HIDE DEF Goal
<1>11. Goal
  BY <1>1, <1>2, <1>3, <1>4, <1>5, <1>6, <1>7, <1>8, <1>9, <1>10 DEF Next, EndOfStream, Goal
<1> QED BY <1>11 DEF Goal

\* A stream has no silent gap and is closed once, and none is open or opened after
\* its session was deleted or its device unpaired, whatever the capacity of the
\* channels and the order in which publish, readers and endings come.
THEOREM StreamsTheorem ==
  ASSUME bufferSize \in Nat
  PROVE  Spec => StreamsFaithful
<1> DEFINE Inv == TypeOK /\ HubInv /\ NoGap /\ TombstoneSilences /\ HubHistory
           Final == \A e \in Endings :
             epc[e] = "done" /\ kind[e] \in {"delete", "unpair"} => bySession' \subseteq bySession
<1>1. Init => Inv
  BY HubInit
<1>2. Inv /\ Next => Inv'
  BY HubTypes, HubClosesOnce, HubLeavesNoGap, HubRemembers
<1>3. Inv /\ UNCHANGED vars => Inv'
  BY DEF vars, service, hub, TypeOK, HubInv, NoGap, TombstoneSilences, HubHistory
<1>4. Inv /\ [Next]_vars => [Final]_vars
  BY HubRemembers
<1> QED BY <1>1, <1>2, <1>3, <1>4, PTL DEF Spec, StreamsFaithful, EndingIsFinal
=============================================================================
