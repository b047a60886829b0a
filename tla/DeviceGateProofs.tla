--------------------------- MODULE DeviceGateProofs ---------------------------
(***************************************************************************)
(* The gate is a lock per device for any number of devices, goroutines and *)
(* heap objects, and it leaves no entry behind.                            *)
(***************************************************************************)
EXTENDS DeviceGate, FiniteSetTheorems, TLAPS

\* A gate without callers has an empty map.
LEMMA GateInit == Init => TypeOK /\ GateInv
<1> SUFFICES ASSUME Init PROVE TypeOK /\ GateInv
  OBVIOUS
<1>1. TypeOK
  BY DEF Init, TypeOK, Positions
<1>2. GateInv
  BY EntryAssumption DEF Init, GateInv, HasToken
<1> QED BY <1>1, <1>2

\* Every entry has finitely many users.
LEMMA UsersFinite ==
  ASSUME NEW e, NEW v
  PROVE  IsFiniteSet(Users(e, v)) /\ Cardinality(Users(e, v)) \in Nat
<1>1. Users(e, v) \in SUBSET Callers
  BY DEF Users
<1>2. IsFiniteSet(Users(e, v))
  BY <1>1, CallersAssumption, FS_Subset
<1> QED BY <1>2, FS_CardinalityType

\* The pointers w are the pointers v but for that of c, which is now e.
Redirected(v, w, c, e) ==
  v \in [Callers -> Entries \cup {NoEntry}] /\ w = [v EXCEPT ![c] = e]

\* A caller that sets its pointer to e becomes a user of e, and nobody else
\* becomes or stops to be a user of another entry.
LEMMA UserAdded ==
  ASSUME NEW c \in Callers, NEW e \in Entries,
         NEW v, NEW w, v[c] = NoEntry, Redirected(v, w, c, e)
  PROVE  /\ c \in Users(e, w)
         /\ Cardinality(Users(e, w)) = Cardinality(Users(e, v)) + 1
         /\ \A x : x # e /\ x # NoEntry => Users(x, w) = Users(x, v)
<1>1. Users(e, w) = Users(e, v) \cup {c} /\ c \notin Users(e, v)
  BY EntryAssumption DEF Users, Redirected
<1>2. Cardinality(Users(e, w)) = Cardinality(Users(e, v)) + 1
  BY <1>1, UsersFinite, FS_AddElement
<1>3. \A x : x # e /\ x # NoEntry => Users(x, w) = Users(x, v)
  BY DEF Users, Redirected
<1> QED BY <1>1, <1>2, <1>3

\* A caller that forgets its pointer to e is no longer a user of e; it was the
\* last one exactly if it was the only one.
LEMMA UserRemoved ==
  ASSUME NEW c \in Callers, NEW e \in Entries,
         NEW v, NEW w, v[c] = e, Redirected(v, w, c, NoEntry)
  PROVE  /\ Cardinality(Users(e, v)) \in Nat \ {0}
         /\ Cardinality(Users(e, w)) = Cardinality(Users(e, v)) - 1
         /\ Cardinality(Users(e, v)) = 1 <=> Users(e, w) = {}
         /\ \A x : x # e /\ x # NoEntry => Users(x, w) = Users(x, v)
<1>1. Users(e, w) = Users(e, v) \ {c} /\ c \in Users(e, v)
  BY EntryAssumption DEF Users, Redirected
<1>2. Cardinality(Users(e, v)) \in Nat /\ Cardinality(Users(e, v)) # 0
  BY <1>1, UsersFinite, FS_EmptySet
<1>3. Cardinality(Users(e, w)) = Cardinality(Users(e, v)) - 1
  BY <1>1, UsersFinite, FS_RemoveElement
<1>4. Cardinality(Users(e, w)) = 0 <=> Users(e, w) = {}
  BY UsersFinite, FS_EmptySet
<1>5. \A x : x # e /\ x # NoEntry => Users(x, w) = Users(x, v)
  BY DEF Users, Redirected
<1>6. Cardinality(Users(e, v)) \in Nat \ {0}
  BY <1>2
<1>7. Cardinality(Users(e, v)) = 1 <=> Cardinality(Users(e, w)) = 0
  BY <1>2, <1>3
<1> QED BY <1>3, <1>4, <1>5, <1>6, <1>7, Zenon

\* LockDevice finds the entry of the device and becomes one of its users.
LEMMA EntryFound ==
  ASSUME TypeOK, GateInv, NEW c \in Callers, NEW d \in Devices, LockDevice(c, d),
         entries[d] # NoEntry
  PROVE  TypeOK' /\ GateInv'
<1>1. PICK e \in Entries :
        /\ e = entries[d] /\ entries' = entries /\ token' = token
        /\ refs' = [refs EXCEPT ![e] = @ + 1]
        /\ value' = [value EXCEPT ![c] = e]
  BY DEF LockDevice
<1>2. /\ pc[c] = "idle" /\ value[c] = NoEntry
      /\ pc' = [pc EXCEPT ![c] = "waiting"]
      /\ device' = [device EXCEPT ![c] = d]
      /\ ctx' = [ctx EXCEPT ![c] = "live"]
  BY DEF LockDevice, GateInv
<1>3. TypeOK'
  BY <1>1, <1>2 DEF TypeOK, Positions
<1>4. /\ c \in Users(e, value')
      /\ Cardinality(Users(e, value')) = Cardinality(Users(e, value)) + 1
      /\ \A x : x # e /\ x # NoEntry => Users(x, value') = Users(x, value)
  <2>1. Redirected(value, value', c, e)
    BY <1>1 DEF TypeOK, Redirected
  <2>2. e \in Entries /\ value[c] = NoEntry
    BY <1>1, <1>2
  <2> QED BY <2>1, <2>2, UserAdded
<1>5. GateInv!3'
  <2> SUFFICES ASSUME NEW b \in Devices, entries'[b] # NoEntry
               PROVE  /\ Users(entries'[b], value') # {}
                      /\ refs'[entries'[b]] = Cardinality(Users(entries'[b], value'))
    OBVIOUS
  <2>1. /\ entries'[b] = entries[b] /\ entries[b] \in Entries
        /\ refs[entries[b]] = Cardinality(Users(entries[b], value))
        /\ Users(entries[b], value) # {}
    BY <1>1 DEF TypeOK, GateInv
  <2>2. CASE entries[b] = e
    <3>1. refs'[e] = refs[e] + 1
      BY <1>1 DEF TypeOK
    <3>2. Users(e, value') # {}
      BY <1>4
    <3> QED BY <1>4, <2>1, <2>2, <3>1, <3>2, Zenon
  <2>3. CASE entries[b] # e
    <3>1. refs'[entries[b]] = refs[entries[b]]
      BY <1>1, <2>1, <2>3 DEF TypeOK
    <3>2. Users(entries[b], value') = Users(entries[b], value)
      BY <1>4, <2>1, <2>3, EntryAssumption
    <3> QED BY <2>1, <3>1, <3>2, Zenon
  <2> QED BY <2>2, <2>3
<1>6. GateInv!1'
  BY <1>1, <1>2, EntryAssumption DEF TypeOK, GateInv
<1>7. GateInv!4'
  BY <1>1, <1>2, EntryAssumption DEF TypeOK, GateInv, HasToken
<1>8. GateInv!5'
  BY <1>1, <1>2, EntryAssumption DEF TypeOK, GateInv, HasToken
<1>9. GateInv!2'
  BY <1>1 DEF GateInv
<1> QED BY <1>3, <1>5, <1>6, <1>7, <1>8, <1>9 DEF GateInv

\* LockDevice makes an entry, whose only user it is, and puts the token in its
\* channel.
LEMMA EntryMade ==
  ASSUME TypeOK, GateInv, NEW c \in Callers, NEW d \in Devices, LockDevice(c, d),
         entries[d] = NoEntry
  PROVE  TypeOK' /\ GateInv'
<1>1. PICK e \in Entries :
        /\ \A b \in Devices : entries[b] # e
        /\ \A a \in Callers : value[a] # e
        /\ entries' = [entries EXCEPT ![d] = e]
        /\ refs' = [refs EXCEPT ![e] = 1]
        /\ token' = [token EXCEPT ![e] = TRUE]
        /\ value' = [value EXCEPT ![c] = e]
  BY DEF LockDevice, Unreachable
<1>2. /\ pc[c] = "idle" /\ value[c] = NoEntry
      /\ pc' = [pc EXCEPT ![c] = "waiting"]
      /\ device' = [device EXCEPT ![c] = d]
      /\ ctx' = [ctx EXCEPT ![c] = "live"]
  BY DEF LockDevice, GateInv
<1>3. TypeOK'
  BY <1>1, <1>2 DEF TypeOK, Positions
<1>4. /\ c \in Users(e, value')
      /\ Cardinality(Users(e, value')) = Cardinality(Users(e, value)) + 1
      /\ \A x : x # e /\ x # NoEntry => Users(x, value') = Users(x, value)
  <2>1. Redirected(value, value', c, e)
    BY <1>1 DEF TypeOK, Redirected
  <2>2. e \in Entries /\ value[c] = NoEntry
    BY <1>1, <1>2
  <2> QED BY <2>1, <2>2, UserAdded
<1>5. Cardinality(Users(e, value)) = 0
  <2>1. Users(e, value) = {}
    BY <1>1 DEF Users
  <2> QED BY <2>1, FS_EmptySet
<1>6. GateInv!3'
  <2> SUFFICES ASSUME NEW b \in Devices, entries'[b] # NoEntry
               PROVE  /\ Users(entries'[b], value') # {}
                      /\ refs'[entries'[b]] = Cardinality(Users(entries'[b], value'))
    OBVIOUS
  <2>1. CASE b = d
    <3>1. refs'[e] = 1 /\ entries'[b] = e
      BY <1>1, <2>1 DEF TypeOK
    <3>2. Users(e, value') # {} /\ Cardinality(Users(e, value')) = 1
      BY <1>4, <1>5
    <3> QED BY <3>1, <3>2, Zenon
  <2>2. CASE b # d
    <3>1. /\ entries'[b] = entries[b] /\ entries[b] \in Entries
          /\ entries[b] # e /\ entries[b] # NoEntry
          /\ refs'[entries[b]] = refs[entries[b]]
      BY <1>1, <2>2, EntryAssumption DEF TypeOK
    <3>2. /\ Users(entries[b], value) # {}
          /\ refs[entries[b]] = Cardinality(Users(entries[b], value))
      BY <3>1 DEF GateInv
    <3>3. Users(entries[b], value') = Users(entries[b], value)
      BY <1>4, <3>1
    <3> QED BY <3>1, <3>2, <3>3, Zenon
  <2> QED BY <2>1, <2>2
<1>7. GateInv!1'
  BY <1>1, <1>2, EntryAssumption DEF TypeOK, GateInv
<1>8. GateInv!2'
  BY <1>1, EntryAssumption DEF TypeOK, GateInv
<1>9. GateInv!4'
  BY <1>1, <1>2, EntryAssumption DEF TypeOK, GateInv, HasToken
<1>10. GateInv!5'
  BY <1>1, <1>2, EntryAssumption DEF TypeOK, GateInv, HasToken
<1> QED BY <1>3, <1>6, <1>7, <1>8, <1>9, <1>10 DEF GateInv

\* dropReference takes its caller from the users of the entry, and deletes the map
\* entry exactly when nobody is left.
LEMMA ReferenceDropped ==
  ASSUME TypeOK, GateInv, NEW c \in Callers, dropReference(c)
  PROVE  TypeOK' /\ GateInv'
<1>1. PICK e \in Entries, d \in Devices :
        /\ e = value[c] /\ d = device[c] /\ entries[d] = e
        /\ pc[c] = "dropping"
        /\ pc' = [pc EXCEPT ![c] = "idle"]
        /\ value' = [value EXCEPT ![c] = NoEntry]
        /\ refs' = [refs EXCEPT ![e] = @ - 1]
        /\ entries' = IF refs[e] = 1 THEN [entries EXCEPT ![d] = NoEntry] ELSE entries
        /\ token' = token /\ device' = device /\ ctx' = ctx
  BY DEF dropReference, GateInv, TypeOK
<1>2. /\ Cardinality(Users(e, value)) \in Nat \ {0}
      /\ Cardinality(Users(e, value')) = Cardinality(Users(e, value)) - 1
      /\ Cardinality(Users(e, value)) = 1 <=> Users(e, value') = {}
      /\ \A x : x # e /\ x # NoEntry => Users(x, value') = Users(x, value)
  <2>1. Redirected(value, value', c, NoEntry)
    BY <1>1 DEF TypeOK, Redirected
  <2>2. e \in Entries /\ value[c] = e
    BY <1>1
  <2> QED BY <2>1, <2>2, UserRemoved
<1>3. refs[e] = Cardinality(Users(e, value))
  BY <1>1, EntryAssumption DEF GateInv
<1>4. TypeOK'
  BY <1>1, <1>2, <1>3 DEF TypeOK, Positions
<1>5. GateInv!1'
  <2> SUFFICES ASSUME NEW a \in Callers, pc'[a] # "idle"
               PROVE  value'[a] \in Entries /\ entries'[device'[a]] = value'[a]
    BY <1>1 DEF GateInv, TypeOK
  <2>1. a # c /\ pc[a] # "idle" /\ value'[a] = value[a] /\ device'[a] = device[a]
    BY <1>1 DEF TypeOK
  <2>2. value[a] \in Entries /\ entries[device[a]] = value[a] /\ device[a] \in Devices
    BY <2>1 DEF GateInv, TypeOK
  <2>3. CASE device[a] = d
    <3>1. a \in Users(e, value')
      BY <1>1, <2>1, <2>2, <2>3 DEF Users
    <3> QED BY <3>1, <1>1, <1>2, <1>3, <2>1, <2>2
  <2>4. CASE device[a] # d
    BY <2>1, <2>2, <2>4, <1>1 DEF TypeOK
  <2> QED BY <2>3, <2>4
<1>6. GateInv!2'
  BY <1>1 DEF GateInv, TypeOK
<1>7. GateInv!3'
  <2> SUFFICES ASSUME NEW b \in Devices, entries'[b] # NoEntry
               PROVE  /\ Users(entries'[b], value') # {}
                      /\ refs'[entries'[b]] = Cardinality(Users(entries'[b], value'))
    OBVIOUS
  <2>1. entries'[b] = entries[b] /\ entries[b] \in Entries
    BY <1>1 DEF TypeOK
  <2>2. CASE b = d
    BY <1>1, <1>2, <1>3, <2>1, <2>2 DEF TypeOK
  <2>3. CASE b # d
    <3>1. entries[b] # e /\ entries[b] # NoEntry
      BY <1>1, <2>1, <2>3, EntryAssumption DEF GateInv
    <3>2. refs'[entries[b]] = refs[entries[b]]
      BY <1>1, <2>1, <3>1 DEF TypeOK
    <3>3. /\ Users(entries[b], value) # {}
          /\ refs[entries[b]] = Cardinality(Users(entries[b], value))
      BY <3>1 DEF GateInv
    <3>4. Users(entries[b], value') = Users(entries[b], value)
      BY <1>2, <3>1
    <3> QED BY <2>1, <3>2, <3>3, <3>4, Zenon
  <2> QED BY <2>2, <2>3
<1>8. GateInv!4'
  BY <1>1, EntryAssumption DEF GateInv, TypeOK, HasToken
<1>9. GateInv!5'
  BY <1>1 DEF GateInv, TypeOK, HasToken
<1> QED BY <1>4, <1>5, <1>6, <1>7, <1>8, <1>9 DEF GateInv

\* The channel operations and the end of a context move the token between the
\* channel and one caller; the map and the counts stay.
LEMMA TokenMoved ==
  ASSUME TypeOK, GateInv, NEW c \in Callers,
         \/ ReceiveToken(c) \/ ReceiveDone(c) \/ CheckContext(c)
         \/ ReturnToken(c) \/ CancelContext(c)
  PROVE  TypeOK' /\ GateInv'
<1> USE EntryAssumption DEF TypeOK, Positions, GateInv, HasToken
<1>1. CASE ReceiveToken(c)
  BY <1>1 DEF ReceiveToken
<1>2. CASE ReceiveDone(c)
  BY <1>2 DEF ReceiveDone
<1>3. CASE CheckContext(c)
  BY <1>3 DEF CheckContext
<1>4. CASE ReturnToken(c)
  BY <1>4 DEF ReturnToken
<1>5. CASE CancelContext(c)
  BY <1>5 DEF CancelContext
<1> QED BY <1>1, <1>2, <1>3, <1>4, <1>5

\* LockDevice and unlock keep the map, the reference counts and the tokens in
\* agreement with the callers.
THEOREM GateInvariant == Spec => [](TypeOK /\ GateInv)
<1>1. TypeOK /\ GateInv /\ [Next]_vars => TypeOK' /\ GateInv'
  <2>1. ASSUME TypeOK, GateInv, Next PROVE TypeOK' /\ GateInv'
    BY <2>1, EntryFound, EntryMade, ReferenceDropped, TokenMoved DEF Next, Step
  <2>2. ASSUME TypeOK, GateInv, UNCHANGED vars PROVE TypeOK' /\ GateInv'
    BY <2>2 DEF TypeOK, GateInv, HasToken, vars
  <2> QED BY <2>1, <2>2
<1> QED BY GateInit, <1>1, PTL DEF Spec

\* "Canceled waiters release their reference and cannot leak keys": a device has a
\* map entry exactly while a caller refers to it.
THEOREM NoLeakedKeyTheorem == Spec => []NoLeakedKey
<1>1. TypeOK /\ GateInv => NoLeakedKey
  <2> SUFFICES ASSUME TypeOK, GateInv, NEW d \in Devices
               PROVE  entries[d] # NoEntry <=> \E c \in Callers : pc[c] # "idle" /\ device[c] = d
    BY DEF NoLeakedKey
  <2>1. ASSUME entries[d] # NoEntry
        PROVE  \E c \in Callers : pc[c] # "idle" /\ device[c] = d
    <3>0. Users(entries[d], value) # {}
      BY <2>1 DEF GateInv
    <3>1. PICK c \in Callers : value[c] = entries[d]
      BY <3>0 DEF Users
    <3>2. pc[c] # "idle" /\ entries[device[c]] = entries[d] /\ device[c] \in Devices
      BY <2>1, <3>1 DEF GateInv, TypeOK
    <3> QED BY <2>1, <3>2 DEF GateInv
  <2>2. ASSUME NEW c \in Callers, pc[c] # "idle", device[c] = d
        PROVE  entries[d] # NoEntry
    BY <2>2, EntryAssumption DEF GateInv
  <2> QED BY <2>1, <2>2
<1> QED BY GateInvariant, <1>1, PTL

\* The gate implements one lock per device: a step takes a lock that is free,
\* releases a held one, or changes nothing the lock's users can see.
THEOREM GateImplementsLock == Spec => ImplementsLock
<1> DEFINE held == {h \in Callers \X Devices : pc[h[1]] = "holding" /\ device[h[1]] = h[2]}
<1>1. Init => Lock!Init
  BY DEF Init, Lock!Init
<1>2. ASSUME TypeOK, GateInv, [Next]_vars PROVE [Lock!Next]_held
  <2>1. CASE UNCHANGED vars
    BY <2>1 DEF vars
  <2>2. ASSUME NEW c \in Callers, NEW d \in Devices, LockDevice(c, d)
        PROVE  held' = held
    BY <1>2, <2>2 DEF LockDevice, TypeOK
  <2>3. ASSUME NEW c \in Callers,
               ReceiveToken(c) \/ ReceiveDone(c) \/ dropReference(c) \/ CancelContext(c)
        PROVE  held' = held
    BY <1>2, <2>3 DEF ReceiveToken, ReceiveDone, dropReference, CancelContext, TypeOK
  <2>4. ASSUME NEW c \in Callers, CheckContext(c)
        PROVE  [Lock!Next]_held
    <3>1. CASE ctx[c] = "live"
      <4>1. held' = held \cup {<<c, device[c]>>}
        BY <1>2, <2>4, <3>1 DEF CheckContext, TypeOK
      <4>2. \A h \in held : h[2] # device[c]
        BY <1>2, <2>4 DEF CheckContext, TypeOK, GateInv, HasToken
      <4> QED BY <1>2, <4>1, <4>2 DEF Lock!Next, Lock!Lock, TypeOK
    <3>2. CASE ctx[c] # "live"
      BY <1>2, <2>4, <3>2 DEF CheckContext, TypeOK
    <3> QED BY <3>1, <3>2
  <2>5. ASSUME NEW c \in Callers, ReturnToken(c)
        PROVE  [Lock!Next]_held
    <3>1. CASE pc[c] = "holding"
      <4>1. held' = held \ {<<c, device[c]>>} /\ <<c, device[c]>> \in held
        BY <1>2, <2>5, <3>1 DEF ReturnToken, TypeOK
      <4> QED BY <1>2, <4>1 DEF Lock!Next, Lock!Unlock, TypeOK
    <3>2. CASE pc[c] # "holding"
      BY <1>2, <2>5, <3>2 DEF ReturnToken, TypeOK
    <3> QED BY <3>1, <3>2
  <2> QED BY <1>2, <2>1, <2>2, <2>3, <2>4, <2>5 DEF Next, Step
<1> QED BY GateInvariant, <1>1, <1>2, PTL DEF Spec, ImplementsLock, Lock!Spec
=============================================================================
