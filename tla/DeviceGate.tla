----------------------------- MODULE DeviceGate -----------------------------
(***************************************************************************)
(* The context-aware keyed mutex of internal/devicegate/gate.go.           *)
(*                                                                         *)
(* An entry is a heap object with a reference count and a channel of       *)
(* capacity one that holds the token while nobody owns the lock.  The map  *)
(* entry of a device is deleted with the last reference, so a caller may   *)
(* hold a pointer to an entry that another caller is about to delete and a *)
(* third one to replace.  The critical sections under Gate.mu and the      *)
(* channel operations are the steps.                                       *)
(***************************************************************************)
EXTENDS Naturals, FiniteSets

CONSTANTS
  Devices,
  Callers,      \* goroutines that call LockDevice, each any number of times
  Entries,      \* heap objects; an unreachable one is allocated again
  NoEntry

ASSUME EntryAssumption == NoEntry \notin Entries

ASSUME CallersAssumption == IsFiniteSet(Callers)

VARIABLES
  entries,      \* Gate.entries
  refs,         \* entry.refs
  token,        \* entry.token holds its token
  pc,           \* the position of a caller in LockDevice and unlock
  device,       \* the deviceID argument of the caller's LockDevice
  value,        \* the caller's pointer to the entry
  ctx           \* the caller's context: "live" or "done"

vars == <<entries, refs, token, pc, device, value, ctx>>

\* The caller has the token of its entry in its hands.
HasToken(c) == pc[c] \in {"checking", "returning", "holding"}

Positions == {"idle", "waiting", "checking", "returning", "holding", "dropping"}

TypeOK ==
  /\ entries \in [Devices -> Entries \cup {NoEntry}]
  /\ refs \in [Entries -> Nat]
  /\ token \in [Entries -> BOOLEAN]
  /\ pc \in [Callers -> Positions]
  /\ device \in [Callers -> Devices]
  /\ value \in [Callers -> Entries \cup {NoEntry}]
  /\ ctx \in [Callers -> {"live", "done"}]

Init ==
  /\ entries = [d \in Devices |-> NoEntry]
  /\ refs = [e \in Entries |-> 0]
  /\ token = [e \in Entries |-> FALSE]
  /\ pc = [c \in Callers |-> "idle"]
  /\ device \in [Callers -> Devices]
  /\ value = [c \in Callers |-> NoEntry]
  /\ ctx = [c \in Callers |-> "live"]

-----------------------------------------------------------------------------
(* LockDevice *)

Unreachable(e) ==
  /\ \A d \in Devices : entries[d] # e
  /\ \A c \in Callers : value[c] # e

\* The first critical section, entered with a context that is not done: find
\* or create the entry of d and take a reference.
LockDevice(c, d) ==
  /\ pc[c] = "idle"
  /\ \E e \in Entries :
       /\ IF entries[d] # NoEntry
          THEN /\ e = entries[d]
               /\ refs' = [refs EXCEPT ![e] = @ + 1]
               /\ UNCHANGED <<entries, token>>
          ELSE /\ Unreachable(e)
               /\ entries' = [entries EXCEPT ![d] = e]
               /\ refs' = [refs EXCEPT ![e] = 1]
               /\ token' = [token EXCEPT ![e] = TRUE]
       /\ value' = [value EXCEPT ![c] = e]
  /\ pc' = [pc EXCEPT ![c] = "waiting"]
  /\ device' = [device EXCEPT ![c] = d]
  /\ ctx' = [ctx EXCEPT ![c] = "live"]

\* The two cases of the select.  Both may be ready; then either is chosen.
ReceiveToken(c) ==
  /\ pc[c] = "waiting"
  /\ token[value[c]]
  /\ token' = [token EXCEPT ![value[c]] = FALSE]
  /\ pc' = [pc EXCEPT ![c] = "checking"]
  /\ UNCHANGED <<entries, refs, device, value, ctx>>

ReceiveDone(c) ==
  /\ pc[c] = "waiting"
  /\ ctx[c] = "done"
  /\ pc' = [pc EXCEPT ![c] = "dropping"]
  /\ UNCHANGED <<entries, refs, token, device, value, ctx>>

\* Mutant: a caller whose context ended keeps the token it received.
CheckContextKeepsToken(c) ==
  /\ pc[c] = "checking"
  /\ pc' = [pc EXCEPT ![c] = IF ctx[c] = "live" THEN "holding" ELSE "dropping"]
  /\ UNCHANGED <<entries, refs, token, device, value, ctx>>

\* ctx.Err() is looked at once more after the token was received.
CheckContext(c) ==
  /\ pc[c] = "checking"
  /\ pc' = [pc EXCEPT ![c] = IF ctx[c] = "live" THEN "holding" ELSE "returning"]
  /\ UNCHANGED <<entries, refs, token, device, value, ctx>>

\* value.token <- struct{}{}, in unlock and on the error path.  The send would
\* block on a full channel.
ReturnToken(c) ==
  /\ pc[c] \in {"holding", "returning"}
  /\ ~token[value[c]]
  /\ token' = [token EXCEPT ![value[c]] = TRUE]
  /\ pc' = [pc EXCEPT ![c] = "dropping"]
  /\ UNCHANGED <<entries, refs, device, value, ctx>>

\* Mutant: the map entry is deleted by whoever leaves, waiters or not.
DropReferenceAlways(c) ==
  /\ pc[c] = "dropping"
  /\ refs' = [refs EXCEPT ![value[c]] = @ - 1]
  /\ entries' = [entries EXCEPT ![device[c]] = NoEntry]
  /\ pc' = [pc EXCEPT ![c] = "idle"]
  /\ value' = [value EXCEPT ![c] = NoEntry]
  /\ UNCHANGED <<token, device, ctx>>

\* Mutant: the last reference leaves its entry in the map.
DropReferenceLeaks(c) ==
  /\ pc[c] = "dropping"
  /\ refs' = [refs EXCEPT ![value[c]] = @ - 1]
  /\ pc' = [pc EXCEPT ![c] = "idle"]
  /\ value' = [value EXCEPT ![c] = NoEntry]
  /\ UNCHANGED <<entries, token, device, ctx>>

dropReference(c) ==
  /\ pc[c] = "dropping"
  /\ refs' = [refs EXCEPT ![value[c]] = @ - 1]
  /\ entries' = IF refs[value[c]] = 1 /\ entries[device[c]] = value[c]
                THEN [entries EXCEPT ![device[c]] = NoEntry]
                ELSE entries
  /\ pc' = [pc EXCEPT ![c] = "idle"]
  /\ value' = [value EXCEPT ![c] = NoEntry]
  /\ UNCHANGED <<token, device, ctx>>

\* The request is canceled or its deadline passes.
CancelContext(c) ==
  /\ pc[c] # "idle"
  /\ ctx[c] = "live"
  /\ ctx' = [ctx EXCEPT ![c] = "done"]
  /\ UNCHANGED <<entries, refs, token, pc, device, value>>

Step(c) ==
  \/ ReceiveToken(c)
  \/ ReceiveDone(c)
  \/ CheckContext(c)
  \/ ReturnToken(c)
  \/ dropReference(c)

Next ==
  \E c \in Callers :
    \/ \E d \in Devices : LockDevice(c, d)
    \/ Step(c)
    \/ CancelContext(c)

Spec == Init /\ [][Next]_vars

\* A goroutine continues, a holder releases the lock, and the receivers of a
\* channel are served in the order of their arrival.
Fairness ==
  /\ \A c \in Callers :
       /\ SF_vars(ReceiveToken(c))
       /\ WF_vars(ReceiveDone(c))
       /\ WF_vars(CheckContext(c))
       /\ WF_vars(ReturnToken(c))
       /\ WF_vars(dropReference(c))

FairSpec == Spec /\ Fairness

-----------------------------------------------------------------------------
(* Properties *)

\* The callers whose pointer is to e.
Users(e, pointers) == {c \in Callers : pointers[c] = e}

\* A canceled waiter leaks nothing: a device has a map entry exactly while some
\* caller refers to it ("Canceled waiters release their reference and cannot
\* leak keys").
NoLeakedKey ==
  \A d \in Devices :
    entries[d] # NoEntry <=> \E c \in Callers : pc[c] # "idle" /\ device[c] = d

\* The inductive invariant: every caller in LockDevice or unlock refers to the
\* entry in the map, the count is the number of callers that do, distinct
\* devices have distinct entries, and the token is in the channel or with
\* exactly one caller.
GateInv ==
  /\ \A c \in Callers :
       IF pc[c] = "idle" THEN value[c] = NoEntry
       ELSE value[c] \in Entries /\ entries[device[c]] = value[c]
  /\ \A d \in Devices, b \in Devices :
       entries[d] # NoEntry /\ entries[d] = entries[b] => d = b
  /\ \A d \in Devices :
       entries[d] # NoEntry =>
         /\ Users(entries[d], value) # {}
         /\ refs[entries[d]] = Cardinality(Users(entries[d], value))
  /\ \A a \in Callers :
       HasToken(a) =>
         /\ ~token[value[a]]
         /\ \A b \in Callers : HasToken(b) /\ value[b] = value[a] => a = b
  /\ \A d \in Devices :
       entries[d] # NoEntry /\ ~token[entries[d]] =>
         \E c \in Callers : value[c] = entries[d] /\ HasToken(c)

\* The gate is a lock per device, whatever happens to its entries.
Lock == INSTANCE KeyedLock
          WITH held <- {h \in Callers \X Devices : pc[h[1]] = "holding" /\ device[h[1]] = h[2]}

ImplementsLock == Lock!Spec

\* Everyone who waits is served or gives up, since the token always comes back:
\* a caller that received it with a dead context returns it.
WaiterIsServed == \A c \in Callers : []<>(pc[c] # "waiting")
=============================================================================
