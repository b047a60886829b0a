------------------------------ MODULE KeyedLock ------------------------------
(***************************************************************************)
(* What a device lifecycle gate promises: a lock per device.  DeviceGate   *)
(* implements it, and DeviceLifecycle uses it in this form.                *)
(***************************************************************************)
CONSTANTS Devices, Callers

VARIABLE held     \* the pairs <<caller, device>> that hold a lock

Init == held = {}

Lock(c, d) ==
  /\ \A h \in held : h[2] # d
  /\ held' = held \cup {<<c, d>>}

Unlock(c, d) ==
  /\ <<c, d>> \in held
  /\ held' = held \ {<<c, d>>}

Next == \E c \in Callers, d \in Devices : Lock(c, d) \/ Unlock(c, d)

Spec == Init /\ [][Next]_held
=============================================================================
