------------------------- MODULE DeviceIdentityProofs -------------------------
(***************************************************************************)
(* The identity of a device is stable, for any number of processes that    *)
(* start on one directory and are killed at any point.                     *)
(***************************************************************************)
EXTENDS DeviceIdentity, TLAPS

\* A device that was never started has no files.
LEMMA IdentityInit == Init => TypeOK /\ KeyHeld
<1> SUFFICES ASSUME Init PROVE TypeOK /\ KeyHeld
  OBVIOUS
<1>1. TypeOK
  BY FileAssumption, KillsAssumption DEF Init, TypeOK, Files
<1>2. KeyHeld
  BY DEF Init, KeyHeld
<1> QED BY <1>1, <1>2

\* Each step of LoadOrCreate, and the death of a process, keep the files and what
\* the processes hold in agreement; and no step replaces a key that was written.
LEMMA IdentityStep ==
  ASSUME TypeOK, KeyHeld, Next
  PROVE  TypeOK' /\ KeyHeld' /\ (keyFile \in Processes => keyFile' = keyFile)
<1> PICK p \in Processes :
      \/ LoadPrivateKey(p) \/ CheckOrphan(p) \/ OpenPrivateFile(p) \/ WritePrivateFile(p)
      \/ LoadMetadata(p) \/ TruncateMetadata(p) \/ FillMetadata(p) \/ Retry(p) \/ Kill(p)
  BY DEF Next
<1> USE FileAssumption, KillsAssumption DEF TypeOK, KeyHeld, Files, Go
<1>1. CASE LoadPrivateKey(p)
  BY <1>1 DEF LoadPrivateKey
<1>2. CASE CheckOrphan(p)
  BY <1>2 DEF CheckOrphan
<1>3. CASE OpenPrivateFile(p)
  BY <1>3 DEF OpenPrivateFile
<1>4. CASE WritePrivateFile(p)
  BY <1>4 DEF WritePrivateFile
<1>5. CASE LoadMetadata(p)
  BY <1>5 DEF LoadMetadata
<1>6. CASE TruncateMetadata(p)
  BY <1>6 DEF TruncateMetadata
<1>7. CASE FillMetadata(p)
  BY <1>7 DEF FillMetadata
<1>8. CASE Retry(p)
  BY <1>8 DEF Retry
<1>9. CASE Kill(p)
  BY <1>9 DEF Kill
<1> QED BY <1>1, <1>2, <1>3, <1>4, <1>5, <1>6, <1>7, <1>8, <1>9

\* LoadOrCreate gives every process that runs the identity in the file, and a key
\* that was written stays.
THEOREM StableIdentityTheorem == Spec => IdentityIsStable
<1>1. TypeOK /\ KeyHeld /\ [Next]_vars => TypeOK' /\ KeyHeld'
  <2> SUFFICES ASSUME TypeOK, KeyHeld, UNCHANGED vars PROVE TypeOK' /\ KeyHeld'
    BY IdentityStep
  <2> QED BY DEF TypeOK, KeyHeld, vars
<1>2. TypeOK /\ KeyHeld /\ [Next]_vars => [(keyFile \in Processes => keyFile' = keyFile)]_vars
  BY IdentityStep
<1>3. KeyHeld => StableIdentity
  BY DEF KeyHeld, StableIdentity
<1> QED BY IdentityInit, <1>1, <1>2, <1>3, PTL DEF Spec, IdentityIsStable, KeyIsFinal
=============================================================================
