---------------------------- MODULE DeviceIdentity ----------------------------
(***************************************************************************)
(* The identity files of a device (internal/identity/identity.go and       *)
(* storage_linux.go): LoadOrCreate over the private key file and the       *)
(* metadata file.                                                          *)
(*                                                                         *)
(* Several processes of the remote client may start on one directory, and  *)
(* each may be killed at any point.  A file is absent, begun (created or   *)
(* truncated and not yet written) or holds the key, or the metadata of the *)
(* key, that a process generated; the device id is a function of the key.  *)
(* Permissions are left out.                                               *)
(***************************************************************************)
EXTENDS Naturals

CONSTANTS Processes, MaxKills, NoFile, EmptyFile

ASSUME FileAssumption == NoFile # EmptyFile /\ NoFile \notin Processes /\ EmptyFile \notin Processes
ASSUME KillsAssumption == MaxKills \in Nat

VARIABLES
  keyFile, metaFile,
  pc,        \* "load", "meta", "orphan", "create", "write", "truncate", "fill", "ok", "error"
  key,       \* the key a process works with; a generated one is named after it
  kills

vars == <<keyFile, metaFile, pc, key, kills>>

Files == Processes \cup {NoFile, EmptyFile}

Init ==
  /\ keyFile = NoFile /\ metaFile = NoFile
  /\ pc = [p \in Processes |-> "load"] /\ key = [p \in Processes |-> NoFile] /\ kills = 0

Go(p, q) == pc' = [pc EXCEPT ![p] = q]

\* A file that was only begun does not parse.
LoadPrivateKey(p) ==
  /\ pc[p] = "load"
  /\ Go(p, CASE keyFile = NoFile -> "orphan" [] keyFile = EmptyFile -> "error" [] OTHER -> "meta")
  /\ key' = [key EXCEPT ![p] = IF keyFile = EmptyFile THEN @ ELSE keyFile]
  /\ UNCHANGED <<keyFile, metaFile, kills>>

\* Metadata without a key refuses to create one.
CheckOrphan(p) ==
  /\ pc[p] = "orphan"
  /\ Go(p, IF metaFile = NoFile THEN "create" ELSE "error")
  /\ UNCHANGED <<keyFile, metaFile, key, kills>>

\* Mutant: an existing file is opened and truncated.
OpenAnyway(p) ==
  /\ pc[p] = "create"
  /\ keyFile' = EmptyFile /\ key' = [key EXCEPT ![p] = p] /\ Go(p, "write")
  /\ UNCHANGED <<metaFile, kills>>

\* create: the key is generated; writePrivateFile opens with O_EXCL.
OpenPrivateFile(p) ==
  /\ pc[p] = "create"
  /\ IF keyFile = NoFile
       THEN keyFile' = EmptyFile /\ key' = [key EXCEPT ![p] = p] /\ Go(p, "write")
       ELSE Go(p, "error") /\ UNCHANGED <<keyFile, key>>
  /\ UNCHANGED <<metaFile, kills>>

\* Write, Sync and Close
WritePrivateFile(p) ==
  /\ pc[p] = "write"
  /\ keyFile' = key[p] /\ Go(p, "truncate")
  /\ UNCHANGED <<metaFile, key, kills>>

\* LoadMetadata after a key was found; missing metadata is written again.
LoadMetadata(p) ==
  /\ pc[p] = "meta"
  /\ Go(p, CASE metaFile = NoFile -> "truncate" [] metaFile = key[p] -> "ok" [] OTHER -> "error")
  /\ UNCHANGED <<keyFile, metaFile, key, kills>>

\* WriteMetadata: os.WriteFile truncates, then writes.
TruncateMetadata(p) ==
  /\ pc[p] = "truncate"
  /\ metaFile' = EmptyFile /\ Go(p, "fill")
  /\ UNCHANGED <<keyFile, key, kills>>

FillMetadata(p) ==
  /\ pc[p] = "fill"
  /\ metaFile' = key[p] /\ Go(p, "ok")
  /\ UNCHANGED <<keyFile, key, kills>>

\* The process dies and is started again; the bound is on deaths.
Kill(p) ==
  /\ kills < MaxKills /\ pc[p] # "load"
  /\ Go(p, "load") /\ key' = [key EXCEPT ![p] = NoFile] /\ kills' = kills + 1
  /\ UNCHANGED <<keyFile, metaFile>>

\* A start that failed is repeated.
Retry(p) ==
  /\ pc[p] = "error"
  /\ Go(p, "load") /\ key' = [key EXCEPT ![p] = NoFile]
  /\ UNCHANGED <<keyFile, metaFile, kills>>

Next ==
  \E p \in Processes :
    \/ LoadPrivateKey(p) \/ CheckOrphan(p) \/ OpenPrivateFile(p) \/ WritePrivateFile(p)
    \/ LoadMetadata(p) \/ TruncateMetadata(p) \/ FillMetadata(p) \/ Retry(p) \/ Kill(p)

Spec == Init /\ [][Next]_vars

-----------------------------------------------------------------------------
(* Properties *)

TypeOK ==
  /\ keyFile \in Files /\ metaFile \in Files /\ key \in [Processes -> Files \ {EmptyFile}]
  /\ pc \in [Processes -> {"load", "meta", "orphan", "create", "write", "truncate", "fill", "ok",
                           "error"}]
  /\ kills \in 0..MaxKills
  /\ metaFile \in Processes => metaFile = keyFile        \* metadata describes the key

\* "LoadOrCreate loads a stable device identity": whatever dies and whoever starts at
\* the same time, all processes that run have the identity in the file, and
\* at no time two different ones.
StableIdentity == \A p \in Processes : pc[p] = "ok" => key[p] = keyFile /\ key[p] \in Processes

\* A key that was written is never replaced.
KeyIsFinal == [][(keyFile \in Processes => keyFile' = keyFile)]_vars

\* What makes it inductive: whoever is past the load works with the key in the
\* file, and the file that one process has created and not yet written is that
\* process's alone.
KeyHeld ==
  /\ \A p \in Processes :
       /\ pc[p] \in {"meta", "truncate", "fill", "ok"} => key[p] \in Processes /\ key[p] = keyFile
       /\ pc[p] = "write" => key[p] = p /\ keyFile = EmptyFile
  /\ \A p, q \in Processes : pc[p] = "write" /\ pc[q] = "write" => p = q

\* All of it: the device keeps the one identity that was first written.
IdentityIsStable == [](TypeOK /\ KeyHeld /\ StableIdentity) /\ KeyIsFinal
=============================================================================
