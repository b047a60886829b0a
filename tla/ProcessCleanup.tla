---------------------------- MODULE ProcessCleanup ----------------------------
(***************************************************************************)
(* The final sweep over the process group of a command that has ended      *)
(* (clearProcessScope and what it calls, sshserver/process_linux.go).      *)
(*                                                                         *)
(* Processes fork, exit and are reaped while the sweep runs, and a process *)
(* number that was given up is used again.  A process is an element of     *)
(* Procs; holder[n] is the process that has the number n, which it keeps   *)
(* until it is reaped.  Reading /proc/n/stat and the pidfd's number are    *)
(* steps of their own.  The leader is left out: it stays unreaped during   *)
(* the sweep (SSHProcess), so that the number of its group is not reused,  *)
(* and the sweep skips it.  Errors of /proc other than a vanished process  *)
(* end the sweep like the deadline does.                                   *)
(***************************************************************************)
EXTENDS Naturals, FiniteSets

CONSTANTS Procs, Numbers, None,
          Leader, Bystander,    \* processes that exist at first, in and out of the scope
          cleanupQuiescence     \* quiet scans that end the sweep

VARIABLES
  life,        \* "unborn", "alive", "zombie" or "reaped", for each process
  inScope,     \* its group is the scope's
  holder,      \* the process that has the number, or None
  spc,         \* position of the sweep
  todo,        \* numbers still to look at in this scan
  number, pidfd, identity,    \* locals of signalProcessCandidates
  matched,     \* of this scan
  quietScans,
  struck,      \* history: processes that were signaled while alive
  forks        \* history: was there a fork in the scope since the last snapshot,
               \* and between the one before and the last

sweep == <<spc, todo, number, pidfd, identity, matched, quietScans>>
vars == <<life, inScope, holder, sweep, struck, forks>>

TypeOK ==
  /\ life \in [Procs -> {"unborn", "alive", "zombie", "reaped"}]
  /\ inScope \in [Procs -> BOOLEAN]
  /\ holder \in [Numbers -> Procs \cup {None}]
  /\ \A n \in Numbers : holder[n] # None => life[holder[n]] \in {"alive", "zombie"}
  /\ spc \in {"scan", "next", "identity", "pid", "confirm", "send", "clean", "failed"}
  /\ todo \subseteq Numbers /\ number \in Numbers \cup {None}
  /\ pidfd \in Procs \cup {None} /\ identity \in Procs \cup {None}
  /\ matched \in BOOLEAN /\ quietScans \in 0..cleanupQuiescence
  /\ struck \subseteq Procs /\ forks \in BOOLEAN \X BOOLEAN

\* One process of the command and one of somebody else.
\* Any numbers will do, since all are alike.
FirstHolders == CHOOSE h \in [Numbers -> {Leader, Bystander, None}] :
  \A p \in {Leader, Bystander} : \E n \in Numbers : \A m \in Numbers : h[m] = p <=> m = n

Init ==
  /\ life = [x \in Procs |-> IF x \in {Leader, Bystander} THEN "alive" ELSE "unborn"]
  /\ inScope = [x \in Procs |-> x = Leader]
  /\ holder = FirstHolders
  /\ spc = "scan" /\ todo = {} /\ number = None /\ pidfd = None /\ identity = None
  /\ matched = FALSE /\ quietScans = 0 /\ struck = {} /\ forks = <<FALSE, FALSE>>

-----------------------------------------------------------------------------
(* The system around the sweep *)

\* Processes that are not born yet are all alike.
NextBorn == CHOOSE q \in Procs : life[q] = "unborn"

Fork(p, n) ==
  /\ life[p] = "alive" /\ holder[n] = None /\ \E q \in Procs : life[q] = "unborn"
  /\ life' = [life EXCEPT ![NextBorn] = "alive"]
  /\ inScope' = [inScope EXCEPT ![NextBorn] = inScope[p]]
  /\ holder' = [holder EXCEPT ![n] = NextBorn]
  /\ forks' = IF inScope[p] THEN <<TRUE, forks[2]>> ELSE forks
  /\ UNCHANGED <<sweep, struck>>

Exit(p) ==
  /\ life[p] = "alive"
  /\ life' = [life EXCEPT ![p] = "zombie"]
  /\ UNCHANGED <<inScope, holder, sweep, struck, forks>>

Reap(p) ==
  /\ life[p] = "zombie"
  /\ life' = [life EXCEPT ![p] = "reaped"]
  /\ holder' = [n \in Numbers |-> IF holder[n] = p THEN None ELSE holder[n]]
  /\ UNCHANGED <<inScope, sweep, struck, forks>>

-----------------------------------------------------------------------------
(* The sweep *)

\* signalProcessScope: Candidates is a listing of /proc.
Candidates ==
  /\ spc = "scan"
  /\ todo' = {n \in Numbers : holder[n] # None}
  /\ matched' = FALSE
  /\ spc' = "next"
  /\ forks' = <<FALSE, forks[1]>>
  /\ UNCHANGED <<life, inScope, holder, number, pidfd, identity, quietScans, struck>>

\* A number nobody has any more is passed over.
Open(n) ==
  /\ spc = "next" /\ n \in todo
  /\ todo' = todo \ {n}
  /\ IF holder[n] = None
       THEN UNCHANGED <<number, pidfd, spc>>
       ELSE number' = n /\ pidfd' = holder[n] /\ spc' = "identity"
  /\ UNCHANGED <<life, inScope, holder, identity, matched, quietScans, struck, forks>>

Skip == spc' = "next" /\ number' = None /\ pidfd' = None /\ identity' = None

\* verifiedPIDFDIdentity: the identity behind the number,
ReadIdentity ==
  /\ spc = "identity"
  /\ IF holder[number] = None THEN Skip
     ELSE identity' = holder[number] /\ spc' = "pid" /\ UNCHANGED <<number, pidfd>>
  /\ UNCHANGED <<life, inScope, holder, todo, matched, quietScans, struck, forks>>

\* Mutant: the pidfd is not compared with the number.
TrustNumber ==
  /\ spc = "pid"
  /\ spc' = "confirm" /\ UNCHANGED <<number, pidfd, identity>>
  /\ UNCHANGED <<life, inScope, holder, todo, matched, quietScans, struck, forks>>

\* the number behind the pidfd,
CheckPID ==
  /\ spc = "pid"
  /\ IF life[pidfd] = "reaped" THEN Skip
     ELSE spc' = "confirm" /\ UNCHANGED <<number, pidfd, identity>>
  /\ UNCHANGED <<life, inScope, holder, todo, matched, quietScans, struck, forks>>

\* and the identity again; scope.matches
Confirm ==
  /\ spc = "confirm"
  /\ IF holder[number] # identity \/ ~inScope[identity] THEN Skip /\ UNCHANGED matched
     ELSE matched' = TRUE /\ spc' = "send" /\ UNCHANGED <<number, pidfd, identity>>
  /\ UNCHANGED <<life, inScope, holder, todo, quietScans, struck, forks>>

Strike(p) ==
  /\ life' = [life EXCEPT ![p] = IF @ = "alive" THEN "zombie" ELSE @]
  /\ struck' = IF life[p] = "alive" THEN struck \cup {p} ELSE struck

\* Mutant: kill(2) by number.
SendByNumber ==
  /\ spc = "send"
  /\ IF holder[number] = None THEN UNCHANGED <<life, struck>> ELSE Strike(holder[number])
  /\ Skip
  /\ UNCHANGED <<inScope, holder, todo, matched, quietScans, forks>>

\* PidfdSendSignal(SIGKILL); a process that has ended is no error.
Send ==
  /\ spc = "send"
  /\ Strike(pidfd)
  /\ Skip
  /\ UNCHANGED <<inScope, holder, todo, matched, quietScans, forks>>

\* Mutant: one quiet scan is enough.
EndFirstQuiet ==
  /\ spc = "next" /\ todo = {}
  /\ quietScans' = IF matched THEN 0 ELSE quietScans + 1
  /\ spc' \in IF quietScans' >= 1 THEN {"clean", "failed"} ELSE {"scan", "failed"}
  /\ UNCHANGED <<life, inScope, holder, todo, number, pidfd, identity, matched, struck, forks>>

\* clearProcessScope: count; give up at the deadline or after an error, or scan again.
EndScan ==
  /\ spc = "next" /\ todo = {}
  /\ quietScans' = IF matched THEN 0 ELSE quietScans + 1
  /\ spc' \in IF quietScans' >= cleanupQuiescence THEN {"clean", "failed"} ELSE {"scan", "failed"}
  /\ UNCHANGED <<life, inScope, holder, todo, number, pidfd, identity, matched, struck, forks>>

-----------------------------------------------------------------------------
SweepStep ==
  \/ Candidates \/ ReadIdentity \/ CheckPID \/ Confirm \/ Send \/ EndScan
  \/ \E n \in Numbers : Open(n)

Next ==
  \/ SweepStep
  \/ \E p \in Procs, n \in Numbers : Fork(p, n)
  \/ \E p \in Procs : Exit(p) \/ Reap(p)

Spec == Init /\ [][Next]_vars

-----------------------------------------------------------------------------
(* Properties *)

\* Only processes of the scope are signaled, although a number may change hands
\* at every step between the listing and the signal.
OnlyScopeSignaled == \A p \in struck : inScope[p]

\* A sweep that reports success has left nothing alive in the scope, unless the
\* scope forked during each of the last two scans: a process that escapes must
\* fork and vanish between a listing and the look at its number, twice in a row.
\* forks[1] is about the last scan and forks[2] about the one before.
QuietMeansEmpty ==
  spc = "clean" /\ ~(forks[1] /\ forks[2]) =>
    \A p \in Procs : inScope[p] => life[p] # "alive"

\* What was opened stays what is verified: at the signal the pidfd refers to the
\* process whose identity was read twice.
VerifiedIsOpened ==
  spc = "send" => pidfd = identity
=============================================================================
