---------------------------- MODULE ToolApproval ----------------------------
(***************************************************************************)
(* What the agent service promises its user about remote commands, without *)
(* turns, waiters, timers or rows: every tool call gets at most one        *)
(* outcome, an approval comes from the user's decision on that very call   *)
(* or from a grant standing when the call was made, and only an approved   *)
(* call may run.  AgentService implements it.                              *)
(***************************************************************************)
CONSTANTS Sessions, Tools, NoSession

VARIABLES
  grant,      \* the sessions with a standing grant (full access)
  of,         \* the session a call was made in
  outcome,    \* "none", "open", "approved", "denied" or "aborted"
  ran         \* the calls handed to the remote executor

approvalVars == <<grant, of, outcome, ran>>

Init ==
  /\ grant = {}
  /\ of = [t \in Tools |-> NoSession]
  /\ outcome = [t \in Tools |-> "none"]
  /\ ran = {}

\* A call is made: it waits for its user, or a standing grant approves it.
Ask(s, t) ==
  /\ outcome[t] = "none"
  /\ of' = [of EXCEPT ![t] = s]
  /\ outcome' = [outcome EXCEPT ![t] = "open"]
  /\ UNCHANGED <<grant, ran>>

AskGranted(s, t) ==
  /\ outcome[t] = "none"
  /\ s \in grant
  /\ of' = [of EXCEPT ![t] = s]
  /\ outcome' = [outcome EXCEPT ![t] = "approved"]
  /\ UNCHANGED <<grant, ran>>

\* The user decides an open call, and may extend the grant to its session.
Approve(t) ==
  /\ outcome[t] = "open"
  /\ outcome' = [outcome EXCEPT ![t] = "approved"]
  /\ grant' \in {grant, grant \cup {of[t]}}
  /\ UNCHANGED <<of, ran>>

Deny(t) ==
  /\ outcome[t] = "open"
  /\ outcome' = [outcome EXCEPT ![t] = "denied"]
  /\ UNCHANGED <<grant, of, ran>>

\* Open calls are given up: timeout, cancellation, unpair, deletion.
Abort(calls) ==
  /\ \A t \in calls : outcome[t] = "open"
  /\ outcome' = [t \in Tools |-> IF t \in calls THEN "aborted" ELSE outcome[t]]
  /\ UNCHANGED <<grant, of, ran>>

Run(t) ==
  /\ outcome[t] = "approved"
  /\ ran' = ran \cup {t}
  /\ UNCHANGED <<grant, of, outcome>>

\* The user changes the session's mode, or creates a session with one.
SetGrant(s) ==
  /\ grant' \in {grant \cup {s}, grant \ {s}}
  /\ UNCHANGED <<of, outcome, ran>>

Next ==
  \/ \E s \in Sessions, t \in Tools : Ask(s, t) \/ AskGranted(s, t)
  \/ \E t \in Tools : Approve(t) \/ Deny(t) \/ Run(t)
  \/ \E calls \in SUBSET Tools : Abort(calls)
  \/ \E s \in Sessions : SetGrant(s)

Spec == Init /\ [][Next]_approvalVars
=============================================================================
