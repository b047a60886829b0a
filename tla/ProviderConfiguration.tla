------------------------ MODULE ProviderConfiguration ------------------------
(***************************************************************************)
(* Concurrent changes of one custom provider of the DSH runtime            *)
(* (internal/dsh/configuration.go: configurationSnapshot,                  *)
(* ConfigureProvider, createCustomProvider, RemoveProvider; reached        *)
(* through Service.ConfigureRuntimeProvider and RemoveRuntimeProvider).    *)
(*                                                                         *)
(* The DSH Host is external: it keeps the provider's settings and          *)
(* credential, counts the revisions of the settings and refuses a mutation *)
(* whose expected revision is not the current one.  Every RPC is a step of *)
(* its own, and its answer may be lost.  A settings change is the request  *)
(* that made it; which fields it sets, and the validation of the request   *)
(* and of the Host's answers, are left out: they refuse it at the start or *)
(* turn it into an error.                                                  *)
(***************************************************************************)
EXTENDS Naturals

CONSTANTS Requests, MaxLost, None

VARIABLES
  revision, route, ref, credential,  \* the Host: revision of the namespace, last
                                     \* writer of the route, apiKeyEnv is set, key
  kind, key, change, expected,       \* the request, and the revision its client saw
  pc, snapshot, result,
  wrote,                             \* history: the answered writes of each request
  lost

hostvars == <<revision, route, ref, credential>>
request == <<kind, key, change, expected>>
vars == <<hostvars, request, pc, snapshot, result, wrote, lost>>

Absent == "absent"
Writers == Requests \cup {"seed"}
NoSnapshot == [listed |-> FALSE, revision |-> 0, ref |-> FALSE, configured |-> FALSE]

TypeOK ==
  /\ revision \in Nat /\ route \in Writers \cup {Absent} /\ ref \in BOOLEAN
  /\ credential \in Writers \cup {None}
  /\ kind \in [Requests -> {"configure", "remove"}]
  /\ key \in [Requests -> BOOLEAN] /\ change \in [Requests -> BOOLEAN]
  /\ expected \in [Requests -> 0..revision]
  /\ pc \in [Requests -> {"idle", "list", "settings", "credentials", "decide", "create",
                          "edit", "remove", "key", "unset", "done"}]
  /\ result \in [Requests -> {"none", "ok", "conflict", "invalid", "error"}]
  /\ wrote \in [Requests -> SUBSET {"settings", "credential"}]
  /\ route = Absent => ~ref
  /\ lost \in 0..MaxLost

Init ==
  /\ revision = 0
  /\ \/ route = Absent /\ ref = FALSE /\ credential = None
     \/ route = "seed" /\ ref = TRUE /\ credential = "seed"
  /\ kind \in [Requests -> {"configure", "remove"}]
  /\ key \in [Requests -> BOOLEAN] /\ change \in [Requests -> BOOLEAN]
  /\ expected = [r \in Requests |-> 0] /\ pc = [r \in Requests |-> "idle"]
  /\ snapshot = [r \in Requests |-> NoSnapshot]
  /\ result = [r \in Requests |-> "none"] /\ wrote = [r \in Requests |-> {}] /\ lost = 0

Go(r, p) == pc' = [pc EXCEPT ![r] = p]
Finish(r, outcome) == Go(r, "done") /\ result' = [result EXCEPT ![r] = outcome]
Snap(r, field, value) == snapshot' = [snapshot EXCEPT ![r][field] = value]

\* The request arrives with a revision its client has seen.
Submit(r) ==
  /\ pc[r] = "idle"
  /\ \E e \in 0..revision : expected' = [expected EXCEPT ![r] = e]
  /\ Go(r, "list")
  /\ UNCHANGED <<hostvars, kind, key, change, snapshot, result, wrote, lost>>

\* configurationSnapshot: llm.providers,
ListProviders(r) ==
  /\ pc[r] = "list"
  /\ Snap(r, "listed", route # Absent)
  /\ Go(r, "settings")
  /\ UNCHANGED <<hostvars, request, result, wrote, lost>>

\* settings.describe
DescribeSettings(r) ==
  /\ pc[r] = "settings"
  /\ snapshot' = [snapshot EXCEPT ![r].revision = revision, ![r].ref = ref]
  /\ Go(r, "credentials")
  /\ UNCHANGED <<hostvars, request, result, wrote, lost>>

\* and credentials.describe
describeCredentials(r) ==
  /\ pc[r] = "credentials"
  /\ Snap(r, "configured", snapshot[r].ref /\ credential # None)
  /\ Go(r, "decide")
  /\ UNCHANGED <<hostvars, request, result, wrote, lost>>

\* A settings.mutate or a credential call is the next step of an edit.
NextEdit(r) == IF change[r] \/ (key[r] /\ ~snapshot[r].ref) THEN "edit"
               ELSE IF key[r] THEN "key" ELSE "done"

\* ConfigureProvider and createCustomProvider up to the first write
DecideConfigure(r) ==
  /\ pc[r] = "decide" /\ kind[r] = "configure"
  /\ LET current == expected[r] = snapshot[r].revision IN
       IF ~snapshot[r].listed
         THEN IF current /\ change[r] THEN Go(r, "create") /\ UNCHANGED result
              ELSE Finish(r, "invalid")
         ELSE IF ~current THEN Finish(r, "conflict")
         ELSE IF NextEdit(r) = "done" THEN Finish(r, "ok")
         ELSE Go(r, NextEdit(r)) /\ UNCHANGED result
  /\ UNCHANGED <<hostvars, request, snapshot, wrote, lost>>

DecideRemove(r) ==
  /\ pc[r] = "decide" /\ kind[r] = "remove"
  /\ IF ~snapshot[r].listed THEN Finish(r, "invalid")
     ELSE IF expected[r] # snapshot[r].revision THEN Finish(r, "conflict")
     ELSE Go(r, "remove") /\ UNCHANGED result
  /\ UNCHANGED <<hostvars, request, snapshot, wrote, lost>>

\* Mutant: settings.mutate without expectedRevision
Unchecked(r) == TRUE

\* The Host compares expectedRevision.
RevisionMatches(r) == expected[r] = revision

\* What follows a committed mutation
AfterMutation(r) ==
  IF pc[r] = "remove" THEN IF snapshot[r].ref /\ snapshot[r].configured THEN "unset" ELSE "done"
  ELSE IF key[r] THEN "key" ELSE "done"

\* The profile names a credential after the mutation.
RefAfter(r) == pc[r] # "remove" /\ (key[r] \/ (ref /\ pc[r] = "edit"))

\* mutateSettings.  Its answer may be lost, before or after the commit.
mutateSettings(r) ==
  /\ pc[r] \in {"create", "edit", "remove"}
  /\ \/ /\ ~RevisionMatches(r)
        /\ Finish(r, "conflict")
        /\ UNCHANGED <<hostvars, wrote, lost>>
     \/ /\ RevisionMatches(r)
        /\ revision' = revision + 1
        /\ route' = IF pc[r] = "remove" THEN Absent ELSE r
        /\ ref' = RefAfter(r)
        /\ wrote' = [wrote EXCEPT ![r] = @ \cup {"settings"}]
        /\ UNCHANGED credential
        /\ \/ /\ IF AfterMutation(r) = "done" THEN Finish(r, "ok")
                 ELSE Go(r, AfterMutation(r)) /\ UNCHANGED result
              /\ UNCHANGED lost
           \/ lost < MaxLost /\ lost' = lost + 1 /\ Finish(r, "error")
     \/ /\ lost < MaxLost /\ lost' = lost + 1 /\ Finish(r, "error")
        /\ UNCHANGED <<hostvars, wrote>>
  /\ UNCHANGED <<request, snapshot>>

\* Mutant: the key is cleared before the settings change is known to hold.
UnsetFirst(r) ==
  /\ pc[r] \in {"unset", "remove"}
  /\ credential' = None /\ wrote' = [wrote EXCEPT ![r] = @ \cup {"credential"}]
  /\ IF pc[r] = "unset" THEN Finish(r, "ok") ELSE UNCHANGED <<pc, result>>
  /\ UNCHANGED <<revision, route, ref, request, snapshot, lost>>

\* credentials.unset
UnsetCredential(r) ==
  /\ pc[r] = "unset"
  /\ \/ /\ credential' = None /\ wrote' = [wrote EXCEPT ![r] = @ \cup {"credential"}]
        /\ Finish(r, "ok") /\ UNCHANGED lost
     \/ /\ lost < MaxLost /\ lost' = lost + 1 /\ Finish(r, "error")
        /\ credential' \in {credential, None} /\ UNCHANGED wrote
  /\ UNCHANGED <<revision, route, ref, request, snapshot>>

\* setCredential
setCredential(r) ==
  /\ pc[r] = "key"
  /\ \/ /\ credential' = r /\ wrote' = [wrote EXCEPT ![r] = @ \cup {"credential"}]
        /\ Finish(r, "ok") /\ UNCHANGED lost
     \/ /\ lost < MaxLost /\ lost' = lost + 1 /\ Finish(r, "error")
        /\ credential' \in {credential, r} /\ UNCHANGED wrote
  /\ UNCHANGED <<revision, route, ref, request, snapshot>>

Next == \E r \in Requests :
  \/ Submit(r) \/ ListProviders(r) \/ DescribeSettings(r) \/ describeCredentials(r)
  \/ DecideConfigure(r) \/ DecideRemove(r) \/ mutateSettings(r) \/ UnsetCredential(r)
  \/ setCredential(r)

Spec == Init /\ [][Next]_vars

-----------------------------------------------------------------------------
(* Properties *)

\* A conflict is reported only by a request that changed nothing, so it cannot leave
\* an active route without its credential (the comment of RemoveProvider), and a
\* success only by one that applied all it was asked to.
ReportIsTrue == \A r \in Requests :
  /\ result[r] \in {"conflict", "invalid"} => wrote[r] = {}
  /\ result[r] = "ok" /\ kind[r] = "configure" =>
       /\ change[r] => "settings" \in wrote[r]
       /\ key[r] => "credential" \in wrote[r]

\* createCustomProvider writes a whole profile.  It never replaces one that exists,
\* although the list of providers and the revision are read in two calls.
NoBlindOverwrite ==
  [][\A r \in Requests :
       pc[r] = "create" /\ revision' # revision /\ wrote'[r] # wrote[r] => route = Absent]_vars
=============================================================================
