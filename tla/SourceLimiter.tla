----------------------------- MODULE SourceLimiter ----------------------------
(***************************************************************************)
(* The limiter of tunnel attempts by source address (sourceLimiter in      *)
(* internal/tunnel/server.go): a fixed window per source in a table of     *)
(* bounded size.  The clock is the wall clock: it may stand still, jump    *)
(* and go back.                                                            *)
(***************************************************************************)
EXTENDS Naturals, Sequences, FiniteSets, Functions

CONSTANTS Sources,
          maximum, duration,           \* attempts per window; length of a window
          maxSourceLimiterEntries,
          MaxTime, MaxAttempts         \* bounds of the instance

VARIABLES
  entries,       \* a function on the sources that have a window
  latestObservation, nextObservationOrder,
  now,           \* the clock at the last attempt
  wentBack,      \* history: the clock went back
  admitted       \* history: times of the attempts allowed since a source was entered

vars == <<entries, latestObservation, nextObservationOrder, now, wentBack, admitted>>

Init ==
  /\ entries = [s \in {} |-> 0] /\ latestObservation = 0 /\ nextObservationOrder = 0
  /\ now = 0 /\ wentBack = FALSE /\ admitted = [s \in Sources |-> <<>>]

Later(a, b) == IF a > b THEN a ELSE b

\* Mutant: the observation follows the clock back.
ObserveClock(t) == t

\* observeLocked: observation time never goes back.
observeLocked(t) == Later(t, latestObservation)

Expired(e, t) == t >= e.started + duration

reclaimExpiredLocked(t) == Restrict(entries, {s \in DOMAIN entries : ~Expired(entries[s], t)})

\* The order of the scan: by time, then by order; orders are distinct.
Before(a, b) == a.lastObserved < b.lastObserved
                \/ (a.lastObserved = b.lastObserved /\ a.observationOrder < b.observationOrder)

evictLeastRecentlyObservedLocked(es) ==
  LET oldest == CHOOSE s \in DOMAIN es : \A r \in DOMAIN es \ {s} : Before(es[s], es[r])
  IN  Restrict(es, DOMAIN es \ {oldest})

Put(es, s, e) == [r \in DOMAIN es \cup {s} |-> IF r = s THEN e ELSE es[r]]

\* The window of a source that has one, or a refusal
Renewed(e, t) == [e EXCEPT !.started = t, !.count = 1]


Counted(e, t) == [e EXCEPT !.count = IF @ >= maximum THEN @ ELSE @ + 1]

Room(t) ==
  LET kept == reclaimExpiredLocked(t)
  IN  IF Cardinality(DOMAIN kept) >= maxSourceLimiterEntries
        THEN evictLeastRecentlyObservedLocked(kept) ELSE kept

allow(s, t) ==
  /\ nextObservationOrder < MaxAttempts
  /\ now' = t /\ wentBack' = (wentBack \/ t < now)
  /\ latestObservation' = observeLocked(t) /\ nextObservationOrder' = nextObservationOrder + 1
  /\ IF s \in DOMAIN entries
       THEN LET e == [entries[s] EXCEPT !.lastObserved = latestObservation',
                                        !.observationOrder = nextObservationOrder']
                f == IF Expired(e, t) THEN Renewed(e, t) ELSE Counted(e, t)
            IN  /\ entries' = Put(entries, s, f)
                /\ admitted' = IF f = e THEN admitted
                               ELSE [admitted EXCEPT ![s] = Append(@, t)]
       ELSE /\ entries' = Put(Room(t), s, [started |-> t, lastObserved |-> latestObservation',
                                           observationOrder |-> nextObservationOrder', count |-> 1])
            /\ admitted' = [r \in Sources |-> IF r = s THEN <<t>>
                              ELSE IF r \in DOMAIN entries' THEN admitted[r] ELSE <<>>]

\* An authenticated connection clears its source.
succeeded(s) ==
  /\ s \in DOMAIN entries
  /\ entries' = Restrict(entries, DOMAIN entries \ {s})
  /\ admitted' = [admitted EXCEPT ![s] = <<>>]
  /\ UNCHANGED <<latestObservation, nextObservationOrder, now, wentBack>>

Next == \E s \in Sources : succeeded(s) \/ \E t \in 0..MaxTime : allow(s, t)

Spec == Init /\ [][Next]_vars

-----------------------------------------------------------------------------
(* Properties *)

TypeOK ==
  /\ DOMAIN entries \subseteq Sources
  /\ Cardinality(DOMAIN entries) <= maxSourceLimiterEntries
  /\ \A s \in DOMAIN entries : entries[s].count \in 1..maximum

\* Least recently observed is least recently attempted: however the clock moves, the
\* scan that compares times before orders agrees with the order of the
\* attempts.
TimesFollowOrder ==
  \A r, s \in DOMAIN entries :
    entries[r].observationOrder < entries[s].observationOrder => Before(entries[r], entries[s])

=============================================================================
