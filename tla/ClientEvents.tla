----------------------------- MODULE ClientEvents -----------------------------
(***************************************************************************)
(* How the desktop client follows the daemon's activity: the bounded ring  *)
(* of events in Controller (internal/remoteclient/controller.go), the      *)
(* events.list method of the local IPC server (internal/clientipc) and the *)
(* polling DaemonClient (desktop/remote-client/src/daemonclient.cpp).      *)
(*                                                                         *)
(* DaemonClient asks for the events after its cursor.  At most one         *)
(* events.list request is pending; its answer may be read after a status   *)
(* poll has reset the cursor.  The daemon may restart at any time: its     *)
(* sequence starts again at one.  A status poll has no content here, only  *)
(* success or failure.  An event is the pair of the daemon's incarnation   *)
(* and the sequence number; the client sees only the number.  The list     *)
(* keeps as many events as the ring; its trimming is left out.             *)
(* faithful is history: the cursor belongs to this daemon, and no answer   *)
(* to an older cursor can still arrive.                                    *)
(***************************************************************************)
EXTENDS Naturals, Sequences, SequencesExt

CONSTANTS
  MaxEvents,     \* MaxEvents: capacity of the ring
  Limit,         \* the limit parameter of events.list
  MaxRecorded,   \* bound: events of one incarnation
  MaxRestarts,   \* bound: restarts of the daemon
  MaxFailures    \* bound: failed requests

VARIABLES
  epoch, sequence, events,      \* incarnation, Controller.sequence, .events
  cursor, ready, reset,         \* eventCursor_, snapshotReady_, resetEventsOnReconnect_
  request,                      \* the pending events.list request
  shown,                        \* EventListModel
  failures, faithful

daemon == <<epoch, sequence, events>>
client == <<cursor, ready, reset, shown>>
vars == <<daemon, client, request, failures, faithful>>

Number(event) == event[2]
Idle == [at |-> "idle"]
Asked(after) == [at |-> "asked", after |-> after]
Answered(page, next) == [at |-> "answered", page |-> page, next |-> next]

Init ==
  /\ epoch = 0 /\ sequence = 0 /\ events = <<>>
  /\ cursor = 0 /\ ready = FALSE /\ reset = FALSE /\ shown = <<>>
  /\ request = Idle /\ failures = 0 /\ faithful = TRUE

recordLocked ==
  /\ sequence < MaxRecorded
  /\ sequence' = sequence + 1
  /\ events' = (IF Len(events) = MaxEvents THEN Tail(events) ELSE events) \o <<<<epoch, sequence'>>>>
  /\ UNCHANGED <<epoch, client, request, failures, faithful>>

Restart ==
  /\ epoch < MaxRestarts
  /\ epoch' = epoch + 1 /\ sequence' = 0 /\ events' = <<>>
  /\ faithful' = FALSE
  /\ UNCHANGED <<client, request, failures>>


(* Controller.Events: the oldest events after the cursor, up to the limit. *)
Events(after) ==
  LET later == SelectSeq(events, LAMBDA e : Number(e) > after)
  IN  SubSeq(later, 1, IF Len(later) <= Limit THEN Len(later) ELSE Limit)

(* handle, events.list: an empty page answers with the cursor it was asked. *)
ListEvents ==
  /\ request.at = "asked"
  /\ LET page == Events(request.after)
     IN  request' = Answered(page, IF page = <<>> THEN request.after ELSE Number(Last(page)))
  /\ UNCHANGED <<daemon, client, failures, faithful>>

(* requestEvents: one request at a time, and only after a snapshot. *)
requestEvents(from) == request' = IF request = Idle THEN Asked(from) ELSE request

Poll ==
  /\ ready /\ requestEvents(cursor)
  /\ UNCHANGED <<daemon, client, failures, faithful>>

RequestFails ==
  /\ request # Idle /\ failures < MaxFailures
  /\ request' = Idle /\ failures' = failures + 1
  /\ UNCHANGED <<daemon, client, faithful>>

(* EventListModel::append *)
Shown(page) ==
  shown \o SelectSeq(page, LAMBDA e : shown = <<>> \/ Number(e) > Number(Last(shown)))

(* The completion of events.list.  A smaller cursor would announce a new   *)
(* stream, and a page that starts at or before the cursor is discarded.    *)
TakeEvents ==
  /\ request.at = "answered"
  /\ IF request.next < cursor
       THEN cursor' = 0 /\ shown' = <<>> /\ request' = IF ready THEN Asked(0) ELSE Idle
       ELSE /\ request' = Idle
            /\ IF request.page # <<>> /\ Number(Head(request.page)) <= cursor
                 THEN UNCHANGED <<cursor, shown>>
                 ELSE cursor' = request.next /\ shown' = Shown(request.page)
  /\ UNCHANGED <<daemon, ready, reset, failures, faithful>>

StatusSucceeds ==
  /\ IF reset THEN cursor' = 0 /\ shown' = <<>> /\ faithful' = (request = Idle)
              ELSE UNCHANGED <<cursor, shown, faithful>>
  /\ reset' = FALSE /\ ready' = TRUE
  /\ requestEvents(cursor')
  /\ UNCHANGED <<daemon, failures>>

StatusFails ==
  /\ failures < MaxFailures /\ failures' = failures + 1
  /\ reset' = (reset \/ ready) /\ ready' = FALSE
  /\ UNCHANGED <<daemon, cursor, shown, request, faithful>>

Next ==
  \/ recordLocked \/ Restart \/ ListEvents
  \/ Poll \/ RequestFails \/ TakeEvents \/ StatusSucceeds \/ StatusFails

Spec == Init /\ [][Next]_vars

(* The daemon answers and the client's timer keeps polling.  TakeEvents is *)
(* the client's event loop.                                                *)
Fairness ==
  /\ WF_vars(ListEvents) /\ WF_vars(TakeEvents)
  /\ WF_vars(Poll) /\ WF_vars(StatusSucceeds)

FairSpec == Spec /\ Fairness

-----------------------------------------------------------------------------
(* Types, and the ring never exceeds its capacity (recordLocked).          *)
TypeOK ==
  /\ epoch \in Nat /\ sequence \in Nat /\ cursor \in Nat
  /\ ready \in BOOLEAN /\ reset \in BOOLEAN /\ faithful \in BOOLEAN
  /\ events \in Seq(Nat \X Nat) /\ Len(events) <= MaxEvents
  /\ shown \in Seq(Nat \X Nat)
  /\ request.at \in {"idle", "asked", "answered"}

=============================================================================
