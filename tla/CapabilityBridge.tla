--------------------------- MODULE CapabilityBridge ---------------------------
(***************************************************************************)
(* The callback bridge between a provider runtime and the turns of the     *)
(* agent (internal/opencodebridge/bridge.go), with the Run of the two      *)
(* adapters that use it (internal/opencode/adapter.go, internal/dsh/       *)
(* adapter.go).                                                            *)
(*                                                                         *)
(* All turns here use one external session id, so that a callback may find *)
(* the mapping of another turn than the one that caused it.  The           *)
(* validation and the proof of a request are left out: a refused callback  *)
(* changes nothing.  The parser of the provider's events is a goroutine    *)
(* that ends with a result; what it reads is in OpenCodeEvents and         *)
(* DSHTurn.  Failing to prepare the session or to subscribe happens before *)
(* anything is activated and is left out.                                  *)
(***************************************************************************)
EXTENDS Naturals, FiniteSets

CONSTANTS Turns,      \* calls of Adapter.Run
          Callbacks,  \* callback requests in flight at a time
          Providers,  \* subset of {"opencode", "dsh"}
          None

VARIABLES
  provider,    \* which adapter runs
  closed,      \* Bridge.closed
  bclose,      \* Bridge.Close: "off", "closing", "done"
  mapped,      \* mappings[external id]: a turn or None
  all,         \* Bridge.all
  active,      \* mapping.active
  ctx,         \* the turn's context ended
  closing,     \* startClose: "no", "marked", "waiting", "closed" (closeDone)
  fatal,       \* the channel mapping.fatal holds an error
  reported,    \* fatalOnce has run
  gate,        \* the callback that holds mapping.gate
  cpc, entry,  \* position and mapping of each callback
  run,         \* position of Run
  parser,      \* its parser: "off", "reading", "ended"
  result       \* what Run returns

reg == <<closed, bclose, mapped, all>>
maps == <<active, closing, fatal, reported, gate>>
cbs == <<cpc, entry>>
runs == <<run, parser, result>>
vars == <<provider, reg, ctx, maps, cbs, runs>>

TypeOK ==
  /\ provider \in Providers /\ closed \in BOOLEAN
  /\ bclose \in {"off", "closing", "done"}
  /\ mapped \in Turns \cup {None} /\ all \subseteq Turns
  /\ active \in [Turns -> BOOLEAN] /\ ctx \in [Turns -> BOOLEAN]
  /\ closing \in [Turns -> {"no", "marked", "waiting", "closed"}]
  /\ fatal \in [Turns -> BOOLEAN] /\ reported \in [Turns -> BOOLEAN]
  /\ gate \in [Turns -> Callbacks \cup {None}]
  /\ cpc \in [Callbacks -> {"idle", "found", "queued", "gated", "invoke", "respond",
                            "failing", "failed"}]
  /\ entry \in [Callbacks -> Turns \cup {None}]
  /\ \A c \in Callbacks : (cpc[c] = "idle") = (entry[c] = None)
  /\ \A t \in Turns : gate[t] # None =>
       entry[gate[t]] = t /\ cpc[gate[t]] \in {"gated", "invoke", "respond", "failing", "failed"}
  /\ run \in [Turns -> {"idle", "prompt", "wait", "close", "joining", "parser", "drain", "done"}]
  /\ parser \in [Turns -> {"off", "reading", "ended"}]
  /\ result \in [Turns -> {"none", "ok", "error", "canceled", "fatal"}]

Init ==
  /\ provider \in Providers /\ closed = FALSE /\ bclose = "off" /\ mapped = None /\ all = {}
  /\ active = [t \in Turns |-> FALSE] /\ ctx = [t \in Turns |-> FALSE]
  /\ closing = [t \in Turns |-> "no"] /\ fatal = [t \in Turns |-> FALSE]
  /\ reported = [t \in Turns |-> FALSE] /\ gate = [t \in Turns |-> None]
  /\ cpc = [c \in Callbacks |-> "idle"] /\ entry = [c \in Callbacks |-> None]
  /\ run = [t \in Turns |-> "idle"] /\ parser = [t \in Turns |-> "off"]
  /\ result = [t \in Turns |-> "none"]

\* mapping.ctx: canceled by its turn or by startClose
Canceled(t) == ctx[t] \/ closing[t] # "no"

InFlight(t) == {c \in Callbacks : entry[c] = t /\ cpc[c] \notin {"idle", "found"}}

CGo(c, p) == cpc' = [cpc EXCEPT ![c] = p]
RGo(t, p) == run' = [run EXCEPT ![t] = p]

-----------------------------------------------------------------------------
(* Bridge *)

\* Activate, and the parser's goroutine
Activate(t) ==
  /\ run[t] = "idle"
  /\ IF closed \/ mapped # None
       THEN /\ RGo(t, "done") /\ result' = [result EXCEPT ![t] = "error"]
            /\ UNCHANGED <<mapped, all, active, parser>>
       ELSE /\ mapped' = t /\ all' = all \cup {t}
            /\ active' = [active EXCEPT ![t] = TRUE]
            /\ parser' = [parser EXCEPT ![t] = "reading"]
            /\ RGo(t, "prompt") /\ UNCHANGED result
  /\ UNCHANGED <<provider, closed, bclose, ctx, closing, fatal, reported, gate, cbs>>

\* startClose: the first part, under mapping.mu
Mark(t) ==
  /\ active' = [active EXCEPT ![t] = FALSE]
  /\ closing' = [closing EXCEPT ![t] = IF @ = "no" THEN "marked" ELSE @]

\* bridge.remove, and the waiter is started
remove(t) ==
  /\ closing[t] = "marked"
  /\ mapped' = IF mapped = t THEN None ELSE mapped
  /\ closing' = [closing EXCEPT ![t] = "waiting"]
  /\ UNCHANGED <<provider, closed, bclose, all, ctx, active, fatal, reported, gate, cbs, runs>>

\* Mutant: closeDone is closed without waiting for the callbacks.
CloseAtOnce(t) ==
  /\ closing[t] = "waiting"
  /\ closing' = [closing EXCEPT ![t] = "closed"]
  /\ UNCHANGED <<provider, reg, ctx, active, fatal, reported, gate, cbs, runs>>

\* inflight.Wait, close(closeDone)
CloseDone(t) ==
  /\ closing[t] = "waiting" /\ InFlight(t) = {}
  /\ closing' = [closing EXCEPT ![t] = "closed"]
  /\ UNCHANGED <<provider, reg, ctx, active, fatal, reported, gate, cbs, runs>>

finished(t) ==
  /\ closing[t] = "closed" /\ t \in all
  /\ all' = all \ {t}
  /\ UNCHANGED <<provider, closed, bclose, mapped, ctx, maps, cbs, runs>>

Close ==
  /\ ~closed
  /\ closed' = TRUE /\ bclose' = "closing"
  /\ UNCHANGED <<provider, mapped, all, ctx, maps, cbs, runs>>

\* finishClose starts the close of every mapping
StartClose(t) ==
  /\ bclose = "closing" /\ t \in all /\ closing[t] = "no"
  /\ Mark(t)
  /\ UNCHANGED <<provider, reg, ctx, fatal, reported, gate, cbs, runs>>

\* and waits for each; a mapping leaves all only after its closeDone.
finishClose ==
  /\ bclose = "closing"
  /\ \A t \in all : closing[t] = "closed"
  /\ bclose' = "done"
  /\ UNCHANGED <<provider, closed, mapped, all, ctx, maps, cbs, runs>>

-----------------------------------------------------------------------------
(* serveHTTP *)

lookup(c) ==
  /\ cpc[c] = "idle" /\ ~closed /\ mapped # None
  /\ entry' = [entry EXCEPT ![c] = mapped]
  /\ CGo(c, "found")
  /\ UNCHANGED <<provider, reg, ctx, maps, runs>>

Leave(c) == CGo(c, "idle") /\ entry' = [entry EXCEPT ![c] = None]

beginCall(c) ==
  /\ cpc[c] = "found"
  /\ IF active[entry[c]] /\ ~Canceled(entry[c])
       THEN CGo(c, "queued") /\ UNCHANGED entry
       ELSE Leave(c)
  /\ UNCHANGED <<provider, reg, ctx, maps, runs>>

\* Mutant: callbacks do not queue.
PassGate(c) ==
  /\ cpc[c] = "queued"
  /\ CGo(c, "gated")
  /\ UNCHANGED <<provider, reg, ctx, maps, entry, runs>>

AcquireGate(c) ==
  /\ cpc[c] = "queued" /\ gate[entry[c]] = None
  /\ gate' = [gate EXCEPT ![entry[c]] = c]
  /\ CGo(c, "gated")
  /\ UNCHANGED <<provider, reg, ctx, active, closing, fatal, reported, entry, runs>>

Release(c) == gate' = [gate EXCEPT ![entry[c]] = IF @ = c THEN None ELSE @]

\* callCtx is done: the mapping's, the request's or the time limit's.
GiveUpCall(c) ==
  /\ cpc[c] \in {"queued", "gated"}
  /\ Release(c) /\ Leave(c)
  /\ UNCHANGED <<provider, reg, ctx, active, closing, fatal, reported, runs>>

StartInvoke(c) ==
  /\ cpc[c] = "gated" /\ ~Canceled(entry[c])
  /\ CGo(c, "invoke")
  /\ UNCHANGED <<provider, reg, ctx, maps, entry, runs>>

\* invoker.Invoke returns; AgentService has what it does.
Invoke(c) ==
  /\ cpc[c] = "invoke"
  /\ cpc' \in {[cpc EXCEPT ![c] = p] : p \in {"respond", "failing"}}
  /\ UNCHANGED <<provider, reg, ctx, maps, entry, runs>>

\* The answer is written, or cannot be encoded or delivered.
Respond(c) ==
  /\ cpc[c] = "respond"
  /\ \/ Release(c) /\ Leave(c)
     \/ CGo(c, "failing") /\ UNCHANGED <<gate, entry>>
  /\ UNCHANGED <<provider, reg, ctx, active, closing, fatal, reported, runs>>

reportFatal(c) ==
  /\ cpc[c] = "failing"
  /\ LET t == entry[c] IN
       IF reported[t] THEN UNCHANGED <<active, closing, fatal, reported>>
       ELSE /\ fatal' = [fatal EXCEPT ![t] = TRUE]
            /\ reported' = [reported EXCEPT ![t] = TRUE]
            /\ Mark(t)
  /\ CGo(c, "failed")
  /\ UNCHANGED <<provider, reg, ctx, gate, entry, runs>>


\* The handler returns; closeOnce lets it pass once the mapping is removed.
Reject(c) ==
  /\ cpc[c] = "failed" /\ closing[entry[c]] # "marked"
  /\ Release(c) /\ Leave(c)
  /\ UNCHANGED <<provider, reg, ctx, active, closing, fatal, reported, runs>>

-----------------------------------------------------------------------------
(* Adapter.Run *)

\* prompt; a failed one goes to cleanup, which the DSH adapter begins with a
\* cancellation of the provider's turn.
Prompt(t) ==
  /\ run[t] = "prompt"
  /\ \/ RGo(t, "wait") /\ UNCHANGED result
     \/ RGo(t, "close") /\ result' = [result EXCEPT ![t] = IF ctx[t] THEN "canceled" ELSE "error"]
  /\ UNCHANGED <<provider, reg, ctx, maps, cbs, parser>>

ParserEnds(t) ==
  /\ parser[t] = "reading"
  /\ parser' = [parser EXCEPT ![t] = "ended"]
  /\ UNCHANGED <<provider, reg, ctx, maps, cbs, run, result>>

Outcome(t, r) ==
  /\ RGo(t, "close")
  /\ result' = [result EXCEPT ![t] = r]

TakeFatal(t) ==
  /\ run[t] = "wait" /\ fatal[t]
  /\ fatal' = [fatal EXCEPT ![t] = FALSE]
  /\ Outcome(t, "fatal")
  /\ UNCHANGED <<provider, reg, ctx, active, closing, reported, gate, cbs, parser>>

\* waitForTurn of OpenCode looks for a failure before it takes the parser's
\* result or the end of the context; consumeTurn of DSH takes what comes.
TakeOther(t) ==
  /\ run[t] = "wait"
  /\ provider = "opencode" => ~fatal[t]
  /\ \/ parser[t] = "ended" /\ \E r \in {"ok", "error"} : Outcome(t, r)
     \/ ctx[t] /\ Outcome(t, "canceled")
  /\ UNCHANGED <<provider, reg, ctx, maps, cbs, parser>>

\* cleanup: activation.Close,
CloseActivation(t) ==
  /\ run[t] = "close"
  /\ Mark(t)
  /\ RGo(t, "joining")
  /\ UNCHANGED <<provider, reg, ctx, fatal, reported, gate, cbs, parser, result>>

\* Mutant: cleanup goes on while callbacks are in flight.
SkipJoin(t) ==
  /\ run[t] = "joining"
  /\ RGo(t, "parser")
  /\ UNCHANGED <<provider, reg, ctx, maps, cbs, parser, result>>

JoinActivation(t) ==
  /\ run[t] = "joining" /\ closing[t] = "closed"
  /\ RGo(t, "parser")
  /\ UNCHANGED <<provider, reg, ctx, maps, cbs, parser, result>>

\* the parser is canceled, its stream closed, and it is joined,
JoinParser(t) ==
  /\ run[t] = "parser"
  /\ parser' = [parser EXCEPT ![t] = "ended"]
  /\ RGo(t, "drain")
  /\ UNCHANGED <<provider, reg, ctx, maps, cbs, result>>

\* Mutant: the failures are not looked at again.
KeepResult(t) ==
  /\ run[t] = "drain"
  /\ UNCHANGED <<result, fatal>>
  /\ RGo(t, "done")
  /\ UNCHANGED <<provider, reg, ctx, active, closing, reported, gate, cbs, parser>>

\* and a failure that came meanwhile wins.
Drain(t) ==
  /\ run[t] = "drain"
  /\ result' = IF fatal[t] THEN [result EXCEPT ![t] = "fatal"] ELSE result
  /\ fatal' = [fatal EXCEPT ![t] = FALSE]
  /\ RGo(t, "done")
  /\ UNCHANGED <<provider, reg, ctx, active, closing, reported, gate, cbs, parser>>

\* The service ends the turn.
CancelTurn(t) ==
  /\ run[t] # "done" /\ ~ctx[t]
  /\ ctx' = [ctx EXCEPT ![t] = TRUE]
  /\ UNCHANGED <<provider, reg, maps, cbs, runs>>

-----------------------------------------------------------------------------
BridgeStep(t) == StartClose(t) \/ remove(t) \/ CloseDone(t) \/ finished(t)
CallbackStep(c) ==
  \/ beginCall(c) \/ AcquireGate(c) \/ StartInvoke(c) \/ Invoke(c) \/ Respond(c)
  \/ reportFatal(c) \/ Reject(c)
RunStep(t) ==
  \/ Prompt(t) \/ TakeFatal(t) \/ TakeOther(t) \/ CloseActivation(t)
  \/ JoinActivation(t) \/ JoinParser(t) \/ Drain(t)

Next ==
  \/ \E t \in Turns : BridgeStep(t) \/ RunStep(t) \/ Activate(t) \/ ParserEnds(t)
                      \/ CancelTurn(t)
  \/ \E c \in Callbacks : CallbackStep(c) \/ lookup(c) \/ GiveUpCall(c)
  \/ Close \/ finishClose

Spec == Init /\ [][Next]_vars

\* Goroutines continue and a callback whose context is done leaves the queue.  The
\* provider need not end its turn, and nobody has to cancel it.
Fairness ==
  /\ \A t \in Turns : WF_vars(BridgeStep(t)) /\ WF_vars(RunStep(t))
  /\ \A c \in Callbacks :
       /\ WF_vars(CallbackStep(c))
       /\ WF_vars(entry[c] # None /\ Canceled(entry[c]) /\ GiveUpCall(c))
  /\ WF_vars(finishClose)

FairSpec == Spec /\ Fairness

-----------------------------------------------------------------------------
(* Properties *)

\* When Run returns, no callback of its turn is in flight and its parser has
\* ended: the invoker and the sink, which belong to the turn, are not used after
\* the turn.  AgentService relies on it.
RunJoinsCallbacks ==
  \A t \in Turns : run[t] = "done" => InFlight(t) = {} /\ parser[t] # "reading"

\* A turn executes one callback at a time.
OneInvocation ==
  \A c, d \in Callbacks :
    cpc[c] \in {"invoke", "respond"} /\ cpc[d] \in {"invoke", "respond"}
      /\ entry[c] = entry[d] => c = d

\* A failure of the capability decides the turn's outcome, whichever of the
\* parser, the cancellation and the failure came first: it is "buffered before
\* its mapping cancellation", and looked for again after the callbacks are
\* joined.
FatalWins == \A t \in Turns : run[t] = "done" /\ reported[t] => result[t] = "fatal"

\* After Close has returned, nothing is in flight, and a mapping that ended never
\* took another's place in the registry: what is mapped is active.
RegistryIsCurrent ==
  /\ bclose = "done" => \A t \in Turns : InFlight(t) = {}
  /\ mapped # None => mapped \in all /\ closing[mapped] \in {"no", "marked"}
  /\ \A t \in Turns : closing[t] = "no" /\ active[t] => mapped = t

\* A canceled turn's Run returns, and Close does, although a callback reports a
\* failure, which closes its own mapping, while it holds the gate.
RunEnds == \A t \in Turns : []<>(ctx[t] => run[t] \in {"idle", "done"})
CloseEnds == []<>(closed => bclose = "done")
=============================================================================
