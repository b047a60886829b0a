------------------------------ MODULE MCServer -------------------------------
(*****************************************************************************)
(* The components of the server beside the agent service, to be model-checked:*)
(* the device gate, the tunnel's streams, browser terminals, the event hub,  *)
(* runtime sessions, provider configuration, the capability bridge, the rate *)
(* limiter, and start and shutdown.                                          *)
(*                                                                           *)
(* Their interfaces are in the modules themselves, as the steps of an        *)
(* environment, and they share no variable.  So a property of one cannot     *)
(* tell the steps of another, and it suffices that in each behaviour one     *)
(* component moves and the others rest: TLC explores the sum of the state spaces, not*)
(* their product.  Parts says which components move.                         *)
(*****************************************************************************)
EXTENDS DeviceGate, Naturals, FiniteSets

CONSTANTS
  Parts,
  Conns, Unpairs, Opens, MaxPreAuth, MaxSetups,       \* TunnelStreams
  Terminals, Cancels, MaxTerminals,                   \* Terminal
  Subscribers, Endings, bufferSize, MaxEvents,        \* EventHub
  Requests, Adapters, ShutdownCallers, MaxWork, SendCapacity,   \* ServerRuntime
  Ops,                                                \* RuntimeSession
  Sources, maximum, duration, maxSourceLimiterEntries, MaxTime, MaxAttempts,
  ProviderRequests, MaxLost,                          \* ProviderConfiguration
  Turns, Callbacks, Providers                         \* CapabilityBridge

VARIABLES
  part,    \* the component that moves in this behaviour
  owned, code, gate, connections, managed, closing, closed, cleaned, hpc, saw, preAuth,
  gpc, snapshot, upc, detached, era, regEra, offEra, marked, opc, conn, slots, stream,
  octx,
  tOwned, online, tEra, tClosed, generation, count, byDevice, tpc, seen, cause, pty,
  workers, ws, cpc, waiting, closePc, closeWaiting, lookEra, cancelEra,
  row, tombstones, hClosed, hubClosed, bySession, events, chClosed, spc, got, published,
  epc, hKind,
  adapter, rEntries, open, main, readiness, started, rClosing, serving, sent, request,
  work, rClosed, shutdown, deadline, caller,
  sKind, external, configuring, running, tombstone, sPc, sSeen, mine, model,
  lEntries, latestObservation, nextObservationOrder, now, wentBack, admitted,
  revision, route, ref, credential, pKind, key, change, expected, pPc, pSnapshot,
  pResult, wrote, lost,
  provider, bClosed, bclose, mapped, all, active, bCtx, bClosing, fatal, reported,
  bGate, bCpc, entry, run, parser, result

gateVars == <<entries, refs, token, pc, device, value, ctx>>
tunnelVars == <<owned, code, gate, connections, managed, closing, closed, cleaned, hpc,
             saw, preAuth, gpc, snapshot, upc, detached, era, regEra, offEra, marked,
             opc, conn, slots, stream, octx>>
terminalVars == <<tOwned, online, tEra, tClosed, generation, count, byDevice, tpc, seen,
             cause, pty, workers, ws, cpc, waiting, closePc, closeWaiting, lookEra,
             cancelEra>>
hubVars == <<row, tombstones, hClosed, hubClosed, bySession, events, chClosed, spc, got,
             published, epc, hKind>>
runtimeVars == <<adapter, rEntries, open, main, readiness, started, rClosing, serving, sent,
             request, work, rClosed, shutdown, deadline, caller>>
sessionVars == <<sKind, external, configuring, running, tombstone, sPc, sSeen, mine, model>>
limiterVars == <<lEntries, latestObservation, nextObservationOrder, now, wentBack, admitted>>
providerVars == <<revision, route, ref, credential, pKind, key, change, expected, pPc,
             pSnapshot, pResult, wrote, lost>>
bridgeVars == <<provider, bClosed, bclose, mapped, all, active, bCtx, bClosing, fatal,
             reported, bGate, bCpc, entry, run, parser, result>>

allVars == <<part, gateVars, tunnelVars, terminalVars, hubVars, runtimeVars,
            sessionVars, limiterVars, providerVars, bridgeVars>>

Tunnel == INSTANCE TunnelStreams WITH
  NoConn <- "none", Free <- "free"
Term == INSTANCE Terminal WITH
  owned <- tOwned, era <- tEra, closed <- tClosed
Hub == INSTANCE EventHub WITH
  closed <- hClosed, kind <- hKind
Runtime == INSTANCE ServerRuntime WITH
  Callers <- ShutdownCallers, entries <- rEntries, closing <- rClosing,
  closed <- rClosed
Session == INSTANCE RuntimeSession WITH
  None <- "none", kind <- sKind, pc <- sPc, seen <- sSeen
Limiter == INSTANCE SourceLimiter WITH
  entries <- lEntries
Provider == INSTANCE ProviderConfiguration WITH
  Requests <- ProviderRequests, None <- "none", kind <- pKind, pc <- pPc,
  snapshot <- pSnapshot, result <- pResult
Bridge == INSTANCE CapabilityBridge WITH
  None <- "none", closed <- bClosed, ctx <- bCtx, closing <- bClosing, gate <- bGate,
  cpc <- bCpc

\* A component that rests keeps one of its initial states, always the same.
SuiteInit ==
  /\ part \in Parts
  /\ Init
  /\ part # "gate" => device \in [Callers -> {CHOOSE d \in Devices : TRUE}]
  /\ Tunnel!OpenInit
  /\ Term!Init
  /\ Hub!Init
  /\ Runtime!Init
  /\ part # "runtime" => adapter = CHOOSE a \in Adapters : TRUE
  /\ Session!Init
  /\ part # "session" => sKind = [o \in Ops |-> "turn"]
  /\ Limiter!Init
  /\ Provider!Init
  /\ part # "provider" => route # "seed"
  /\ part # "provider" => pKind = [r \in ProviderRequests |-> "remove"]
  /\ part # "provider" => key = [r \in ProviderRequests |-> FALSE] /\ change = key
  /\ Bridge!Init
  /\ part # "bridge" => provider = CHOOSE p \in Providers : TRUE

GateSteps ==
  /\ part = "gate" /\ Next
  /\ UNCHANGED <<part, tunnelVars, terminalVars, hubVars, runtimeVars, sessionVars,
                 limiterVars, providerVars, bridgeVars>>

TunnelSteps ==
  /\ part = "tunnel" /\ Tunnel!OpenNext
  /\ UNCHANGED <<part, gateVars, terminalVars, hubVars, runtimeVars, sessionVars,
                 limiterVars, providerVars, bridgeVars>>

TerminalSteps ==
  /\ part = "terminal" /\ Term!Next
  /\ UNCHANGED <<part, gateVars, tunnelVars, hubVars, runtimeVars, sessionVars,
                 limiterVars, providerVars, bridgeVars>>

HubSteps ==
  /\ part = "hub" /\ Hub!Next
  /\ UNCHANGED <<part, gateVars, tunnelVars, terminalVars, runtimeVars, sessionVars,
                 limiterVars, providerVars, bridgeVars>>

RuntimeSteps ==
  /\ part = "runtime" /\ Runtime!Next
  /\ UNCHANGED <<part, gateVars, tunnelVars, terminalVars, hubVars, sessionVars,
                 limiterVars, providerVars, bridgeVars>>

SessionSteps ==
  /\ part = "session" /\ Session!Next
  /\ UNCHANGED <<part, gateVars, tunnelVars, terminalVars, hubVars, runtimeVars,
                 limiterVars, providerVars, bridgeVars>>

LimiterSteps ==
  /\ part = "limiter" /\ Limiter!Next
  /\ UNCHANGED <<part, gateVars, tunnelVars, terminalVars, hubVars, runtimeVars,
                 sessionVars, providerVars, bridgeVars>>

ProviderSteps ==
  /\ part = "provider" /\ Provider!Next
  /\ UNCHANGED <<part, gateVars, tunnelVars, terminalVars, hubVars, runtimeVars,
                 sessionVars, limiterVars, bridgeVars>>

BridgeSteps ==
  /\ part = "bridge" /\ Bridge!Next
  /\ UNCHANGED <<part, gateVars, tunnelVars, terminalVars, hubVars, runtimeVars,
                 sessionVars, limiterVars, providerVars>>

SuiteNext ==
  \/ GateSteps \/ TunnelSteps \/ TerminalSteps \/ HubSteps \/ RuntimeSteps
  \/ SessionSteps \/ LimiterSteps \/ ProviderSteps \/ BridgeSteps

SuiteSpec == SuiteInit /\ [][SuiteNext]_allVars

\* The fairness of each component; none has a fair step while it rests.
FairSuiteSpec ==
  /\ SuiteSpec
  /\ Fairness
  /\ Tunnel!FairGoroutines
  /\ Tunnel!FairCallers
  /\ Term!Fairness
  /\ Hub!Fairness
  /\ Runtime!Fairness
  /\ Bridge!Fairness

-----------------------------------------------------------------------------
(* Properties: each is defined, and explained, in its component's module *)

\* No terminal outlives the ownership it was opened under, and a place, a PTY, a
\* socket and the workers are given back exactly once, also when Close or
\* CancelDevice comes first.
TerminalsAccounted ==
  part = "terminal" =>
    /\ Term!TypeOK
    /\ Term!UnpairEndsTerminals
    /\ Term!CountsMatch
    /\ Term!NothingLeft
    /\ Term!CloseIsJoined

\* An event stream has no silent gap, is closed once by whoever removes it
\* first, and none is open or opened after its session was deleted or its device
\* unpaired.
StreamsFaithful == Hub!StreamsFaithful

\* Startup and shutdown, failing at any point, never close a resource under its
\* user, and a server that has begun to stop admits nothing.
ClosedInOrder ==
  /\ [](part = "runtime" =>
         /\ Runtime!TypeOK
         /\ Runtime!DatabaseOutlivesWorkers
         /\ Runtime!ClosedInOrder)
  /\ Runtime!NeverReopened

\* A turn runs alone in the runtime session that the row names.
TurnKeepsSession ==
  part = "session" =>
    /\ Session!TypeOK
    /\ Session!OneAtATime
    /\ Session!TurnIsPersisted


\* A configuration request reports what it wrote, and writes no profile over one
\* it has not seen.
WritesAreReported ==
  /\ [](part = "provider" => Provider!TypeOK /\ Provider!ReportIsTrue)
  /\ Provider!NoBlindOverwrite

\* Callbacks of a turn run one at a time and end with it, a fatal one decides
\* its result, and the registry names the mappings that live.
CallbacksEndWithTurn ==
  part = "bridge" =>
    /\ Bridge!TypeOK
    /\ Bridge!RunJoinsCallbacks
    /\ Bridge!OneInvocation
    /\ Bridge!FatalWins
    /\ Bridge!RegistryIsCurrent

\* Nobody waits for ever at the device gate, in an unpair, in the gateway's
\* Close or in OpenSSH, although network closes and peers may block for ever.
DeviceWaitsEnd ==
  /\ WaiterIsServed
  /\ Tunnel!GateIsReleased
  /\ Tunnel!UnpairEnds
  /\ Tunnel!CloseReturns
  /\ Tunnel!CanceledOpenReturns

=============================================================================
