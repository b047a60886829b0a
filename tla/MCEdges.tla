------------------------------- MODULE MCEdges -------------------------------
(*****************************************************************************)
(* The ends of the system, for model checking: the adapters of the agent     *)
(* runtimes (OpenCode, DSH and its Host, DeepSeek), the SSH client, both ends*)
(* of a tunnel's session, and the device's daemon with its IPC, its processes*)
(* and its identity.                                                         *)
(*                                                                           *)
(* As in MCServer the components share no variable, so in each behaviour one of*)
(* them moves and the others rest; Parts says which ones move.  The daemon has*)
(* two instances over the same variables: one with requests, and one with more*)
(* pairing offers and no request.                                            *)
(*****************************************************************************)
EXTENDS DeviceIdentity, FiniteSets, Sequences

CONSTANTS
  Parts,
  OpenCodeChunks, maximumPendingParts,                \* OpenCodeEvents
  Runs, Chunks, Capacity, CancelMayFail,              \* DSHTurn
  Callers,                                            \* DSHHost
  MaxCalls, Fragments, MaxRounds,                     \* DeepSeekTurn
  limit, MaxOutput,                                   \* SSHExec
  Interval, Timeout, AuthTimeout, ConnectTimeout, Delay, Window,    \* TunnelSession
  Requests, Streams, MaxHandlers, MaxRuns, MaxOffers, PairingOffers,   \* RemoteDaemon
  Procs, Numbers, Leader, Bystander, cleanupQuiescence,   \* ProcessCleanup
  MaxEvents, Limit, MaxRecorded, MaxRestarts, MaxFailures   \* ClientEvents

\* The heartbeats are frequent enough for the delay of the link.
ASSUME TimingAssumption == Interval + 2 * Delay < Timeout /\ Window > 0

VARIABLES
  part,    \* the component that moves in this behaviour
  dispatched, tracker, outcome, textID, uses, pos, stage,
  seqno, prompts, turn, from, said, aborted, turns, dPc, lastSeq, activeTurn, wire,
  reader, held, dStream, dShown, dResult, dCtx,
  start, startCtx, child, ready, stubborn, waitDone, closeDone, once, finisher, expired,
  close,
  kPc, round, messages, kResult, calls, finish, text, doneMarker, reply, invoked,
  watchdog, activity, turnCtx,
  xKind, xPc, ctx, result, xStream, shaking, watching, remote, sent, got, kept,
  truncated, remaining, drain, waited,
  link, client, server, toServer, toClient, clientTimer, writeTimer, serverTimer,
  reason,
  phase, desired, life, active, canceled, wake, sessions, pairing, codeExpired, timer,
  firing, rpc, runs, joined, cpc, accepting, stream, qpc, op, awaits, ctxDone, serving,
  offers, elapsed, quiet,
  serveDone, channel, cwd, hasPty, launched, gPos, leader, anchor, lifecycle, terminal,
  closes, stdin, terminalMu, lifecycleMu, killOnce, stray,
  procLife, inScope, holder, spc, todo, number, pidfd, identity, matched, quietScans,
  struck, forks,
  epoch, sequence, events, cursor, snapshotReady, reset, request, shown, failures,
  faithful

identityVars == <<keyFile, metaFile, pc, key, kills>>
opencodeVars == <<dispatched, tracker, outcome, textID, uses, pos, stage>>
dshVars == <<seqno, prompts, turn, from, said, aborted, turns, dPc, lastSeq, activeTurn,
             wire, reader, held, dStream, dShown, dResult, dCtx>>
hostVars == <<start, startCtx, child, ready, stubborn, waitDone, closeDone, once,
             finisher, expired, close>>
deepseekVars == <<kPc, round, messages, kResult, calls, finish, text, doneMarker, reply,
             invoked, watchdog, activity, turnCtx>>
execVars == <<xKind, xPc, ctx, result, xStream, shaking, watching, remote, sent, got,
             kept, truncated, remaining, drain, waited>>
tunnelVars == <<link, client, server, toServer, toClient, clientTimer, writeTimer,
             serverTimer, reason>>
daemonVars == <<phase, desired, life, active, canceled, wake, sessions, pairing,
             codeExpired, timer, firing, rpc, runs, joined, cpc, accepting, stream, qpc,
             op, awaits, ctxDone, serving, offers, elapsed, quiet>>
processVars == <<serveDone, channel, cwd, hasPty, launched, gPos, leader, anchor, lifecycle,
             terminal, closes, stdin, terminalMu, lifecycleMu, killOnce, stray>>
cleanupVars == <<procLife, inScope, holder, spc, todo, number, pidfd, identity, matched,
             quietScans, struck, forks>>
eventsVars == <<epoch, sequence, events, cursor, snapshotReady, reset, request, shown,
             failures, faithful>>

allVars == <<part, identityVars, opencodeVars, dshVars, hostVars,
            deepseekVars, execVars, tunnelVars, daemonVars, processVars, cleanupVars,
            eventsVars>>

OpenCode == INSTANCE OpenCodeEvents WITH
  Chunks <- OpenCodeChunks
DSH == INSTANCE DSHTurn WITH
  pc <- dPc, result <- dResult, turnCtx <- dCtx, stream <- dStream, shown <- dShown
Host == INSTANCE DSHHost WITH
  Starter <- "starter"
DeepSeek == INSTANCE DeepSeekTurn WITH
  pc <- kPc, result <- kResult
Exec == INSTANCE SSHExec WITH
  kind <- xKind, pc <- xPc, stream <- xStream
Tunnel == INSTANCE TunnelSession
Daemon == INSTANCE RemoteDaemon WITH
  expired <- codeExpired
Pairing == INSTANCE RemoteDaemon WITH
  Requests <- {}, MaxOffers <- PairingOffers, expired <- codeExpired
Process == INSTANCE SSHProcess WITH
  Free <- "free", ctxDone <- serveDone, kind <- launched, pos <- gPos
Sweep == INSTANCE ProcessCleanup WITH
  None <- "none", life <- procLife
Events == INSTANCE ClientEvents WITH
  ready <- snapshotReady

\* A component that rests keeps one of its initial states, always the same.
SuiteInit ==
  /\ part \in Parts
  /\ Init
  /\ OpenCode!Init
  /\ part # "opencode" => textID = FALSE
  /\ part # "opencode" => \A m \in DOMAIN uses : uses[m] = {"compatibility"}
  /\ DSH!Init
  /\ Host!Init
  /\ part # "host" => stubborn = FALSE
  /\ DeepSeek!Init
  /\ Exec!Init
  /\ part # "exec" => xKind = "exec"
  /\ Tunnel!Init
  /\ IF part = "pairing" THEN Pairing!Init ELSE Daemon!Init
  /\ Process!Init
  /\ Sweep!Init
  /\ Events!Init

IdentitySteps ==
  /\ part = "identity" /\ Next
  /\ UNCHANGED <<part, opencodeVars, dshVars, hostVars, deepseekVars, execVars,
                 tunnelVars, daemonVars, processVars, cleanupVars, eventsVars>>

OpencodeSteps ==
  /\ part = "opencode" /\ OpenCode!Next
  /\ UNCHANGED <<part, identityVars, dshVars, hostVars, deepseekVars, execVars,
                 tunnelVars, daemonVars, processVars, cleanupVars, eventsVars>>

DshSteps ==
  /\ part = "dsh" /\ DSH!Next
  /\ UNCHANGED <<part, identityVars, opencodeVars, hostVars, deepseekVars, execVars,
                 tunnelVars, daemonVars, processVars, cleanupVars, eventsVars>>

HostSteps ==
  /\ part = "host" /\ Host!Next
  /\ UNCHANGED <<part, identityVars, opencodeVars, dshVars, deepseekVars, execVars,
                 tunnelVars, daemonVars, processVars, cleanupVars, eventsVars>>

DeepseekSteps ==
  /\ part = "deepseek" /\ DeepSeek!Next
  /\ UNCHANGED <<part, identityVars, opencodeVars, dshVars, hostVars, execVars,
                 tunnelVars, daemonVars, processVars, cleanupVars, eventsVars>>

ExecSteps ==
  /\ part = "exec" /\ Exec!Next
  /\ UNCHANGED <<part, identityVars, opencodeVars, dshVars, hostVars, deepseekVars,
                 tunnelVars, daemonVars, processVars, cleanupVars, eventsVars>>

TunnelSteps ==
  /\ part = "tunnel" /\ Tunnel!Next
  /\ UNCHANGED <<part, identityVars, opencodeVars, dshVars, hostVars, deepseekVars,
                 execVars, daemonVars, processVars, cleanupVars, eventsVars>>

DaemonSteps ==
  /\ part = "daemon" /\ Daemon!Next
  /\ UNCHANGED <<part, identityVars, opencodeVars, dshVars, hostVars, deepseekVars,
                 execVars, tunnelVars, processVars, cleanupVars, eventsVars>>

PairingSteps ==
  /\ part = "pairing" /\ Pairing!Next
  /\ UNCHANGED <<part, identityVars, opencodeVars, dshVars, hostVars, deepseekVars,
                 execVars, tunnelVars, processVars, cleanupVars, eventsVars>>

ProcessSteps ==
  /\ part = "process" /\ Process!Next
  /\ UNCHANGED <<part, identityVars, opencodeVars, dshVars, hostVars, deepseekVars,
                 execVars, tunnelVars, daemonVars, cleanupVars, eventsVars>>

CleanupSteps ==
  /\ part = "cleanup" /\ Sweep!Next
  /\ UNCHANGED <<part, identityVars, opencodeVars, dshVars, hostVars, deepseekVars,
                 execVars, tunnelVars, daemonVars, processVars, eventsVars>>

EventsSteps ==
  /\ part = "events" /\ Events!Next
  /\ UNCHANGED <<part, identityVars, opencodeVars, dshVars, hostVars, deepseekVars,
                 execVars, tunnelVars, daemonVars, processVars, cleanupVars>>

SuiteNext ==
  \/ IdentitySteps \/ OpencodeSteps \/ DshSteps \/ HostSteps \/ DeepseekSteps
  \/ ExecSteps \/ TunnelSteps \/ DaemonSteps \/ PairingSteps \/ ProcessSteps
  \/ CleanupSteps \/ EventsSteps

SuiteSpec == SuiteInit /\ [][SuiteNext]_allVars

\* The fairness of each component; none has a fair step while it rests.
FairSuiteSpec ==
  /\ SuiteSpec
  /\ DSH!Fairness
  /\ Host!Fairness
  /\ DeepSeek!Fairness
  /\ Exec!Fairness
  /\ Tunnel!Fairness
  /\ Daemon!Fairness
  /\ Process!Fairness

-----------------------------------------------------------------------------
(* Properties: each is defined, and explained, in its component's module *)

\* The text of an OpenCode turn is its own, in order and once, all of it if the
\* turn succeeds; a failure of an earlier turn is not its own.
TextIsFaithful ==
  part = "opencode" =>
    /\ OpenCode!TypeOK
    /\ OpenCode!ShownIsPrefix
    /\ OpenCode!OnlyThisTurn
    /\ OpenCode!SuccessIsComplete
    /\ OpenCode!EarlierFailureIgnored


\* A streamed command is executed only with all of its arguments, and every
\* result follows the call it answers.
CommandsAreWhole ==
  part = "deepseek" =>
    /\ DeepSeek!TypeOK
    /\ DeepSeek!OnlyWholeCommands
    /\ DeepSeek!ResultsPaired


\* A healthy link is not taken for dead, and a client is Online only once the
\* server has accepted it.
LinkIsTrusted ==
  part = "tunnel" =>
    /\ Tunnel!TypeOK
    /\ Tunnel!NoFalseTimeout
    /\ Tunnel!OnlineIsAccepted


\* Nothing is signaled or resized after its identity is given up, and a session
\* that returned leaves no process and no pump.
ProcessIsOwned ==
  part = "process" =>
    /\ Process!TypeOK
    /\ Process!NoStrayIdentity
    /\ Process!SessionLeavesNothing

\* The sweep signals processes of its scope only, those it verified, and ends
\* when none is left.
SweepIsExact ==
  part = "cleanup" =>
    /\ Sweep!TypeOK
    /\ Sweep!OnlyScopeSignaled
    /\ Sweep!VerifiedIsOpened
    /\ Sweep!QuietMeansEmpty


=============================================================================
