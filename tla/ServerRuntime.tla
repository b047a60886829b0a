---------------------------- MODULE ServerRuntime -----------------------------
(***************************************************************************)
(* The server process: composition, serving and shutdown                   *)
(* (cmd/aisummoner-server/server.go; internal/app/runtime.go, readiness.go,*)
(* dispatcher.go, health.go, opencode_startup.go).                         *)
(*                                                                         *)
(* buildServer acquires resources in the order of the adapter's list and   *)
(* unwinds them when a step fails.  Runtime owns them afterwards.  A       *)
(* domain (agent, terminal, tunnel) is the workers it started and its      *)
(* Close, which refuses new work, cancels and joins; the other modules     *)
(* have the details.  Browser requests are joined by the HTTP server       *)
(* itself.  The HTTP server is external: Serve returns when its listener   *)
(* is closed, and Shutdown waits for the requests it still owns.           *)
(***************************************************************************)
EXTENDS Naturals, Sequences, SequencesExt

CONSTANTS Requests,     \* HTTP requests in flight at a time
          Adapters,     \* subset of {"fake", "opencode", "dsh"}
          Callers,      \* further callers of Shutdown
          MaxWork,      \* bound: workers of a domain at a time
          SendCapacity  \* of serveErrors

Domains == {"agent", "terminal", "tunnel"}

\* What buildServer adds to the startup stack, in this order; deepseek is like fake.
StartupOrder(a) ==
  <<"database", "tunnel", "terminal">> \o
  (CASE a = "fake" -> <<>>
     [] a = "opencode" -> <<"bridgeListener", "bridge">>
     [] a = "dsh" -> <<"bridgeListener", "bridge", "host">>) \o
  <<"agent", "publicListener">>

Resources == {"database", "tunnel", "terminal", "bridgeListener", "bridge", "host", "agent",
              "publicListener"}

VARIABLES
  adapter,     \* configuration.AgentAdapter
  entries,     \* startupCleanup.entries
  open,        \* resources that are open
  main,        \* position of run
  readiness,   \* "starting", "serving", "quiesced"
  started, closing,         \* under stateMu
  serving,     \* Serve goroutines: per server "off", "serving", "sending", "done"
  sent,        \* results in serveErrors
  request,     \* position of each HTTP request
  work,        \* workers of each domain
  closed,      \* domains whose Close has begun
  shutdown,    \* position of finishShutdown
  deadline,    \* its context is done
  caller       \* position of the further callers of Shutdown

build == <<adapter, entries>>
srv == <<serving, sent>>
load == <<request, work>>
vars == <<build, open, main, readiness, started, closing, srv, load, closed, shutdown,
          deadline, caller>>

Servers == IF adapter = "fake" THEN {"public"} ELSE {"public", "bridge"}

Stages == {"agent", "terminal", "tunnel", "closeBridge", "bridgeServer", "publicServer",
           "serveDone", "closeDatabase"}

TypeOK ==
  /\ adapter \in Adapters /\ open \subseteq Resources
  /\ IsPrefix(entries, StartupOrder(adapter))
  /\ main \in {"build", "unwind", "startup", "built", "run", "triggered", "join", "exit"}
  /\ readiness \in {"starting", "serving", "quiesced"}
  /\ started \in BOOLEAN /\ closing \in BOOLEAN /\ deadline \in BOOLEAN
  /\ serving \in [{"public", "bridge"} -> {"off", "serving", "sending", "done"}]
  /\ sent \in 0..SendCapacity
  /\ request \in [Requests -> {"none", "accepted", "ready", "browser"}]
  /\ work \in [Domains -> 0..MaxWork]
  /\ closed \subseteq Domains
  /\ shutdown \in Stages \cup {"off", "begin", "failed", "done"}
  /\ caller \in [Callers -> {"idle", "waiting", "returned"}]

Init ==
  /\ adapter \in Adapters /\ entries = <<>> /\ open = {}
  /\ main = "build" /\ readiness = "starting" /\ started = FALSE /\ closing = FALSE
  /\ serving = [s \in {"public", "bridge"} |-> "off"] /\ sent = 0
  /\ request = [r \in Requests |-> "none"] /\ work = [d \in Domains |-> 0]
  /\ closed = {} /\ shutdown = "off" /\ deadline = FALSE
  /\ caller = [c \in Callers |-> "idle"]

-----------------------------------------------------------------------------
(* buildServer *)

\* The next resource is opened and its closer added.  OpenCode and DSH wait
\* for their sidecar before anything else is built.
Acquire ==
  /\ main = "build" /\ Len(entries) < Len(StartupOrder(adapter))
  /\ LET r == StartupOrder(adapter)[Len(entries) + 1] IN
       /\ open' = open \cup {r}
       /\ entries' = Append(entries, r)
  /\ UNCHANGED <<adapter, main, readiness, started, closing, srv, load, closed, shutdown,
                 deadline, caller>>

\* AwaitOpenCodeStartup asks the sidecar until it is healthy, rate limited or
\* the startup context ends; only the error matters here.  Every other step may
\* fail too.
StartupFails ==
  /\ main = "build"
  /\ main' = "unwind"
  /\ UNCHANGED <<build, open, readiness, started, closing, srv, load, closed, shutdown,
                 deadline, caller>>

\* Mutant: the entries are closed in the order they were added.
CleanupForward ==
  /\ main = "unwind"
  /\ IF entries = <<>> THEN main' = "exit" /\ UNCHANGED <<entries, open>>
     ELSE /\ open' = open \ {Head(entries)} /\ entries' = Tail(entries)
          /\ UNCHANGED main
  /\ UNCHANGED <<adapter, readiness, started, closing, srv, load, closed, shutdown, deadline,
                 caller>>

\* startup.Cleanup, last entry first.
Cleanup ==
  /\ main = "unwind"
  /\ IF entries = <<>> THEN main' = "exit" /\ UNCHANGED <<entries, open>>
     ELSE /\ open' = open \ {Last(entries)} /\ entries' = Front(entries)
          /\ UNCHANGED main
  /\ UNCHANGED <<adapter, readiness, started, closing, srv, load, closed, shutdown, deadline,
                 caller>>

\* Runtime is built and owns everything.
Transfer ==
  /\ main = "build" /\ Len(entries) = Len(StartupOrder(adapter))
  /\ entries' = <<>>
  /\ main' = "built"
  /\ UNCHANGED <<adapter, open, readiness, started, closing, srv, load, closed, shutdown,
                 deadline, caller>>

-----------------------------------------------------------------------------
(* Runtime.Run *)

\* Mutant: Run does not look whether Shutdown has begun, and stores the state.
RunLate ==
  /\ main = "built" /\ ~started
  /\ started' = TRUE
  /\ serving' = [s \in {"public", "bridge"} |-> IF s \in Servers THEN "serving" ELSE "off"]
  /\ readiness' = "serving"
  /\ main' = "run"
  /\ UNCHANGED <<build, open, closing, sent, load, closed, shutdown, deadline, caller>>

\* Under stateMu: both servers are started and MarkReady opens the dispatcher.
Run ==
  /\ main = "built" /\ ~started /\ ~closing
  /\ started' = TRUE
  /\ serving' = [s \in {"public", "bridge"} |-> IF s \in Servers THEN "serving" ELSE "off"]
  /\ readiness' = IF readiness = "starting" THEN "serving" ELSE readiness
  /\ main' = "run"
  /\ UNCHANGED <<build, open, closing, sent, load, closed, shutdown, deadline, caller>>

\* The context was canceled before, or Shutdown has begun: run calls Shutdown.
RefuseRun ==
  /\ main = "built"
  /\ main' = "triggered"
  /\ UNCHANGED <<build, open, readiness, started, closing, srv, load, closed, shutdown,
                 deadline, caller>>

\* ctx.Done, a signal
Interrupt ==
  /\ main = "run"
  /\ main' = "triggered"
  /\ UNCHANGED <<build, open, readiness, started, closing, srv, load, closed, shutdown,
                 deadline, caller>>

ReceiveServeError ==
  /\ main = "run" /\ sent > 0
  /\ sent' = sent - 1
  /\ main' = "triggered"
  /\ UNCHANGED <<build, open, readiness, started, closing, serving, load, closed, shutdown,
                 deadline, caller>>

\* startServer: Serve returns when its listener is closed or by a failure,
ServeEnds(s) ==
  /\ serving[s] = "serving"
  /\ serving' = [serving EXCEPT ![s] = "sending"]
  /\ UNCHANGED <<build, open, main, readiness, started, closing, sent, load, closed,
                 shutdown, deadline, caller>>

\* Mutant: the channel has no buffer, and Run receives once.
SendUnbuffered(s) ==
  /\ serving[s] = "sending" /\ sent = 0 /\ main = "run"
  /\ serving' = [serving EXCEPT ![s] = "done"]
  /\ sent' = sent + 1
  /\ UNCHANGED <<build, open, main, readiness, started, closing, load, closed, shutdown,
                 deadline, caller>>

\* and its result is sent; then serveDone.Done.
SendResult(s) ==
  /\ serving[s] = "sending" /\ sent < SendCapacity
  /\ serving' = [serving EXCEPT ![s] = "done"]
  /\ sent' = sent + 1
  /\ UNCHANGED <<build, open, main, readiness, started, closing, load, closed, shutdown,
                 deadline, caller>>

-----------------------------------------------------------------------------
(* Requests *)

AcceptConnection(r) ==
  /\ serving["public"] = "serving" /\ "publicListener" \in open
  /\ request[r] = "none"
  /\ request' = [request EXCEPT ![r] = "accepted"]
  /\ UNCHANGED <<build, open, main, readiness, started, closing, srv, work, closed, shutdown,
                 deadline, caller>>

\* Dispatcher.ServeHTTP and Health.ServeHTTP: refused unless ready.
Dispatch(r) ==
  /\ request[r] = "accepted"
  /\ request' = [request EXCEPT ![r] = IF readiness = "serving" THEN "ready" ELSE "none"]
  /\ UNCHANGED <<build, open, main, readiness, started, closing, srv, work, closed, shutdown,
                 deadline, caller>>

\* A browser or health request works on the database itself.
ServeBrowser(r) ==
  /\ request[r] = "ready"
  /\ request' = [request EXCEPT ![r] = "browser"]
  /\ UNCHANGED <<build, open, main, readiness, started, closing, srv, work, closed, shutdown,
                 deadline, caller>>

\* A turn, a terminal or a tunnel connection outlives its request: the first
\* is a goroutine, the others take the connection over.
Admit(r, d) ==
  /\ request[r] = "ready" /\ work[d] < MaxWork
  /\ work' = IF d \in closed THEN work ELSE [work EXCEPT ![d] = @ + 1]
  /\ request' = [request EXCEPT ![r] = "none"]
  /\ UNCHANGED <<build, open, main, readiness, started, closing, srv, closed, shutdown,
                 deadline, caller>>

RequestEnds(r) ==
  /\ request[r] = "browser"
  /\ request' = [request EXCEPT ![r] = "none"]
  /\ UNCHANGED <<build, open, main, readiness, started, closing, srv, work, closed, shutdown,
                 deadline, caller>>

WorkEnds(d) ==
  /\ work[d] > 0
  /\ work' = [work EXCEPT ![d] = @ - 1]
  /\ UNCHANGED <<build, open, main, readiness, started, closing, srv, request, closed,
                 shutdown, deadline, caller>>

-----------------------------------------------------------------------------
(* Runtime.Shutdown and finishShutdown *)

\* shutdownOnce
Begin ==
  IF shutdown = "off"
    THEN closing' = TRUE /\ readiness' = "quiesced" /\ shutdown' = "begin"
    ELSE UNCHANGED <<closing, readiness, shutdown>>

Shutdown ==
  /\ main = "triggered"
  /\ Begin
  /\ main' = "join"
  /\ UNCHANGED <<build, open, started, srv, load, closed, deadline, caller>>

ShutdownDone == shutdown \in {"failed", "done"}

\* shutdownDone: run returns and the process exits.
Exit ==
  /\ main = "join" /\ ShutdownDone
  /\ main' = "exit"
  /\ UNCHANGED <<build, open, readiness, started, closing, srv, load, closed, shutdown,
                 deadline, caller>>

\* Another caller, with a context of its own.
CallShutdown(c) ==
  /\ caller[c] = "idle" /\ main \in {"built", "run", "triggered", "join"}
  /\ Begin
  /\ caller' = [caller EXCEPT ![c] = "waiting"]
  /\ UNCHANGED <<build, open, main, started, srv, load, closed, deadline>>

\* shutdownDone or the caller's own context
CallerReturns(c) ==
  /\ caller[c] = "waiting"
  /\ caller' = [caller EXCEPT ![c] = "returned"]
  /\ UNCHANGED <<build, open, main, readiness, started, closing, srv, load, closed, shutdown,
                 deadline>>

CloseListener ==
  /\ shutdown = "begin"
  /\ open' = open \ {"publicListener"}
  /\ shutdown' = "agent"
  /\ UNCHANGED <<build, main, readiness, started, closing, srv, load, closed, deadline,
                 caller>>

\* runJoined: the domain's Close runs in a goroutine of its own,
BeginClose(d) ==
  /\ shutdown = d /\ d \notin closed
  /\ closed' = closed \cup {d}
  /\ UNCHANGED <<build, open, main, readiness, started, closing, srv, load, shutdown,
                 deadline, caller>>

AfterDomain == [agent |-> "terminal", terminal |-> "tunnel",
                tunnel |-> IF adapter = "fake" THEN "publicServer" ELSE "closeBridge"]

\* and is joined.
Joined(d) ==
  /\ shutdown = d /\ d \in closed /\ work[d] = 0
  /\ open' = open \ {d}
  /\ shutdown' = AfterDomain[d]
  /\ UNCHANGED <<build, main, readiness, started, closing, srv, load, closed, deadline,
                 caller>>

\* The adapter's host, if any, then the bridge.
CloseBridge ==
  /\ shutdown = "closeBridge"
  /\ open' = open \ {"host", "bridge"}
  /\ shutdown' = "bridgeServer"
  /\ UNCHANGED <<build, main, readiness, started, closing, srv, load, closed, deadline,
                 caller>>

ShutdownBridgeServer ==
  /\ shutdown = "bridgeServer"
  /\ open' = open \ {"bridgeListener"}
  /\ shutdown' = "publicServer"
  /\ UNCHANGED <<build, main, readiness, started, closing, srv, load, closed, deadline,
                 caller>>

\* http.Server.Shutdown waits for the requests it owns.
ShutdownPublicServer ==
  /\ shutdown = "publicServer"
  /\ \A r \in Requests : request[r] = "none"
  /\ shutdown' = "serveDone"
  /\ UNCHANGED <<build, open, main, readiness, started, closing, srv, load, closed, deadline,
                 caller>>

WaitServers ==
  /\ shutdown = "serveDone"
  /\ \A s \in {"public", "bridge"} : serving[s] \in {"off", "done"}
  /\ shutdown' = "closeDatabase"
  /\ UNCHANGED <<build, open, main, readiness, started, closing, srv, load, closed, deadline,
                 caller>>

CloseDatabase ==
  /\ shutdown = "closeDatabase"
  /\ open' = open \ {"database"}
  /\ shutdown' = "done"
  /\ UNCHANGED <<build, main, readiness, started, closing, srv, load, closed, deadline,
                 caller>>

Expire ==
  /\ shutdown \in Stages /\ ~deadline
  /\ deadline' = TRUE
  /\ UNCHANGED <<build, open, main, readiness, started, closing, srv, load, closed, shutdown,
                 caller>>

\* Mutant: the rest of the shutdown goes on after the deadline.
GiveUpAndClose ==
  /\ shutdown \in Stages \ {"closeDatabase"}
  /\ deadline \/ shutdown \in {"closeBridge", "bridgeServer", "publicServer"}
  /\ shutdown' = "closeDatabase"
  /\ UNCHANGED <<build, open, main, readiness, started, closing, srv, load, closed, deadline,
                 caller>>

\* A join that misses the deadline ends the shutdown there, and so does an error
\* of a bridge or server that is shut down.
GiveUp ==
  /\ shutdown \in Stages \ {"closeDatabase"}
  /\ deadline \/ shutdown \in {"closeBridge", "bridgeServer", "publicServer"}
  /\ shutdown' = "failed"
  /\ UNCHANGED <<build, open, main, readiness, started, closing, srv, load, closed, deadline,
                 caller>>

-----------------------------------------------------------------------------
MainStep ==
  \/ Acquire \/ StartupFails \/ Cleanup \/ Transfer \/ Run \/ RefuseRun
  \/ ReceiveServeError \/ Shutdown \/ Exit

Finishing ==
  \/ CloseListener \/ CloseBridge \/ ShutdownBridgeServer \/ ShutdownPublicServer
  \/ WaitServers \/ CloseDatabase
  \/ \E d \in Domains : BeginClose(d) \/ Joined(d)

Handling ==
  \/ \E r \in Requests : Dispatch(r) \/ ServeBrowser(r) \/ RequestEnds(r)
  \/ \E r \in Requests, d \in Domains : Admit(r, d)
  \/ \E d \in Domains : WorkEnds(d)

Next ==
  \/ MainStep \/ Finishing \/ Handling \/ Interrupt \/ Expire \/ GiveUp
  \/ \E s \in Servers : ServeEnds(s) \/ SendResult(s)
  \/ \E r \in Requests : AcceptConnection(r)
  \/ \E c \in Callers : CallShutdown(c) \/ CallerReturns(c)

Spec == Init /\ [][Next]_vars

ListenerOf == [public |-> "publicListener", bridge |-> "bridgeListener"]

\* Code continues and canceled work ends; the deadline is not assumed to fire,
\* nor an interrupt to come.
Fairness ==
  /\ WF_vars(Shutdown) /\ WF_vars(Exit) /\ WF_vars(Finishing) /\ WF_vars(deadline /\ GiveUp)
  /\ \A d \in Domains : WF_vars(d \in closed /\ WorkEnds(d))
  /\ \A r \in Requests :
       /\ WF_vars(Dispatch(r)) /\ WF_vars(RequestEnds(r))
       /\ WF_vars(ServeBrowser(r) \/ \E d \in Domains : Admit(r, d))
  /\ \A s \in {"public", "bridge"} :
       /\ WF_vars(s \in Servers /\ ListenerOf[s] \notin open /\ ServeEnds(s))
       /\ WF_vars(s \in Servers /\ SendResult(s))

FairSpec == Spec /\ Fairness

-----------------------------------------------------------------------------
(* Properties *)

\* SQLite is never closed "underneath live workers": when it is closed, no turn,
\* terminal, tunnel connection or request is left, and both Serve goroutines
\* have ended, even if the deadline passed or a request was dispatched just
\* before the readiness changed.
DatabaseOutlivesWorkers ==
  main # "build" /\ "database" \notin open =>
    /\ \A d \in Domains : work[d] = 0
    /\ \A r \in Requests : request[r] = "none"
    /\ \A s \in {"public", "bridge"} : serving[s] \in {"off", "done"}

\* Whatever uses a resource is closed before it: the domains before the
\* database, the host and the bridge before their listener.  It holds on both
\* paths, the unwinding of a failed startup and the shutdown of a server that
\* ran; neither leaves anything open, except a shutdown that missed its
\* deadline or met an error.
Uses == {<<"tunnel", "database">>, <<"terminal", "database">>, <<"agent", "database">>,
         <<"host", "bridgeListener">>, <<"bridge", "bridgeListener">>}

ClosedInOrder ==
  /\ \A u \in Uses : u[1] \in open => u[2] \in open
  /\ main = "exit" /\ shutdown # "failed" => open = {}

\* Readiness "closes permanently when graceful shutdown begins": Run cannot
\* open it again, whichever of Run and Shutdown comes first.
NeverReopened == [][readiness = "quiesced" => readiness' = "quiesced"]_vars

\* A shutdown finishes, or a step of it reports an error, without the help of
\* its deadline: no Serve goroutine is stuck in sending its result to a Run that
\* has stopped listening.
ShutdownFinishes == 
  []<>(closing => "database" \notin open \/ deadline \/ shutdown = "failed")
=============================================================================
