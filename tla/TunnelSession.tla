---------------------------- MODULE TunnelSession -----------------------------
(***************************************************************************)
(* The control stream of one tunnel connection: the authentication         *)
(* handshake and the heartbeats, between Gateway.serveTransport and        *)
(* heartbeatLoop (internal/tunnel/server.go) and Client.runOnce,           *)
(* runAuthenticated and sendHeartbeats (internal/tunnel/client.go).        *)
(*                                                                         *)
(* Time is discrete.  A message takes at most Delay ticks on a healthy     *)
(* link; yamux (external) keeps the messages in order and lets Window of   *)
(* them wait for the reader.  The link may fall silent, which no end is    *)
(* told, or break, which both ends are told.  What the server does between *)
(* proof and publication is in DeviceLifecycle; here it takes any time     *)
(* within the authentication budget.  Malformed messages end the           *)
(* connection like any other error (ClientEnds, ServerEnds).               *)
(***************************************************************************)
EXTENDS Naturals, Sequences, FiniteSets

CONSTANTS Interval,    \* heartbeatInterval
          Timeout,     \* heartbeatTimeout
          AuthTimeout, ConnectTimeout,
          Delay, Window

\* The first heartbeat waits for the answer to reach the client: two delays.
VARIABLES
  link,                  \* "up", "silent", "broken"
  client, server,        \* positions
  toServer, toClient,    \* messages on the way: [type, ttl]
  clientTimer,           \* control deadline, then the ticker
  writeTimer,            \* write deadline of a heartbeat that has no room
  serverTimer,           \* auth deadline, then the read deadline
  reason                 \* why the server closed

vars == <<link, client, server, toServer, toClient, clientTimer, writeTimer, serverTimer, reason>>

Init ==
  /\ link = "up" /\ client = "idle" /\ server = "hello"
  /\ toServer = <<>> /\ toClient = <<>>
  /\ clientTimer = ConnectTimeout /\ writeTimer = 0 /\ serverTimer = AuthTimeout /\ reason = "none"

Message(t) == [type |-> t, ttl |-> Delay]

\* What an end reads: the next message, in order, while the link carries anything
Arrived(q, t) == link = "up" /\ q # <<>> /\ Head(q).type = t

-----------------------------------------------------------------------------
(* Client *)

\* The WebSocket is open, and both ends start their timers.
Dial ==
  /\ client = "idle"
  /\ client' = "start"
  /\ UNCHANGED <<link, server, toServer, toClient, clientTimer, writeTimer, serverTimer, reason>>

\* Header and client.hello
SendHello ==
  /\ client = "start"
  /\ client' = "challenge" /\ toServer' = Append(toServer, Message("hello"))
  /\ UNCHANGED <<link, server, toClient, clientTimer, writeTimer, serverTimer, reason>>

SendProof ==
  /\ client = "challenge" /\ Arrived(toClient, "challenge")
  /\ client' = "authenticated" /\ toClient' = Tail(toClient)
  /\ toServer' = Append(toServer, Message("proof"))
  /\ UNCHANGED <<link, server, clientTimer, writeTimer, serverTimer, reason>>

\* The deadline is cleared and the ticker started.
GoOnline ==
  /\ client = "authenticated" /\ Arrived(toClient, "authenticated")
  /\ client' = "online" /\ toClient' = Tail(toClient) /\ clientTimer' = Interval
  /\ UNCHANGED <<link, server, toServer, writeTimer, serverTimer, reason>>

\* pairing.offered and heartbeat.ack; anything else is an error
ReadControl ==
  /\ client \in {"online", "writing"}
  /\ Arrived(toClient, "offer") \/ Arrived(toClient, "ack")
  /\ toClient' = Tail(toClient)
  /\ UNCHANGED <<link, client, server, toServer, clientTimer, writeTimer, serverTimer, reason>>

\* The ticker: SetWriteDeadline and WriteMessage
sendHeartbeats ==
  /\ client = "online" /\ clientTimer = 0
  /\ client' = "writing" /\ clientTimer' = Interval /\ writeTimer' = Interval
  /\ UNCHANGED <<link, server, toServer, toClient, serverTimer, reason>>

\* The send window has room.
WriteHeartbeat ==
  /\ client = "writing" /\ Len(toServer) < Window
  /\ client' = "online" /\ toServer' = Append(toServer, Message("heartbeat")) /\ writeTimer' = 0
  /\ UNCHANGED <<link, server, toClient, clientTimer, serverTimer, reason>>

EndClient ==
  /\ client' = "closed" /\ clientTimer' = 0 /\ writeTimer' = 0
  /\ toServer' = IF link = "up" THEN Append(toServer, Message("eof")) ELSE toServer
  /\ UNCHANGED <<link, server, toClient, serverTimer, reason>>

\* Mutant: heartbeats are written without a deadline.
ExpireHandshake ==
  /\ client \in {"start", "challenge", "authenticated"} /\ clientTimer = 0
  /\ EndClient

\* The control deadline of the handshake, or the write deadline, has passed.
ClientTimeout ==
  /\ \/ client \in {"start", "challenge", "authenticated"} /\ clientTimer = 0
     \/ client = "writing" /\ writeTimer = 0
  /\ EndClient

\* The link breaks, the server has closed, a message is refused, or the context ends.
ClientEnds ==
  /\ client # "closed"
  /\ EndClient

-----------------------------------------------------------------------------
(* Server *)

Reply(ms) == toClient' = toClient \o [i \in 1..Len(ms) |-> Message(ms[i])]

SendChallenge ==
  /\ server = "hello" /\ Arrived(toServer, "hello")
  /\ server' = "proof" /\ toServer' = Tail(toServer) /\ Reply(<<"challenge">>)
  /\ UNCHANGED <<link, client, clientTimer, writeTimer, serverTimer, reason>>

\* Mutant: the client is answered before the gate.
AnswerBeforeGate ==
  /\ server = "proof" /\ Arrived(toServer, "proof")
  /\ server' = "gate" /\ toServer' = Tail(toServer) /\ Reply(<<"authenticated">>)
  /\ UNCHANGED <<link, client, clientTimer, writeTimer, serverTimer, reason>>

VerifyProof ==
  /\ server = "proof" /\ Arrived(toServer, "proof")
  /\ server' = "gate" /\ toServer' = Tail(toServer)
  /\ UNCHANGED <<link, client, toClient, clientTimer, writeTimer, serverTimer, reason>>

\* publishAuthenticated: the client is answered,
AnswerClient ==
  /\ server = "gate" /\ serverTimer > 0
  /\ server' = "answered" /\ Reply(<<"authenticated">>)
  /\ UNCHANGED <<link, client, toServer, clientTimer, writeTimer, serverTimer, reason>>

\* an unpaired device gets its code,
SendOffer ==
  /\ server = "answered" /\ serverTimer > 0
  /\ server' = "offered" /\ Reply(<<"offer">>)
  /\ UNCHANGED <<link, client, toServer, clientTimer, writeTimer, serverTimer, reason>>

\* and the connection is registered if the budget has not run out meanwhile; the
\* heartbeat loop sets its first deadline.
publishAuthenticated ==
  /\ server \in {"answered", "offered"} /\ serverTimer > 0
  /\ server' = "online" /\ serverTimer' = Timeout
  /\ UNCHANGED <<link, client, toServer, toClient, clientTimer, writeTimer, reason>>

\* Mutant: the read deadline is set once.
BeatKeepsDeadline ==
  /\ server = "online" /\ Arrived(toServer, "heartbeat")
  /\ toServer' = Tail(toServer) /\ Reply(<<"ack">>)
  /\ UNCHANGED <<link, client, server, clientTimer, writeTimer, serverTimer, reason>>

\* One round of heartbeatLoop; the acknowledgement finds room, as the client reads at
\* once.
heartbeatLoop ==
  /\ server = "online" /\ Arrived(toServer, "heartbeat")
  /\ toServer' = Tail(toServer) /\ serverTimer' = Timeout /\ Reply(<<"ack">>)
  /\ UNCHANGED <<link, client, server, clientTimer, writeTimer, reason>>

EndServer(why) ==
  /\ server' = "closed" /\ serverTimer' = 0 /\ reason' = why
  /\ toClient' = IF link = "up" THEN Append(toClient, Message("eof")) ELSE toClient
  /\ UNCHANGED <<link, client, toServer, clientTimer, writeTimer>>

\* Mutant: only the handshake is bounded.
ExpireAuth ==
  /\ server \notin {"online", "closed"} /\ serverTimer = 0
  /\ EndServer("auth")

\* The transport's deadline, or the read deadline of the loop
ServerTimeout ==
  /\ server # "closed" /\ serverTimer = 0
  /\ EndServer(IF server = "online" THEN "heartbeat" ELSE "auth")

\* The link breaks, the client has closed, a message is refused, the store fails, or
\* the connection is replaced, detached or shut down.
ServerEnds ==
  /\ server # "closed"
  /\ EndServer("other")

-----------------------------------------------------------------------------
(* Link and clock *)

LinkFails(l) ==
  /\ client # "idle" /\ link = "up" /\ l \in {"silent", "broken"}
  /\ link' = l
  /\ UNCHANGED <<client, server, toServer, toClient, clientTimer, writeTimer, serverTimer, reason>>

\* The server is at work under the gate and does not read.
Busy == server \in {"gate", "answered", "offered"}

Less(n) == IF n = 0 THEN 0 ELSE n - 1
Older(q) == [i \in 1..Len(q) |-> [q[i] EXCEPT !.ttl = Less(@)]]

\* An end that reads takes a message when it is due; timers that fire are served.
Punctual ==
  /\ link = "up" /\ toServer # <<>> /\ ~Busy => Head(toServer).ttl > 0
  /\ link = "up" /\ toClient # <<>> => Head(toClient).ttl > 0
  /\ client # "closed" => clientTimer > 0
  /\ client = "writing" => writeTimer > 0 /\ Len(toServer) = Window
  /\ server # "closed" => serverTimer > 0

Tick ==
  /\ client # "idle" /\ Punctual
  /\ toServer' = Older(toServer)
  /\ toClient' = Older(toClient)
  /\ clientTimer' = Less(clientTimer) /\ writeTimer' = Less(writeTimer)
  /\ serverTimer' = Less(serverTimer)
  /\ UNCHANGED <<link, client, server, reason>>

\* What reaches an end that is gone
Discard ==
  /\ link = "up"
  /\ \/ server = "closed" /\ toServer # <<>> /\ toServer' = <<>> /\ UNCHANGED toClient
     \/ client = "closed" /\ toClient # <<>> /\ toClient' = <<>> /\ UNCHANGED toServer
  /\ UNCHANGED <<link, client, server, clientTimer, writeTimer, serverTimer, reason>>

Step ==
  \/ SendHello \/ SendProof \/ GoOnline \/ ReadControl \/ sendHeartbeats \/ WriteHeartbeat
  \/ ClientTimeout \/ SendChallenge \/ VerifyProof \/ heartbeatLoop \/ ServerTimeout \/ Discard

Next ==
  \/ Dial \/ SendHello \/ SendProof \/ GoOnline \/ ReadControl \/ sendHeartbeats \/ WriteHeartbeat
  \/ ClientTimeout \/ ClientEnds
  \/ SendChallenge \/ VerifyProof \/ AnswerClient \/ SendOffer \/ publishAuthenticated
  \/ heartbeatLoop \/ ServerTimeout \/ ServerEnds
  \/ \E l \in {"silent", "broken"} : LinkFails(l)
  \/ Tick \/ Discard

Spec == Init /\ [][Next]_vars

\* Both ends run, a closed or broken connection is noticed, and time passes.
\* Neither end is ever made to close, and the link need not fail.
Fairness ==
  /\ WF_vars(Step) /\ WF_vars(Tick)
  /\ WF_vars((link = "broken" \/ Arrived(toClient, "eof")) /\ ClientEnds)
  /\ WF_vars((link = "broken" \/ (~Busy /\ Arrived(toServer, "eof"))) /\ ServerEnds)

FairSpec == Spec /\ Fairness

-----------------------------------------------------------------------------
(* Properties *)

TypeOK ==
  /\ link \in {"up", "silent", "broken"}
  /\ client \in {"idle", "start", "challenge", "authenticated", "online", "writing", "closed"}
  /\ server \in {"hello", "proof", "gate", "answered", "offered", "online", "closed"}
  /\ Len(toServer) <= Window + 1       \* heartbeats within the window, and the end
  /\ clientTimer \in 0..ConnectTimeout \cup 0..Interval /\ writeTimer \in 0..Interval
  /\ serverTimer \in 0..AuthTimeout \cup 0..Timeout

\* A device is not taken for offline on a healthy link: with a heartbeat every
\* Interval and a delay of at most Delay each way the read deadline of the server
\* never passes, the one it sets before the client is Online included.
NoFalseTimeout == reason = "heartbeat" => link # "up"

\* A client announces itself Online only after the server has taken its proof and the
\* device gate, although it does so before the server has published the connection.
OnlineIsAccepted ==
  client \in {"online", "writing"} => server \in {"answered", "offered", "online", "closed"}

\* A link that falls silent is noticed by both ends: the server's by the read deadline,
\* the client's when its heartbeats fill the window and the write deadline passes.
SilenceNoticed == []<>(link = "silent" => client = "closed" /\ server = "closed")

\* Neither end survives the other.
EndTogether == []<>(client = "closed" <=> server = "closed")
=============================================================================
