\* Every component's safety; each instance is described in the README.
SPECIFICATION SuiteSpec
CONSTANTS
  Parts = {"gate", "terminal", "hub", "runtime", "session", "limiter", "provider", "bridge"}
  Devices = {d1, d2}
  Callers = {c1, c2, c3}
  Entries = {e1, e2, e3}
  NoEntry = NoEntry
  Conns = {n1}
  Unpairs = {u1}
  Opens = {o1}
  MaxPreAuth = 1
  MaxSetups = 1
  Terminals = {t1, t2}
  Cancels = {k1}
  MaxTerminals = 1
  Subscribers = {x1, x2}
  Endings = {a1, a2}
  bufferSize = 1
  MaxEvents = 2
  Requests = {r1}
  Adapters = {"fake", "opencode", "dsh"}
  ShutdownCallers = {s1}
  MaxWork = 1
  SendCapacity = 2
  Ops = {p1, p2, p3}
  Sources = {i1, i2, i3}
  maximum = 2
  duration = 2
  maxSourceLimiterEntries = 2
  MaxTime = 3
  MaxAttempts = 5
  ProviderRequests = {q1, q2}
  MaxLost = 1
  Turns = {b1}
  Callbacks = {w1, w2}
  Providers = {"opencode", "dsh"}
CHECK_DEADLOCK FALSE
INVARIANTS
  GateInv
  TerminalsAccounted
  TurnKeepsSession
  
  CallbacksEndWithTurn
PROPERTIES
  ImplementsLock
  StreamsFaithful
  ClosedInOrder
  WritesAreReported
