\* Liveness, on instances just large enough for each question.
SPECIFICATION FairSuiteSpec
CONSTANTS
  Parts = {"gate", "tunnel", "terminal", "hub", "runtime", "bridge"}
  Devices = {d1}
  Callers = {c1, c2}
  Entries = {e1, e2}
  NoEntry = NoEntry
  Conns = {n1}
  Unpairs = {u1}
  Opens = {o1}
  MaxPreAuth = 1
  MaxSetups = 1
  Terminals = {t1}
  Cancels = {k1}
  MaxTerminals = 1
  Subscribers = {x1}
  Endings = {a1}
  bufferSize = 1
  MaxEvents = 3
  Requests = {r1}
  Adapters = {"opencode"}
  ShutdownCallers = {}
  MaxWork = 1
  SendCapacity = 2
  Ops = {p1}
  Sources = {i1}
  maximum = 2
  duration = 2
  maxSourceLimiterEntries = 2
  MaxTime = 3
  MaxAttempts = 5
  ProviderRequests = {q1}
  MaxLost = 1
  Turns = {b1}
  Callbacks = {w1, w2}
  Providers = {"opencode", "dsh"}
CHECK_DEADLOCK FALSE
PROPERTIES
  DeviceWaitsEnd
  
