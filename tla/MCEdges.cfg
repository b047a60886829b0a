\* Safety of every component; each instance is described in the README.
SPECIFICATION SuiteSpec
CONSTANTS
  Parts = {"identity", "opencode", "dsh", "host", "deepseek", "exec", "tunnel", "daemon",
           "pairing", "process", "cleanup", "events"}
  Processes = {i1, i2, i3}
  MaxKills = 2
  NoFile = NoFile
  EmptyFile = EmptyFile
  OpenCodeChunks = 2
  maximumPendingParts = 2
  Runs = 3
  Chunks = 1
  Capacity = 1
  CancelMayFail = FALSE
  Callers = {c1, c2}
  MaxCalls = 2
  Fragments = 2
  MaxRounds = 2
  limit = 2
  MaxOutput = 2
  Interval = 5
  Timeout = 15
  AuthTimeout = 10
  ConnectTimeout = 10
  Delay = 4
  Window = 3
  Requests = {q1, q2}
  Streams = {h1}
  MaxHandlers = 2
  MaxRuns = 2
  MaxOffers = 0
  PairingOffers = 2
  Procs = {p1, p2, p3, p4, p5}
  Numbers = {n1, n2}
  Leader = p1
  Bystander = p2
  cleanupQuiescence = 2
  MaxEvents = 3
  Limit = 2
  MaxRecorded = 5
  MaxRestarts = 1
  MaxFailures = 2
CHECK_DEADLOCK FALSE
INVARIANTS
  TextIsFaithful
  
  CommandsAreWhole
  
  LinkIsTrusted
  
  ProcessIsOwned
  SweepIsExact
  
PROPERTIES
  IdentityIsStable
