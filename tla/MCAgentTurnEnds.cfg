\* Fair goroutines and timers, no failures: one turn, one decision.
SPECIFICATION FairSpec
CONSTANTS
  Sessions = {s1}
  Tools = {t1}
  Requests = {r1}
  Ops = {}
  NoSession = NoSession
  NoTool = NoTool
  Ambiguous = {}
  MaxLost = 0
  MaxCrashes = 0
CHECK_DEADLOCK FALSE
PROPERTIES
  TurnEnds
