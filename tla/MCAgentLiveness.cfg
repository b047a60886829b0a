\* Fair goroutines; timers fire only where a property says so.
SPECIFICATION PromptSpec
CONSTANTS
  Sessions = {s1}
  Tools = {t1}
  Requests = {r1}
  Ops = {"close", "unpair"}
  NoSession = NoSession
  NoTool = NoTool
  Ambiguous = {"begin", "state", "fail", "start", "finish"}
  MaxLost = 1
  MaxCrashes = 0
CHECK_DEADLOCK FALSE
PROPERTIES
  DecisionIsTaken
  EndsOrBlocks
