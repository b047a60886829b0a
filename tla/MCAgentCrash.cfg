\* A crash and restart between any two steps, and one lost store call.
SPECIFICATION Spec
CONSTANTS
  Sessions = {s1}
  Tools = {t1}
  Requests = {r1}
  Ops = {"mode", "archive", "delete", "unpair", "pair", "close"}
  NoSession = NoSession
  NoTool = NoTool
  Ambiguous = {"begin", "state", "fail", "start", "finish"}
  MaxLost = 1
  MaxCrashes = 1
CHECK_DEADLOCK FALSE
SYMMETRY Symmetry
INVARIANTS
  ApprovalInv
