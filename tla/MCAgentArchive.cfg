\* Concurrent archive and restore of one session.
SPECIFICATION Spec
CONSTANTS
  Sessions = {s1}
  Tools = {t1}
  Requests = {r1, r2}
  Ops = {"archive"}
  NoSession = NoSession
  NoTool = NoTool
  Ambiguous = {}
  MaxLost = 0
  MaxCrashes = 0
CHECK_DEADLOCK FALSE
INVARIANTS
  RestoredIsAdmissible
