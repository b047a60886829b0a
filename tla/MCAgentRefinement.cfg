\* Two calls of a session, decided concurrently.
SPECIFICATION Spec
CONSTANTS
  Sessions = {s1}
  Tools = {t1, t2}
  Requests = {r1, r2}
  Ops = {"mode"}
  NoSession = NoSession
  NoTool = NoTool
  Ambiguous = {"begin", "state", "create", "fail", "start", "finish"}
  MaxLost = 1
  MaxCrashes = 0
SYMMETRY Symmetry
INVARIANTS
  ApprovalRespected
  CachedModeCurrent
PROPERTIES
  ImplementsToolApproval
