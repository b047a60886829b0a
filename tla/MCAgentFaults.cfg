\* One store call is lost anywhere; the device may be unpaired, the server closed.
SPECIFICATION Spec
CONSTANTS
  Sessions = {s1}
  Tools = {t1, t2}
  Requests = {r1}
  Ops = {"mode", "unpair", "close"}
  NoSession = NoSession
  NoTool = NoTool
  Ambiguous = {"begin", "state", "fail", "start", "finish"}
  MaxLost = 1
  MaxCrashes = 0
CHECK_DEADLOCK FALSE
SYMMETRY Symmetry
INVARIANTS
  NothingStranded
  AnnouncedIsDurable
  CloseIsJoined
