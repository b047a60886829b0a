\* Two sessions and two calls, any sequence of store calls.
SPECIFICATION StoreSpec
CONSTANTS
  Sessions = {s1, s2}
  Tools = {t1, t2}
  NoSession = NoSession
INVARIANTS
  RowsConsistent
PROPERTIES
  FinalRowsStay
  ModeChangeJustified
