\* Connections are replaced, unpaired, detached and closed; a stream is opened.
SPECIFICATION OpenSpec
CONSTANTS
  Conns = {c1, c2}
  Unpairs = {u1}
  Opens = {o1}
  MaxPreAuth = 1
  MaxSetups = 1
  NoConn = NoConn
  Free = Free
SYMMETRY Symmetry
CHECK_DEADLOCK FALSE
INVARIANTS
  
  NewestWins
  UnpairIsFinal
  
  CloseIsJoined
PROPERTIES
  HandedOutAfterUnpair
