SPECIFICATION FairSpec
CONSTANTS
  Workers = {w1, w2}
  Conns = {c1, c2, c3}
  MaxFaults = 1
INVARIANTS
  TypeOK
  AcceptAlone
  ConnectionUsedAlone
  NothingLeaked
PROPERTIES
  ClientsServed
CHECK_DEADLOCK FALSE
