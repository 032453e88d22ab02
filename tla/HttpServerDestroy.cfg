SPECIFICATION Spec
CONSTANTS
  Workers = {w1}
  Conns = {c1, c2}
  MaxFaults = 1
PROPERTIES
  DestroyedAutomatically
CHECK_DEADLOCK FALSE
