SPECIFICATION Spec
CONSTANTS
  Users = {u1, u2}
  Workers = {w1, w2}
  MaxRequests = 3
  MaxFaults = 0
  AnyContestId = FALSE
SYMMETRY Symmetry
PROPERTIES
  SecondSlotKept
CHECK_DEADLOCK TRUE
