SPECIFICATION Spec
CONSTANTS
  Users = {1, 2}
  Workers = {w1, w2}
  MaxFaults = 1
SYMMETRY Symmetry
INVARIANTS
  TypeOK
  RemoveTakesBoth
PROPERTIES
  RequestIsWanted
CHECK_DEADLOCK TRUE
