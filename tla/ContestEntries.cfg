SPECIFICATION Spec
CONSTANTS
  Users = {u1, u2}
  Workers = {w1, w2}
  MaxRequests = 3
  MaxFaults = 1
  AnyContestId = FALSE
SYMMETRY Symmetry
INVARIANTS
  TypeOK
  EntryWhole
  ViewWhole
  KeyIsOwn
PROPERTIES
  CreatorKeepsSlot
CHECK_DEADLOCK TRUE
