SPECIFICATION Spec
CONSTANTS
  Users = {u1, u2}
  Workers = {w1, w2}
  MaxContests = 2
  MaxFaults = 2
SYMMETRY Symmetry
INVARIANTS
  TypeOK
  CarriersDistinct
  NoOverCount
  NoBallotLost
  ScoresMeanVoted
PROPERTIES
  BallotBoxSpec
CHECK_DEADLOCK TRUE
