SPECIFICATION Spec
CONSTANTS
  Bob = Bob
  bob = bob
  ann = ann
  Names = {Bob, bob, ann, "empty"}
  Passwords = {p1, p2, "empty"}
  Emails = {e1, e2}
  Workers = {w1, w2}
  Folded <- IgnoresCase
  NameUnique = TRUE
  MaxUsers = 3
  MaxFaults = 1
SYMMETRY Symmetry
INVARIANTS
  TypeOK
  ActsAsAuthenticated
  AnswersTrue
CHECK_DEADLOCK TRUE
