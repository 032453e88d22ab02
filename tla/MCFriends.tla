----------------------------- MODULE MCFriends -----------------------------
(* Instances of Friends for TLC: the workers are interchangeable; the users  *)
(* are not, since lists are in the order of their ids.                       *)
EXTENDS Friends, TLC

Symmetry == Permutations(Workers)
=============================================================================
