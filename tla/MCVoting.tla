------------------------------ MODULE MCVoting ------------------------------
(* Instances of Voting for TLC: users and workers are interchangeable. *)
EXTENDS Voting, TLC

Symmetry == Permutations(Users) \cup Permutations(Workers)
=============================================================================
