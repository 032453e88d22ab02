-------------------------- MODULE MCContestEntries --------------------------
(* Instances of ContestEntries for TLC: users and workers are interchangeable. *)
EXTENDS ContestEntries, TLC

Symmetry == Permutations(Users) \cup Permutations(Workers)
=============================================================================
