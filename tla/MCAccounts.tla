----------------------------- MODULE MCAccounts -----------------------------
(* Instances of Accounts for TLC: workers, addresses and the passwords with  *)
(* text are interchangeable; the collation takes "Bob" and "bob" for the     *)
(* same name.                                                                *)
EXTENDS Accounts, TLC

CONSTANTS Bob, bob, ann

IgnoresCase == [n \in Names |-> IF n = Bob THEN bob ELSE n]

Symmetry ==
  Permutations(Workers) \cup Permutations(Passwords \ {NoText})
    \cup Permutations(Emails)
=============================================================================
