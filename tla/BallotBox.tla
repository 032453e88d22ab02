------------------------------ MODULE BallotBox ------------------------------
(***************************************************************************)
(* What vote() promises, with no SQL statements, workers or faults: a      *)
(* ballot box.  A user spends the one ballot they have for a contest at    *)
(* most once; a spent ballot is counted at most once and for one slot; a   *)
(* ballot may be lost on its way from the hand to the score, and then      *)
(* nothing brings it back.                                                 *)
(***************************************************************************)
EXTENDS Integers

CONSTANTS Users, Contests

Slots == {1, 2}

VARIABLES
  voted,      \* the ballots spent, pairs <<user, contest>>
  pending,    \* those of them that are still to be counted
  score       \* score[c][s], the ballots counted for slot s of contest c

vars == <<voted, pending, score>>

Ballots == Users \X Contests

Init ==
  /\ voted = {}
  /\ pending = {}
  /\ score = [c \in Contests |-> [s \in Slots |-> 0]]

\* A ballot that has not been spent is spent.
Spend(b) ==
  /\ b \notin voted
  /\ voted' = voted \cup {b}
  /\ pending' = pending \cup {b}
  /\ UNCHANGED score

\* It is spent and lost at once.
Waste(b) ==
  /\ b \notin voted
  /\ voted' = voted \cup {b}
  /\ UNCHANGED <<pending, score>>

\* A pending ballot is counted, once, for one slot of its contest.
Count(b, s) ==
  /\ b \in pending
  /\ pending' = pending \ {b}
  /\ score' = [score EXCEPT ![b[2]][s] = @ + 1]
  /\ UNCHANGED voted

\* Pending ballots are lost: they stay spent and no score changes.
Lose(B) ==
  /\ B \subseteq pending
  /\ pending' = pending \ B
  /\ UNCHANGED <<voted, score>>

Next ==
  \/ \E b \in Ballots : Spend(b) \/ Waste(b)
  \/ \E b \in Ballots, s \in Slots : Count(b, s)
  \/ \E B \in SUBSET Ballots : Lose(B)

Spec == Init /\ [][Next]_vars
=============================================================================
