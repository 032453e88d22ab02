---------------------------- MODULE VotingProofs ----------------------------
(***************************************************************************)
(* Proofs about Voting, for every number of users, workers, contests and   *)
(* faults and for a schema with or without the foreign key.                *)
(***************************************************************************)
EXTENDS Voting, FiniteSetTheorems, TLAPS

\* A busy worker that moves to another statement keeps its request.
LEMMA GotoOK ==
  ASSUME WorkOK, NEW w \in Workers, work[w].pc # "idle",
         NEW label \in Labels, Goto(w, label)
  PROVE  WorkOK'
BY DEF WorkOK, WorkType, Goto

\* A worker that answers becomes idle.
LEMMA AnswerOK ==
  ASSUME WorkOK, NEW w \in Workers, NEW reply \in Replies, Answer(w, reply)
  PROVE  WorkOK'
<1> DEFINE r == [work[w] EXCEPT !.pc = "idle", !.reply = reply]
<1>1. work[w] \in WorkType
  BY DEF WorkOK
<1>2. r \in WorkType /\ r.pc = "idle"
  BY <1>1 DEF WorkType, Labels
<1>3. work' = [work EXCEPT ![w] = r]
  BY DEF Answer
<1> HIDE DEF r
<1> QED
  BY <1>2, <1>3 DEF WorkOK

\* Only the slot voted for changes, and only upwards, by at most one.
LEMMA RaisedType ==
  ASSUME score \in [Contests -> [Slots -> Nat]],
         NEW c \in Contests, NEW s \in Slots
  PROVE  Raised(c, s) \in [Contests -> [Slots -> Nat]]
BY DEF Raised

\* The type invariant is kept by every step of vote() and its environment.
THEOREM TypeCorrect == Spec => []TypeOK
<1>1. Init => TypeOK
  BY VotingAssumption
  DEF Init, TypeOK, WorkOK, WorkType, Idle, Labels, Replies
<1>2. TypeOK /\ [Next]_vars => TypeOK'
  <2> SUFFICES ASSUME TypeOK, [Next]_vars PROVE TypeOK'
    OBVIOUS
  <2>0. schema' \in {"references", "plain"}
    BY DEF Next, vars, TypeOK
  <2>1. ASSUME NEW w \in Workers, NEW u \in Users, NEW c \in Contests,
               NEW s \in Slots \cup {BadSlot}, Vote(w, u, c, s)
        PROVE TypeOK'
    <3>1. WorkOK'
      BY <2>1, VotingAssumption
      DEF TypeOK, WorkOK, WorkType, Vote, Idle, Labels, Replies, Contests
    <3> QED
      BY <2>0, <3>1, <2>1 DEF TypeOK, Vote
  <2>2. ASSUME NEW w \in Workers, GetUserID(w) PROVE TypeOK'
    <3>1. WorkOK'
      BY <2>2, GotoOK, AnswerOK DEF TypeOK, GetUserID, Labels, Replies
    <3> QED
      BY <2>0, <3>1, <2>2, VotingAssumption DEF TypeOK, GetUserID, Fault
  <2>3. ASSUME NEW w \in Workers, InsertVoted(w) PROVE TypeOK'
    <3>1. WorkOK'
      BY <2>3, GotoOK DEF TypeOK, InsertVoted, Labels
    <3>2. <<work[w].user, work[w].contest>> \in Users \X Contests
      BY <2>3 DEF TypeOK, WorkOK, InsertVoted
    <3>3. voted' \subseteq Users \X Contests
      BY <3>2, <2>3, Zenon DEF TypeOK, InsertVoted
    <3> QED
      BY <2>0, <3>1, <3>3, <2>3, VotingAssumption DEF TypeOK, InsertVoted, Fault
  <2>4. ASSUME NEW w \in Workers, UpdateScore(w) PROVE TypeOK'
    <3>1. WorkOK'
      BY <2>4, GotoOK DEF TypeOK, UpdateScore, Labels
    <3>2. work[w].contest \in Contests /\ work[w].slot \in Slots
      BY <2>4 DEF TypeOK, WorkOK, UpdateScore
    <3>3. Raised(work[w].contest, work[w].slot) \in [Contests -> [Slots -> Nat]]
      BY <3>2, RaisedType DEF TypeOK
    <3>4. score' \in [Contests -> [Slots -> Nat]]
      BY <2>4, <3>3 DEF TypeOK, UpdateScore
    <3> QED
      BY <2>0, <3>1, <3>4, <2>4, VotingAssumption DEF TypeOK, UpdateScore, Fault
  <2>5. ASSUME NEW w \in Workers, SelectScores(w) PROVE TypeOK'
    <3>1. WorkOK'
      BY <2>5, GotoOK, AnswerOK
      DEF TypeOK, SelectScores, ScoresOf, Labels, Replies
    <3> QED
      BY <2>0, <3>1, <2>5, VotingAssumption DEF TypeOK, SelectScores, Fault
  <2>6. ASSUME NEW w \in Workers, CatchSelect(w) PROVE TypeOK'
    <3>1. WorkOK'
      BY <2>6, AnswerOK DEF TypeOK, CatchSelect, ScoresOf, Replies
    <3> QED
      BY <2>0, <3>1, <2>6, VotingAssumption DEF TypeOK, CatchSelect, Fault
  <2>7. CASE InsertContest
    BY <2>0, <2>7, VotingAssumption DEF TypeOK, WorkOK, InsertContest
  <2>8. CASE Crash
    BY <2>0, <2>8, VotingAssumption
    DEF TypeOK, WorkOK, WorkType, Crash, Fault, Idle, Labels, Replies
  <2>9. CASE UNCHANGED vars
    BY <2>0, <2>9 DEF vars, TypeOK, WorkOK
  <2> QED
    BY <2>1, <2>2, <2>3, <2>4, <2>5, <2>6, <2>7, <2>8, <2>9 DEF Next, Steps, Step
<1> QED
  BY <1>1, <1>2, PTL DEF Spec

-----------------------------------------------------------------------------
\* What a step of worker w leaves alone: the work of all other workers.
OthersSame(w) == \A x \in Workers \ {w} : work'[x] = work[x]

\* Every step of vote() writes the work of its own worker only.
LEMMA GotoMoves ==
  ASSUME WorkOK, NEW w \in Workers, NEW label, Goto(w, label)
  PROVE  /\ OthersSame(w)
         /\ work'[w].pc = label
         /\ work'[w].user = work[w].user
         /\ work'[w].contest = work[w].contest
BY DEF WorkOK, WorkType, Goto, OthersSame

LEMMA AnswerMoves ==
  ASSUME WorkOK, NEW w \in Workers, NEW reply, Answer(w, reply)
  PROVE  OthersSame(w) /\ work'[w].pc = "idle"
BY DEF WorkOK, WorkType, Answer, OthersSame

\* The steps that touch neither the ballots nor the scores, and after which
\* their worker is as far from an UPDATE as it was before.
Quiet(w) ==
  /\ OthersSame(w)
  /\ work[w].pc # "update" /\ work'[w].pc # "update"
  /\ UNCHANGED <<voted, score>>

LEMMA QuietVote ==
  ASSUME WorkOK, NEW w \in Workers, NEW u, NEW c, NEW s, Vote(w, u, c, s)
  PROVE  Quiet(w)
BY DEF WorkOK, Vote, Idle, Quiet, OthersSame

LEMMA QuietSteps ==
  ASSUME WorkOK, NEW w \in Workers,
         GetUserID(w) \/ SelectScores(w) \/ CatchSelect(w)
  PROVE  Quiet(w)
<1>1. CASE GetUserID(w)
  BY <1>1, GotoMoves, AnswerMoves DEF GetUserID, Quiet
<1>2. CASE SelectScores(w)
  BY <1>2, GotoMoves, AnswerMoves DEF SelectScores, Quiet
<1>3. CASE CatchSelect(w)
  BY <1>3, AnswerMoves DEF CatchSelect, Quiet
<1> QED
  BY <1>1, <1>2, <1>3

-----------------------------------------------------------------------------
\* A step after which its worker carries nothing cannot make two carry one.
LEMMA NotCarrying ==
  ASSUME CarriersDistinct, NEW w \in Workers, OthersSame(w),
         work'[w].pc # "update", voted \subseteq voted'
  PROVE  CarriersDistinct'
BY DEF CarriersDistinct, OthersSame

\* The unique key makes two racing requests of a user end differently: no
\* two workers ever carry the same ballot from its INSERT to its UPDATE, and
\* a ballot that is carried is in the table.
THEOREM CarriersCorrect == Spec => []CarriersDistinct
<1>1. Init => CarriersDistinct
  BY DEF Init, CarriersDistinct, Idle
<1>2. TypeOK /\ CarriersDistinct /\ [Next]_vars => CarriersDistinct'
  <2> SUFFICES ASSUME TypeOK, CarriersDistinct, [Next]_vars
               PROVE  CarriersDistinct'
    OBVIOUS
  <2>0. WorkOK
    BY DEF TypeOK
  <2>1. ASSUME NEW w \in Workers, Quiet(w) PROVE CarriersDistinct'
    BY <2>1, NotCarrying DEF Quiet
  <2>2. ASSUME NEW w \in Workers, InsertVoted(w) PROVE CarriersDistinct'
    <3> DEFINE row == <<work[w].user, work[w].contest>>
    <3>1. CASE /\ InsertAccepted(row)
               /\ voted' = voted \cup {row}
               /\ Goto(w, "update")
      <4>1. /\ OthersSame(w)
            /\ work'[w].user = work[w].user
            /\ work'[w].contest = work[w].contest
        BY <2>0, <3>1, GotoMoves
      <4>2. row \notin voted
        BY <3>1 DEF InsertAccepted
      <4> QED
        BY <3>1, <4>1, <4>2 DEF CarriersDistinct, OthersSame
    <3>2. CASE Goto(w, "catch") /\ voted \subseteq voted'
      BY <2>0, <3>2, GotoMoves, NotCarrying
    <3> QED
      BY <2>2, <3>1, <3>2 DEF InsertVoted
  <2>3. ASSUME NEW w \in Workers, UpdateScore(w) PROVE CarriersDistinct'
    <3>1. OthersSame(w) /\ work'[w].pc # "update"
      BY <2>0, <2>3, GotoMoves DEF UpdateScore
    <3> QED
      BY <2>3, <3>1, NotCarrying DEF UpdateScore
  <2>4. CASE InsertContest \/ UNCHANGED vars
    BY <2>4 DEF InsertContest, vars, CarriersDistinct
  <2>5. CASE Crash
    BY <2>5 DEF Crash, Idle, CarriersDistinct
  <2> QED
    BY <2>0, <2>1, <2>2, <2>3, <2>4, <2>5, QuietVote, QuietSteps DEF Next, Steps, Step
<1> QED
  BY <1>1, <1>2, TypeCorrect, PTL DEF Spec

-----------------------------------------------------------------------------
\* Voters and carriers are finite sets, so their sizes can be compared, in
\* this state and, with the primed sets for S, in the next one.
LEMMA SizeOK ==
  ASSUME NEW T, IsFiniteSet(T), NEW S, S \subseteq T
  PROVE  IsFiniteSet(S) /\ Cardinality(S) \in Nat
BY FS_Subset, FS_CardinalityType

LEMMA VotersFinite ==
  ASSUME NEW c
  PROVE  /\ IsFiniteSet(Voters(c)) /\ Cardinality(Voters(c)) \in Nat
         /\ IsFiniteSet(InFlight(c)) /\ Cardinality(InFlight(c)) \in Nat
<1>1. Voters(c) \subseteq Users /\ InFlight(c) \subseteq Workers
  BY DEF Voters, InFlight
<1> QED
  BY <1>1, SizeOK, VotingAssumption

LEMMA TotalType ==
  ASSUME TypeOK, NEW c \in Contests
  PROVE  Total(c) \in Nat
BY DEF TypeOK, Total, Slots

\* What a step does to the count of contest c: dTotal points, dCarried
\* carriers and dVoters voters more than before.
Changes(c, dTotal, dCarried, dVoters) ==
  /\ Total(c)' = Total(c) + dTotal
  /\ Cardinality(InFlight(c))' = Cardinality(InFlight(c)) + dCarried
  /\ Cardinality(Voters(c))' = Cardinality(Voters(c)) + dVoters

LEMMA QuietCounts ==
  ASSUME TypeOK, NEW w \in Workers, Quiet(w), NEW c \in Contests
  PROVE  Changes(c, 0, 0, 0)
<1>1. /\ InFlight(c)' = InFlight(c)
      /\ Voters(c)' = Voters(c)
      /\ Total(c)' = Total(c)
  BY DEF Quiet, OthersSame, InFlight, Voters, Total
<1> QED
  BY <1>1, VotersFinite, TotalType DEF Changes

\* An accepted INSERT adds one voter and one carrier to its contest.
LEMMA InsertCounts ==
  ASSUME TypeOK, NEW w \in Workers, work[w].pc = "insert",
         InsertAccepted(<<work[w].user, work[w].contest>>),
         voted' = voted \cup {<<work[w].user, work[w].contest>>},
         Goto(w, "update"), UNCHANGED score, NEW c \in Contests
  PROVE  IF c = work[w].contest THEN Changes(c, 0, 1, 1) ELSE Changes(c, 0, 0, 0)
<1> DEFINE u == work[w].user
<1>0. u \in Users /\ WorkOK
  BY DEF TypeOK, WorkOK
<1>1. /\ OthersSame(w) /\ work'[w].pc = "update"
      /\ work'[w].contest = work[w].contest
  BY <1>0, GotoMoves
<1>2. Total(c)' = Total(c)
  BY DEF Total
<1>3. CASE c = work[w].contest
  <2>1. InFlight(c)' = InFlight(c) \cup {w} /\ w \notin InFlight(c)
    BY <1>1, <1>3 DEF InFlight, OthersSame
  <2>2. Voters(c)' = Voters(c) \cup {u} /\ u \notin Voters(c)
    BY <1>0, <1>3 DEF Voters, InsertAccepted
  <2>3. Cardinality(InFlight(c)') = Cardinality(InFlight(c)) + 1
    BY <2>1, VotersFinite, FS_AddElement
  <2>4. Cardinality(Voters(c)') = Cardinality(Voters(c)) + 1
    BY <2>2, VotersFinite, FS_AddElement
  <2> QED
    BY <1>2, <1>3, <2>3, <2>4, TotalType DEF Changes
<1>4. CASE c # work[w].contest
  <2>1. InFlight(c)' = InFlight(c) /\ Voters(c)' = Voters(c)
    BY <1>1, <1>4 DEF InFlight, OthersSame, Voters
  <2> QED
    BY <1>2, <1>4, <2>1, VotersFinite, TotalType DEF Changes
<1> QED
  BY <1>3, <1>4

\* A worker leaves its UPDATE: one carrier less, and one point more for the
\* contest if the statement was applied to an existing row.
LEMMA UpdateCounts ==
  ASSUME TypeOK, NEW w \in Workers, work[w].pc = "update",
         NEW label, label # "update", Goto(w, label), UNCHANGED voted,
         score' \in {score, Raised(work[w].contest, work[w].slot)},
         NEW c \in Contests
  PROVE  /\ c # work[w].contest => Changes(c, 0, 0, 0)
         /\ c = work[w].contest =>
              \/ Changes(c, 1, -1, 0)
              \/ Changes(c, 0, -1, 0) /\ (score' = score \/ ~Exists(c))
<1>0. WorkOK /\ work[w].contest \in Contests /\ work[w].slot \in Slots
  BY DEF TypeOK, WorkOK
<1>1. OthersSame(w) /\ work'[w].pc # "update"
  BY <1>0, GotoMoves
<1>2. Cardinality(Voters(c))' = Cardinality(Voters(c))
  BY DEF Voters
<1>3. CASE c # work[w].contest
  <2>1. InFlight(c)' = InFlight(c)
    BY <1>1, <1>3 DEF InFlight, OthersSame
  <2>2. Total(c)' = Total(c)
    BY <1>0, <1>3 DEF TypeOK, Total, Raised
  <2> QED
    BY <1>2, <1>3, <2>1, <2>2, VotersFinite, TotalType DEF Changes
<1>4. CASE c = work[w].contest
  <2>1. InFlight(c)' = InFlight(c) \ {w} /\ w \in InFlight(c)
    BY <1>1, <1>4 DEF InFlight, OthersSame
  <2>2. Cardinality(InFlight(c)') = Cardinality(InFlight(c)) - 1
    BY <2>1, VotersFinite, FS_RemoveElement
  <2>3. \/ Total(c)' = Total(c) + 1
        \/ Total(c)' = Total(c) /\ (score' = score \/ ~Exists(c))
    BY <1>0, <1>4 DEF TypeOK, Total, Raised, Slots
  <2> QED
    BY <1>2, <1>4, <2>2, <2>3, VotersFinite, TotalType DEF Changes
<1> QED
  BY <1>3, <1>4

-----------------------------------------------------------------------------
\* A contest never has more points than voters, counting the carriers too:
\* each accepted INSERT pays for at most one later UPDATE.
THEOREM NeverOverCounted == Spec => []NoOverCount
<1> DEFINE Bound(c) == Total(c) + Cardinality(InFlight(c)) <= Cardinality(Voters(c))
<1>1. Init => NoOverCount
  <2> SUFFICES ASSUME Init, NEW c \in Contests PROVE Bound(c)
    BY DEF NoOverCount
  <2>1. Total(c) = 0 /\ InFlight(c) = {} /\ Voters(c) = {}
    BY DEF Init, Total, InFlight, Voters, Idle, Slots
  <2> QED
    BY <2>1, FS_EmptySet
<1>2. TypeOK /\ NoOverCount /\ [Next]_vars => NoOverCount'
  <2> SUFFICES ASSUME TypeOK, [Next]_vars, NEW c \in Contests, Bound(c)
               PROVE  Bound(c)'
    BY DEF NoOverCount
  <2>0. /\ WorkOK /\ Total(c) \in Nat
        /\ Cardinality(InFlight(c)) \in Nat /\ Cardinality(Voters(c)) \in Nat
    BY VotersFinite, TotalType DEF TypeOK
  <2>1. ASSUME Changes(c, 0, 0, 0) \/ Changes(c, 0, 1, 1) \/ Changes(c, 1, -1, 0)
               \/ Changes(c, 0, -1, 0) \/ Changes(c, 0, 0, 1)
        PROVE  Bound(c)'
    BY <2>0, <2>1, VotersFinite, TotalType DEF Changes
  <2>2. ASSUME NEW w \in Workers, Quiet(w) PROVE Bound(c)'
    BY <2>1, <2>2, QuietCounts
  <2>3. ASSUME NEW w \in Workers, InsertVoted(w) PROVE Bound(c)'
    <3> DEFINE row == <<work[w].user, work[w].contest>>
    <3>1. CASE /\ InsertAccepted(row)
               /\ voted' = voted \cup {row}
               /\ Goto(w, "update")
      BY <2>1, <2>3, <3>1, InsertCounts DEF InsertVoted
    <3>2. CASE Goto(w, "catch") /\ voted \subseteq voted'
      <4>1. InFlight(c)' = InFlight(c)
        BY <2>3, <3>2, GotoMoves DEF TypeOK, InFlight, OthersSame, InsertVoted
      <4>2. Total(c)' = Total(c)
        BY <2>3 DEF Total, InsertVoted
      <4>3. Voters(c) \subseteq Voters(c)' /\ IsFiniteSet(Voters(c)')
        <5>1. Voters(c)' \subseteq Users
          BY DEF Voters
        <5> QED
          BY <3>2, <5>1, SizeOK, VotingAssumption DEF Voters
      <4>4. /\ Cardinality(Voters(c)) <= Cardinality(Voters(c)')
            /\ Cardinality(Voters(c)') \in Nat
        BY <4>3, FS_Subset, FS_CardinalityType
      <4> QED
        BY <4>1, <4>2, <4>4, VotersFinite, TotalType
    <3> QED
      BY <2>3, <3>1, <3>2 DEF InsertVoted
  <2>4. ASSUME NEW w \in Workers, UpdateScore(w) PROVE Bound(c)'
    BY <2>1, <2>4, UpdateCounts DEF UpdateScore
  <2>5. CASE InsertContest \/ UNCHANGED vars
    <3>1. UNCHANGED <<voted, score, work>>
      BY <2>5 DEF InsertContest, vars
    <3> QED
      BY <3>1 DEF Total, InFlight, Voters
  <2>6. CASE Crash
    <3>1. InFlight(c)' = {} /\ Total(c)' = Total(c) /\ Voters(c)' = Voters(c)
      BY <2>6 DEF Crash, Idle, InFlight, Total, Voters
    <3> QED
      BY <3>1, VotersFinite, TotalType, FS_EmptySet
  <2> QED
    BY <2>0, <2>2, <2>3, <2>4, <2>5, <2>6, QuietVote, QuietSteps DEF Next, Steps, Step
<1> QED
  BY <1>1, <1>2, TypeCorrect, PTL DEF Spec

-----------------------------------------------------------------------------
\* With the foreign key a ballot can only be cast for a contest that exists,
\* and contests are never deleted.
BallotsForContests == ForeignKey => \A row \in voted : Exists(row[2])

LEMMA BallotsForContestsCorrect == Spec => []BallotsForContests
<1>1. Init => BallotsForContests
  BY DEF Init, BallotsForContests
<1>2. TypeOK /\ TypeOK' /\ BallotsForContests /\ [Next]_vars => BallotsForContests'
  <2> SUFFICES ASSUME TypeOK, TypeOK', BallotsForContests, [Next]_vars, ForeignKey',
                      NEW row \in voted'
               PROVE  Exists(row[2])'
    BY DEF BallotsForContests
  <2>0. ForeignKey
    BY DEF Next, vars, ForeignKey
  <2>1. created' = created \/ created' = created + 1
    BY DEF Next, Steps, Step, vars, Vote, GetUserID, InsertVoted, UpdateScore,
           SelectScores, CatchSelect, InsertContest, Crash
  <2>2. row \in voted \/ InsertAccepted(row)
    BY DEF Next, Steps, Step, vars, Vote, GetUserID, InsertVoted, UpdateScore,
           SelectScores, CatchSelect, InsertContest, Crash
  <2>3. Exists(row[2])
    BY <2>0, <2>2 DEF BallotsForContests, InsertAccepted
  <2>4. row[2] \in Nat
    BY DEF TypeOK, Contests
  <2> QED
    BY <2>1, <2>3, <2>4, VotingAssumption DEF Exists, TypeOK
<1> QED
  BY <1>1, <1>2, TypeCorrect, PTL DEF Spec

\* With the foreign key and no fault the count is exact: every carrier
\* reaches its UPDATE, and the UPDATE finds the row.
THEOREM NoneLost == Spec => []NoBallotLost
<1> DEFINE Exact(c) == Total(c) + Cardinality(InFlight(c)) = Cardinality(Voters(c))
<1>1. Init => NoBallotLost
  <2> SUFFICES ASSUME Init, NEW c \in Contests PROVE Exact(c)
    BY DEF NoBallotLost
  <2>1. Total(c) = 0 /\ InFlight(c) = {} /\ Voters(c) = {}
    BY DEF Init, Total, InFlight, Voters, Idle, Slots
  <2> QED
    BY <2>1, FS_EmptySet
<1>2. /\ TypeOK /\ TypeOK' /\ CarriersDistinct /\ BallotsForContests
      /\ NoBallotLost /\ [Next]_vars
      => NoBallotLost'
  <2> SUFFICES ASSUME TypeOK, TypeOK', CarriersDistinct, BallotsForContests,
                      NoBallotLost, [Next]_vars,
                      ForeignKey', faults' = 0, NEW c \in Contests
               PROVE  Exact(c)'
    BY DEF NoBallotLost
  <2>. ForeignKey
    BY DEF Next, vars, ForeignKey
  <2>0. /\ WorkOK /\ Total(c) \in Nat /\ faults \in Nat
        /\ Cardinality(InFlight(c)) \in Nat /\ Cardinality(Voters(c)) \in Nat
    BY VotersFinite, TotalType, VotingAssumption DEF TypeOK
  <2>1. ~Fault
    BY <2>0 DEF Fault
  <2>2. faults = 0
    BY <2>0, <2>1
    DEF Next, Steps, Step, vars, Vote, GetUserID, InsertVoted, UpdateScore,
        SelectScores, CatchSelect, InsertContest, Crash
  <2>3. Exact(c)
    BY <2>2 DEF NoBallotLost
  <2>4. ASSUME Changes(c, 0, 0, 0) \/ Changes(c, 0, 1, 1) \/ Changes(c, 1, -1, 0)
        PROVE  Exact(c)'
    BY <2>0, <2>3, <2>4 DEF Changes
  <2>5. ASSUME NEW w \in Workers, Quiet(w) PROVE Exact(c)'
    BY <2>4, <2>5, QuietCounts
  <2>6. ASSUME NEW w \in Workers, InsertVoted(w) PROVE Exact(c)'
    <3>1. CASE InsertAccepted(Carried(w))
      BY <2>1, <2>4, <2>6, <3>1, InsertCounts DEF InsertVoted, Carried
    <3>2. CASE Goto(w, "catch") /\ UNCHANGED voted
      <4>1. Quiet(w)
        BY <2>0, <2>6, <3>2, GotoMoves DEF InsertVoted, Quiet
      <4> QED
        BY <2>5, <4>1
    <3> QED
      BY <2>1, <2>6, <3>1, <3>2 DEF InsertVoted, Carried
  <2>7. ASSUME NEW w \in Workers, UpdateScore(w) PROVE Exact(c)'
    <3>1. Exists(work[w].contest)
      BY <2>7 DEF UpdateScore, CarriersDistinct, BallotsForContests
    <3>2. score' = Raised(work[w].contest, work[w].slot) /\ Goto(w, "select")
      BY <2>1, <2>7 DEF UpdateScore
    <3>3. work[w].contest = c => score' # score
      BY <2>0, <2>7, <3>1, <3>2 DEF TypeOK, WorkOK, Raised, UpdateScore, Slots
    <3> QED
      BY <2>4, <2>7, <3>1, <3>2, <3>3, UpdateCounts DEF UpdateScore
  <2>8. CASE InsertContest \/ UNCHANGED vars
    <3>1. UNCHANGED <<voted, score, work>>
      BY <2>8 DEF InsertContest, vars
    <3> QED
      BY <2>3, <3>1 DEF Total, InFlight, Voters
  <2> QED
    BY <2>0, <2>1, <2>5, <2>6, <2>7, <2>8, QuietVote, QuietSteps
    DEF Next, Steps, Step, Crash
<1> QED
  BY <1>1, <1>2, TypeCorrect, CarriersCorrect, BallotsForContestsCorrect, PTL
  DEF Spec

-----------------------------------------------------------------------------
\* Without a fault every worker past its INSERT has spent its ballot, be it
\* that the INSERT was accepted or that the ballot was there.
Spent(w) == <<work[w].user, work[w].contest>> \in voted
Past(w) ==
  \/ work[w].pc \in {"update", "select", "catch"}
  \/ work[w].pc = "idle" /\ work[w].reply = "scores"
PastSpent == ~ForeignKey /\ faults = 0 => \A w \in Workers : Past(w) => Spent(w)

\* Whoever has spent a ballot keeps it, and the request with it.
LEMMA SpentKept ==
  ASSUME WorkOK, NEW w \in Workers, voted \subseteq voted',
         (\E label : Goto(w, label)) \/ (\E reply : Answer(w, reply)),
         Spent(w) \/ <<work[w].user, work[w].contest>> \in voted',
         NEW x \in Workers, x # w => (Past(x) => Spent(x))
  PROVE  Past(x)' => Spent(x)'
<1>1. /\ work'[w].user = work[w].user /\ work'[w].contest = work[w].contest
      /\ x # w => work'[x] = work[x]
  BY DEF WorkOK, WorkType, Goto, Answer
<1>2. CASE x = w
  BY <1>1, <1>2 DEF Spent
<1>3. CASE x # w
  <2>1. work'[x] = work[x]
    BY <1>1, <1>3
  <2> QED BY <1>3, <2>1 DEF Past, Spent
<1> QED BY <1>2, <1>3

\* When no statement has failed, whoever is answered with scores has spent
\* the ballot, although vote() takes every exception of the INSERT for a second
\* vote (srv_db.cpp:1114).
THEOREM ScoresMeanSpent == Spec => []ScoresMeanVoted
<1>1. Init => PastSpent
  BY DEF Init, PastSpent, Past, Idle
<1>2. TypeOK /\ PastSpent /\ [Next]_vars => PastSpent'
  <2> SUFFICES ASSUME TypeOK, PastSpent, [Next]_vars, ~ForeignKey', faults' = 0,
                      NEW x \in Workers
               PROVE  Past(x)' => Spent(x)'
    BY DEF PastSpent
  <2>0. WorkOK /\ faults \in Nat /\ ~ForeignKey
    BY VotingAssumption DEF TypeOK, Next, vars, ForeignKey
  <2>1. ~Fault
    BY <2>0 DEF Fault
  <2>2. faults = 0
    BY <2>0, <2>1
    DEF Next, Steps, Step, vars, Vote, GetUserID, InsertVoted, UpdateScore,
        SelectScores, CatchSelect, InsertContest, Crash
  <2>3. \A w \in Workers : Past(w) => Spent(w)
    BY <2>0, <2>2 DEF PastSpent
  <2>4. ASSUME NEW w \in Workers, NEW u \in Users, NEW c \in Contests,
               NEW s \in Slots \cup {BadSlot}, Vote(w, u, c, s)
        PROVE  Past(x)' => Spent(x)'
    <3>1. CASE x = w
      <4>1. ~Past(w)'
        BY <2>0, <2>4 DEF WorkOK, Vote, Idle, Past
      <4> QED BY <3>1, <4>1
    <3>2. CASE x # w
      <4>1. work'[x] = work[x] /\ voted' = voted
        BY <2>0, <2>4, <3>2 DEF WorkOK, Vote
      <4> QED BY <2>3, <4>1 DEF Past, Spent
    <3> QED BY <3>1, <3>2
  <2>5. ASSUME NEW w \in Workers, GetUserID(w) PROVE Past(x)' => Spent(x)'
    <3>1. Goto(w, "insert") /\ voted' = voted
      BY <2>1, <2>5 DEF GetUserID
    <3>2. CASE x = w
      BY <2>0, <3>1, <3>2, GotoMoves DEF Past
    <3>3. CASE x # w
      BY <2>0, <2>3, <3>1, <3>3, GotoMoves DEF OthersSame, Past, Spent
    <3> QED BY <3>2, <3>3
  <2>6. ASSUME NEW w \in Workers, InsertVoted(w) PROVE Past(x)' => Spent(x)'
    <3>1. /\ voted \subseteq voted' /\ \E label : Goto(w, label)
          /\ <<work[w].user, work[w].contest>> \in voted'
      BY <2>0, <2>1, <2>6 DEF InsertVoted, InsertAccepted
    <3> QED BY <2>0, <2>3, <3>1, SpentKept
  <2>7. ASSUME NEW w \in Workers, UpdateScore(w) \/ SelectScores(w) \/ CatchSelect(w)
        PROVE  Past(x)' => Spent(x)'
    <3>1. Spent(w)
      BY <2>3, <2>7 DEF UpdateScore, SelectScores, CatchSelect, Past
    <3>2. /\ voted' = voted
          /\ (\E label : Goto(w, label)) \/ (\E reply : Answer(w, reply))
      BY <2>7 DEF UpdateScore, SelectScores, CatchSelect
    <3> QED BY <2>0, <2>3, <3>1, <3>2, SpentKept
  <2>8. CASE InsertContest \/ UNCHANGED vars
    BY <2>3, <2>8 DEF InsertContest, vars, Past, Spent
  <2> QED
    BY <2>1, <2>4, <2>5, <2>6, <2>7, <2>8 DEF Next, Steps, Step, Crash
<1>3. PastSpent => ScoresMeanVoted
  BY DEF PastSpent, ScoresMeanVoted, Past, Spent
<1> QED
  BY <1>1, <1>2, <1>3, TypeCorrect, PTL DEF Spec

-----------------------------------------------------------------------------
\* vote() implements the ballot box: what its workers carry is the pending
\* part of the box, a lost answer or a crash loses pending ballots, and no
\* step of it counts a ballot that is not pending.
THEOREM ImplementsBallotBox == Spec => BallotBoxSpec
<1>1. Init => Box!Init
  BY DEF Init, Box!Init, Pending, Idle, Slots, Box!Slots
<1>2. /\ TypeOK /\ CarriersDistinct /\ CarriersDistinct' /\ [Next]_vars
      => [Box!Next]_(Box!vars)
  <2> SUFFICES ASSUME TypeOK, CarriersDistinct, CarriersDistinct', [Next]_vars
               PROVE  [Box!Next]_(Box!vars)
    OBVIOUS
  <2>0. WorkOK
    BY DEF TypeOK
  <2>1. ASSUME NEW w \in Workers, Quiet(w) PROVE UNCHANGED Box!vars
    BY <2>1 DEF Quiet, OthersSame, Pending, Carried, Box!vars
  <2>2. ASSUME NEW w \in Workers, InsertVoted(w) PROVE [Box!Next]_(Box!vars)
    <3>0. Carried(w) \in Box!Ballots
      BY <2>0, <2>2 DEF InsertVoted, WorkOK, Carried, Box!Ballots
    <3>1. CASE /\ InsertAccepted(Carried(w))
               /\ voted' = voted \cup {Carried(w)}
               /\ Goto(w, "update")
      <4>1. /\ OthersSame(w) /\ work'[w].pc = "update"
            /\ Carried(w)' = Carried(w)
        BY <2>0, <3>1, GotoMoves DEF Carried
      <4>2. Pending' = Pending \cup {Carried(w)}
        BY <2>2, <4>1 DEF Pending, Carried, OthersSame, InsertVoted
      <4>3. Box!Spend(Carried(w))
        BY <2>2, <3>1, <4>2 DEF Box!Spend, InsertAccepted, InsertVoted
      <4> QED
        BY <3>0, <4>3 DEF Box!Next
    <3>2. CASE /\ Goto(w, "catch")
               /\ \/ UNCHANGED voted
                  \/ /\ InsertAccepted(Carried(w))
                     /\ voted' = voted \cup {Carried(w)}
      <4>1. Pending' = Pending /\ UNCHANGED score
        BY <2>0, <2>2, <3>2, GotoMoves
        DEF Pending, Carried, OthersSame, InsertVoted
      <4>2. UNCHANGED Box!vars \/ Box!Waste(Carried(w))
        BY <3>2, <4>1 DEF Box!Waste, Box!vars, InsertAccepted
      <4> QED
        BY <3>0, <4>2 DEF Box!Next
    <3> QED
      BY <2>2, <3>1, <3>2 DEF InsertVoted, Carried
  <2>3. ASSUME NEW w \in Workers, UpdateScore(w) PROVE [Box!Next]_(Box!vars)
    <3> DEFINE b == Carried(w)
               s == work[w].slot
    <3>1. b \in Box!Ballots /\ s \in Box!Slots /\ b[2] = work[w].contest
      BY <2>0, <2>3 DEF UpdateScore, WorkOK, Carried, Box!Ballots, Box!Slots, Slots
    <3>2. OthersSame(w) /\ work'[w].pc # "update"
      BY <2>0, <2>3, GotoMoves DEF UpdateScore
    <3>3. b \in Pending /\ Pending' = Pending \ {b}
      BY <2>3, <3>2
      DEF UpdateScore, Pending, Carried, OthersSame, CarriersDistinct
    <3>4. CASE UNCHANGED score
      <4>1. Box!Lose({b})
        BY <2>3, <3>3, <3>4 DEF Box!Lose, UpdateScore
      <4> QED
        BY <3>1, <4>1 DEF Box!Next
    <3>5. CASE score' = [score EXCEPT ![b[2]][s] = @ + 1]
      <4>1. Box!Count(b, s)
        BY <2>3, <3>3, <3>5 DEF Box!Count, UpdateScore
      <4> QED
        BY <3>1, <4>1 DEF Box!Next
    <3> QED
      BY <2>3, <3>1, <3>4, <3>5 DEF UpdateScore, Raised
  <2>4. CASE InsertContest \/ UNCHANGED vars
    BY <2>4 DEF InsertContest, vars, Pending, Carried, Box!vars
  <2>5. CASE Crash
    <3>1. Pending \in SUBSET Box!Ballots
      BY <2>0 DEF Pending, Carried, WorkOK, Box!Ballots
    <3>2. Pending' = {}
      BY <2>5 DEF Crash, Idle, Pending
    <3>3. Box!Lose(Pending)
      BY <2>5, <3>2 DEF Crash, Box!Lose
    <3> QED
      BY <3>1, <3>3 DEF Box!Next
  <2> QED
    BY <2>0, <2>1, <2>2, <2>3, <2>4, <2>5, QuietVote, QuietSteps DEF Next, Steps, Step
<1> QED
  BY <1>1, <1>2, TypeCorrect, CarriersCorrect, PTL
  DEF Spec, BallotBoxSpec, Box!Spec
=============================================================================
