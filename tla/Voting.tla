------------------------------- MODULE Voting -------------------------------
(***************************************************************************)
(* SRV_DB::vote() as the HTTP worker threads run it.  Every worker has a   *)
(* MySQL session of its own in autocommit mode, so each SQL statement is   *)
(* one atomic step on the shared tables and the statements of concurrent   *)
(* requests interleave freely.  A statement may throw sql::SQLException    *)
(* without effect, or after the server applied it (the answer was lost).   *)
(***************************************************************************)
EXTENDS Integers, FiniteSets

CONSTANTS
  Users,        \* ids of the accounts, as getUserID() finds them for requests
  Workers,      \* the HTTP threads
  MaxContests,  \* bound: contests created
  MaxFaults     \* bound: failing SQL statements and crashes

ASSUME VotingAssumption ==
  /\ IsFiniteSet(Users)
  /\ IsFiniteSet(Workers)
  /\ 0 \notin Users
  /\ MaxContests \in Nat
  /\ MaxFaults \in Nat

Contests == 1 .. MaxContests
Slots == {1, 2}
BadSlot == 3    \* stands for every imgslot other than 1 and 2

VARIABLES
  voted,     \* table voted: a set of <<user, contest>>, its unique key
  created,   \* table contest: the rows 1 .. created exist
  score,     \* its columns user1_score and user2_score
  work,      \* what each worker is executing
  faults,    \* faults so far
  schema     \* does voted.contestid reference contest?  The schema is not in
             \* the repository: either, and it stays

vars == <<voted, created, score, work, faults, schema>>

ForeignKey == schema = "references"

Labels == {"idle", "userid", "insert", "update", "select", "catch"}
Replies == {"none", "1001", "scores", "null"}

Idle(reply) == [pc |-> "idle", user |-> 0, contest |-> 0, slot |-> 0,
                reply |-> reply]

-----------------------------------------------------------------------------
Exists(c) == c <= created

AcceptAgain(row) == ForeignKey => Exists(row[2])    \* mutant: no unique key

InsertForged(row) == row \notin voted               \* mutant: no foreign key

OneVotePerUser(row) ==                              \* mutant: key on userid
  row[1] \notin {r[1] : r \in voted} /\ (ForeignKey => Exists(row[2]))

\* The unique key of voted, and its foreign key if the schema has one.
InsertAccepted(row) == row \notin voted /\ (ForeignKey => Exists(row[2]))

RaisedTwice(c, s) ==                                \* mutant
  IF Exists(c) THEN [score EXCEPT ![c][s] = @ + 2] ELSE score

\* UPDATE contest SET userS_score = userS_score + 1 WHERE contest_id = ...
Raised(c, s) ==
  IF Exists(c) THEN [score EXCEPT ![c][s] = @ + 1] ELSE score

\* The JSON built from the rows query3 returns: no row gives "null".
ScoresOf(c) == IF Exists(c) THEN "scores" ELSE "null"

Fault == faults < MaxFaults /\ faults' = faults + 1
Goto(w, label) == work' = [work EXCEPT ![w].pc = label]
Answer(w, reply) ==
  work' = [work EXCEPT ![w].pc = "idle", ![w].reply = reply]

-----------------------------------------------------------------------------
VoteAnySlot(w, u, c, s) ==                          \* mutant: no slot check
  /\ work[w].pc = "idle"
  /\ work' = [work EXCEPT ![w] =
       [pc |-> "userid", user |-> u, contest |-> c, slot |-> s,
        reply |-> "none"]]
  /\ UNCHANGED <<voted, created, score, faults>>

\* The request arrives; an imgslot that names neither entry is refused.
Vote(w, u, c, s) ==
  /\ work[w].pc = "idle"
  /\ work' = [work EXCEPT ![w] =
       IF s \in Slots
       THEN [pc |-> "userid", user |-> u, contest |-> c, slot |-> s,
             reply |-> "none"]
       ELSE Idle("1001")]
  /\ UNCHANGED <<voted, created, score, faults>>

\* getUserID(): the account exists, so 0 comes back only from an exception.
GetUserID(w) ==
  /\ work[w].pc = "userid"
  /\ \/ Goto(w, "insert") /\ UNCHANGED faults
     \/ Fault /\ Answer(w, "1001")
  /\ UNCHANGED <<voted, created, score>>

\* INSERT into voted: every exception, a duplicate key or any other, is
\* taken for a second vote.
InsertVoted(w) ==
  LET row == <<work[w].user, work[w].contest>>
  IN  /\ work[w].pc = "insert"
      /\ \/ /\ InsertAccepted(row)
            /\ voted' = voted \cup {row}
            /\ Goto(w, "update")
            /\ UNCHANGED faults
         \/ /\ ~InsertAccepted(row)
            /\ Goto(w, "catch")
            /\ UNCHANGED <<voted, faults>>
         \/ /\ Fault
            /\ Goto(w, "catch")
            /\ \/ UNCHANGED voted
               \/ InsertAccepted(row) /\ voted' = voted \cup {row}
      /\ UNCHANGED <<created, score>>

\* UPDATE contest: no row for the contest is not an error.
UpdateScore(w) ==
  LET raised == Raised(work[w].contest, work[w].slot)
  IN  /\ work[w].pc = "update"
      /\ \/ score' = raised /\ Goto(w, "select") /\ UNCHANGED faults
         \/ score' \in {score, raised} /\ Goto(w, "catch") /\ Fault
      /\ UNCHANGED <<voted, created>>

SelectScores(w) ==
  /\ work[w].pc = "select"
  /\ \/ Answer(w, ScoresOf(work[w].contest)) /\ UNCHANGED faults
     \/ Fault /\ Goto(w, "catch")
  /\ UNCHANGED <<voted, created, score>>

\* The handler of the exception reads the scores and answers them.
CatchSelect(w) ==
  /\ work[w].pc = "catch"
  /\ \/ Answer(w, ScoresOf(work[w].contest)) /\ UNCHANGED faults
     \/ Fault /\ Answer(w, "1001")
  /\ UNCHANGED <<voted, created, score>>

\* The INSERT of createContest(), the one statement of it vote() can notice.
InsertContest ==
  /\ created < MaxContests
  /\ created' = created + 1
  /\ UNCHANGED <<voted, score, work, faults>>

\* The process dies: what was in flight is gone, the tables survive.
Crash ==
  /\ Fault
  /\ work' = [w \in Workers |-> Idle("none")]
  /\ UNCHANGED <<voted, created, score>>

-----------------------------------------------------------------------------
Init ==
  /\ voted = {}
  /\ created = 0
  /\ score = [c \in Contests |-> [s \in Slots |-> 0]]
  /\ work = [w \in Workers |-> Idle("none")]
  /\ faults = 0
  /\ schema \in {"references", "plain"}

Step(w) ==
  \/ GetUserID(w)
  \/ InsertVoted(w)
  \/ UpdateScore(w)
  \/ SelectScores(w)
  \/ CatchSelect(w)

Steps ==
  \/ \E w \in Workers, u \in Users, c \in Contests, s \in Slots \cup {BadSlot} :
       Vote(w, u, c, s)
  \/ \E w \in Workers : Step(w)
  \/ InsertContest
  \/ Crash

Next == Steps /\ UNCHANGED schema

Spec == Init /\ [][Next]_vars

-----------------------------------------------------------------------------
WorkType == [pc : Labels, user : Users \cup {0}, contest : 0 .. MaxContests,
             slot : Slots \cup {0}, reply : Replies]

WorkOK ==
  /\ work \in [Workers -> WorkType]
  /\ \A w \in Workers : work[w].pc # "idle" =>
       work[w].user \in Users /\ work[w].contest \in Contests /\ work[w].slot \in Slots

\* Every variable keeps its type; past the entry of vote() a worker holds a
\* real user, contest and slot, so no statement is built from a bad one.
TypeOK ==
  /\ voted \subseteq Users \X Contests
  /\ created \in 0 .. MaxContests
  /\ score \in [Contests -> [Slots -> Nat]]
  /\ WorkOK
  /\ faults \in 0 .. MaxFaults
  /\ schema \in {"references", "plain"}

Voters(c) == {u \in Users : <<u, c>> \in voted}
InFlight(c) == {w \in Workers : work[w].pc = "update" /\ work[w].contest = c}
Total(c) == score[c][1] + score[c][2]

\* However the statements of concurrent votes interleave, fail or are cut
\* off by a crash, a contest never has more points than voters, even counting
\* the ballots inserted but not yet added (vote(), srv_db.cpp:1103-1112).
NoOverCount ==
  \A c \in Contests : Total(c) + Cardinality(InFlight(c)) <= Cardinality(Voters(c))

\* When no statement has failed and voted references contest, every ballot is
\* either in the score or in the hands of exactly one worker between its
\* INSERT and its UPDATE: none is lost.
NoBallotLost ==
  ForeignKey /\ faults = 0 =>
    \A c \in Contests : Total(c) + Cardinality(InFlight(c)) = Cardinality(Voters(c))

\* vote() reads any failure of the INSERT as "has voted already"
\* (srv_db.cpp:1114).  As long as no statement failed for another reason the
\* reading is right: whoever is answered with scores has spent the ballot.
ScoresMeanVoted ==
  ~ForeignKey /\ faults = 0 =>
    \A w \in Workers : work[w].pc = "idle" /\ work[w].reply = "scores" =>
      <<work[w].user, work[w].contest>> \in voted

\* Two workers never carry the same ballot to the score, and the ballot they
\* carry is in the table: the unique key admits one of two racing requests.
CarriersDistinct ==
  \A w \in Workers : work[w].pc = "update" =>
    /\ <<work[w].user, work[w].contest>> \in voted
    /\ \A x \in Workers \ {w} : work[x].pc = "update" =>
         <<work[x].user, work[x].contest>> # <<work[w].user, work[w].contest>>

\* vote() implements the ballot box of module BallotBox: a ballot is spent at
\* most once, counted at most once and never brought back.  Pending there are
\* the ballots that some worker carries from its INSERT to its UPDATE.
Carried(w) == <<work[w].user, work[w].contest>>
Pending == {Carried(w) : w \in {x \in Workers : work[x].pc = "update"}}
Box == INSTANCE BallotBox WITH pending <- Pending
BallotBoxSpec == Box!Spec
=============================================================================
