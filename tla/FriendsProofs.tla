---------------------------- MODULE FriendsProofs ----------------------------
(* What a removal leaves, and who comes to ask for a friendship, for any     *)
(* number of users, workers and faults.                                      *)
EXTENDS Friends, WellFoundedInduction, TLAPS

\* A worker on its way to an INSERT or a DELETE is there for that operation
\* and has looked up the ids.  Between its two DELETEs, what is there of the
\* first row is new, and after them all that is there of both.
WorkerOK(w) ==
  LET r == work[w]
  IN  /\ r.pc # "idle" => r.op # "none" /\ r.user # Nobody
      /\ r.pc = "insert" => r.op = "add" /\ r.friend # Nobody
      /\ r.pc \in {"delete1", "delete2"} => r.op = "remove"
      /\ r.pc = "delete2" /\ RowOf(r, 1) \in friends => RowOf(r, 1) \in fresh[w]
      /\ r.pc = "idle" /\ r.op = "remove" /\ r.reply = "1000" =>
           friends \cap Pair(r) \subseteq fresh[w]

IInv == TypeOK /\ \A w \in Workers : WorkerOK(w)

Replies == {"none", "list", "1000", "1003", "1013"}

LEMMA FaultOK == ASSUME TypeOK, Fault PROVE faults' \in 0 .. MaxFaults
BY FriendsAssumption DEF TypeOK, Fault

LEMMA PairRows == ASSUME NEW r PROVE Pair(r) = {RowOf(r, 1), RowOf(r, 2)}
BY DEF Pair, RowOf

-----------------------------------------------------------------------------
\* What a step makes of its worker; the others are left alone.
LEMMA ReplaceOK ==
  ASSUME TypeOK, NEW w \in Workers, NEW r \in WorkType, work' = [work EXCEPT ![w] = r]
  PROVE  /\ work' \in [Workers -> WorkType] /\ work'[w] = r
         /\ \A x \in Workers \ {w} : work'[x] = work[x]
BY DEF TypeOK

LEMMA GotoOK ==
  ASSUME TypeOK, NEW w \in Workers, NEW label \in Labels, Goto(w, label)
  PROVE  /\ work' \in [Workers -> WorkType]
         /\ work'[w].pc = label /\ work'[w].op = work[w].op
         /\ work'[w].user = work[w].user /\ work'[w].friend = work[w].friend
         /\ \A x \in Workers \ {w} : work'[x] = work[x]
<1> DEFINE r == [work[w] EXCEPT !.pc = label]
<1>1. work' = [work EXCEPT ![w] = r]
  BY DEF Goto, TypeOK
<1>2. work[w] \in WorkType
  BY DEF TypeOK
<1>3. r \in WorkType /\ r.pc = label /\ r.op = work[w].op
      /\ r.user = work[w].user /\ r.friend = work[w].friend
  BY <1>2 DEF WorkType
<1> HIDE DEF r
<1> QED BY <1>1, <1>3, ReplaceOK

LEMMA AnswerOK ==
  ASSUME TypeOK, NEW w \in Workers, NEW reply \in Replies, Answer(w, reply)
  PROVE  /\ work' \in [Workers -> WorkType]
         /\ work'[w].pc = "idle" /\ work'[w].op = work[w].op
         /\ work'[w].user = work[w].user /\ work'[w].friend = work[w].friend
         /\ work'[w].reply = reply
         /\ \A x \in Workers \ {w} : work'[x] = work[x]
<1> DEFINE r == [work[w] EXCEPT !.pc = "idle", !.reply = reply]
<1>1. work' = [work EXCEPT ![w] = r]
  BY DEF Answer, TypeOK
<1>2. work[w] \in WorkType
  BY DEF TypeOK
<1>3. r \in WorkType /\ r.pc = "idle" /\ r.op = work[w].op
      /\ r.user = work[w].user /\ r.friend = work[w].friend /\ r.reply = reply
  BY <1>2 DEF WorkType, Replies, Labels
<1> HIDE DEF r
<1> QED BY <1>1, <1>3, ReplaceOK

\* A step that adds no row has only its own worker to account for.
LEMMA OneWorker ==
  ASSUME IInv, NEW w \in Workers, WorkerOK(w)',
         work' \in [Workers -> WorkType],
         \A x \in Workers \ {w} : work'[x] = work[x] /\ fresh'[x] = fresh[x],
         fresh' \in [Workers -> SUBSET (Users \X Users)],
         friends' \subseteq friends, faults' \in 0 .. MaxFaults
  PROVE  IInv'
<1>1. TypeOK'
  BY DEF IInv, TypeOK
<1>2. ASSUME NEW x \in Workers \ {w} PROVE WorkerOK(x)'
  BY <1>2 DEF IInv, WorkerOK
<1> QED BY <1>1, <1>2 DEF IInv

\* A failure, or an answer that claims no removal.
LEMMA QuietAnswer ==
  ASSUME IInv, NEW w \in Workers, NEW reply \in Replies \ {"1000"}, Answer(w, reply),
         friends' \subseteq friends, UNCHANGED fresh, faults' \in 0 .. MaxFaults
  PROVE  IInv'
<1>1. WorkerOK(w)'
  BY AnswerOK DEF WorkerOK, IInv
<1> QED BY <1>1, AnswerOK, OneWorker DEF IInv, TypeOK

\* An INSERT: a removal of that row that is under way takes note of it.
LEMMA InsertOK ==
  ASSUME IInv, NEW w \in Workers, NEW row \in Users \X Users, Insert(row),
         NEW reply \in Replies, Answer(w, reply), work[w].op = "add",
         faults' \in 0 .. MaxFaults
  PROVE  IInv'
<1>1. friends' = friends \cup {row}
  BY DEF Insert
<1>2. \A x \in Workers : /\ fresh[x] \subseteq fresh'[x]
                         /\ fresh'[x] \subseteq fresh[x] \cup {row}
                         /\ work[x].op = "remove" /\ row \in Pair(work[x]) => row \in fresh'[x]
  BY DEF Insert, IInv, TypeOK
<1>3. TypeOK'
  <2>1. fresh' \in [Workers -> SUBSET (Users \X Users)]
    <3>1. \A x \in Workers : fresh'[x] \in SUBSET (Users \X Users)
      BY <1>2 DEF IInv, TypeOK
    <3>2. fresh' = [x \in Workers |-> fresh'[x]]
      BY DEF Insert
    <3> QED BY <3>1, <3>2
  <2> QED BY <1>1, <2>1, AnswerOK DEF IInv, TypeOK
<1>4. ASSUME NEW x \in Workers PROVE WorkerOK(x)'
  <2>1. CASE x = w
    BY <2>1, AnswerOK DEF IInv, WorkerOK
  <2>2. CASE x # w
    <3>1. work'[x] = work[x] /\ WorkerOK(x)
      BY <2>2, AnswerOK DEF IInv
    <3>2. RowOf(work[x], 1) \in Pair(work[x])
      BY PairRows
    <3> QED BY <1>1, <1>2, <3>1, <3>2 DEF WorkerOK
  <2> QED BY <2>1, <2>2
<1> QED BY <1>3, <1>4 DEF IInv

-----------------------------------------------------------------------------
LEMMA RequestStep ==
  ASSUME IInv, NEW w \in Workers, NEW op \in {"add", "remove", "friends", "requests"},
         NEW u \in Users, NEW v \in Users \cup {Nobody}, Request(w, op, u, v)
  PROVE  IInv'
<1> DEFINE r == [Idle EXCEPT !.pc = "userid", !.op = op, !.user = u, !.friend = v]
<1>1. r \in WorkType /\ r.pc = "userid" /\ r.op # "none" /\ r.user # Nobody
  BY FriendsAssumption DEF WorkType, Idle, Labels, Nobody
<1>2. work' = [work EXCEPT ![w] = r] /\ fresh' = [fresh EXCEPT ![w] = {}]
      /\ UNCHANGED <<friends, faults>>
  BY DEF Request
<1> HIDE DEF r
<1>3. /\ work'[w] = r /\ work' \in [Workers -> WorkType]
      /\ \A x \in Workers \ {w} : work'[x] = work[x]
  BY <1>1, <1>2, ReplaceOK DEF IInv
<1>4. /\ fresh' \in [Workers -> SUBSET (Users \X Users)]
      /\ \A x \in Workers \ {w} : fresh'[x] = fresh[x]
  BY <1>2 DEF IInv, TypeOK
<1>5. WorkerOK(w)'
  BY <1>1, <1>3 DEF WorkerOK
<1> QED BY <1>2, <1>3, <1>4, <1>5, OneWorker DEF IInv, TypeOK

LEMMA RefuseStep ==
  ASSUME IInv, NEW w \in Workers, Refuse(w)
  PROVE  IInv'
<1> DEFINE r == [Idle EXCEPT !.reply = "1013"]
<1>1. r \in WorkType /\ r.pc = "idle" /\ r.op = "none"
  BY DEF WorkType, Idle, Labels
<1>2. work' = [work EXCEPT ![w] = r] /\ UNCHANGED <<friends, fresh, faults>>
  BY DEF Refuse
<1> HIDE DEF r
<1>3. /\ work'[w] = r /\ work' \in [Workers -> WorkType]
      /\ \A x \in Workers \ {w} : work'[x] = work[x]
  BY <1>1, <1>2, ReplaceOK DEF IInv
<1>4. WorkerOK(w)'
  BY <1>1, <1>3 DEF WorkerOK
<1> QED BY <1>2, <1>3, <1>4, OneWorker DEF IInv, TypeOK

LEMMA GetUserIDStep ==
  ASSUME IInv, NEW w \in Workers, GetUserID(w)
  PROVE  IInv'
<1>1. work[w].pc = "userid" /\ UNCHANGED <<friends, fresh>>
  BY DEF GetUserID
<1>2. CASE Answer(w, "1013") /\ (UNCHANGED faults \/ Fault)
  BY <1>1, <1>2, QuietAnswer, FaultOK DEF IInv, TypeOK, Replies
<1>3. CASE Found(work[w].friend) /\ Goto(w, FirstStep[work[w].op]) /\ UNCHANGED faults
  <2>1. /\ work[w].op \in {"add", "remove", "friends", "requests"}
        /\ work[w].user # Nobody /\ work[w].friend # Nobody
    BY <1>1, <1>3 DEF IInv, TypeOK, WorkType, WorkerOK, Found
  <2> DEFINE label == FirstStep[work[w].op]
  <2>2. /\ label \in {"insert", "delete1", "select"}
        /\ label = "insert" => work[w].op = "add"
        /\ label = "delete1" => work[w].op = "remove"
    BY <2>1 DEF FirstStep
  <2> HIDE DEF label
  <2>3. label \in Labels
    BY <2>2 DEF Labels
  <2>4. /\ work' \in [Workers -> WorkType]
        /\ work'[w].pc = label /\ work'[w].op = work[w].op
        /\ work'[w].user = work[w].user /\ work'[w].friend = work[w].friend
        /\ \A x \in Workers \ {w} : work'[x] = work[x]
    BY <1>3, <2>3, GotoOK DEF IInv, label
  <2>5. WorkerOK(w)'
    BY <2>1, <2>2, <2>4 DEF WorkerOK
  <2> QED BY <1>1, <1>3, <2>4, <2>5, OneWorker DEF IInv, TypeOK
<1> QED BY <1>2, <1>3 DEF GetUserID

LEMMA AddFriendStep ==
  ASSUME IInv, NEW w \in Workers, AddFriend(w)
  PROVE  IInv'
<1> DEFINE row == <<work[w].user, work[w].friend>>
<1>1. work[w].pc = "insert" /\ work[w].op = "add"
  BY DEF AddFriend, IInv, WorkerOK
<1>2. row \in Users \X Users
  <2>1. work[w].user # Nobody /\ work[w].friend # Nobody
    BY <1>1 DEF IInv, WorkerOK
  <2> QED BY <2>1 DEF IInv, TypeOK, WorkType
<1>3. \/ Insert(row) /\ Answer(w, "1000") /\ UNCHANGED faults
      \/ Answer(w, "1003") /\ UNCHANGED <<friends, fresh, faults>>
      \/ Fault /\ Answer(w, "1003") /\ (Insert(row) \/ UNCHANGED <<friends, fresh>>)
  BY DEF AddFriend
<1> HIDE DEF row
<1>4. "1000" \in Replies /\ "1003" \in Replies \ {"1000"}
  BY DEF Replies
<1>5. faults' \in 0 .. MaxFaults
  BY <1>3, FaultOK DEF IInv, TypeOK
<1>6. CASE Insert(row) /\ (Answer(w, "1000") \/ Answer(w, "1003"))
  BY <1>1, <1>2, <1>4, <1>5, <1>6, InsertOK
<1>7. CASE Answer(w, "1003") /\ UNCHANGED <<friends, fresh>>
  BY <1>4, <1>5, <1>7, QuietAnswer
<1> QED BY <1>3, <1>6, <1>7

LEMMA RemoveFirstStep ==
  ASSUME IInv, NEW w \in Workers, RemoveFirst(w)
  PROVE  IInv'
<1> DEFINE rest == friends \ {RowOf(work[w], 1)}
<1>1. work[w].pc = "delete1" /\ UNCHANGED fresh
  BY DEF RemoveFirst
<1>2. CASE friends' = rest /\ Goto(w, "delete2") /\ UNCHANGED faults
  <2>1. /\ work' \in [Workers -> WorkType]
        /\ work'[w].pc = "delete2" /\ work'[w].op = work[w].op
        /\ work'[w].user = work[w].user /\ work'[w].friend = work[w].friend
        /\ \A x \in Workers \ {w} : work'[x] = work[x]
    BY <1>2, GotoOK DEF IInv, Labels
  <2>2. RowOf(work'[w], 1) = RowOf(work[w], 1)
    BY <2>1 DEF RowOf
  <2>3. WorkerOK(w)'
    BY <1>1, <1>2, <2>1, <2>2 DEF IInv, WorkerOK
  <2> QED BY <1>1, <1>2, <2>1, <2>3, OneWorker DEF IInv, TypeOK
<1>3. CASE friends' \in {friends, rest} /\ Answer(w, "1003") /\ Fault
  BY <1>1, <1>3, QuietAnswer, FaultOK DEF IInv, Replies
<1> QED BY <1>2, <1>3 DEF RemoveFirst

LEMMA RemoveSecondStep ==
  ASSUME IInv, NEW w \in Workers, RemoveSecond(w)
  PROVE  IInv'
<1> DEFINE rest == friends \ {RowOf(work[w], 2)}
<1>1. work[w].pc = "delete2" /\ UNCHANGED fresh
  BY DEF RemoveSecond
<1>2. CASE friends' = rest /\ Answer(w, "1000") /\ UNCHANGED faults
  <2>1. /\ work' \in [Workers -> WorkType]
        /\ work'[w].pc = "idle" /\ work'[w].op = work[w].op
        /\ work'[w].user = work[w].user /\ work'[w].friend = work[w].friend
        /\ \A x \in Workers \ {w} : work'[x] = work[x]
    BY <1>2, AnswerOK DEF IInv, Replies
  <2>2. Pair(work'[w]) = {RowOf(work[w], 1), RowOf(work[w], 2)}
    BY <2>1, PairRows DEF RowOf
  <2>3. RowOf(work[w], 1) \in friends => RowOf(work[w], 1) \in fresh[w]
    BY <1>1 DEF IInv, WorkerOK
  <2>4. friends' \cap Pair(work'[w]) \subseteq fresh'[w]
    BY <1>1, <1>2, <2>2, <2>3
  <2>5. WorkerOK(w)'
    BY <2>1, <2>4 DEF WorkerOK
  <2> QED BY <1>1, <1>2, <2>1, <2>5, OneWorker DEF IInv, TypeOK
<1>3. CASE friends' \in {friends, rest} /\ Answer(w, "1003") /\ Fault
  BY <1>1, <1>3, QuietAnswer, FaultOK DEF IInv, Replies
<1> QED BY <1>2, <1>3 DEF RemoveSecond

LEMMA SelectStep ==
  ASSUME IInv, NEW w \in Workers, Select(w)
  PROVE  IInv'
<1> DEFINE found == IF work[w].op = "friends" THEN FriendsOf(work[w].user)
                    ELSE RequestsTo(work[w].user)
           r == [work[w] EXCEPT !.pc = "names", !.rows = found]
<1>1. work[w].pc = "select" /\ UNCHANGED <<friends, fresh>> /\ work[w] \in WorkType
  BY DEF Select, IInv, TypeOK
<1>2. CASE Fault /\ Answer(w, "1003")
  BY <1>1, <1>2, QuietAnswer, FaultOK DEF IInv, Replies
<1>3. CASE work' = [work EXCEPT ![w] = r] /\ UNCHANGED faults
  <2>1. found \subseteq Users
    BY DEF FriendsOf, RequestsTo
  <2> HIDE DEF found
  <2>2. r \in WorkType /\ r.pc = "names" /\ r.op = work[w].op /\ r.user = work[w].user
    BY <1>1, <2>1 DEF WorkType, Labels
  <2> HIDE DEF r
  <2>3. /\ work'[w] = r /\ work' \in [Workers -> WorkType]
        /\ \A x \in Workers \ {w} : work'[x] = work[x]
    BY <1>3, <2>2, ReplaceOK DEF IInv
  <2>4. WorkerOK(w)'
    BY <1>1, <2>2, <2>3 DEF IInv, WorkerOK
  <2> QED BY <1>1, <1>3, <2>3, <2>4, OneWorker DEF IInv, TypeOK
<1> QED BY <1>1, <1>2, <1>3 DEF Select, IInv, TypeOK

\* A set of ids has a smallest one, by the order on the naturals.
LEMMA SmallestOK ==
  ASSUME NEW S \in SUBSET Nat, S # {}
  PROVE  (CHOOSE x \in S : \A y \in S : x <= y) \in S
<1> DEFINE R == {p \in Nat \X Nat : p[1] < p[2]}
<1>1. IsWellFoundedOn(R, Nat)
  BY NatLessThanWellFounded, Zenon DEF OpToRel
<1>2. PICK s \in S : \A m \in S : ~ (<<m, s>> \in R)
  <2> HIDE DEF R
  <2> QED BY <1>1, WFMin
<1>3. \A m \in S : s <= m
  <2>1. \A m \in S : ~ (m < s)
    BY <1>2
  <2> QED BY <2>1
<1> QED BY <1>3

LEMMA NameStep ==
  ASSUME IInv, NEW w \in Workers, Name(w)
  PROVE  IInv'
<1> DEFINE v == CHOOSE x \in work[w].rows : \A y \in work[w].rows : x <= y
           kept == IF work[w].op = "friends" THEN work[w].names ELSE {}
           Shown(id) == [work[w] EXCEPT !.rows = work[w].rows \ {v}, !.names = kept \cup {id}]
<1>1. /\ work[w].pc = "names" /\ work[w].rows # {} /\ work[w] \in WorkType
      /\ UNCHANGED <<friends, fresh>>
  BY DEF Name, IInv, TypeOK
<1>2. v \in Users
  <2>1. work[w].rows \in SUBSET Nat /\ work[w].rows \subseteq Users
    BY <1>1, FriendsAssumption DEF WorkType
  <2>2. v \in work[w].rows
    BY <1>1, <2>1, SmallestOK
  <2> QED BY <2>1, <2>2
<1>3. kept \subseteq Users \cup {Nobody}
  BY <1>1 DEF WorkType
<1>4. /\ \E id \in {v, Nobody} : work' = [work EXCEPT ![w] = Shown(id)]
      /\ UNCHANGED faults \/ Fault
  BY DEF Name, IInv, TypeOK
<1> HIDE DEF v, kept
<1>5. PICK id \in Users \cup {Nobody} : work' = [work EXCEPT ![w] = Shown(id)]
  BY <1>2, <1>4
<1>6. /\ Shown(id) \in WorkType /\ Shown(id).pc = work[w].pc /\ Shown(id).op = work[w].op
      /\ Shown(id).user = work[w].user
  BY <1>1, <1>3, <1>5 DEF WorkType
<1> HIDE DEF Shown
<1>7. /\ work'[w] = Shown(id) /\ work' \in [Workers -> WorkType]
      /\ \A x \in Workers \ {w} : work'[x] = work[x]
  BY <1>5, <1>6, ReplaceOK DEF IInv
<1>8. WorkerOK(w)'
  BY <1>1, <1>6, <1>7 DEF IInv, WorkerOK
<1> QED BY <1>1, <1>4, <1>7, <1>8, OneWorker, FaultOK DEF IInv, TypeOK

LEMMA ListedStep ==
  ASSUME IInv, NEW w \in Workers, Listed(w)
  PROVE  IInv'
BY QuietAnswer DEF Listed, IInv, TypeOK, Replies

LEMMA CrashStep ==
  ASSUME IInv, Crash
  PROVE  IInv'
<1>1. /\ UNCHANGED friends /\ Fault
      /\ work' = [w \in Workers |-> Idle]
      /\ fresh' = [w \in Workers |-> {}]
  BY DEF Crash
<1>2. Idle \in WorkType /\ Idle.pc = "idle" /\ Idle.op = "none"
  BY DEF Idle, WorkType, Labels
<1>3. TypeOK'
  BY <1>1, <1>2, FaultOK DEF IInv, TypeOK
<1>4. \A w \in Workers : WorkerOK(w)'
  BY <1>1, <1>2 DEF WorkerOK
<1> QED BY <1>3, <1>4 DEF IInv

-----------------------------------------------------------------------------
LEMMA InitIInv == Init => IInv
<1> SUFFICES ASSUME Init PROVE IInv
  OBVIOUS
<1>1. Idle \in WorkType /\ Idle.pc = "idle" /\ Idle.op = "none"
  BY DEF Idle, WorkType, Labels
<1>2. TypeOK
  BY <1>1, FriendsAssumption DEF Init, TypeOK
<1>3. \A w \in Workers : WorkerOK(w)
  BY <1>1 DEF Init, WorkerOK
<1> QED BY <1>2, <1>3 DEF IInv

LEMMA InvStep == ASSUME IInv, [Next]_vars PROVE IInv'
<1>1. CASE \E w \in Workers, op \in {"add", "remove"}, u \in Users, v \in Users \cup {Nobody} :
             Request(w, op, u, v)
  BY <1>1, RequestStep
<1>2. CASE \E w \in Workers, op \in {"friends", "requests"}, u \in Users : Request(w, op, u, u)
  BY <1>2, RequestStep
<1>3. CASE \E w \in Workers : Refuse(w) \/ Step(w)
  BY <1>3, RefuseStep, GetUserIDStep, AddFriendStep, RemoveFirstStep, RemoveSecondStep,
     SelectStep, NameStep, ListedStep DEF Step
<1>4. CASE Crash
  BY <1>4, CrashStep
<1>5. CASE UNCHANGED vars
  BY <1>5 DEF vars, IInv, TypeOK, WorkerOK
<1> QED BY <1>1, <1>2, <1>3, <1>4, <1>5 DEF Next

LEMMA Invariant == Spec => []IInv
BY InitIInv, InvStep, PTL DEF Spec

\* The variables of Friends keep their types.
THEOREM TypeCorrect == Spec => []TypeOK
<1>1. IInv => TypeOK
  BY DEF IInv
<1> QED BY <1>1, Invariant, PTL

\* A removal that was answered with success has left nothing of the
\* friendship but what was asked for since it began (srv_db.cpp:1007-1021).
THEOREM RemovalTakesBoth == Spec => []RemoveTakesBoth
<1>1. IInv => RemoveTakesBoth
  BY DEF IInv, WorkerOK, RemoveTakesBoth
<1> QED BY <1>1, Invariant, PTL

-----------------------------------------------------------------------------
\* The steps that change the table: the INSERT of addFriend() and the two
\* DELETEs of removeFriend().
LEMMA TableSteps ==
  ASSUME [Next]_vars
  PROVE  \/ friends' = friends
         \/ \E w \in Workers :
              \/ work[w].pc = "insert" /\ friends' = friends \cup {<<work[w].user, work[w].friend>>}
              \/ work[w].pc = "delete1" /\ friends' = friends \ {RowOf(work[w], 1)}
              \/ work[w].pc = "delete2" /\ friends' = friends \ {RowOf(work[w], 2)}
<1>1. ASSUME NEW w \in Workers, AddFriend(w)
      PROVE  \/ friends' = friends
             \/ work[w].pc = "insert" /\ friends' = friends \cup {<<work[w].user, work[w].friend>>}
  BY <1>1 DEF AddFriend, Insert
<1>2. ASSUME NEW w \in Workers, RemoveFirst(w)
      PROVE  \/ friends' = friends
             \/ work[w].pc = "delete1" /\ friends' = friends \ {RowOf(work[w], 1)}
  BY <1>2 DEF RemoveFirst
<1>3. ASSUME NEW w \in Workers, RemoveSecond(w)
      PROVE  \/ friends' = friends
             \/ work[w].pc = "delete2" /\ friends' = friends \ {RowOf(work[w], 2)}
  BY <1>3 DEF RemoveSecond
<1> QED BY <1>1, <1>2, <1>3 DEF Next, Step, Request, Refuse, GetUserID, Select, Name, Listed, Crash, vars

\* Nobody comes to ask for a friendship but by a step of his own, or by a
\* removal of the other (srv_db.cpp:955-974 and 1003-1024).
THEOREM RequestsWanted == Spec => RequestIsWanted
<1>1. ASSUME IInv, [Next]_vars, NEW u \in Users, NEW v \in Users, ~Asks(u, v), Asks(u, v)'
      PROVE  Wanted(u, v)
  <2> DEFINE asks == <<u, v>>
             answers == <<v, u>>
  <2>1. /\ asks \in friends' /\ answers \notin friends'
        /\ asks \in friends => answers \in friends
    BY <1>1 DEF Asks
  <2>2. PICK w \in Workers :
          \/ work[w].pc = "insert" /\ friends' = friends \cup {<<work[w].user, work[w].friend>>}
          \/ work[w].pc = "delete1" /\ friends' = friends \ {RowOf(work[w], 1)}
          \/ work[w].pc = "delete2" /\ friends' = friends \ {RowOf(work[w], 2)}
    BY <1>1, <2>1, TableSteps
  <2>3. WorkerOK(w)
    BY <1>1 DEF IInv
  <2>4. CASE work[w].pc = "insert" /\ friends' = friends \cup {<<work[w].user, work[w].friend>>}
    <3>1. asks = <<work[w].user, work[w].friend>>
      BY <2>1, <2>4
    <3> QED BY <2>3, <2>4, <3>1 DEF WorkerOK, Wanted
  <2>5. CASE work[w].pc = "delete1" /\ friends' = friends \ {RowOf(work[w], 1)}
    <3>1. answers = <<work[w].user, work[w].friend>>
      BY <2>1, <2>5 DEF RowOf
    <3> QED BY <2>3, <2>5, <3>1 DEF WorkerOK, Wanted
  <2>6. CASE work[w].pc = "delete2" /\ friends' = friends \ {RowOf(work[w], 2)}
    <3>1. answers = <<work[w].friend, work[w].user>>
      BY <2>1, <2>6 DEF RowOf
    <3>2. asks = RowOf(work[w], 1) /\ asks \in friends
      BY <2>1, <2>6, <3>1 DEF RowOf
    <3> QED BY <2>3, <2>6, <3>1, <3>2 DEF WorkerOK, Wanted
  <2> QED BY <2>2, <2>4, <2>5, <2>6
<1>2. ASSUME IInv, [Next]_vars
      PROVE  [\A u, v \in Users : ~Asks(u, v) /\ Asks(u, v)' => Wanted(u, v)]_vars
  BY <1>1, <1>2
<1> QED BY <1>2, Invariant, PTL DEF Spec, RequestIsWanted
=============================================================================
