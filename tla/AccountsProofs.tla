--------------------------- MODULE AccountsProofs ---------------------------
(***************************************************************************)
(* Proofs about Accounts, for any set of names, any collation and any      *)
(* number of workers, accounts and failures.                               *)
(***************************************************************************)
EXTENDS Accounts, WellFoundedInduction, TLAPS

\* What a step does to the table: nothing, or one more row.
Inserted(n, p, e) ==
  /\ n \in Names /\ p \in Passwords /\ e \in Emails
  /\ ~NameKeyViolated(n)
  /\ users' = Append(users, NewUser(n, p, e))

LEMMA TableSteps ==
  ASSUME TypeOK, [Next]_vars
  PROVE  \/ UNCHANGED users
         \/ \E n \in Names, p \in Passwords, e \in Emails : Inserted(n, p, e)
<1>1. CASE \E w \in Workers : InsertUser(w)
  <2>1. PICK w \in Workers : InsertUser(w)
    BY <1>1
  <2>2. /\ work[w].name \in Names /\ work[w].pw \in Passwords
        /\ work[w].email \in Emails
    BY <2>1 DEF InsertUser, TypeOK, WorkOK
  <2>3. \/ UNCHANGED users
        \/ /\ KeyError(work[w].name, work[w].email) = {}
           /\ users' = Append(users, NewUser(work[w].name, work[w].pw, work[w].email))
    BY <2>1, Zenon DEF InsertUser
  <2>4. KeyError(work[w].name, work[w].email) = {} => ~NameKeyViolated(work[w].name)
    BY DEF KeyError
  <2> QED
    BY <2>2, <2>3, <2>4 DEF Inserted
<1>2. CASE ~ \E w \in Workers : InsertUser(w)
  BY <1>2 DEF Next, Step, CreateUser, Authenticate, Refuse, FindName,
     CheckPassword, GetUserID, Crash, vars
<1> QED
  BY <1>1, <1>2

\* The rows stay, and a new one is added at the end.
LEMMA RowsKept ==
  ASSUME TypeOK, [Next]_vars
  PROVE  /\ users' \in Seq(Row) /\ Len(users) \in Nat /\ Len(users') \in Nat
         /\ Len(users) <= Len(users')
         /\ \A i \in 1 .. Len(users) : users'[i] = users[i]
<1>1. users \in Seq(Row) /\ Len(users) \in Nat
  BY DEF TypeOK
<1>2. ASSUME NEW n \in Names, NEW p \in Passwords, NEW e \in Emails, Inserted(n, p, e)
      PROVE  /\ users' \in Seq(Row) /\ Len(users') = Len(users) + 1
             /\ \A i \in 1 .. Len(users) : users'[i] = users[i]
  <2>1. NewUser(n, p, e) \in Row
    BY DEF NewUser, Row
  <2> QED
    BY <1>1, <1>2, <2>1 DEF Inserted
<1> QED
  BY <1>1, <1>2, TableSteps

-----------------------------------------------------------------------------
\* The last of the rows a query by name matches is one of them.
LEMMA LastMatchOK ==
  ASSUME Len(users) \in Nat, NEW n, Matching(n) # {}
  PROVE  /\ LastMatch(n) \in Matching(n)
         /\ \A j \in Matching(n) : j <= LastMatch(n)
<1> DEFINE L == Len(users)
           S == {L - i : i \in Matching(n)}
<1>1. Matching(n) \subseteq 1 .. L
  BY DEF Matching
<1>2. S \in SUBSET Nat /\ S # {}
  BY <1>1
<1>3. PICK s \in S : \A m \in S : s <= m
  <2> DEFINE R == {p \in Nat \X Nat : p[1] < p[2]}
  <2>1. IsWellFoundedOn(R, Nat)
    BY NatLessThanWellFounded, Zenon DEF OpToRel
  <2> HIDE DEF S
  <2>2. PICK s \in S : \A m \in S : ~ (<<m, s>> \in R)
    <3> HIDE DEF R
    <3> QED
      BY <1>2, <2>1, WFMin
  <2>3. \A m \in S : m < s => <<m, s>> \in R
    BY <1>2
  <2>4. \A m \in S : ~ (m < s)
    BY <2>2, <2>3
  <2>5. s \in Nat /\ \A m \in S : m \in Nat
    BY <1>2
  <2>6. \A m \in S : s <= m
    BY <2>4, <2>5
  <2> QED
    BY <2>6
<1>4. PICK i \in Matching(n) : s = L - i
  BY <1>3
<1>5. \A j \in Matching(n) : j <= i
  <2> SUFFICES ASSUME NEW j \in Matching(n) PROVE j <= i
    OBVIOUS
  <2>1. L - j \in S
    OBVIOUS
  <2>2. L - i <= L - j
    BY <1>3, <1>4, <2>1
  <2> QED
    BY <1>1, <2>2
<1> QED
  BY <1>4, <1>5, Zenon DEF LastMatch

LEMMA UserIdOK ==
  ASSUME Len(users) \in Nat, NEW n
  PROVE  /\ UserId(n) \in Nat
         /\ UserId(n) # 0 => UserId(n) \in Matching(n)
<1>1. CASE Matching(n) = {}
  BY <1>1 DEF UserId
<1>2. CASE Matching(n) # {}
  BY <1>2, LastMatchOK DEF UserId, Matching
<1> QED
  BY <1>1, <1>2

-----------------------------------------------------------------------------
\* What a worker may be executing, and that a step of one worker changes
\* nothing of the others.
WorkerOK(r) ==
  /\ r \in WorkType
  /\ r.pc # "idle" => r.name \in Names /\ r.pw \in Passwords
  /\ r.pc \in {"find", "insert"} => r.email \in Emails

LEMMA OneWorker ==
  ASSUME WorkOK, NEW w \in Workers, NEW r, WorkerOK(r), work' = [work EXCEPT ![w] = r]
  PROVE  WorkOK'
BY DEF WorkOK, WorkerOK

LEMMA IdleOK == ASSUME NEW r \in Replies PROVE WorkerOK(Idle(r))
BY DEF WorkerOK, WorkType, Idle, Labels

LEMMA AnswerOK ==
  ASSUME WorkOK, NEW w \in Workers, NEW r \in Replies, Answer(w, r)
  PROVE  WorkOK'
<1> DEFINE next == [work[w] EXCEPT !.pc = "idle", !.reply = r]
<1>1. work[w] \in WorkType /\ work \in [Workers -> WorkType]
  BY DEF WorkOK
<1>2. WorkerOK(next)
  BY <1>1 DEF WorkerOK, WorkType, Labels
<1>3. work' = [work EXCEPT ![w] = next]
  BY <1>1 DEF Answer
<1> HIDE DEF next
<1> QED
  BY <1>2, <1>3, OneWorker

LEMMA GotoOK ==
  ASSUME WorkOK, NEW w \in Workers, NEW l \in Labels, Goto(w, l),
         work[w].pc # "idle", l = "insert" => work[w].pc = "find", l # "find"
  PROVE  WorkOK'
<1> DEFINE next == [work[w] EXCEPT !.pc = l]
<1>1. work[w] \in WorkType /\ work \in [Workers -> WorkType]
  BY DEF WorkOK
<1>2. WorkerOK(next)
  BY <1>1 DEF WorkOK, WorkerOK, WorkType
<1>3. work' = [work EXCEPT ![w] = next]
  BY <1>1 DEF Goto
<1> HIDE DEF next
<1> QED
  BY <1>2, <1>3, OneWorker

LEMMA WorkersCorrect ==
  ASSUME TypeOK, [Next]_vars
  PROVE  WorkOK'
<1>0. WorkOK /\ Len(users) \in Nat
  BY DEF TypeOK
<1>1. ASSUME NEW w \in Workers, NEW n \in Names, NEW p \in Passwords, NEW e \in Emails,
             CreateUser(w, n, p, e)
      PROVE  WorkOK'
  <2> DEFINE next == [Idle("none") EXCEPT !.pc = "find", !.name = n, !.pw = p, !.email = e]
  <2>1. WorkerOK(next)
    BY DEF WorkerOK, WorkType, Idle, Labels, Replies
  <2>2. work' = [work EXCEPT ![w] = next]
    BY <1>1 DEF CreateUser
  <2> HIDE DEF next
  <2> QED
    BY <1>0, <2>1, <2>2, OneWorker
<1>2. ASSUME NEW w \in Workers, NEW n \in Names, NEW p \in Passwords, Authenticate(w, n, p)
      PROVE  WorkOK'
  <2> DEFINE next == [Idle("none") EXCEPT !.pc = "password", !.name = n, !.pw = p]
  <2>1. WorkerOK(next)
    BY DEF WorkerOK, WorkType, Idle, Labels, Replies
  <2>2. work' = [work EXCEPT ![w] = next]
    BY <1>2 DEF Authenticate
  <2> HIDE DEF next
  <2> QED
    BY <1>0, <2>1, <2>2, OneWorker
<1>3. ASSUME NEW w \in Workers, Refuse(w) \/ Step(w)
      PROVE  WorkOK'
  <2>1. CASE Refuse(w)
    <3>1. "1013" \in Replies
      BY DEF Replies
    <3> QED
      BY <1>0, <2>1, <3>1, IdleOK, OneWorker DEF Refuse
  <2>2. CASE \E r \in Replies : Answer(w, r)
    BY <1>0, <2>2, AnswerOK
  <2>3. CASE FindName(w)
    <3>1. CASE Goto(w, "insert")
      BY <1>0, <2>3, <3>1, GotoOK DEF FindName, Labels
    <3> QED
      BY <2>2, <2>3, <3>1 DEF FindName, Replies
  <2>4. CASE InsertUser(w)
    <3>1. \E r \in Replies : Answer(w, r)
      BY <2>4 DEF InsertUser, KeyError, Replies
    <3> QED
      BY <2>2, <3>1
  <2>5. CASE CheckPassword(w)
    <3> DEFINE row == UserId(work[w].name)
               next == [work[w] EXCEPT !.pc = "userid", !.row = row]
    <3>1. CASE work' = [work EXCEPT ![w].pc = "userid", ![w].row = row]
      <4>1. work[w] \in WorkType /\ work \in [Workers -> WorkType]
        BY <1>0 DEF WorkOK
      <4>2. row \in Nat
        BY <1>0, UserIdOK
      <4>3. work[w].name \in Names /\ work[w].pw \in Passwords
        BY <1>0, <2>5 DEF CheckPassword, WorkOK
      <4> HIDE DEF row
      <4>4. WorkerOK(next)
        BY <4>1, <4>2, <4>3 DEF WorkerOK, WorkType, Labels
      <4>5. work' = [work EXCEPT ![w] = next]
        BY <3>1, <4>1
      <4> HIDE DEF next
      <4> QED
        BY <1>0, <4>4, <4>5, OneWorker
    <3>2. CASE Answer(w, "1009") \/ Answer(w, "1010")
      BY <2>2, <3>2 DEF Replies
    <3> QED
      BY <2>5, <3>1, <3>2, Zenon DEF CheckPassword
  <2>6. CASE GetUserID(w)
    <3> DEFINE id == UserId(work[w].name)
               next == [work[w] EXCEPT !.pc = "idle", !.reply = "acted", !.id = id]
    <3>1. CASE Answer(w, "1013")
      BY <2>2, <3>1 DEF Replies
    <3>2. CASE work' = [work EXCEPT ![w].pc = "idle", ![w].reply = "acted", ![w].id = id]
      <4>1. work[w] \in WorkType /\ work \in [Workers -> WorkType]
        BY <1>0 DEF WorkOK
      <4>2. id \in Nat
        BY <1>0, UserIdOK
      <4> HIDE DEF id
      <4>3. WorkerOK(next)
        BY <4>1, <4>2 DEF WorkerOK, WorkType, Labels, Replies
      <4>4. work' = [work EXCEPT ![w] = next]
        BY <3>2, <4>1
      <4> HIDE DEF next
      <4> QED
        BY <1>0, <4>3, <4>4, OneWorker
    <3> QED
      BY <2>6, <3>1, <3>2, Zenon DEF GetUserID
  <2> QED
    BY <1>3, <2>1, <2>3, <2>4, <2>5, <2>6 DEF Step
<1>4. CASE Crash
  <2>1. \A w \in Workers : WorkerOK(Idle("none"))
    BY IdleOK DEF Replies
  <2> QED
    BY <1>4, <2>1 DEF Crash, WorkOK, WorkerOK
<1>5. CASE UNCHANGED vars
  BY <1>0, <1>5 DEF vars, WorkOK
<1> QED
  BY <1>1, <1>2, <1>3, <1>4, <1>5 DEF Next

LEMMA InitTypes == Init => TypeOK
<1> SUFFICES ASSUME Init PROVE TypeOK
  OBVIOUS
<1>1. WorkOK
  <2>1. WorkerOK(Idle("none"))
    BY IdleOK DEF Replies
  <2> QED
    BY <2>1 DEF Init, WorkOK, WorkerOK
<1>2. users \in Seq(Row)
  BY DEF Init
<1>3. faults \in 0 .. MaxFaults
  BY AccountsAssumption DEF Init
<1> QED
  BY <1>1, <1>2, <1>3 DEF TypeOK

LEMMA TypeStep == ASSUME TypeOK, [Next]_vars PROVE TypeOK'
<1>1. faults' = faults \/ Fault
  BY DEF Next, Step, CreateUser, Authenticate, Refuse, FindName, InsertUser,
     CheckPassword, GetUserID, Crash, vars
<1>2. faults' \in 0 .. MaxFaults
  BY <1>1, AccountsAssumption DEF TypeOK, Fault
<1> QED
  BY <1>2, WorkersCorrect, RowsKept DEF TypeOK

\* The type invariant.
THEOREM TypeCorrect == Spec => []TypeOK
  BY InitTypes, TypeStep, PTL DEF Spec

-----------------------------------------------------------------------------
\* With a unique key every name is found in one row at most, and a verified
\* password is that of the row, which the lookup of the id finds again; without
\* a row it is the empty one.
Unique ==
  NameUnique =>
    \A i, j \in 1 .. Len(users) :
      Folded[users[i].name] = Folded[users[j].name] => i = j

\* The row i is that of the name and password of request r.
Own(r, i) ==
  /\ i \in 1 .. Len(users)
  /\ users[i].pw = r.pw
  /\ Folded[users[i].name] = Folded[r.name]

\* The password of request r was compared with that of row r.row, or there was
\* none.
Compared(r) == Own(r, r.row) \/ (r.row = 0 /\ r.pw = NoText)

Known ==
  NameUnique => \A w \in Workers : work[w].pc = "userid" => Compared(work[w])

\* What ActsAsAuthenticated says of a request that has acted.
ActedFor(r) ==
  /\ r.id \in 1 .. Len(users)
  /\ Folded[users[r.id].name] = Folded[r.name]
  /\ (r.id = r.row /\ users[r.id].pw = r.pw) \/ (r.row = 0 /\ r.pw = NoText)

IInv == TypeOK /\ Unique /\ Known /\ ActsAsAuthenticated

\* What a step does to one worker, as far as its identity is concerned.
Harmless(w) ==
  \/ work'[w] = work[w]
  \/ work'[w].pc # "userid" /\ ~(work'[w].pc = "idle" /\ work'[w].reply = "acted")
Verifies(w) ==
  /\ Verified(work[w].name, work[w].pw)
  /\ work'[w].pc = "userid" /\ work'[w].row = UserId(work[w].name)
  /\ work'[w].pw = work[w].pw /\ work'[w].name = work[w].name
  /\ UNCHANGED users
Acts(w) ==
  /\ work[w].pc = "userid"
  /\ work'[w].id = UserId(work[w].name) /\ work'[w].id # 0
  /\ work'[w].pc = "idle" /\ work'[w].row = work[w].row
  /\ work'[w].pw = work[w].pw /\ work'[w].name = work[w].name
  /\ UNCHANGED users

LEMMA WorkerSteps ==
  ASSUME TypeOK, [Next]_vars, NEW w \in Workers
  PROVE  Harmless(w) \/ Verifies(w) \/ Acts(w)
<1>0. work \in [Workers -> WorkType]
  BY DEF TypeOK, WorkOK
<1>1. ASSUME NEW x \in Workers, NEW n, NEW p, NEW e,
             CreateUser(x, n, p, e) \/ Authenticate(x, n, p) \/ Refuse(x)
      PROVE  Harmless(w)
  <2>1. CASE CreateUser(x, n, p, e)
    <3> DEFINE next == [Idle("none") EXCEPT !.pc = "find", !.name = n, !.pw = p, !.email = e]
    <3>1. next.pc = "find"
      BY DEF Idle
    <3>2. work' = [work EXCEPT ![x] = next]
      BY <2>1 DEF CreateUser
    <3> HIDE DEF next
    <3> QED
      BY <1>0, <3>1, <3>2 DEF Harmless
  <2>2. CASE Authenticate(x, n, p)
    <3> DEFINE next == [Idle("none") EXCEPT !.pc = "password", !.name = n, !.pw = p]
    <3>1. next.pc = "password"
      BY DEF Idle
    <3>2. work' = [work EXCEPT ![x] = next]
      BY <2>2 DEF Authenticate
    <3> HIDE DEF next
    <3> QED
      BY <1>0, <3>1, <3>2 DEF Harmless
  <2>3. CASE Refuse(x)
    BY <1>0, <2>3 DEF Refuse, Harmless, Idle
  <2> QED
    BY <1>1, <2>1, <2>2, <2>3
<1>2. ASSUME NEW x \in Workers, NEW r, Answer(x, r), r # "acted" PROVE Harmless(w)
  BY <1>0, <1>2 DEF Answer, Harmless, WorkType
<1>3. ASSUME NEW x \in Workers, FindName(x) \/ InsertUser(x) PROVE Harmless(w)
  <2>1. CASE Goto(x, "insert")
    BY <1>0, <2>1 DEF Goto, Harmless, WorkType
  <2>2. Goto(x, "insert") \/ \E r : r # "acted" /\ Answer(x, r)
    BY <1>3 DEF FindName, InsertUser, KeyError
  <2> QED
    BY <1>2, <2>1, <2>2
<1>4. ASSUME NEW x \in Workers, CheckPassword(x) PROVE Harmless(w) \/ Verifies(w)
  <2>1. CASE /\ Verified(work[x].name, work[x].pw) /\ UNCHANGED users
             /\ work' = [work EXCEPT ![x].pc = "userid", ![x].row = UserId(work[x].name)]
    BY <1>0, <2>1 DEF Harmless, Verifies, WorkType
  <2>2. CASE Answer(x, "1009") \/ Answer(x, "1010")
    BY <1>2, <2>2
  <2> QED
    BY <1>4, <2>1, <2>2, Zenon DEF CheckPassword
<1>5. ASSUME NEW x \in Workers, GetUserID(x) PROVE Harmless(w) \/ Acts(w)
  <2>1. CASE Answer(x, "1013")
    BY <1>2, <2>1
  <2>2. CASE /\ work[x].pc = "userid" /\ UserId(work[x].name) # 0 /\ UNCHANGED users
             /\ work' = [work EXCEPT ![x].pc = "idle", ![x].reply = "acted",
                                     ![x].id = UserId(work[x].name)]
    BY <1>0, <2>2 DEF Harmless, Acts, WorkType
  <2> QED
    BY <1>5, <2>1, <2>2, Zenon DEF GetUserID
<1>6. CASE Crash
  BY <1>6 DEF Crash, Harmless, Idle
<1>7. CASE UNCHANGED vars
  BY <1>7 DEF vars, Harmless
<1> QED
  BY <1>1, <1>3, <1>4, <1>5, <1>6, <1>7 DEF Next, Step

LEMMA UniqueStep ==
  ASSUME TypeOK, Unique, [Next]_vars
  PROVE  Unique'
<1>0. users \in Seq(Row) /\ Len(users) \in Nat
  BY DEF TypeOK
<1>1. CASE UNCHANGED users
  BY <1>1 DEF Unique
<1>2. ASSUME NEW n \in Names, NEW p \in Passwords, NEW e \in Emails, Inserted(n, p, e)
      PROVE  Unique'
  <2>0. NewUser(n, p, e) \in Row
    BY DEF NewUser, Row
  <2>1. /\ Len(users') = Len(users) + 1
        /\ \A i \in 1 .. Len(users) : users'[i] = users[i]
        /\ users'[Len(users) + 1].name = n
    BY <1>0, <1>2, <2>0 DEF Inserted, NewUser
  <2>2. NameUnique => \A i \in 1 .. Len(users) : Folded[users[i].name] # Folded[n]
    BY <1>2 DEF Inserted, NameKeyViolated, Matching
  <2>3. \A i \in 1 .. Len(users') : i \in 1 .. Len(users) \/ i = Len(users) + 1
    BY <1>0, <2>1
  <2> QED
    BY <2>1, <2>2, <2>3 DEF Unique
<1> QED
  BY <1>1, <1>2, TableSteps

LEMMA InvStep == ASSUME IInv, [Next]_vars PROVE IInv'
<1>1. TypeOK'
  BY TypeStep DEF IInv
<1>2. Unique'
  BY UniqueStep DEF IInv
<1>3. /\ Len(users) \in Nat /\ Len(users') \in Nat /\ Len(users) <= Len(users')
      /\ \A i \in 1 .. Len(users) : users'[i] = users[i]
  BY RowsKept DEF IInv
<1>4. ASSUME NEW r, NEW i, Own(r, i) PROVE Own(r, i)'
  BY <1>3, <1>4 DEF Own
<1>5. ASSUME NEW w \in Workers, Verifies(w)
      PROVE  Compared(work'[w])
  <2>1. CASE Matching(work[w].name) = {}
    BY <1>5, <2>1 DEF Verifies, Verified, PasswordRead, UserId, Compared
  <2>2. CASE Matching(work[w].name) # {}
    <3>1. LastMatch(work[w].name) \in Matching(work[w].name)
      BY <1>3, <2>2, LastMatchOK
    <3> QED
      BY <1>5, <2>2, <3>1
         DEF Verifies, Verified, PasswordRead, UserId, Matching, Own, Compared
  <2> QED
    BY <2>1, <2>2
<1>6. ASSUME NEW w \in Workers, Acts(w), NameUnique
      PROVE  ActedFor(work'[w])
  <2>1. work'[w].id \in Matching(work[w].name)
    BY <1>3, <1>6, UserIdOK DEF Acts
  <2>2. Compared(work'[w])
    BY <1>6 DEF IInv, Known, Acts, Compared, Own
  <2>3. ASSUME Own(work'[w], work'[w].row) PROVE work'[w].id = work'[w].row
    BY <1>6, <2>1, <2>3 DEF IInv, Unique, Own, Matching, Acts
  <2> QED
    BY <1>6, <2>1, <2>2, <2>3 DEF Compared, ActedFor, Own, Matching, Acts
<1>7. Known'
  <2> SUFFICES ASSUME NameUnique, NEW w \in Workers, work'[w].pc = "userid"
               PROVE  Compared(work[w])'
    BY DEF Known
  <2>1. Compared(work'[w])
    <3>1. CASE Harmless(w)
      BY <3>1 DEF Harmless, IInv, Known
    <3>2. CASE Verifies(w)
      BY <1>5, <3>2
    <3>3. ~Acts(w)
      BY DEF Acts
    <3> QED
      BY <3>1, <3>2, <3>3, WorkerSteps DEF IInv
  <2> QED
    BY <1>3, <2>1 DEF Compared, Own
<1>8. ActsAsAuthenticated'
  <2> SUFFICES ASSUME NameUnique, NEW w \in Workers, work'[w].pc = "idle",
                      work'[w].reply = "acted"
               PROVE  ActedFor(work[w])'
    BY DEF ActsAsAuthenticated, ActedFor
  <2>1. CASE Harmless(w)
    <3>1. work'[w] = work[w]
      BY <2>1 DEF Harmless
    <3>2. ActedFor(work[w])
      BY <3>1 DEF IInv, ActsAsAuthenticated, ActedFor
    <3> QED
      BY <1>3, <3>1, <3>2 DEF ActedFor
  <2>2. CASE Acts(w)
    BY <1>3, <1>6, <2>2 DEF ActedFor
  <2>3. ~Verifies(w)
    BY DEF Verifies
  <2> QED
    BY <2>1, <2>2, <2>3, WorkerSteps DEF IInv
<1> QED
  BY <1>1, <1>2, <1>7, <1>8 DEF IInv

\* A request acts for the user whose password it verified, for any number of
\* accounts created meanwhile, when the table has a unique key on the names; or
\* it gave an empty password and a name that nobody had (srv_db.cpp:196-206).
THEOREM ActsForOneself == Spec => []ActsAsAuthenticated
<1>1. Init => IInv
  <2> SUFFICES ASSUME Init PROVE IInv
    OBVIOUS
  <2>1. TypeOK
    BY InitTypes
  <2>2. Len(users) = 0 /\ \A w \in Workers : work[w].pc = "idle" /\ work[w].reply = "none"
    BY DEF Init, Idle
  <2> QED
    BY <2>1, <2>2 DEF IInv, Unique, Known, ActsAsAuthenticated
<1>2. IInv => ActsAsAuthenticated
  BY DEF IInv
<1> QED
  BY <1>1, <1>2, InvStep, PTL DEF Spec

-----------------------------------------------------------------------------
\* What an answered request may say of the table.
Rows == {users[i] : i \in 1 .. Len(users)}
True(r) ==
  /\ r.reply = "1005" => NewUser(r.name, r.pw, r.email) \in Rows
  /\ r.reply = "1006" => Matching(r.name) # {} \/ r.name = NoText
  /\ r.reply = "1008" => EmailTaken(r.email)
  /\ r.reply = "1003" /\ faults = 0 => Matching(r.name) # {}

\* The answer of an INSERT that succeeded, and any other.
Created(w) == work[w].pc = "idle" /\ work[w].reply = "1005"
Creates(w) ==
  /\ Matching(work[w].name) = {} \/ ~NameUnique
  /\ NewUser(work'[w].name, work'[w].pw, work'[w].email) \in Rows'
  /\ work'[w].name = work[w].name /\ work'[w].reply = "1005"
  /\ \A x \in Workers \ {w} : work'[x] = work[x]
Says(w) == work'[w].reply # "1005" /\ True(work[w])'

\* Rows, and the failures, are only added.
LEMMA MoreRows ==
  ASSUME TypeOK, [Next]_vars
  PROVE  /\ Rows \subseteq Rows'
         /\ \A n : Matching(n) \subseteq Matching(n)'
         /\ \A e : EmailTaken(e) => EmailTaken(e)'
         /\ faults' = 0 => faults = 0
<1>1. /\ Len(users) \in Nat /\ Len(users') \in Nat /\ Len(users) <= Len(users')
      /\ \A i \in 1 .. Len(users) : i \in 1 .. Len(users') /\ users'[i] = users[i]
  BY RowsKept
<1>2. faults' = faults \/ Fault
  BY DEF Next, Step, CreateUser, Authenticate, Refuse, FindName, InsertUser,
     CheckPassword, GetUserID, Crash, vars
<1>3. faults' = 0 => faults = 0
  BY <1>2, AccountsAssumption DEF TypeOK, Fault
<1> QED
  BY <1>1, <1>3 DEF Rows, Matching, EmailTaken

LEMMA TrueKept ==
  ASSUME TypeOK, [Next]_vars, NEW r, True(r)
  PROVE  /\ r.reply = "1005" => NewUser(r.name, r.pw, r.email) \in Rows'
         /\ r.reply = "1006" => Matching(r.name)' # {} \/ r.name = NoText
         /\ r.reply = "1008" => EmailTaken(r.email)'
         /\ r.reply = "1003" /\ faults' = 0 => Matching(r.name)' # {}
BY MoreRows DEF True

\* One that becomes idle with an answer, and all the rest of a worker's steps.
LEMMA AnswerIs ==
  ASSUME WorkOK, NEW w \in Workers, NEW reply, Answer(w, reply)
  PROVE  /\ work'[w].name = work[w].name /\ work'[w].pw = work[w].pw
         /\ work'[w].email = work[w].email
         /\ work'[w].pc = "idle" /\ work'[w].reply = reply
         /\ \A x \in Workers \ {w} : work'[x] = work[x]
BY DEF WorkOK, WorkType, Answer

LEMMA FindSays ==
  ASSUME TypeOK, [Next]_vars, NEW w \in Workers, FindName(w)
  PROVE  work'[w].pc # "idle" \/ Says(w)
<1>0. WorkOK /\ faults \in Nat
  BY AccountsAssumption DEF TypeOK
<1>1. CASE NameTaken(work[w].name) /\ Answer(w, "1006") /\ UNCHANGED users
  <2>1. Matching(work[w].name) # {} \/ work[w].name = NoText
    BY <1>1 DEF NameTaken, NameRead
  <2>2. work'[w].name = work[w].name /\ work'[w].reply = "1006"
    BY <1>0, <1>1, AnswerIs
  <2> QED
    BY <1>1, <2>1, <2>2 DEF Says, True, Matching
<1>2. CASE Goto(w, "insert")
  BY <1>0, <1>2 DEF Goto, WorkOK, WorkType
<1>3. CASE Fault /\ Answer(w, "1003")
  <2>1. faults' # 0 /\ work'[w].reply = "1003"
    BY <1>0, <1>3, AnswerIs DEF Fault
  <2> QED
    BY <2>1 DEF Says, True
<1> QED
  BY <1>1, <1>2, <1>3 DEF FindName

LEMMA InsertSays ==
  ASSUME TypeOK, [Next]_vars, NEW w \in Workers, InsertUser(w)
  PROVE  Creates(w) \/ Says(w)
<1> DEFINE n == work[w].name
           e == work[w].email
           row == NewUser(n, work[w].pw, e)
<1>0. /\ WorkOK /\ faults \in Nat /\ users \in Seq(Row) /\ Len(users) \in Nat
      /\ work[w].email \in Emails /\ n \in Names /\ work[w].pw \in Passwords
  BY AccountsAssumption DEF TypeOK, WorkOK, InsertUser
<1>1. CASE /\ KeyError(n, e) = {} /\ users' = Append(users, row)
           /\ Answer(w, "1005")
  <2>1. row \in Row
    BY <1>0 DEF NewUser, Row
  <2>2. Len(users') \in 1 .. Len(users') /\ users'[Len(users')] = row
    BY <1>0, <1>1, <2>1
  <2>3. row \in Rows'
    BY <2>2 DEF Rows
  <2>4. Matching(n) = {} \/ ~NameUnique
    BY <1>1 DEF KeyError, NameKeyViolated
  <2>5. /\ work'[w].name = n /\ work'[w].pw = work[w].pw /\ work'[w].email = e
        /\ work'[w].reply = "1005" /\ \A x \in Workers \ {w} : work'[x] = work[x]
    BY <1>0, <1>1, AnswerIs
  <2> QED
    BY <2>3, <2>4, <2>5 DEF Creates
<1>2. ASSUME NEW reply \in KeyError(n, e), Answer(w, reply), UNCHANGED users
      PROVE  Says(w)
  <2>1. /\ reply \in {"1003", "1008"}
        /\ reply = "1003" => Matching(n) # {}
        /\ reply = "1008" => EmailTaken(e)
    BY <1>2 DEF KeyError, NameKeyViolated
  <2>2. work'[w].name = n /\ work'[w].email = e /\ work'[w].reply = reply
    BY <1>0, <1>2, AnswerIs
  <2> QED
    BY <1>2, <2>1, <2>2 DEF Says, True, Matching, EmailTaken
<1>3. CASE Fault /\ Answer(w, "1003")
  <2>1. faults' # 0 /\ work'[w].reply = "1003"
    BY <1>0, <1>3, AnswerIs DEF Fault
  <2> QED
    BY <2>1 DEF Says, True
<1> QED
  BY <1>1, <1>2, <1>3, Zenon DEF InsertUser

\* What a step does to one worker, as far as its answer is concerned.
LEMMA AnswerSteps ==
  ASSUME TypeOK, [Next]_vars, NEW w \in Workers
  PROVE  work'[w] = work[w] \/ work'[w].pc # "idle" \/ Creates(w) \/ Says(w)
<1>0. WorkOK /\ work \in [Workers -> WorkType]
  BY DEF TypeOK, WorkOK
<1> DEFINE Done == work'[w] = work[w] \/ work'[w].pc # "idle" \/ Creates(w) \/ Says(w)
<1>1. ASSUME NEW x \in Workers, NEW n, NEW p, NEW e,
             CreateUser(x, n, p, e) \/ Authenticate(x, n, p) \/ Refuse(x)
      PROVE  Done
  <2>1. CASE x # w
    BY <1>0, <1>1, <2>1 DEF CreateUser, Authenticate, Refuse
  <2>2. CASE x = w /\ CreateUser(x, n, p, e)
    BY <1>0, <2>2 DEF CreateUser, Idle
  <2>3. CASE x = w /\ Authenticate(x, n, p)
    BY <1>0, <2>3 DEF Authenticate, Idle
  <2>4. CASE x = w /\ Refuse(x)
    BY <1>0, <2>4 DEF Refuse, Idle, Says, True
  <2> QED
    BY <1>1, <2>1, <2>2, <2>3, <2>4
<1>2. ASSUME NEW x \in Workers, Step(x) PROVE Done
  <2>1. CASE x # w
    BY <1>0, <1>2, <2>1 DEF Step, FindName, InsertUser, CheckPassword, GetUserID, Answer, Goto
  <2>2. CASE FindName(w) \/ InsertUser(w)
    BY <2>2, FindSays, InsertSays
  <2>3. CASE CheckPassword(w)
    <3>1. CASE work' = [work EXCEPT ![w].pc = "userid", ![w].row = UserId(work[w].name)]
      BY <1>0, <3>1 DEF WorkType
    <3>2. CASE Answer(w, "1009") \/ Answer(w, "1010")
      BY <1>0, <3>2, AnswerIs DEF Says, True
    <3> QED
      BY <2>3, <3>1, <3>2, Zenon DEF CheckPassword
  <2>4. CASE GetUserID(w)
    <3>1. CASE Answer(w, "1013")
      BY <1>0, <3>1, AnswerIs DEF Says, True
    <3>2. CASE work' = [work EXCEPT ![w].pc = "idle", ![w].reply = "acted",
                                    ![w].id = UserId(work[w].name)]
      BY <1>0, <3>2 DEF Says, True, WorkType
    <3> QED
      BY <2>4, <3>1, <3>2, Zenon DEF GetUserID
  <2> QED
    BY <1>2, <2>1, <2>2, <2>3, <2>4 DEF Step
<1>3. CASE Crash
  BY <1>3 DEF Crash, Idle, Says, True
<1>4. CASE UNCHANGED vars
  BY <1>4 DEF vars
<1> QED
  BY <1>1, <1>2, <1>3, <1>4 DEF Next

\* What the answers say of the table, and of two requests for one name.
Truth == \A w \in Workers : work[w].pc = "idle" => True(work[w])
OneEach ==
  NameUnique =>
    \A w, x \in Workers : w # x /\ Created(w) /\ Created(x) =>
      Folded[work[w].name] # Folded[work[x].name]

LEMMA TruthStep == ASSUME TypeOK, Truth, [Next]_vars PROVE Truth'
<1> SUFFICES ASSUME NEW w \in Workers, work'[w].pc = "idle" PROVE True(work[w])'
  BY DEF Truth
<1>1. CASE work'[w] = work[w]
  <2>1. True(work[w])
    BY <1>1 DEF Truth
  <2> QED
    BY <1>1, <2>1, TrueKept DEF True, Matching, EmailTaken
<1>2. CASE Creates(w)
  BY <1>2 DEF Creates, True
<1>3. CASE Says(w)
  BY <1>3 DEF Says
<1> QED
  BY <1>1, <1>2, <1>3, AnswerSteps

\* The row of an account that was created is found by its name.
LEMMA CreatedMatches ==
  ASSUME Truth, NEW w \in Workers, Created(w)
  PROVE  \E i \in 1 .. Len(users) : users[i].name = work[w].name
<1>1. PICK i \in 1 .. Len(users) : users[i] = NewUser(work[w].name, work[w].pw, work[w].email)
  BY DEF Truth, Created, True, Rows
<1> QED
  BY <1>1 DEF NewUser

LEMMA OneEachStep ==
  ASSUME TypeOK, Truth, OneEach, [Next]_vars
  PROVE  OneEach'
<1> SUFFICES ASSUME NameUnique, NEW w \in Workers, NEW x \in Workers, w # x,
                    Created(w)', Created(x)'
             PROVE  Folded[work'[w].name] # Folded[work'[x].name]
  BY DEF OneEach
<1>1. \A y \in {w, x} : work'[y] = work[y] \/ Creates(y)
  BY AnswerSteps DEF Created, Says
<1>2. ASSUME NEW y \in {w, x}, NEW z \in {w, x}, y # z, Creates(y)
      PROVE  Folded[work'[y].name] # Folded[work'[z].name]
  <2>1. work'[z] = work[z] /\ work'[y].name = work[y].name
    BY <1>2 DEF Creates
  <2>2. Created(z)
    BY <2>1 DEF Created
  <2>3. PICK i \in 1 .. Len(users) : users[i].name = work[z].name
    BY <2>2, CreatedMatches
  <2> QED
    BY <1>2, <2>1, <2>3 DEF Creates, Matching
<1>3. CASE work'[w] = work[w] /\ work'[x] = work[x]
  BY <1>3 DEF OneEach, Created
<1> QED
  BY <1>1, <1>2, <1>3

\* However requests for one name or address race, what createUser() answers is
\* true of the table, when it has a unique key on the names (srv_db.cpp:91-164).
THEOREM AnswersCorrect == Spec => [](NameUnique => AnswersTrue)
<1>1. Init => Truth /\ OneEach
  BY DEF Init, Idle, Truth, True, OneEach, Created
<1>2. Truth /\ OneEach => (NameUnique => AnswersTrue)
  <2> SUFFICES ASSUME Truth, OneEach, NameUnique, NEW w \in Workers, work[w].pc = "idle"
               PROVE  /\ True(work[w])
                      /\ work[w].reply = "1005" =>
                           \A x \in Workers \ {w} :
                             work[x].pc = "idle" /\ work[x].reply = "1005" =>
                               Folded[work[x].name] # Folded[work[w].name]
    BY DEF AnswersTrue, True, Rows
  <2> QED
    BY DEF Truth, OneEach, Created
<1> QED
  BY <1>1, <1>2, TypeCorrect, TruthStep, OneEachStep, PTL DEF Spec
=============================================================================
