------------------------------ MODULE Friends ------------------------------
(***************************************************************************)
(* SRV_DB::addFriend(), removeFriend(), getMyFriends() and                 *)
(* getFriendRequests() as the HTTP worker threads run them.  Each SQL      *)
(* statement is one atomic step; removeFriend() makes two.  A row <<u, v>> *)
(* of table friends alone is a request of u to v; with <<v, u>> the two    *)
(* are friends.  Rows are a set: the queries ask for distinct rows and a   *)
(* DELETE takes all copies of one, so copies show nowhere.                 *)
(***************************************************************************)
EXTENDS Integers, FiniteSets

CONSTANTS
  Users,      \* ids of the accounts that requests act for
  Workers,    \* the HTTP threads
  MaxFaults   \* bound: failing SQL statements and crashes

ASSUME FriendsAssumption ==
  /\ Users \subseteq Nat \ {0}
  /\ MaxFaults \in Nat

Nobody == 0   \* what getUserID() answers for a name it does not find

VARIABLES
  friends,  \* table friends
  work,     \* what each worker is executing
  fresh,    \* history: of the two rows a removeFriend() deletes, those inserted
            \* since its request arrived
  faults    \* faults so far

vars == <<friends, work, fresh, faults>>

Idle == [pc |-> "idle", op |-> "none", user |-> Nobody, friend |-> Nobody,
         rows |-> {}, names |-> {}, reply |-> "none"]

-----------------------------------------------------------------------------
Fault == faults < MaxFaults /\ faults' = faults + 1
Goto(w, label) == work' = [work EXCEPT ![w].pc = label]
Answer(w, reply) ==
  work' = [work EXCEPT ![w].pc = "idle", ![w].reply = reply]

RowSame(r, k) == <<r.user, r.friend>>           \* mutant: one direction twice

RowSwapped(r, k) ==                             \* mutant: the other order
  IF k = 2 THEN <<r.user, r.friend>> ELSE <<r.friend, r.user>>

\* The rows that removeFriend() deletes, in this order.
RowOf(r, k) == IF k = 1 THEN <<r.user, r.friend>> ELSE <<r.friend, r.user>>

\* The two rows of a friendship, and the INSERT of one of them.
Pair(r) == {<<r.user, r.friend>>, <<r.friend, r.user>>}
Insert(row) ==
  /\ friends' = friends \cup {row}
  /\ fresh' = [w \in Workers |->
       IF work[w].op = "remove" THEN fresh[w] \cup ({row} \cap Pair(work[w]))
       ELSE fresh[w]]

\* The joins of the two queries, by the column that is shown.
FriendsOf(u) == {v \in Users : <<u, v>> \in friends /\ <<v, u>> \in friends}
RequestsTo(u) == {v \in Users : <<v, u>> \in friends /\ <<u, v>> \notin friends}

FoundAlways(id) == TRUE         \* mutant: user 0 is not refused

Found(id) == id # Nobody

\* Where a request goes once it knows the ids.
FirstStep == [add |-> "insert", remove |-> "delete1", friends |-> "select",
              requests |-> "select"]

-----------------------------------------------------------------------------
\* A request arrives, with a friend's name for the first two; checkString()
\* may refuse it.
Request(w, op, u, v) ==
  /\ work[w].pc = "idle"
  /\ work' = [work EXCEPT ![w] =
       [Idle EXCEPT !.pc = "userid", !.op = op, !.user = u, !.friend = v]]
  /\ fresh' = [fresh EXCEPT ![w] = {}]
  /\ UNCHANGED <<friends, faults>>

Refuse(w) ==
  /\ work[w].pc = "idle"
  /\ work' = [work EXCEPT ![w] = [Idle EXCEPT !.reply = "1013"]]
  /\ UNCHANGED <<friends, fresh, faults>>

\* getUserID() for the user, and for the friend's name, which may be nobody's.
GetUserID(w) ==
  /\ work[w].pc = "userid"
  /\ \/ Found(work[w].friend) /\ Goto(w, FirstStep[work[w].op]) /\ UNCHANGED faults
     \/ ~Found(work[w].friend) /\ Answer(w, "1013") /\ UNCHANGED faults
     \/ Fault /\ Answer(w, "1013")
  /\ UNCHANGED <<friends, fresh>>

\* With a unique key on the pair the INSERT of a row that is there fails.
AddFriend(w) ==
  LET row == <<work[w].user, work[w].friend>>
  IN  /\ work[w].pc = "insert"
      /\ \/ Insert(row) /\ Answer(w, "1000") /\ UNCHANGED faults
         \/ /\ row \in friends /\ Answer(w, "1003")
            /\ UNCHANGED <<friends, fresh, faults>>
         \/ /\ Fault /\ Answer(w, "1003")
            /\ Insert(row) \/ UNCHANGED <<friends, fresh>>

RemoveFirst(w) ==
  LET rest == friends \ {RowOf(work[w], 1)}
  IN  /\ work[w].pc = "delete1"
      /\ \/ friends' = rest /\ Goto(w, "delete2") /\ UNCHANGED faults
         \/ friends' \in {friends, rest} /\ Answer(w, "1003") /\ Fault
      /\ UNCHANGED fresh

RemoveSecond(w) ==
  LET rest == friends \ {RowOf(work[w], 2)}
  IN  /\ work[w].pc = "delete2"
      /\ \/ friends' = rest /\ Answer(w, "1000") /\ UNCHANGED faults
         \/ friends' \in {friends, rest} /\ Answer(w, "1003") /\ Fault
      /\ UNCHANGED fresh

\* The query of a list; then getUsername() for every row of it.
Select(w) ==
  LET r == work[w]
      found == IF r.op = "friends" THEN FriendsOf(r.user) ELSE RequestsTo(r.user)
  IN  /\ r.pc = "select"
      /\ \/ work' = [work EXCEPT ![w].pc = "names", ![w].rows = found] /\ UNCHANGED faults
         \/ Fault /\ Answer(w, "1003")
      /\ UNCHANGED <<friends, fresh>>

\* In the order of the ids.  The list of requests is built at one index that
\* is never moved, so each name replaces the one before.
Name(w) ==
  LET r == work[w]
      v == CHOOSE x \in r.rows : \A y \in r.rows : x <= y
      kept == IF r.op = "friends" THEN r.names ELSE {}
  IN  /\ r.pc = "names" /\ r.rows # {}
      /\ \/ /\ work' = [work EXCEPT ![w].rows = r.rows \ {v},
                                    ![w].names = kept \cup {v}]
            /\ UNCHANGED faults
         \/ /\ work' = [work EXCEPT ![w].rows = r.rows \ {v},
                                    ![w].names = kept \cup {Nobody}]
            /\ Fault
      /\ UNCHANGED <<friends, fresh>>

Listed(w) ==
  /\ work[w].pc = "names" /\ work[w].rows = {}
  /\ Answer(w, "list")
  /\ UNCHANGED <<friends, fresh, faults>>

\* The process dies: what was in flight is gone, the table survives.
Crash ==
  /\ Fault
  /\ work' = [w \in Workers |-> Idle]
  /\ fresh' = [w \in Workers |-> {}]
  /\ UNCHANGED friends

-----------------------------------------------------------------------------
Init ==
  /\ friends = {}
  /\ work = [w \in Workers |-> Idle]
  /\ fresh = [w \in Workers |-> {}]
  /\ faults = 0

Step(w) ==
  \/ GetUserID(w) \/ AddFriend(w) \/ RemoveFirst(w) \/ RemoveSecond(w)
  \/ Select(w) \/ Name(w) \/ Listed(w)

Next ==
  \/ \E w \in Workers, op \in {"add", "remove"}, u \in Users, v \in Users \cup {Nobody} :
       Request(w, op, u, v)
  \/ \E w \in Workers, op \in {"friends", "requests"}, u \in Users :
       Request(w, op, u, u)
  \/ \E w \in Workers : Refuse(w) \/ Step(w)
  \/ Crash

Spec == Init /\ [][Next]_vars

-----------------------------------------------------------------------------
Labels == {"idle", "userid", "insert", "delete1", "delete2", "select", "names"}
WorkType == [pc : Labels, op : {"none", "add", "remove", "friends", "requests"},
             user : Users \cup {Nobody}, friend : Users \cup {Nobody},
             rows : SUBSET Users, names : SUBSET (Users \cup {Nobody}),
             reply : {"none", "list", "1000", "1003", "1013"}]

\* Every variable keeps its type; no row names user 0, whom getUserID()
\* answers for an unknown name or a failed query.
TypeOK ==
  /\ friends \subseteq Users \X Users
  /\ work \in [Workers -> WorkType]
  /\ fresh \in [Workers -> SUBSET (Users \X Users)]
  /\ faults \in 0 .. MaxFaults

\* removeFriend() that answers success has ended the friendship and the
\* requests of both: what is left of the two rows was inserted while it ran
\* or afterwards, although its DELETEs are two statements
\* (srv_db.cpp:1007-1021).
RemoveTakesBoth ==
  \A w \in Workers :
    LET r == work[w]
    IN  r.pc = "idle" /\ r.op = "remove" /\ r.reply = "1000" =>
          friends \cap Pair(r) \subseteq fresh[w]

Asks(u, v) == <<u, v>> \in friends /\ <<v, u>> \notin friends

\* A step of some worker is at hand that may make u ask v.
Wanted(u, v) ==
  \E w \in Workers :
    LET r == work[w]
    IN  \/ r.op = "add" /\ r.pc = "insert" /\ r.user = u /\ r.friend = v
        \/ r.op = "remove" /\ r.pc # "idle" /\ r.user = v /\ r.friend = u
        \/ /\ r.op = "remove" /\ r.pc = "delete2" /\ r.user = u /\ r.friend = v
           /\ <<u, v>> \in fresh[w]

\* Nobody begins to ask for a friendship against his will, even when a
\* removal stops between its two DELETEs: u comes to be listed as asking v
\* because u calls addFriend(), because v ends the friendship, or because
\* u's own removal meets an addFriend() of u that came after it began
\* (srv_db.cpp:955-974 and 1003-1024).
RequestIsWanted ==
  [][\A u, v \in Users : ~Asks(u, v) /\ Asks(u, v)' => Wanted(u, v)]_vars
=============================================================================
