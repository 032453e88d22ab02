------------------------------ MODULE Accounts ------------------------------
(***************************************************************************)
(* SRV_DB::createUser(), authenticateUser() and getUserID() as the HTTP    *)
(* worker threads run them on the table users: each SQL statement is one   *)
(* atomic step in the autocommit session of the worker, and a request that *)
(* needs an identity verifies the password with one statement and looks up *)
(* the user's id with another.  MySQL compares names by a collation, the   *)
(* C++ code by their bytes.                                                *)
(***************************************************************************)
EXTENDS Integers, Sequences, FiniteSets

CONSTANTS
  Names,       \* user names a request may carry, the empty one among them
  Passwords,   \* passwords, the empty one among them
  Emails,      \* addresses; handle_request() lets no empty one through
  Workers,     \* the HTTP threads
  Folded,      \* what the collation of users.user_name makes of a name
  NameUnique,  \* is user_name a unique key?  The schema is not in the
               \* repository; without the key the code alone does not keep
               \* two users from one name
  MaxUsers,    \* bound: rows of users
  MaxFaults    \* bound: failing SQL statements and crashes

NoText == "empty"

ASSUME AccountsAssumption ==
  /\ NameUnique \in BOOLEAN
  /\ MaxUsers \in Nat
  /\ MaxFaults \in Nat
  /\ NoText \notin Emails
  /\ DOMAIN Folded = Names

VARIABLES
  users,    \* table users: the row of user_id i is users[i]
  work,     \* what each worker is executing
  faults    \* faults so far

vars == <<users, work, faults>>

NewUserSwapped(n, p, e) == [name |-> n, pw |-> e, email |-> p]   \* mutant

NewUser(n, p, e) == [name |-> n, pw |-> p, email |-> e]

\* row is no variable of the code: the row whose password was compared, 0
\* when no row had the name.
Idle(reply) == [pc |-> "idle", name |-> NoText, pw |-> NoText,
                email |-> NoText, row |-> 0, id |-> 0, reply |-> reply]

-----------------------------------------------------------------------------
\* WHERE user_name = '...', in the order of the ids; the loops over a result
\* keep its last row.
Matching(n) == {i \in 1 .. Len(users) : Folded[users[i].name] = Folded[n]}
LastMatch(n) == CHOOSE i \in Matching(n) : \A j \in Matching(n) : j <= i

UserId(n) == IF Matching(n) = {} THEN 0 ELSE LastMatch(n)

\* The text that a loop over a result leaves: without a row the empty one.
NameRead(n) == IF Matching(n) = {} THEN NoText ELSE users[LastMatch(n)].name
PasswordRead(n) == IF Matching(n) = {} THEN NoText ELSE users[LastMatch(n)].pw

\* createUser() and authenticateUser() compare it with their own byte by byte:
\* the empty name always exists, and somebody unknown is authenticated by the
\* empty password.
NameTaken(n) == NameRead(n) = n
Verified(n, p) == PasswordRead(n) = p

EmailTaken(e) == \E i \in 1 .. Len(users) : users[i].email = e

NoNameKey(n) == FALSE               \* mutant: the table has no key on names

NameKeyViolated(n) == NameUnique /\ Matching(n) # {}

AnyKeyIsEmail(n, e) ==              \* mutant: the text of the error is ignored
  IF NameKeyViolated(n) \/ EmailTaken(e) THEN {"1008"} ELSE {}

\* The answer to an INSERT that violates a key.  MySQL reports one key; when
\* it is not email_address_UNIQUE the answer is that of any other error.
KeyError(n, e) ==
  (IF NameKeyViolated(n) THEN {"1003"} ELSE {})
    \cup (IF EmailTaken(e) THEN {"1008"} ELSE {})

Fault == faults < MaxFaults /\ faults' = faults + 1
Goto(w, label) == work' = [work EXCEPT ![w].pc = label]
Answer(w, reply) ==
  work' = [work EXCEPT ![w].pc = "idle", ![w].reply = reply]

\* The requests under way that may still insert a row, for the bound.
Inserting == {w \in Workers : work[w].pc \in {"find", "insert"}}

-----------------------------------------------------------------------------
\* "createuser" arrives; a string that checkString() refuses ends it.
CreateUser(w, n, p, e) ==
  /\ work[w].pc = "idle"
  /\ Len(users) + Cardinality(Inserting) < MaxUsers
  /\ work' = [work EXCEPT ![w] =
       [Idle("none") EXCEPT !.pc = "find", !.name = n, !.pw = p, !.email = e]]
  /\ UNCHANGED <<users, faults>>

Refuse(w) ==
  /\ work[w].pc = "idle"
  /\ work' = [work EXCEPT ![w] = Idle("1013")]
  /\ UNCHANGED <<users, faults>>

FindName(w) ==
  /\ work[w].pc = "find"
  /\ \/ NameTaken(work[w].name) /\ Answer(w, "1006") /\ UNCHANGED faults
     \/ ~NameTaken(work[w].name) /\ Goto(w, "insert") /\ UNCHANGED faults
     \/ Fault /\ Answer(w, "1003")
  /\ UNCHANGED users

InsertUser(w) ==
  LET r == work[w]
      errors == KeyError(r.name, r.email)
      inserted == Append(users, NewUser(r.name, r.pw, r.email))
  IN  /\ r.pc = "insert"
      /\ \/ /\ errors = {}
            /\ users' = inserted
            /\ Answer(w, "1005")
            /\ UNCHANGED faults
         \/ /\ \E reply \in errors : Answer(w, reply)
            /\ UNCHANGED <<users, faults>>
         \/ /\ Fault
            /\ Answer(w, "1003")
            /\ \/ UNCHANGED users
               \/ errors = {} /\ users' = inserted

\* Any request other than "createuser" verifies the password first.
Authenticate(w, n, p) ==
  /\ work[w].pc = "idle"
  /\ work' = [work EXCEPT ![w] =
       [Idle("none") EXCEPT !.pc = "password", !.name = n, !.pw = p]]
  /\ UNCHANGED <<users, faults>>

\* Verified, "authenticate" is answered and another request goes on; an SQL
\* error counts as a wrong password.
CheckPassword(w) ==
  /\ work[w].pc = "password"
  /\ \/ /\ Verified(work[w].name, work[w].pw)
        /\ \/ Answer(w, "1009")
           \/ work' = [work EXCEPT ![w].pc = "userid",
                                   ![w].row = UserId(work[w].name)]
        /\ UNCHANGED faults
     \/ ~Verified(work[w].name, work[w].pw) /\ Answer(w, "1010") /\ UNCHANGED faults
     \/ Fault /\ Answer(w, "1010")
  /\ UNCHANGED users

\* The operation asks getUserID() whom it acts for; 0 is nobody.
GetUserID(w) ==
  /\ work[w].pc = "userid"
  /\ \/ /\ UserId(work[w].name) # 0
        /\ work' = [work EXCEPT ![w].pc = "idle", ![w].reply = "acted",
                                ![w].id = UserId(work[w].name)]
        /\ UNCHANGED faults
     \/ UserId(work[w].name) = 0 /\ Answer(w, "1013") /\ UNCHANGED faults
     \/ Fault /\ Answer(w, "1013")
  /\ UNCHANGED users

\* The process dies: what was in flight is gone, the table survives.
Crash ==
  /\ Fault
  /\ work' = [w \in Workers |-> Idle("none")]
  /\ UNCHANGED users

-----------------------------------------------------------------------------
Init ==
  /\ users = << >>
  /\ work = [w \in Workers |-> Idle("none")]
  /\ faults = 0

Step(w) == FindName(w) \/ InsertUser(w) \/ CheckPassword(w) \/ GetUserID(w)

Next ==
  \/ \E w \in Workers, n \in Names, p \in Passwords, e \in Emails :
       CreateUser(w, n, p, e)
  \/ \E w \in Workers, n \in Names, p \in Passwords : Authenticate(w, n, p)
  \/ \E w \in Workers : Refuse(w) \/ Step(w)
  \/ Crash

Spec == Init /\ [][Next]_vars

-----------------------------------------------------------------------------
Row == [name : Names, pw : Passwords, email : Emails]
Labels == {"idle", "find", "insert", "password", "userid"}
Replies == {"none", "acted", "1003", "1005", "1006", "1008", "1009", "1010",
            "1013"}
WorkType == [pc : Labels, name : Names \cup {NoText}, pw : Passwords \cup {NoText},
             email : Emails \cup {NoText}, row : Nat, id : Nat, reply : Replies]

WorkOK ==
  /\ work \in [Workers -> WorkType]
  /\ \A w \in Workers :
       /\ work[w].pc # "idle" => work[w].name \in Names /\ work[w].pw \in Passwords
       /\ work[w].pc \in {"find", "insert"} => work[w].email \in Emails

\* Every variable keeps its type; a row is only built from a real name,
\* password and address.
TypeOK ==
  /\ users \in Seq(Row)
  /\ WorkOK
  /\ faults \in 0 .. MaxFaults

\* A request acts for the user whose password it verified, although accounts
\* are created between the two lookups (authenticateUser(), getUserID()), when
\* the table has a unique key on the names.  The only other one that acts is
\* that with an empty password and a name nobody had at the first lookup
\* (srv_db.cpp:196-206): it acts for an account created since.
ActsAsAuthenticated ==
  NameUnique =>
    \A w \in Workers : work[w].pc = "idle" /\ work[w].reply = "acted" =>
      LET r == work[w]
      IN  /\ r.id \in 1 .. Len(users)
          /\ Folded[users[r.id].name] = Folded[r.name]
          /\ \/ r.id = r.row /\ users[r.id].pw = r.pw
             \/ r.row = 0 /\ r.pw = NoText

\* What createUser() answers is true of the table, however requests for one
\* name or address race: success is the caller's own row, and nobody else's
\* for the same name; "exists", "duplicate address" and, unless a statement
\* failed, "bad SQL" mean that the name or the address is taken; the empty
\* name is told to exist as well (srv_db.cpp:124-138).
AnswersTrue ==
  \A w \in Workers : work[w].pc = "idle" =>
    LET r == work[w]
    IN  /\ r.reply = "1005" =>
             /\ NewUser(r.name, r.pw, r.email) \in {users[i] : i \in 1 .. Len(users)}
             /\ \A x \in Workers \ {w} :
                  work[x].pc = "idle" /\ work[x].reply = "1005" =>
                    Folded[work[x].name] # Folded[r.name]
        /\ r.reply = "1006" => Matching(r.name) # {} \/ r.name = NoText
        /\ r.reply = "1008" => EmailTaken(r.email)
        /\ r.reply = "1003" /\ faults = 0 => Matching(r.name) # {}
=============================================================================
