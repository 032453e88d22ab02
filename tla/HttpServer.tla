----------------------------- MODULE HttpServer -----------------------------
(***************************************************************************)
(* The HTTP server: the threads of one io_service take the completions of  *)
(* asynchronous accepts, reads and writes and run the handlers of          *)
(* http::server3::server and connection.  A connection object is made      *)
(* before its client comes, with a database session of its own, and is     *)
(* destroyed with its last shared_ptr: the server's new_connection_, an    *)
(* outstanding operation or a running handler.                             *)
(***************************************************************************)
EXTENDS Integers, FiniteSets

CONSTANTS
  Workers,    \* the threads in io_service::run()
  Conns,      \* bound: connection objects that exist at the same time
  MaxFaults   \* bound: outages of the database, failed accepts, lost peers

ASSUME HttpAssumption == MaxFaults \in Nat

None == "none"

VARIABLES
  stage,     \* of each connection object; "read" and "write" name the
             \* asynchronous operation that is outstanding
  session,   \* of each connection object: "null", "open" or "lost"
  next,      \* new_connection_
  armed,     \* is an asynchronous accept outstanding?
  work,      \* what each thread is executing, and for which connection
  db,        \* is the database up?
  process,   \* "up" or "crashed"
  faults     \* faults so far

vars == <<stage, session, next, armed, work, db, process, faults>>

Up == process = "up"
Free(w) == work[w].pc = "free"
Unused == {c \in Conns : stage[c] = "gone"}
AcceptLabels == {"start", "renew", "arm"}
ReadLabels == {"parse", "status", "auth", "operation"}
Handling(c) == {w \in Workers : work[w].conn = c /\ work[w].pc \in ReadLabels \cup {"start"}}

Fault == faults < MaxFaults /\ faults' = faults + 1

\* mutant: the handler is not bound to its connection
TakeNoConn(w, label, c) == work' = [work EXCEPT ![w].pc = label]

Take(w, label, c) == work' = [work EXCEPT ![w] = [pc |-> label, conn |-> c]]
Goto(w, label) == work' = [work EXCEPT ![w].pc = label]
Release(w) == Take(w, "free", None)

\* The destructor of a connection deletes its SRV_DB, whose destructor calls
\* a method of the session: when there is none the process dies.
Destroyed(c) == IF session[c] = "null" THEN "crashed" ELSE process

\* A new SRV_DB opens its session at once, or has none.
Opened == IF db THEN "open" ELSE "null"

-----------------------------------------------------------------------------
\* handle_accept().  An error ends the handler and no accept follows.
Accept(w) ==
  /\ Up /\ Free(w) /\ armed /\ Cardinality(Unused) > 0
  /\ armed' = FALSE
  /\ \/ Take(w, "start", next) /\ UNCHANGED faults
     \/ UNCHANGED work /\ Fault
  /\ UNCHANGED <<stage, session, next, db, process>>

\* mutant: the next accept is started before the connection
StartArmed(w) ==
  LET c == work[w].conn
  IN  /\ Up /\ work[w].pc = "start"
      /\ stage' = [stage EXCEPT ![c] = "read"]
      /\ armed' = TRUE
      /\ Goto(w, "renew")
      /\ UNCHANGED <<session, next, db, process, faults>>

\* start(): remote_endpoint() throws when the peer has gone already, and the
\* exception leaves the thread.  From the read on another thread may run the
\* handlers of the connection.
Start(w) ==
  LET c == work[w].conn
  IN  /\ Up /\ work[w].pc = "start"
      /\ \/ /\ stage' = [stage EXCEPT ![c] = "read"]
            /\ Goto(w, "renew")
            /\ UNCHANGED <<process, faults>>
         \/ /\ process' = "crashed" /\ Fault
            /\ UNCHANGED <<stage, work>>
      /\ UNCHANGED <<session, next, armed, db>>

\* new_connection_.reset(): first the new object with its session, then the
\* reference to the old one goes, perhaps the last.
Renew(w) ==
  LET c == work[w].conn
  IN  /\ Up /\ work[w].pc = "renew"
      /\ \E d \in Unused :
           /\ next' = d
           /\ session' = [session EXCEPT ![d] = Opened]
           /\ IF stage[c] = "idle" /\ Handling(c) = {}
              THEN /\ stage' = [stage EXCEPT ![c] = "gone", ![d] = "made"]
                   /\ process' = Destroyed(c)
              ELSE stage' = [stage EXCEPT ![d] = "made"] /\ UNCHANGED process
      /\ Goto(w, "arm")
      /\ UNCHANGED <<armed, db, faults>>

Arm(w) ==
  /\ Up /\ work[w].pc = "arm"
  /\ armed' = TRUE
  /\ Release(w)
  /\ UNCHANGED <<stage, session, next, db, process, faults>>

-----------------------------------------------------------------------------
\* mutant: a finished connection is kept
EndedKept(c) == stage' = [stage EXCEPT ![c] = "idle"] /\ UNCHANGED process

\* A handler that starts no operation ends with the last reference to its
\* connection, unless the server still holds it.
Ended(c) ==
  IF next = c
  THEN stage' = [stage EXCEPT ![c] = "idle"] /\ UNCHANGED process
  ELSE stage' = [stage EXCEPT ![c] = "gone"] /\ process' = Destroyed(c)

\* handle_read(): the client has sent something, or has gone.
Read(w, c) ==
  /\ Up /\ Free(w) /\ stage[c] = "read"
  /\ \/ /\ stage' = [stage EXCEPT ![c] = "idle"]
        /\ Take(w, "parse", c)
        /\ UNCHANGED process
     \/ Ended(c) /\ UNCHANGED work
  /\ UNCHANGED <<session, next, armed, db, faults>>

\* mutant: the handler returns without a write
RespondSilent(w) == Release(w) /\ UNCHANGED stage

Respond(w) ==
  /\ stage' = [stage EXCEPT ![work[w].conn] = "write"]
  /\ Release(w)

\* mutant: the next read is started while the request is handled
ParseAndRead(w) ==
  /\ Up /\ work[w].pc = "parse"
  /\ stage' = [stage EXCEPT ![work[w].conn] = "read"]
  /\ Goto(w, "status") \/ Release(w)
  /\ UNCHANGED <<session, next, armed, db, process, faults>>

\* The parser has the request, refuses it, or wants more.
Parse(w) ==
  /\ Up /\ work[w].pc = "parse"
  /\ \/ Goto(w, "status") /\ UNCHANGED stage
     \/ Respond(w)
     \/ stage' = [stage EXCEPT ![work[w].conn] = "read"] /\ Release(w)
  /\ UNCHANGED <<session, next, armed, db, process, faults>>

\* handle_request(): without a session the answer is 503; "createuser" needs
\* no password, and a missing parameter is found before the operation.
Status(w) ==
  /\ Up /\ work[w].pc = "status"
  /\ \/ Respond(w)
     \/ /\ session[work[w].conn] # "null"
        /\ \E label \in {"auth", "operation"} : Goto(w, label)
        /\ UNCHANGED stage
  /\ UNCHANGED <<session, next, armed, db, process, faults>>

\* authenticateUser(); a lost session makes it fail like a wrong password.
Authenticate(w) ==
  /\ Up /\ work[w].pc = "auth"
  /\ \/ session[work[w].conn] = "open" /\ Goto(w, "operation") /\ UNCHANGED stage
     \/ Respond(w)
  /\ UNCHANGED <<session, next, armed, db, process, faults>>

\* The operation answers, or its exception becomes an answer.
Operation(w) ==
  /\ Up /\ work[w].pc = "operation"
  /\ Respond(w)
  /\ UNCHANGED <<session, next, armed, db, process, faults>>

\* handle_write(), whether the client took the reply or not.
Written(w, c) ==
  /\ Up /\ Free(w) /\ stage[c] = "write"
  /\ Ended(c)
  /\ UNCHANGED <<session, next, armed, work, db, faults>>

-----------------------------------------------------------------------------
\* The database goes down with all sessions, and comes back.
DatabaseDown ==
  /\ Up /\ db /\ Fault
  /\ db' = FALSE
  /\ session' = [c \in Conns |-> IF session[c] = "open" THEN "lost" ELSE session[c]]
  /\ UNCHANGED <<stage, next, armed, work, process>>

DatabaseUp ==
  /\ Up /\ ~db
  /\ db' = TRUE
  /\ UNCHANGED <<stage, session, next, armed, work, process, faults>>

\* The constructor of the server has made the first connection and accepts.
Init ==
  /\ db \in BOOLEAN
  /\ next \in Conns
  /\ stage = [c \in Conns |-> IF c = next THEN "made" ELSE "gone"]
  /\ session = [c \in Conns |-> IF c = next THEN Opened ELSE "null"]
  /\ armed = TRUE
  /\ work = [w \in Workers |-> [pc |-> "free", conn |-> None]]
  /\ process = "up"
  /\ faults = 0

Run(w) ==
  \/ Start(w) \/ Renew(w) \/ Arm(w)
  \/ Parse(w) \/ Status(w) \/ Authenticate(w) \/ Operation(w)

Next ==
  \/ \E w \in Workers : Accept(w) \/ Run(w)
  \/ \E w \in Workers, c \in Conns : Read(w, c) \/ Written(w, c)
  \/ DatabaseDown \/ DatabaseUp

Spec == Init /\ [][Next]_vars

\* A thread runs the handler it has taken; clients may stay silent for ever,
\* and so may the database stay down.
FairSpec == Spec /\ \A w \in Workers : WF_vars(Run(w))

-----------------------------------------------------------------------------
\* Every variable keeps its type; a thread that runs a handler runs it for a
\* connection object.
TypeOK ==
  /\ stage \in [Conns -> {"gone", "made", "idle", "read", "write"}]
  /\ session \in [Conns -> {"null", "open", "lost"}]
  /\ next \in Conns
  /\ armed \in BOOLEAN
  /\ work \in [Workers -> [pc : {"free"} \cup AcceptLabels \cup ReadLabels,
                           conn : Conns \cup {None}]]
  /\ \A w \in Workers : ~Free(w) => work[w].conn \in Conns
  /\ db \in BOOLEAN
  /\ process \in {"up", "crashed"}
  /\ faults \in 0 .. MaxFaults

Accepting == {w \in Workers : work[w].pc \in AcceptLabels}

\* handle_accept() has no lock for new_connection_ and the acceptor.  It needs
\* none: no two threads are in it at once, and none is while an accept is
\* outstanding, because the next accept is its last step (server.cpp:63-73).
AcceptAlone ==
  /\ Cardinality(Accepting) <= 1
  /\ armed => Accepting = {}

\* A connection, with its request, reply and SRV_DB, is used by one thread at
\* a time, by none while an operation on it is outstanding, and by none once
\* it is destroyed, although start() and the handlers of reads and writes run
\* on different threads (connection.cpp:39-108).
ConnectionUsedAlone ==
  \A c \in Conns :
    /\ Cardinality(Handling(c)) <= 1
    /\ Handling(c) # {} => stage[c] \in {"made", "idle"}

\* No connection object is lost: each one that is not destroyed is held by the
\* server, an outstanding operation or a running handler, so its socket and
\* its database session will be closed.
NothingLeaked ==
  Up => \A c \in Conns :
          stage[c] \in {"made", "idle"} => c = next \/ Handling(c) # {}

\* A request that was read is answered, whatever happens to the database
\* meanwhile (connection.cpp:54-87), and a client who was accepted makes room
\* for the next one (server.cpp:67-71).
ClientsServed ==
  \A w \in Workers :
    /\ work[w].pc = "start" ~> (armed \/ ~Up)
    /\ \A c \in Conns :
         (work[w].pc = "status" /\ work[w].conn = c) ~> (stage[c] = "write" \/ ~Up)

\* "the object will be destroyed automatically after this handler returns. The
\* connection class's destructor closes the socket." (connection.cpp:91-92 and
\* 104-107): the end of a connection is not the end of the process.
DestroyedAutomatically ==
  [][\A c \in Conns : stage[c] # "gone" /\ stage'[c] = "gone" => process' = "up"]_vars
=============================================================================
