----------------------------- MODULE HttpProofs -----------------------------
(* The threads of the HTTP server and the connection objects they share, for *)
(* any number of both.                                                       *)
EXTENDS HttpServer, FiniteSetTheorems, TLAPS

StageType == stage \in [Conns -> {"gone", "made", "idle", "read", "write"}]
WorkType ==
  /\ work \in [Workers -> [pc : {"free"} \cup AcceptLabels \cup ReadLabels,
                           conn : Conns \cup {None}]]
  /\ \A w \in Workers : ~Free(w) => work[w].conn \in Conns

\* The thread in handle_accept(), if there is one, is in it for the server's
\* connection; that has not been started before, or has been by this thread.
Acceptor ==
  \A w \in Workers : work[w].pc \in AcceptLabels =>
    /\ ~armed
    /\ work[w].pc # "arm" => work[w].conn = next
    /\ \A x \in Workers : work[x].pc \in AcceptLabels => x = w
    /\ (work[w].pc = "renew") <=> (stage[next] # "made")

\* The connection that the server holds is there, and it is the only one that
\* was not started; it was started only by a thread that will renew it.
Held ==
  /\ stage[next] # "gone"
  /\ \A c \in Conns : stage[c] = "made" => c = next
  /\ stage[next] = "made" \/ \E w \in Workers : work[w].pc = "renew"

\* A handler of a read is alone with its connection.
Handlers ==
  \A w \in Workers : work[w].pc \in ReadLabels =>
    /\ stage[work[w].conn] = "idle"
    /\ \A x \in Workers : work[x].pc \in ReadLabels /\ work[x].conn = work[w].conn => x = w

\* Who else could hold a connection on which nothing is outstanding.
Kept ==
  Up => \A c \in Conns : stage[c] = "idle" =>
    c = next \/ \E w \in Workers : work[w].pc \in ReadLabels /\ work[w].conn = c

IInv == TypeOK /\ Acceptor /\ Held /\ Handlers /\ Kept

LEMMA FaultOK == ASSUME TypeOK, Fault PROVE faults' \in 0 .. MaxFaults
BY HttpAssumption DEF TypeOK, Fault

\* What the three ways of going on make of a thread.
LEMMA TakeOK ==
  ASSUME TypeOK, NEW w \in Workers,
         NEW label \in AcceptLabels \cup ReadLabels, NEW c \in Conns, Take(w, label, c)
  PROVE  /\ work'[w].pc = label /\ work'[w].conn = c
         /\ \A x \in Workers \ {w} : work'[x] = work[x]
         /\ WorkType'
BY DEF TypeOK, Take, WorkType, Free, AcceptLabels, ReadLabels

LEMMA GotoOK ==
  ASSUME TypeOK, NEW w \in Workers, ~Free(w),
         NEW label \in AcceptLabels \cup ReadLabels, Goto(w, label)
  PROVE  /\ work'[w].pc = label /\ work'[w].conn = work[w].conn
         /\ \A x \in Workers \ {w} : work'[x] = work[x]
         /\ WorkType'
<1> DEFINE r == [work[w] EXCEPT !.pc = label]
<1>1. work' = [work EXCEPT ![w] = r]
  BY DEF Goto, TypeOK
<1>2. /\ r \in [pc : {"free"} \cup AcceptLabels \cup ReadLabels, conn : Conns \cup {None}]
      /\ r.pc = label /\ r.conn = work[w].conn /\ r.conn \in Conns
  BY DEF TypeOK, Free
<1> HIDE DEF r
<1> QED BY <1>1, <1>2 DEF TypeOK, WorkType, Free

LEMMA ReleaseOK ==
  ASSUME TypeOK, NEW w \in Workers, Release(w)
  PROVE  /\ work'[w].pc = "free"
         /\ \A x \in Workers \ {w} : work'[x] = work[x]
         /\ WorkType'
BY DEF TypeOK, Release, Take, WorkType, Free, AcceptLabels, ReadLabels

-----------------------------------------------------------------------------
\* A connection that ends is the server's, and idle, or is destroyed.
LEMMA EndedOK ==
  ASSUME TypeOK, NEW c \in Conns, Ended(c), UNCHANGED next
  PROVE  /\ StageType' /\ process' \in {"up", "crashed"}
         /\ \A d \in Conns \ {c} : stage'[d] = stage[d]
         /\ stage'[c] = IF next = c THEN "idle" ELSE "gone"
         /\ process' = "up" => process = "up"
BY DEF TypeOK, StageType, Ended, Destroyed

LEMMA RespondOK ==
  ASSUME TypeOK, NEW w \in Workers, ~Free(w), Respond(w)
  PROVE  /\ StageType'
         /\ stage'[work[w].conn] = "write"
         /\ \A d \in Conns \ {work[w].conn} : stage'[d] = stage[d]
         /\ work'[w].pc = "free"
         /\ \A x \in Workers \ {w} : work'[x] = work[x]
         /\ WorkType'
<1>1. Release(w) /\ stage' = [stage EXCEPT ![work[w].conn] = "write"]
  BY DEF Respond
<1>2. work[w].conn \in Conns
  BY DEF TypeOK, Free
<1> QED BY <1>1, <1>2, ReleaseOK DEF TypeOK, StageType

\* A handler of a read that begins an operation, or ends, lets its connection go.
LEMMA LetGo ==
  ASSUME IInv, NEW w \in Workers, work[w].pc \in ReadLabels,
         StageType', WorkType',
         stage'[work[w].conn] \in {"read", "write"},
         \A d \in Conns \ {work[w].conn} : stage'[d] = stage[d],
         work'[w].pc = "free",
         \A x \in Workers \ {w} : work'[x] = work[x],
         UNCHANGED <<session, next, armed, db, process, faults>>
  PROVE  IInv'
<1> DEFINE c == work[w].conn
<1>1. c \in Conns /\ stage[c] = "idle" /\ work[w].pc \notin AcceptLabels
  BY DEF IInv, TypeOK, Handlers, Free, ReadLabels, AcceptLabels
<1>2. TypeOK'
  BY DEF IInv, TypeOK, StageType, WorkType, Free
<1>3. \A x \in Workers : work'[x].pc \in AcceptLabels =>
        work[x].pc \in AcceptLabels /\ work'[x] = work[x]
  BY DEF AcceptLabels
<1>4. (stage'[next] = "made") <=> (stage[next] = "made")
  BY <1>1 DEF IInv, TypeOK
<1>5. Acceptor'
  BY <1>3, <1>4 DEF IInv, Acceptor
<1>6. Held'
  <2>1. stage'[next] # "gone"
    BY <1>1 DEF IInv, Held, TypeOK
  <2>2. \A d \in Conns : stage'[d] = "made" => d = next
    BY <1>1 DEF IInv, Held
  <2>3. stage'[next] = "made" \/ \E x \in Workers : work'[x].pc = "renew"
    BY <1>1, <1>4 DEF IInv, Held, AcceptLabels
  <2> QED BY <2>1, <2>2, <2>3 DEF Held
<1>7. Handlers'
  <2> SUFFICES ASSUME NEW x \in Workers, work'[x].pc \in ReadLabels
               PROVE  /\ stage'[work'[x].conn] = "idle"
                      /\ \A y \in Workers : work'[y].pc \in ReadLabels
                           /\ work'[y].conn = work'[x].conn => y = x
    BY DEF Handlers
  <2>1. x # w /\ work'[x] = work[x]
    BY DEF ReadLabels
  <2>2. work[x].conn \in Conns /\ work[x].conn # c
    BY <2>1 DEF IInv, Handlers, TypeOK, Free, ReadLabels
  <2>3. \A y \in Workers : work'[y].pc \in ReadLabels => y # w /\ work'[y] = work[y]
    BY DEF ReadLabels
  <2> QED BY <2>1, <2>2, <2>3 DEF IInv, Handlers
<1>8. Kept'
  BY <1>1, <1>2 DEF IInv, Kept, Up
<1> QED BY <1>2, <1>5, <1>6, <1>7, <1>8 DEF IInv

\* A handler of a read that goes on with its connection.
LEMMA GoesOn ==
  ASSUME IInv, NEW w \in Workers, work[w].pc \in ReadLabels,
         NEW label \in ReadLabels, Goto(w, label),
         UNCHANGED <<stage, session, next, armed, db, process, faults>>
  PROVE  IInv'
<1>1. /\ work'[w].pc = label /\ work'[w].conn = work[w].conn
      /\ \A x \in Workers \ {w} : work'[x] = work[x]
      /\ WorkType'
  BY GotoOK DEF IInv, Free, ReadLabels, AcceptLabels
<1>2. \A x \in Workers :
        /\ work'[x].conn = work[x].conn
        /\ work'[x].pc \in ReadLabels <=> work[x].pc \in ReadLabels
        /\ work'[x].pc \in AcceptLabels => work'[x] = work[x]
        /\ work[x].pc \in AcceptLabels => work'[x] = work[x]
  BY <1>1 DEF ReadLabels, AcceptLabels
<1>3. TypeOK'
  BY <1>1 DEF IInv, TypeOK, WorkType, Free
<1>4. Acceptor' /\ Held'
  BY <1>2 DEF IInv, Acceptor, Held, AcceptLabels
<1>5. Handlers' /\ Kept'
  BY <1>2 DEF IInv, Handlers, Kept, Up
<1> QED BY <1>3, <1>4, <1>5 DEF IInv
-----------------------------------------------------------------------------
\* The steps of handle_accept().
LEMMA AcceptStep ==
  ASSUME IInv, NEW w \in Workers, Accept(w)
  PROVE  IInv'
<1>1. \A x \in Workers : work[x].pc \notin AcceptLabels
  BY DEF Accept, IInv, Acceptor
<1>2. stage[next] = "made" /\ next \in Conns
  BY <1>1 DEF IInv, Held, TypeOK, AcceptLabels
<1>3. armed' = FALSE /\ UNCHANGED <<stage, session, next, db, process>>
  BY DEF Accept
<1>4. CASE Take(w, "start", next) /\ UNCHANGED faults
  <2>1. /\ work'[w].pc = "start" /\ work'[w].conn = next
        /\ \A x \in Workers \ {w} : work'[x] = work[x]
        /\ WorkType'
    BY <1>2, <1>4, TakeOK DEF IInv, AcceptLabels
  <2>2. \A x \in Workers : work'[x].pc \in ReadLabels => work'[x] = work[x] /\ x # w
    BY <2>1 DEF ReadLabels
  <2>3. \A x \in Workers : work[x].pc \in ReadLabels => work'[x] = work[x] /\ x # w
    BY <2>1 DEF ReadLabels, Accept, Free
  <2>4. TypeOK'
    BY <1>3, <1>4, <2>1 DEF IInv, TypeOK, WorkType, Free
  <2>5. Acceptor'
    BY <1>1, <1>2, <1>3, <2>1 DEF Acceptor
  <2>6. Held'
    BY <1>2, <1>3 DEF IInv, Held
  <2>7. Handlers'
    BY <1>3, <2>2 DEF IInv, Handlers
  <2>8. Kept'
    BY <1>3, <2>3 DEF IInv, Kept, Up
  <2> QED BY <2>4, <2>5, <2>6, <2>7, <2>8 DEF IInv
<1>5. CASE UNCHANGED work /\ Fault
  <2>1. TypeOK'
    BY <1>3, <1>5, FaultOK DEF IInv, TypeOK, Free
  <2>2. Acceptor' /\ Held' /\ Handlers' /\ Kept'
    BY <1>1, <1>3, <1>5 DEF IInv, Acceptor, Held, Handlers, Kept, Up
  <2> QED BY <2>1, <2>2 DEF IInv
<1> QED BY <1>4, <1>5 DEF Accept

LEMMA StartStep ==
  ASSUME IInv, NEW w \in Workers, Start(w)
  PROVE  IInv'
<1> DEFINE c == work[w].conn
<1>1. work[w].pc = "start" /\ UNCHANGED <<session, next, armed, db>>
  BY DEF Start
<1>2. c = next /\ c \in Conns /\ stage[c] = "made" /\ ~armed
  BY <1>1 DEF IInv, Acceptor, TypeOK, AcceptLabels
<1>3. CASE stage' = [stage EXCEPT ![c] = "read"] /\ Goto(w, "renew") /\ UNCHANGED <<process, faults>>
  <2>1. /\ work'[w].pc = "renew" /\ work'[w].conn = c
        /\ \A x \in Workers \ {w} : work'[x] = work[x]
        /\ WorkType'
    BY <1>1, <1>3, GotoOK DEF IInv, AcceptLabels, Free
  <2>2. \A x \in Workers \ {w} : work[x].pc \notin AcceptLabels
    BY <1>1 DEF IInv, Acceptor, AcceptLabels
  <2>3. stage'[c] = "read" /\ \A d \in Conns \ {c} : stage'[d] = stage[d]
    BY <1>2, <1>3 DEF IInv, TypeOK
  <2>4. \A x \in Workers :
          /\ work'[x].pc \in ReadLabels => work'[x] = work[x] /\ x # w
          /\ work[x].pc \in ReadLabels => work'[x] = work[x] /\ x # w
    BY <1>1, <2>1 DEF ReadLabels
  <2>5. TypeOK'
    BY <1>1, <1>2, <1>3, <2>1 DEF IInv, TypeOK, WorkType, Free
  <2>6. Acceptor'
    BY <1>1, <1>2, <2>1, <2>2, <2>3 DEF Acceptor, AcceptLabels
  <2>7. Held'
    BY <1>1, <1>2, <2>1, <2>3 DEF IInv, Held
  <2>8. Handlers'
    <3>1. \A x \in Workers : work[x].pc \in ReadLabels => work[x].conn \in Conns /\ work[x].conn # c
      BY <1>2 DEF IInv, Handlers, TypeOK, Free, ReadLabels
    <3> QED BY <2>3, <2>4, <3>1 DEF IInv, Handlers
  <2>9. Kept'
    BY <1>1, <1>2, <1>3, <2>3, <2>4 DEF IInv, Kept, Up
  <2> QED BY <2>5, <2>6, <2>7, <2>8, <2>9 DEF IInv
<1>4. CASE process' = "crashed" /\ Fault /\ UNCHANGED <<stage, work>>
  <2>1. TypeOK'
    BY <1>1, <1>4, FaultOK DEF IInv, TypeOK, Free
  <2>2. Acceptor' /\ Held' /\ Handlers' /\ Kept'
    BY <1>1, <1>4 DEF IInv, Acceptor, Held, Handlers, Kept, Up
  <2> QED BY <2>1, <2>2 DEF IInv
<1> QED BY <1>3, <1>4 DEF Start

\* The connection that the server lets go of has been started: it is held by
\* its operation or its handler, or is destroyed.
LEMMA RenewStep ==
  ASSUME IInv, NEW w \in Workers, Renew(w)
  PROVE  IInv'
<1> DEFINE c == work[w].conn
<1>1. work[w].pc = "renew" /\ Goto(w, "arm") /\ UNCHANGED <<armed, db, faults>> /\ Up
  BY DEF Renew
<1>2. /\ c = next /\ c \in Conns /\ stage[c] # "made" /\ ~armed
      /\ \A x \in Workers \ {w} : work[x].pc \notin AcceptLabels
  BY <1>1 DEF IInv, Acceptor, TypeOK, AcceptLabels
<1>3. PICK d \in Unused :
        /\ next' = d
        /\ session' = [session EXCEPT ![d] = Opened]
        /\ IF stage[c] = "idle" /\ Handling(c) = {}
           THEN /\ stage' = [stage EXCEPT ![c] = "gone", ![d] = "made"]
                /\ process' = Destroyed(c)
           ELSE stage' = [stage EXCEPT ![d] = "made"] /\ UNCHANGED process
  BY DEF Renew
<1>4. d \in Conns /\ stage[d] = "gone" /\ d # c
  BY <1>2 DEF Unused, IInv, Held
<1>5. /\ work'[w].pc = "arm" /\ work'[w].conn = c
      /\ \A x \in Workers \ {w} : work'[x] = work[x]
      /\ WorkType'
  BY <1>1, GotoOK DEF IInv, AcceptLabels, Free
<1>6. \A x \in Workers :
        /\ work'[x].pc \in ReadLabels => work'[x] = work[x] /\ x # w
        /\ work[x].pc \in ReadLabels => work'[x] = work[x] /\ x # w
  BY <1>1, <1>5 DEF ReadLabels
<1> DEFINE Last == stage[c] = "idle" /\ Handling(c) = {}
<1>7. /\ stage' \in [Conns -> {"gone", "made", "idle", "read", "write"}]
      /\ stage'[d] = "made"
      /\ stage'[c] = IF Last THEN "gone" ELSE stage[c]
      /\ \A e \in Conns \ {c, d} : stage'[e] = stage[e]
  BY <1>2, <1>3, <1>4 DEF IInv, TypeOK
<1>8. process' \in {"up", "crashed"}
  BY <1>3 DEF IInv, TypeOK, Destroyed
<1>9. session' \in [Conns -> {"null", "open", "lost"}]
  BY <1>3, <1>4 DEF IInv, TypeOK, Opened
<1>10. TypeOK'
  BY <1>1, <1>3, <1>4, <1>5, <1>7, <1>8, <1>9 DEF IInv, TypeOK, WorkType, Free
<1>11. Acceptor'
  BY <1>1, <1>2, <1>3, <1>5, <1>7 DEF Acceptor, AcceptLabels
<1>12. Held'
  <2>1. \A e \in Conns : stage'[e] = "made" => e = d
    BY <1>2, <1>7 DEF IInv, Held
  <2> QED BY <1>3, <1>7, <2>1 DEF Held
<1>13. Handlers'
  <2>1. \A x \in Workers : work[x].pc \in ReadLabels => stage'[work[x].conn] = stage[work[x].conn]
    <3> SUFFICES ASSUME NEW x \in Workers, work[x].pc \in ReadLabels
                 PROVE  stage'[work[x].conn] = stage[work[x].conn]
      OBVIOUS
    <3>1. work[x].conn \in Conns /\ stage[work[x].conn] = "idle"
      BY DEF IInv, Handlers, TypeOK, Free, ReadLabels
    <3>2. work[x].conn = c => x \in Handling(c)
      BY DEF Handling
    <3> QED BY <1>4, <1>7, <3>1, <3>2
  <2> QED BY <1>6, <2>1 DEF IInv, Handlers
<1>14. Kept'
  <2> SUFFICES ASSUME NEW e \in Conns, stage'[e] = "idle"
               PROVE  \E x \in Workers : work'[x].pc \in ReadLabels /\ work'[x].conn = e
    BY DEF Kept
  <2>1. CASE e = c
    <3>1. PICK x \in Workers : work[x].conn = c /\ work[x].pc \in ReadLabels \cup {"start"}
      BY <1>7, <2>1 DEF Handling
    <3>2. work[x].pc \in ReadLabels
      BY <1>1, <1>2, <3>1 DEF AcceptLabels
    <3> QED BY <1>6, <2>1, <3>1, <3>2
  <2>2. CASE e # c
    <3>1. stage[e] = "idle" /\ e # next
      BY <1>2, <1>4, <1>7, <2>2
    <3> QED BY <1>1, <1>6, <3>1 DEF IInv, Kept
  <2> QED BY <2>1, <2>2
<1> QED BY <1>10, <1>11, <1>12, <1>13, <1>14 DEF IInv

LEMMA ArmStep ==
  ASSUME IInv, NEW w \in Workers, Arm(w)
  PROVE  IInv'
<1>1. /\ work[w].pc = "arm" /\ armed' = TRUE /\ Release(w)
      /\ UNCHANGED <<stage, session, next, db, process, faults>>
  BY DEF Arm
<1>2. /\ stage[next] = "made"
      /\ \A x \in Workers \ {w} : work[x].pc \notin AcceptLabels
  BY <1>1 DEF IInv, Acceptor, AcceptLabels
<1>3. /\ work'[w].pc = "free"
      /\ \A x \in Workers \ {w} : work'[x] = work[x]
      /\ WorkType'
  BY <1>1, ReleaseOK DEF IInv
<1>4. \A x \in Workers :
        /\ work'[x].pc \notin AcceptLabels
        /\ work'[x].pc \in ReadLabels => work'[x] = work[x]
        /\ work[x].pc \in ReadLabels => work'[x] = work[x]
  BY <1>1, <1>2, <1>3 DEF ReadLabels, AcceptLabels
<1>5. TypeOK'
  BY <1>1, <1>3 DEF IInv, TypeOK, WorkType, Free
<1>6. Acceptor' /\ Held'
  BY <1>1, <1>2, <1>4 DEF IInv, Acceptor, Held
<1>7. Handlers' /\ Kept'
  BY <1>1, <1>4 DEF IInv, Handlers, Kept, Up
<1> QED BY <1>5, <1>6, <1>7 DEF IInv

-----------------------------------------------------------------------------
\* The completion of an operation: the connection was used by nobody.
LEMMA EndStep ==
  ASSUME IInv, NEW c \in Conns, stage[c] \in {"read", "write"}, Ended(c),
         UNCHANGED <<session, next, armed, work, db, faults>>
  PROVE  IInv'
<1>1. /\ StageType' /\ process' \in {"up", "crashed"}
      /\ \A d \in Conns \ {c} : stage'[d] = stage[d]
      /\ stage'[c] = IF next = c THEN "idle" ELSE "gone"
      /\ process' = "up" => process = "up"
  BY EndedOK DEF IInv
<1>2. TypeOK'
  BY <1>1 DEF IInv, TypeOK, StageType, Free
<1>3. (stage'[next] = "made") <=> (stage[next] = "made")
  BY <1>1 DEF IInv, TypeOK
<1>4. Acceptor'
  BY <1>3 DEF IInv, Acceptor
<1>5. Held'
  <2>1. stage'[next] # "gone" /\ \A d \in Conns : stage'[d] = "made" => d = next
    BY <1>1 DEF IInv, Held, TypeOK
  <2> QED BY <1>3, <2>1 DEF IInv, Held
<1>6. Handlers'
  <2>1. \A x \in Workers : work[x].pc \in ReadLabels => work[x].conn \in Conns /\ work[x].conn # c
    BY DEF IInv, Handlers, TypeOK, Free, ReadLabels
  <2> QED BY <1>1, <2>1 DEF IInv, Handlers
<1>7. Kept'
  BY <1>1 DEF IInv, Kept, Up
<1> QED BY <1>2, <1>4, <1>5, <1>6, <1>7 DEF IInv

LEMMA ReadStep ==
  ASSUME IInv, NEW w \in Workers, NEW c \in Conns, Read(w, c)
  PROVE  IInv'
<1>1. stage[c] = "read" /\ Free(w) /\ UNCHANGED <<session, next, armed, db, faults>>
  BY DEF Read
<1>2. CASE Ended(c) /\ UNCHANGED work
  BY <1>1, <1>2, EndStep
<1>3. CASE stage' = [stage EXCEPT ![c] = "idle"] /\ Take(w, "parse", c) /\ UNCHANGED process
  <2>1. /\ work'[w].pc = "parse" /\ work'[w].conn = c
        /\ \A x \in Workers \ {w} : work'[x] = work[x]
        /\ WorkType'
    BY <1>3, TakeOK DEF IInv, ReadLabels
  <2>2. stage'[c] = "idle" /\ \A d \in Conns \ {c} : stage'[d] = stage[d]
    BY <1>3 DEF IInv, TypeOK
  <2>3. \A x \in Workers :
          /\ work'[x].pc \in AcceptLabels => work'[x] = work[x]
          /\ work[x].pc \in AcceptLabels => work'[x] = work[x]
          /\ work[x].pc \in ReadLabels => work'[x] = work[x]
    BY <1>1, <2>1 DEF AcceptLabels, ReadLabels, Free
  <2>4. TypeOK'
    BY <1>1, <1>3, <2>1 DEF IInv, TypeOK, WorkType, Free
  <2>5. next' = next /\ next \in Conns /\ (stage'[next] = "made" <=> stage[next] = "made")
    BY <1>1, <2>2 DEF IInv, TypeOK
  <2>6. Acceptor'
    BY <1>1, <2>3, <2>5 DEF IInv, Acceptor
  <2>7. Held'
    <3>1. stage'[next] # "gone" /\ \A d \in Conns : stage'[d] = "made" => d = next
      BY <2>2, <2>5 DEF IInv, Held
    <3>2. stage'[next] = "made" \/ \E x \in Workers : work'[x].pc = "renew"
      BY <2>3, <2>5 DEF IInv, Held, AcceptLabels
    <3> QED BY <2>5, <3>1, <3>2 DEF Held
  <2>8. Handlers'
    <3>1. \A x \in Workers : work[x].pc \in ReadLabels => work[x].conn \in Conns /\ work[x].conn # c
      BY <1>1 DEF IInv, Handlers, TypeOK, Free, ReadLabels
    <3>2. \A x \in Workers \ {w} : work'[x].pc \in ReadLabels =>
            work[x].pc \in ReadLabels /\ work'[x].conn = work[x].conn /\ work'[x].conn # c
      BY <2>1, <3>1
    <3> QED BY <2>1, <2>2, <3>1, <3>2 DEF IInv, Handlers
  <2>9. Kept'
    BY <1>1, <1>3, <2>1, <2>2, <2>3 DEF IInv, Kept, Up, ReadLabels
  <2> QED BY <2>4, <2>6, <2>7, <2>8, <2>9 DEF IInv
<1> QED BY <1>2, <1>3 DEF Read

\* The phases of a request, each of which may answer it.
LEMMA RespondStep ==
  ASSUME IInv, NEW w \in Workers, work[w].pc \in ReadLabels, Respond(w),
         UNCHANGED <<session, next, armed, db, process, faults>>
  PROVE  IInv'
<1>1. ~Free(w)
  BY DEF Free, ReadLabels
<1> QED BY <1>1, RespondOK, LetGo DEF IInv

LEMMA RequestStep ==
  ASSUME IInv, NEW w \in Workers,
         Parse(w) \/ Status(w) \/ Authenticate(w) \/ Operation(w)
  PROVE  IInv'
<1>1. work[w].pc \in ReadLabels /\ UNCHANGED <<session, next, armed, db, process, faults>>
  BY DEF Parse, Status, Authenticate, Operation, ReadLabels
<1>2. CASE Respond(w)
  BY <1>1, <1>2, RespondStep
<1>3. CASE \E label \in ReadLabels : Goto(w, label) /\ UNCHANGED stage
  BY <1>1, <1>3, GoesOn
<1>4. CASE stage' = [stage EXCEPT ![work[w].conn] = "read"] /\ Release(w)
  <2>1. work[w].conn \in Conns
    BY <1>1 DEF IInv, TypeOK, Free, ReadLabels
  <2>2. StageType' /\ stage'[work[w].conn] = "read"
        /\ \A d \in Conns \ {work[w].conn} : stage'[d] = stage[d]
    BY <1>4, <2>1 DEF StageType, IInv, TypeOK
  <2> QED BY <1>1, <1>4, <2>2, ReleaseOK, LetGo DEF IInv
<1> QED BY <1>2, <1>3, <1>4 DEF Parse, Status, Authenticate, Operation, ReadLabels

LEMMA DatabaseStep ==
  ASSUME IInv, DatabaseDown \/ DatabaseUp
  PROVE  IInv'
<1>1. UNCHANGED <<stage, next, armed, work, process>>
  BY DEF DatabaseDown, DatabaseUp
<1>2. /\ session' \in [Conns -> {"null", "open", "lost"}]
      /\ db' \in BOOLEAN
      /\ faults' \in 0 .. MaxFaults
  <2>1. CASE DatabaseDown
    <3>1. Fault /\ db' = FALSE
      BY <2>1 DEF DatabaseDown
    <3>2. session' \in [Conns -> {"null", "open", "lost"}]
      BY <2>1 DEF DatabaseDown, IInv, TypeOK
    <3> QED BY <3>1, <3>2, FaultOK DEF IInv
  <2>2. CASE DatabaseUp
    BY <2>2 DEF DatabaseUp, IInv, TypeOK
  <2> QED BY <2>1, <2>2
<1>4. TypeOK'
  BY <1>1, <1>2 DEF IInv, TypeOK, Free
<1>3. Acceptor' /\ Held' /\ Handlers' /\ Kept'
  BY <1>1 DEF IInv, Acceptor, Held, Handlers, Kept, Up
<1> QED BY <1>3, <1>4 DEF IInv

-----------------------------------------------------------------------------
LEMMA InitIInv == Init => IInv
<1> SUFFICES ASSUME Init PROVE IInv
  OBVIOUS
<1>1. TypeOK
  BY HttpAssumption DEF Init, TypeOK, Opened, Free
<1>2. Acceptor /\ Handlers
  BY DEF Init, Acceptor, Handlers, AcceptLabels, ReadLabels
<1>3. Held /\ Kept
  BY DEF Init, Held, Kept
<1> QED BY <1>1, <1>2, <1>3 DEF IInv

LEMMA InvStep == ASSUME IInv, [Next]_vars PROVE IInv'
<1>1. CASE \E w \in Workers : Accept(w) \/ Run(w)
  BY <1>1, AcceptStep, StartStep, RenewStep, ArmStep, RequestStep DEF Run
<1>2. CASE \E w \in Workers, c \in Conns : Read(w, c) \/ Written(w, c)
  <2>1. PICK w \in Workers, c \in Conns : Read(w, c) \/ Written(w, c)
    BY <1>2
  <2>2. CASE Written(w, c)
    BY <2>2, EndStep DEF Written
  <2> QED BY <2>1, <2>2, ReadStep
<1>3. CASE DatabaseDown \/ DatabaseUp
  BY <1>3, DatabaseStep
<1>4. CASE UNCHANGED vars
  BY <1>4 DEF vars, IInv, TypeOK, Free, Acceptor, Held, Handlers, Kept, Up
<1> QED BY <1>1, <1>2, <1>3, <1>4 DEF Next

LEMMA Invariant == Spec => []IInv
BY InitIInv, InvStep, PTL DEF Spec

\* The variables of HttpServer keep their types.
THEOREM TypeCorrect == Spec => []TypeOK
<1>1. IInv => TypeOK
  BY DEF IInv
<1> QED BY <1>1, Invariant, PTL

\* A set of which all elements are equal.
LEMMA AtMostOne ==
  ASSUME NEW S, \A x, y \in S : x = y
  PROVE  Cardinality(S) <= 1
<1>1. CASE S = {}
  BY <1>1, FS_EmptySet
<1>2. CASE S # {}
  <2>1. PICK x : S = {x}
    BY <1>2
  <2> QED BY <2>1, FS_Singleton
<1> QED BY <1>1, <1>2

\* handle_accept() needs no lock: at most one thread is in it, and none while
\* an accept is outstanding (server.cpp:63-73).
THEOREM AcceptedAlone == Spec => []AcceptAlone
<1>1. IInv => AcceptAlone
  <2> SUFFICES ASSUME IInv PROVE AcceptAlone
    OBVIOUS
  <2>1. Cardinality(Accepting) <= 1
    BY AtMostOne DEF IInv, Acceptor, Accepting
  <2> QED BY <2>1 DEF IInv, Acceptor, Accepting, AcceptAlone
<1> QED BY <1>1, Invariant, PTL

\* One thread at a time uses a connection, and only one that was not
\* destroyed and that no operation is outstanding on (connection.cpp:39-108).
THEOREM UsedAlone == Spec => []ConnectionUsedAlone
<1>1. IInv => ConnectionUsedAlone
  <2> SUFFICES ASSUME IInv, NEW c \in Conns
               PROVE  /\ Cardinality(Handling(c)) <= 1
                      /\ Handling(c) # {} => stage[c] \in {"made", "idle"}
    BY DEF ConnectionUsedAlone
  <2>1. \A x \in Workers : work[x].pc = "start" => stage[work[x].conn] = "made"
    BY DEF IInv, Acceptor, AcceptLabels
  <2>2. \A x \in Workers : work[x].pc \in ReadLabels => stage[work[x].conn] = "idle"
    BY DEF IInv, Handlers
  <2>3. \A x, y \in Handling(c) : x = y
    <3> SUFFICES ASSUME NEW x \in Handling(c), NEW y \in Handling(c) PROVE x = y
      OBVIOUS
    <3>1. CASE work[x].pc = "start"
      <4>1. work[y].pc = "start"
        BY <2>1, <2>2, <3>1 DEF Handling
      <4> QED BY <3>1, <4>1 DEF IInv, Acceptor, AcceptLabels, Handling
    <3>2. CASE work[x].pc \in ReadLabels
      <4>1. work[y].pc \in ReadLabels
        BY <2>1, <2>2, <3>2 DEF Handling
      <4> QED BY <3>2, <4>1 DEF IInv, Handlers, Handling
    <3> QED BY <3>1, <3>2 DEF Handling
  <2> QED BY <2>1, <2>2, <2>3, AtMostOne DEF Handling
<1> QED BY <1>1, Invariant, PTL

\* No connection object is lost: whoever may destroy it still refers to it.
THEOREM NoneLeaked == Spec => []NothingLeaked
<1>1. IInv => NothingLeaked
  BY DEF IInv, Held, Kept, NothingLeaked, Handling
<1> QED BY <1>1, Invariant, PTL
=============================================================================
