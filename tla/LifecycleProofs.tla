-------------------------- MODULE LifecycleProofs --------------------------
(***************************************************************************)
(* Proofs about Lifecycle, for any number of HTTP threads and whenever the *)
(* signal comes.                                                           *)
(***************************************************************************)
EXTENDS Lifecycle, TLAPS, WellFoundedInduction

\* Where the steps of srv_main() that matter lie in its list.
LEMMA Lines ==
  /\ \A t \in Threads : StartAt[t] \in 1 .. 5 /\ JoinAt[t] \in 8 .. 16
  /\ \A t \in Looping : StopAt[t] \in 9 .. 15 
  /\ \A p \in Pollers : InterruptAt[p] \in 10 .. 13 
  /\ \A o \in Objects : DeleteAt[o] \in 17 .. 23
  /\ \A t \in Threads : t # "log" => JoinAt[t] < StopAt["log"]
  /\ StartAt["http"] = 5 /\ StopAt["log"] = 15 /\ StopAt["http"] = 7 /\ JoinAt["log"] = 16
BY DEF Threads, Looping, Pollers, Objects, StartAt, JoinAt, StopAt, InterruptAt, DeleteAt

\* A thread that srv_main() has joined has ended, server::run() has joined its
\* own threads, and the logging thread ends only once it was told to stop.
JoinedDone == \A t \in Threads : main > JoinAt[t] => pc[t] = "done"
ServerDone == pc["http"] = "done" => \A w \in Workers : wpc[w] = "done"
LogRuns ==
  /\ pc["log"] \in {"test", "update", "sleep"} /\ ~running["log"] =>
       main > StopAt["log"]
  /\ pc["log"] \in {"end", "done"} => main > StopAt["log"]
\* Until it is started the server has no thread that was done.
Unstarted == main <= StartAt["http"] => pc["http"] = "unborn"
IInv == TypeOK /\ Unstarted /\ JoinedDone /\ ServerDone /\ LogRuns

LEMMA TypeStep == ASSUME TypeOK, [Next]_vars PROVE TypeOK'
<1>0. MaxFaults \in Nat
  BY LifecycleAssumption
<1>1. CASE MainStep
  <2>1. CASE Open \/ StopServer \/ End
    <3>1. ioStopped' \in BOOLEAN
      <4>1. ioStopped' = ioStopped \/ ioStopped' = TRUE
        BY <2>1, Zenon DEF Open, StopServer, End, threadVars
      <4> QED
        BY <4>1, Zenon DEF TypeOK
    <3>2. /\ main' \in 0 .. EndAt /\ process' \in {"up", "exited", "crashed"}
          /\ faults' \in 0 .. MaxFaults
      BY <1>0, <2>1 DEF TypeOK, Open, StopServer, End, NextLine, Fault, OpenAt,
         StopAt, EndAt
    <3>3. UNCHANGED <<file, pc, wpc, running, intr, session, list, db>>
      BY <2>1 DEF Open, StopServer, End, threadVars, data
    <3> QED
      BY <3>1, <3>2, <3>3 DEF TypeOK
  <2>2. ASSUME NEW t \in Threads, Start(t) PROVE TypeOK'
    BY <2>2, Lines DEF TypeOK, Start, NextLine, data, EndAt
  <2>3. ASSUME NEW t \in Threads, Join(t) PROVE TypeOK'
    BY <2>3, Lines DEF TypeOK, Join, NextLine, threadVars, data, EndAt
  <2>4. ASSUME NEW t \in Looping, Stop(t) PROVE TypeOK'
    <3>1. main' \in 0 .. EndAt
      BY <2>4, Lines DEF TypeOK, Stop, NextLine, data, EndAt
    <3>2. running' \in [Looping -> BOOLEAN]
      BY <2>4 DEF TypeOK, Stop, Stopped
    <3> QED
      BY <2>4, <3>1, <3>2 DEF TypeOK, Stop, NextLine, data
  <2>5. ASSUME NEW p \in Pollers, Interrupt(p) PROVE TypeOK'
    BY <2>5, Lines DEF TypeOK, Interrupt, Interrupted, NextLine, data, EndAt
  <2>6. ASSUME NEW o \in Objects, Delete(o) PROVE TypeOK'
    BY <2>6, Lines DEF TypeOK, Delete, NextLine, threadVars, data, EndAt
  <2>7. CASE Initialize
    <3>1. UNCHANGED <<pc, running, intr, list, db, ioStopped>>
      BY <2>7 DEF Initialize
    <3>4. file' \in Files \cup {Closed}
      BY <2>7, Zenon DEF Initialize
    <3>5. wpc' \in [Workers -> {"unborn", "run", "handler", "done"}]
      BY <2>7, Zenon DEF Initialize, TypeOK
    <3>2. session' \in [Pollers -> Sessions]
      <4>1. (IF db THEN {"none", "open"} ELSE {"none"}) \subseteq Sessions
        BY Zenon DEF Sessions
      <4>2. CASE session' \in [Pollers -> IF db THEN {"none", "open"} ELSE {"none"}]
        <5> DEFINE S == IF db THEN {"none", "open"} ELSE {"none"}
        <5> HIDE DEF S
        <5> QED
          BY <4>1, <4>2 DEF S
      <4>3. CASE UNCHANGED session
        BY <4>3 DEF TypeOK
      <4> QED
        BY <2>7, <4>2, <4>3, Zenon DEF Initialize
    <3>3. /\ main' \in 0 .. EndAt /\ process' \in {"up", "exited", "crashed"}
          /\ faults' \in 0 .. MaxFaults
      BY <1>0, <2>7 DEF TypeOK, Initialize, NextLine, Fault, EndAt
    <3> QED
      BY <3>1, <3>2, <3>3, <3>4, <3>5 DEF TypeOK
  <2> QED
    BY <1>1, <2>1, <2>2, <2>3, <2>4, <2>5, <2>6, <2>7 DEF MainStep
<1>2. CASE Signal
  BY <1>2 DEF TypeOK, Signal, NextLine, threadVars, data, EndAt, WaitAt
<1>3. ASSUME NEW t \in Looping, LoopStep(t) \/ Wake(t) PROVE TypeOK'
  <2>0. t \in Threads
    BY DEF Looping, Threads
  <2>1. CASE Run(t) \/ Finish(t)
    BY <2>0, <2>1 DEF TypeOK, Run, Finish, Goto, Others, data
  <2>2. CASE Test(t) \/ Wake(t)
    BY <2>0, <2>2 DEF TypeOK, Test, Wake, Goto, Others, data
  <2>3. CASE t \in Pollers /\ Update(t)
    <3>1. Reopened(t) \in Sessions
      <4>1. session[t] \in Sessions
        BY <2>3 DEF TypeOK
      <4> QED
        BY <4>1, Zenon DEF Reopened, Sessions
    <3>2. Fetched[Reopened(t)] \in Lists
      BY <3>1 DEF Fetched, Sessions, Lists
    <3>3. session' \in [Pollers -> Sessions] /\ list' \in [Pollers -> Lists]
      <4> DEFINE r == Reopened(t)
                 f == Fetched[r]
      <4>1. \/ session' = [session EXCEPT ![t] = r] /\ list' = [list EXCEPT ![t] = f]
            \/ UNCHANGED <<session, list>>
        BY <2>3 DEF Update
      <4> HIDE DEF r, f
      <4> QED
        BY <3>1, <3>2, <4>1 DEF TypeOK, r, f
    <3>4. UNCHANGED <<file, db>>
      BY <2>3 DEF Update
    <3>5. /\ pc' \in [Threads -> {"unborn", "start", "test", "update", "sleep", "end",
                                  "join", "done"}]
          /\ process' \in {"up", "exited", "crashed"} /\ faults' \in 0 .. MaxFaults
          /\ UNCHANGED <<running, intr, main, wpc, ioStopped>>
      BY <1>0, <2>0, <2>3 DEF TypeOK, Update, Goto, Others, Fault
    <3> QED
      BY <3>3, <3>4, <3>5 DEF TypeOK
  <2>4. CASE t = "log" /\ Flush
    BY <2>0, <2>4 DEF TypeOK, Flush, Goto, Others, data
  <2> QED
    BY <1>3, <2>1, <2>2, <2>3, <2>4 DEF LoopStep
<1>4. ASSUME NEW p \in Pollers, WakeInterrupted(p) PROVE TypeOK'
  BY <1>4 DEF TypeOK, WakeInterrupted, Goto, Others, data, Threads, Looping
<1>5. CASE ServerStep
  BY <1>5 DEF ServerStep, AllSpawned, ServerRunEnds, Spawn, Goto, WorkerGoto,
     ServerOnly, data, TypeOK
<1>6. ASSUME NEW w \in Workers, WorkerStep(w) PROVE TypeOK'
  BY <1>6 DEF WorkerStep, Handle, Handled, Leave, WorkerGoto, ServerOnly, data, TypeOK
<1>7. CASE UNCHANGED vars
  BY <1>7 DEF vars, TypeOK
<1>8. CASE DatabaseDown \/ DatabaseUp
  <2>1. db' \in BOOLEAN
    BY <1>8, Zenon DEF DatabaseDown, DatabaseUp
  <2>2. session' \in [Pollers -> Sessions] /\ faults' \in 0 .. MaxFaults
    BY <1>0, <1>8 DEF TypeOK, DatabaseDown, DatabaseUp, Sessions, Fault
  <2>3. UNCHANGED <<file, main, process, pc, wpc, running, intr, list, ioStopped>>
    BY <1>8 DEF DatabaseDown, DatabaseUp
  <2> QED
    BY <2>1, <2>2, <2>3 DEF TypeOK
<1> QED
  BY <1>1, <1>2, <1>3, <1>4, <1>5, <1>6, <1>7, <1>8 DEF Next

LEMMA InitTypes == Init => TypeOK
<1> SUFFICES ASSUME Init PROVE TypeOK
  OBVIOUS
<1>1. ioStopped \in BOOLEAN /\ file \in Files \cup {Closed}
  BY Zenon DEF Init
<1>2. running \in [Looping -> BOOLEAN]
  BY DEF Init
<1>3. faults \in 0 .. MaxFaults /\ main \in 0 .. EndAt
  BY LifecycleAssumption DEF Init, EndAt
<1>4. db \in BOOLEAN
  BY Zenon DEF Init
<1>5. session \in [Pollers -> Sessions] /\ list \in [Pollers -> Lists]
  BY DEF Init, Sessions, Lists
<1>6. /\ process \in {"up", "exited", "crashed"} /\ intr \subseteq Pollers
      /\ pc \in [Threads -> {"unborn", "start", "test", "update", "sleep", "end",
                             "join", "done"}]
      /\ wpc \in [Workers -> {"unborn", "run", "handler", "done"}]
  BY DEF Init
<1> QED
  BY <1>1, <1>2, <1>3, <1>4, <1>5, <1>6 DEF TypeOK

\* The type invariant.
THEOREM TypeCorrect == Spec => []TypeOK
  BY InitTypes, TypeStep, PTL DEF Spec

-----------------------------------------------------------------------------
LEMMA InvStep == ASSUME IInv, [Next]_vars PROVE IInv'
<1>0. TypeOK /\ TypeOK'
  BY TypeStep DEF IInv
<1>1. CASE MainStep
  <2>0. "log" \in Threads /\ "log" \in Looping /\ "http" \in Threads /\ "http" \notin Looping
    BY DEF Threads, Looping, Pollers
  <2>1. CASE Open \/ StopServer \/ End
    BY <1>0, <2>1, <2>0, Lines DEF IInv, TypeOK, Unstarted, JoinedDone, ServerDone, LogRuns, Open, StopServer,
       End, NextLine, threadVars, data, OpenAt
  <2>2. ASSUME NEW t \in Threads, Start(t) PROVE IInv'
    BY <1>0, <2>2, <2>0, Lines DEF IInv, TypeOK, Unstarted, JoinedDone, ServerDone, LogRuns, Start, NextLine
  <2>3. ASSUME NEW t \in Threads, Join(t) PROVE IInv'
    <3>1. \A u \in Threads : JoinAt[u] = JoinAt[t] => u = t
      BY DEF JoinAt, Threads, Looping, Pollers
    <3> QED
      BY <1>0, <2>3, <2>0, <3>1, Lines DEF IInv, TypeOK, Unstarted, JoinedDone, ServerDone, LogRuns, Join,
         Joinable, NextLine, threadVars, data
  <2>4. ASSUME NEW t \in Looping, Stop(t) PROVE IInv'
    <3>1. \A u \in Threads : JoinAt[u] # StopAt[t]
      BY DEF JoinAt, StopAt, Threads, Looping, Pollers
    <3> QED
      BY <1>0, <2>4, <2>0, <3>1, Lines DEF IInv, TypeOK, Unstarted, JoinedDone, ServerDone, LogRuns, Stop,
         Stopped, NextLine
  <2>5. ASSUME NEW p \in Pollers, Interrupt(p) PROVE IInv'
    <3>1. \A u \in Threads : JoinAt[u] # InterruptAt[p]
      BY DEF JoinAt, InterruptAt, Threads, Looping, Pollers
    <3> QED
      BY <1>0, <2>5, <2>0, <3>1, Lines DEF IInv, TypeOK, Unstarted, JoinedDone, ServerDone, LogRuns, Interrupt,
         NextLine
  <2>6. ASSUME NEW o \in Objects, Delete(o) PROVE IInv'
    BY <1>0, <2>6, <2>0, Lines DEF IInv, TypeOK, Unstarted, JoinedDone, ServerDone, LogRuns, Delete,
       NextLine, threadVars, data
  <2>7. CASE Initialize
    BY <1>0, <2>7, <2>0, Lines DEF IInv, TypeOK, Unstarted, JoinedDone, ServerDone, LogRuns,
       Initialize, NextLine
  <2> QED
    BY <1>1, <2>1, <2>2, <2>3, <2>4, <2>5, <2>6, <2>7 DEF MainStep
<1>2. CASE Signal
  BY <1>0, <1>2, Lines DEF IInv, TypeOK, Unstarted, JoinedDone, ServerDone, LogRuns, Signal,
     NextLine, threadVars, data, WaitAt, Threads, Looping
<1>3. ASSUME NEW t \in Looping, LoopStep(t) \/ Wake(t) PROVE IInv'
  <2>0. /\ t \in Threads /\ "log" \in Threads /\ "log" \in Looping
        /\ "http" \in Threads /\ t # "http"
    BY DEF Threads, Looping, Pollers
  <2>1. CASE Run(t)
    BY <1>0, <2>0, <2>1 DEF IInv, TypeOK, Unstarted, JoinedDone, ServerDone, LogRuns, Run, Goto, Others, data
  <2>2. CASE Test(t)
    BY <1>0, <2>0, <2>2 DEF IInv, TypeOK, Unstarted, JoinedDone, ServerDone, LogRuns, Test, Goto, Others, data
  <2>3. CASE t \in Pollers /\ Update(t)
    BY <1>0, <2>0, <2>3 DEF IInv, TypeOK, Unstarted, JoinedDone, ServerDone, LogRuns, Update, Goto, Others, data
  <2>4. CASE Wake(t)
    BY <1>0, <2>0, <2>4 DEF IInv, TypeOK, Unstarted, JoinedDone, ServerDone, LogRuns, Wake, Goto, Others, data
  <2>5. CASE Finish(t)
    BY <1>0, <2>0, <2>5 DEF IInv, TypeOK, Unstarted, JoinedDone, ServerDone, LogRuns, Finish, Goto, Others, data
  <2>6. CASE t = "log" /\ Flush
    BY <1>0, <2>0, <2>6 DEF IInv, TypeOK, Unstarted, JoinedDone, ServerDone, LogRuns, Flush,
       Goto, Others, data
  <2> QED
    BY <1>3, <2>1, <2>2, <2>3, <2>4, <2>5, <2>6 DEF LoopStep
<1>4. ASSUME NEW p \in Pollers, WakeInterrupted(p) PROVE IInv'
  <2>0. p \in Threads /\ p # "log" /\ p # "http" /\ "log" \in Threads /\ "http" \in Threads
    BY DEF Pollers, Threads, Looping
  <2> QED
    BY <1>0, <1>4, <2>0 DEF IInv, TypeOK, Unstarted, JoinedDone, ServerDone, LogRuns,
       WakeInterrupted, Goto, Others, data
<1>5. CASE ServerStep
  <2>0. "http" \in Threads /\ "log" \in Threads
    BY DEF Threads, Looping
  <2> QED
    BY <1>0, <1>5, <2>0 DEF IInv, TypeOK, Unstarted, JoinedDone, ServerDone, LogRuns, ServerStep,
       AllSpawned, ServerRunEnds, WorkersJoined, Spawn, Goto, WorkerGoto, ServerOnly, data
<1>6. ASSUME NEW w \in Workers, WorkerStep(w) PROVE IInv'
  BY <1>0, <1>6 DEF IInv, TypeOK, Unstarted, JoinedDone, ServerDone, LogRuns, WorkerStep, Handle,
     Handled, Leave, WorkerGoto, ServerOnly, data
<1>7. CASE UNCHANGED vars
  BY <1>0, <1>7 DEF vars, IInv, Unstarted, JoinedDone, ServerDone, LogRuns
<1>8. CASE DatabaseDown \/ DatabaseUp
  BY <1>0, <1>8 DEF DatabaseDown, DatabaseUp, IInv, Unstarted, JoinedDone, ServerDone, LogRuns
<1> QED
  BY <1>1, <1>2, <1>3, <1>4, <1>5, <1>6, <1>7, <1>8 DEF Next

LEMMA Invariant == Spec => []IInv
<1>1. Init => IInv
  <2> QED
    BY InitTypes, Lines DEF Init, IInv, Unstarted, JoinedDone, ServerDone, LogRuns, Threads, Looping
<1> QED
  BY <1>1, InvStep, PTL DEF Spec

\* Whatever the number of HTTP threads, none of the threads outlives an
\* object it refers to: the joins come before the deletes.
THEOREM NoneUsedAfterDelete == Spec => []NoUseAfterDelete
<1>1. IInv => NoUseAfterDelete
  <2> SUFFICES ASSUME IInv PROVE NoUseAfterDelete
    OBVIOUS
  <2>1. \A t \in Threads : Uses[t] \subseteq Objects
    BY DEF Uses, Threads, Looping, Pollers, Objects
  <2>2. main \in Nat
    BY DEF IInv, TypeOK
  <2>3. \A t \in Threads, o \in Objects : Deleted(o) => pc[t] = "done"
    BY <2>2, Lines DEF IInv, JoinedDone, Deleted
  <2>4. "http" \in Threads
    BY DEF Threads
  <2> QED
    BY <2>1, <2>3, <2>4 DEF NoUseAfterDelete, IInv, ServerDone, Live, WorkerLive
<1> QED
  BY <1>1, Invariant, PTL

\* The logging thread is the last to end, so every message is still taken.
THEOREM LogEndsLast == Spec => []LogOutlivesThreads
<1>1. IInv => LogOutlivesThreads
  <2> SUFFICES ASSUME IInv, pc["log"] = "done"
               PROVE  /\ \A t \in Threads : ~Live(t)
                      /\ \A w \in Workers : ~WorkerLive(w)
    BY DEF LogOutlivesThreads
  <2>1. main \in Nat /\ main > StopAt["log"]
    BY DEF IInv, TypeOK, LogRuns
  <2>2. \A t \in Threads : pc[t] = "done"
    BY <2>1, Lines DEF IInv, JoinedDone
  <2>3. "http" \in Threads
    BY DEF Threads
  <2> QED
    BY <2>2, <2>3 DEF IInv, ServerDone, Live, WorkerLive
<1> QED
  BY <1>1, Invariant, PTL

-----------------------------------------------------------------------------
\* What holds of 0 and, with n, of n + 1 holds of every natural number.
LEMMA Induction ==
  ASSUME NEW S, 0 \in S, \A n \in Nat : n \in S => n + 1 \in S
  PROVE  \A n \in Nat : n \in S
<1> DEFINE R == {p \in Nat \X Nat : p[1] < p[2]}
           T == {n \in Nat : n \notin S}
<1>1. IsWellFoundedOn(R, Nat)
  BY NatLessThanWellFounded, Zenon DEF OpToRel
<1> SUFFICES ASSUME T # {} PROVE FALSE
  OBVIOUS
<1>2. PICK m \in T : \A k \in T : ~ (<<k, m>> \in R)
  <2> HIDE DEF R
  <2> QED BY <1>1, WFMin
<1>3. m \in Nat /\ m # 0 /\ m - 1 \in Nat
  OBVIOUS
<1>4. m - 1 \in S
  <2>1. (m - 1) \notin T
    <3>1. <<m - 1, m>> \in R
      BY <1>3
    <3> QED BY <1>2, <3>1
  <2> QED BY <1>3, <2>1
<1> QED BY <1>3, <1>4

Beginning == [set |-> Default, status |-> "reading"]
\* The function that FoldLeft() is defined by, on the first n lines.
Folds(iter, lines, n) ==
  iter = [s \in SUBSET (1 .. n) |->
            IF s = {} THEN Beginning
            ELSE ReadLine(iter[s \ {Max(s)}], lines[Max(s)])]

LEMMA MaxOfInterval ==
  ASSUME NEW n \in Nat, NEW s \in SUBSET (1 .. (n + 1)), n + 1 \in s
  PROVE  Max(s) = n + 1
<1>1. \A y \in s : n + 1 >= y
  OBVIOUS
<1>2. ASSUME NEW x \in s, \A y \in s : x >= y PROVE x = n + 1
  BY <1>2
<1> QED BY <1>1, <1>2, Zenon DEF Max

LEMMA FoldExists == ASSUME NEW lines PROVE \A n \in Nat : \E iter : Folds(iter, lines, n)
<1> DEFINE S == {n \in Nat : \E iter : Folds(iter, lines, n)}
<1>1. 0 \in S
  <2>1. Folds([s \in SUBSET (1 .. 0) |-> Beginning], lines, 0)
    BY DEF Folds
  <2> QED BY <2>1
<1>2. ASSUME NEW n \in Nat, NEW old, Folds(old, lines, n)
      PROVE  \E iter : Folds(iter, lines, n + 1)
  <2> DEFINE iter == [s \in SUBSET (1 .. (n + 1)) |->
                        IF n + 1 \in s THEN ReadLine(old[s \ {n + 1}], lines[n + 1]) ELSE old[s]]
             Rest(s) == IF s = {} THEN Beginning
                        ELSE ReadLine(iter[s \ {Max(s)}], lines[Max(s)])
  <2>1. ASSUME NEW s \in SUBSET (1 .. (n + 1)) PROVE iter[s] = Rest(s)
    <3>1. CASE n + 1 \in s
      <4>1. Max(s) = n + 1
        BY <3>1, MaxOfInterval
      <4>2. s \ {n + 1} \in SUBSET (1 .. (n + 1)) /\ n + 1 \notin s \ {n + 1}
        OBVIOUS
      <4>3. iter[s \ {n + 1}] = old[s \ {n + 1}]
        BY <4>2
      <4> QED BY <3>1, <4>1, <4>3
    <3>2. CASE n + 1 \notin s
      <4>1. s \in SUBSET (1 .. n) /\ iter[s] = old[s]
        BY <3>2
      <4>2. CASE s = {}
        BY <1>2, <4>1, <4>2 DEF Folds
      <4>3. CASE s # {}
        <5>0. DEFINE m == Max(s)
        <5>1. s \ {m} \in SUBSET (1 .. (n + 1)) /\ n + 1 \notin s \ {m}
          BY <3>2
        <5>2. iter[s \ {m}] = old[s \ {m}]
          BY <5>1
        <5>3. old[s] = ReadLine(old[s \ {m}], lines[m])
          BY <1>2, <4>1, <4>3 DEF Folds
        <5> QED BY <4>1, <4>3, <5>2, <5>3
      <4> QED BY <4>2, <4>3
    <3> QED BY <3>1, <3>2
  <2>2. Folds(iter, lines, n + 1)
    <3>1. iter = [s \in SUBSET (1 .. (n + 1)) |-> iter[s]]
      OBVIOUS
    <3> HIDE DEF iter
    <3> QED BY <2>1, <3>1 DEF Folds
  <2> QED BY <2>2
<1>3. \A n \in Nat : n \in S => n + 1 \in S
  BY <1>2
<1> HIDE DEF S
<1>4. \A n \in Nat : n \in S
  BY <1>1, <1>3, Induction
<1> QED BY <1>4 DEF S

\* What was read up to each line, and how the next line changes it.
LEMMA ReadConfigSteps ==
  ASSUME NEW lines, NEW k \in Nat, DOMAIN lines = 1 .. k
  PROVE  \E after :
           /\ after[0] = Beginning /\ after[k] = ReadConfig(lines)
           /\ \A n \in 0 .. (k - 1) : after[n + 1] = ReadLine(after[n], lines[n + 1])
<1> DEFINE iter == CHOOSE i : Folds(i, lines, k)
           after == [n \in 0 .. k |-> iter[1 .. n]]
<1>1. Folds(iter, lines, k)
  BY FoldExists
<1>2. ReadConfig(lines) = iter[1 .. k]
  BY DEF ReadConfig, FoldLeft, MapThenFoldSet, Folds, Beginning
<1> HIDE DEF iter
<1>3. after[0] = Beginning
  <2>1. 1 .. 0 = {} /\ {} \in SUBSET (1 .. k)
    OBVIOUS
  <2> QED BY <1>1, <2>1 DEF Folds
<1>4. ASSUME NEW n \in 0 .. (k - 1) PROVE after[n + 1] = ReadLine(after[n], lines[n + 1])
  <2>1. /\ 1 .. (n + 1) \in SUBSET (1 .. k) /\ 1 .. (n + 1) # {}
        /\ (1 .. (n + 1)) \ {n + 1} = 1 .. n
    OBVIOUS
  <2>2. Max(1 .. (n + 1)) = n + 1
    BY MaxOfInterval
  <2>3. iter[1 .. (n + 1)] = ReadLine(iter[1 .. n], lines[n + 1])
    BY <1>1, <2>1, <2>2 DEF Folds
  <2> QED BY <2>3
<1>5. after[k] = ReadConfig(lines)
  BY <1>2
<1> QED BY <1>3, <1>4, <1>5

-----------------------------------------------------------------------------
\* What the first n lines mean.
At(lines, s, n) == {i \in 1 .. n : lines[i].token = s /\ Counts(lines, i)}
Readable(lines, n) == \A j \in 1 .. n : ~Unreadable(lines[j])
ThrownBy(lines, n) ==
  \E i \in 1 .. n : /\ Unreadable(lines[i]) /\ ~Malformed(lines[i])
                    /\ Readable(lines, i - 1)
Means(c, lines, n) ==
  /\ c.status \in {"reading", "stopped", "thrown"}
  /\ c.status = "reading" <=> Readable(lines, n)
  /\ c.status = "thrown" <=> ThrownBy(lines, n)
  /\ DOMAIN c.set = Settings /\ DOMAIN c = {"set", "status"}
  /\ \A s \in Settings :
       c.set[s] = IF At(lines, s, n) = {} THEN Default[s] ELSE lines[Max(At(lines, s, n))].val

LEMMA MaxIs ==
  ASSUME NEW S, S \subseteq Int, NEW m \in S, \A y \in S : y <= m
  PROVE  Max(S) = m
<1>1. \A y \in S : m >= y
  OBVIOUS
<1>2. ASSUME NEW x \in S, \A y \in S : x >= y PROVE x = m
  BY <1>2
<1> QED BY <1>1, <1>2, Zenon DEF Max

LEMMA EmptyToken == EmptyLine.token \notin Settings /\ ~Unreadable(EmptyLine)
BY DEF EmptyLine, Settings, Booleans, Numbers, Unreadable

LEMMA LineMeans ==
  ASSUME NEW lines, NEW n \in Nat, NEW c, Means(c, lines, n)
  PROVE  Means(ReadLine(c, lines[n + 1]), lines, n + 1)
<1> DEFINE l == lines[n + 1]
           d == ReadLine(c, l)
<1>1. /\ Readable(lines, n + 1) <=> Readable(lines, n) /\ ~Unreadable(l)
      /\ ThrownBy(lines, n + 1) <=>
           ThrownBy(lines, n) \/ (Unreadable(l) /\ ~Malformed(l) /\ Readable(lines, n))
  <2>1. 1 .. (n + 1) = (1 .. n) \cup {n + 1} /\ (n + 1) - 1 = n
    OBVIOUS
  <2> QED BY <2>1 DEF Readable, ThrownBy
<1>2. ASSUME NEW s \in Settings
      PROVE  At(lines, s, n + 1) =
               At(lines, s, n) \cup (IF l.token = s /\ Readable(lines, n + 1) THEN {n + 1} ELSE {})
  BY DEF At, Counts, Readable
<1>3. CASE ~Readable(lines, n)
  <2>1. d = c
    BY <1>3 DEF Means, ReadLine
  <2>2. \A s \in Settings : At(lines, s, n + 1) = At(lines, s, n)
    BY <1>1, <1>2, <1>3
  <2> QED BY <1>1, <1>3, <2>1, <2>2 DEF Means
<1>4. CASE Readable(lines, n) /\ l = EmptyLine
  <2>1. d = c
    BY <1>4 DEF ReadLine
  <2>2. \A s \in Settings : At(lines, s, n + 1) = At(lines, s, n)
    BY <1>2, <1>4, EmptyToken
  <2> QED BY <1>1, <1>4, <2>1, <2>2, EmptyToken DEF Means
<1>5. CASE Readable(lines, n) /\ l # EmptyLine /\ Unreadable(l)
  <2>1. c.status = "reading"
    BY <1>5 DEF Means
  <2>2. Malformed(l) => ~(l.token \in Numbers /\ l.val \notin Numerals)
    BY DEF Malformed, Settings, Numbers, Booleans
  <2>3. \/ d = [c EXCEPT !.status = "stopped"] /\ Malformed(l)
        \/ d = [c EXCEPT !.status = "thrown"] /\ ~Malformed(l)
    BY <1>5, <2>1, <2>2 DEF ReadLine, Unreadable
  <2>6. /\ d.status \in {"stopped", "thrown"} /\ (d.status = "thrown" <=> ~Malformed(l))
        /\ d.set = c.set /\ DOMAIN d = {"set", "status"}
    BY <2>3 DEF Means
  <2>4. ~ThrownBy(lines, n)
    BY <1>5, <2>1 DEF Means
  <2>5. \A s \in Settings : At(lines, s, n + 1) = At(lines, s, n)
    BY <1>1, <1>2, <1>5
  <2> QED BY <1>1, <1>5, <2>4, <2>5, <2>6 DEF Means
<1>6. CASE Readable(lines, n) /\ l # EmptyLine /\ ~Unreadable(l)
  <2>1. c.status = "reading" /\ ~ThrownBy(lines, n)
    BY <1>6 DEF Means
  <2>2. d = [c EXCEPT !.set[l.token] = l.val] /\ l.token \in Settings
    BY <1>6, <2>1 DEF ReadLine, Unreadable, Malformed
  <2>3. /\ d.status = "reading" /\ DOMAIN d = {"set", "status"} /\ DOMAIN d.set = Settings
        /\ \A s \in Settings : d.set[s] = IF s = l.token THEN l.val ELSE c.set[s]
    BY <2>1, <2>2 DEF Means
  <2>4. ASSUME NEW s \in Settings
        PROVE  d.set[s] = IF At(lines, s, n + 1) = {} THEN Default[s]
                          ELSE lines[Max(At(lines, s, n + 1))].val
    <3>1. CASE s = l.token
      <4>1. n + 1 \in At(lines, s, n + 1) /\ At(lines, s, n + 1) \subseteq 1 .. (n + 1)
        BY <1>1, <1>2, <1>6, <3>1 DEF At
      <4>2. Max(At(lines, s, n + 1)) = n + 1
        BY <4>1, MaxIs
      <4> QED BY <2>3, <3>1, <4>1, <4>2
    <3>2. CASE s # l.token
      <4>1. At(lines, s, n + 1) = At(lines, s, n)
        BY <1>2, <3>2
      <4> QED BY <2>3, <3>2, <4>1 DEF Means
    <3> QED BY <3>1, <3>2
  <2> QED BY <1>1, <1>6, <2>1, <2>3, <2>4 DEF Means
<1> QED BY <1>3, <1>4, <1>5, <1>6

\* Reading a file line by line gives what the file means.
LEMMA ReadConfigMeans ==
  ASSUME NEW lines, NEW k \in Nat, DOMAIN lines = 1 .. k
  PROVE  /\ ReadConfig(lines).status = "thrown" <=> Throws(lines)
         /\ \A s \in Settings : ReadConfig(lines).set[s] = Meant(lines, s)
<1>1. PICK after :
           /\ after[0] = Beginning /\ after[k] = ReadConfig(lines)
           /\ \A n \in 0 .. (k - 1) : after[n + 1] = ReadLine(after[n], lines[n + 1])
  BY ReadConfigSteps
<1> DEFINE S == {n \in Nat : n <= k => Means(after[n], lines, n)}
<1>2. 0 \in S
  <2>1. /\ Beginning.set = Default /\ Beginning.status = "reading"
        /\ DOMAIN Beginning = {"set", "status"} /\ DOMAIN Default = Settings
    BY DEF Beginning, Default
  <2>2. 1 .. 0 = {}
    OBVIOUS
  <2> QED BY <1>1, <2>1, <2>2 DEF Means, Readable, ThrownBy, At
<1>3. ASSUME NEW n \in Nat, n \in S PROVE n + 1 \in S
  BY <1>1, <1>3, LineMeans
<1> HIDE DEF S
<1>4. \A n \in Nat : n \in S
  BY <1>2, <1>3, Induction
<1>5. Means(ReadConfig(lines), lines, k)
  BY <1>1, <1>4 DEF S
<1>6. Throws(lines) <=> ThrownBy(lines, k)
  BY DEF Throws, ThrownBy, Readable
<1>7. ASSUME NEW s \in Settings
      PROVE  Meant(lines, s) = IF At(lines, s, k) = {} THEN Default[s]
                               ELSE lines[Max(At(lines, s, k))].val
  BY DEF Meant, At
<1> QED BY <1>5, <1>6, <1>7 DEF Means

-----------------------------------------------------------------------------
\* Until it is read, the file is one of those that there are.
Unread == Up /\ main = 0 => file \in Files

LEMMA MainMoves ==
  ASSUME TypeOK, [Next]_vars
  PROVE  \/ UNCHANGED <<file, main>> 
         \/ Initialize
         \/ main > 0 /\ main' = main + 1 /\ UNCHANGED file
BY Lines DEF TypeOK, Next, vars, MainStep, Open, StopServer, End, Start, Join, Stop, Interrupt, Delete,
   Signal, LoopStep, Run, Test, Finish, Update, Flush, Wake, WakeInterrupted, Others, data, threadVars,
   ServerStep, AllSpawned, ServerRunEnds, Spawn, WorkerStep, Handle, Handled, Leave, ServerOnly,
   DatabaseDown, DatabaseUp, NextLine, OpenAt, StopAt, WaitAt, EndAt

LEMMA UnreadStep == ASSUME TypeOK, Unread, [Next]_vars PROVE Unread'
<1>1. Up' => Up
  BY DEF Next, vars, MainStep, Initialize, Open, StopServer, End, Start, Join, Stop, Interrupt, Delete,
   Signal, LoopStep, Run, Test, Finish, Update, Flush, Wake, WakeInterrupted, Others, data, threadVars,
   ServerStep, AllSpawned, ServerRunEnds, Spawn, WorkerStep, Handle, Handled, Leave, ServerOnly,
   DatabaseDown, DatabaseUp, NextLine, Up
<1>2. CASE UNCHANGED <<file, main>>
  BY <1>1, <1>2 DEF Unread
<1>3. CASE Initialize
  BY <1>1, <1>3 DEF Initialize, NextLine, Unread, Up
<1>4. CASE main > 0 /\ main' = main + 1 /\ UNCHANGED file
  BY <1>4 DEF Unread, TypeOK
<1> QED BY <1>2, <1>3, <1>4, MainMoves

\* The server is started with as many threads as the last line for them says
\* that stands before the first unreadable line (config.cpp:25-118,
\* srv_main.cpp:41 and 99).
THEOREM StartsRight == Spec => StartsAsConfigured
<1> DEFINE Starting ==
             main = 0 /\ main' = 1 =>
               LET chosen == {w \in Workers : wpc'[w] # "done"}
                   meant == Meant(file, "HTTPThreads")
               IN  /\ ~Throws(file)
                   /\ meant # Unset => NumeralOf(Cardinality(chosen)) = meant
<1>1. ASSUME TypeOK, Unread, [Next]_vars, main = 0, main' = 1 PROVE Starting
  <2>1. Initialize /\ Up
    BY <1>1, MainMoves DEF Initialize
  <2>2. PICK k \in Nat : DOMAIN file = 1 .. k
    BY <1>1, <2>1, LifecycleAssumption DEF Unread
  <2> DEFINE config == ReadConfig(file)
  <2>3. /\ config.status = "thrown" <=> Throws(file)
        /\ config.set["HTTPThreads"] = Meant(file, "HTTPThreads")
    BY <2>2, ReadConfigMeans DEF Settings, Numbers
  <2>4. /\ config.status # "thrown"
        /\ \E chosen \in Threading(config.set["HTTPThreads"]) :
             wpc' = [w \in Workers |-> IF w \in chosen THEN "unborn" ELSE "done"]
    BY <1>1, <2>1 DEF Initialize
  <2> HIDE DEF config
  <2>5. PICK chosen \in Threading(config.set["HTTPThreads"]) :
             wpc' = [w \in Workers |-> IF w \in chosen THEN "unborn" ELSE "done"]
    BY <2>4
  <2>6. /\ chosen \subseteq Workers
        /\ config.set["HTTPThreads"] # Unset =>
             NumeralOf(Cardinality(chosen)) = config.set["HTTPThreads"]
    BY <2>5, Zenon DEF Threading
  <2>7. {w \in Workers : wpc'[w] # "done"} = chosen
    BY <2>5, <2>6
  <2> QED BY <2>3, <2>4, <2>6, <2>7
<1>2. Init => Unread
  BY DEF Init, Unread
<1>3. TypeOK /\ Unread /\ [Next]_vars => [Starting]_vars
  BY <1>1
<1>4. TypeOK /\ Unread /\ [Next]_vars => Unread'
  BY UnreadStep
<1> QED
  BY <1>2, <1>3, <1>4, TypeCorrect, PTL DEF Spec, StartsAsConfigured
=============================================================================
