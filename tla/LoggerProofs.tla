---------------------------- MODULE LoggerProofs ----------------------------
(***************************************************************************)
(* Proofs about Logger, for every flush limit and any number of messages   *)
(* and failures.                                                           *)
(***************************************************************************)
EXTENDS Logger, SequenceTheorems, TLAPS

\* What a non-empty list is after its first message is taken.
LEMMA TailOK ==
  ASSUME NEW q \in Seq(Nat), q # << >>
  PROVE  /\ Head(q) \in Nat /\ Head(q) = q[1]
         /\ Tail(q) \in Seq(Nat)
         /\ Len(q) \in Nat /\ Len(q) > 0
         /\ Len(Tail(q)) = Len(q) - 1
         /\ \A i \in 1 .. Len(Tail(q)) : Tail(q)[i] = q[i + 1]
BY HeadTailProperties

LEMMA EmptyOK ==
  ASSUME NEW q, q = << >>
  PROVE  q \in Seq(Nat) /\ Len(q) = 0
<1>1. << >> \in Seq(Nat) /\ Len(<< >>) = 0
  OBVIOUS
<1> QED
  BY <1>1, Zenon

LEMMA OneOK ==
  ASSUME NEW m \in Nat, NEW q, q = <<m>>
  PROVE  q \in Seq(Nat) /\ Len(q) = 1 /\ q[1] = m
<1>1. <<m>> \in Seq(Nat) /\ Len(<<m>>) = 1 /\ <<m>>[1] = m
  OBVIOUS
<1> QED
  BY <1>1, Zenon

LEMMA AppendOK ==
  ASSUME NEW q \in Seq(Nat), NEW m \in Nat
  PROVE  /\ Append(q, m) \in Seq(Nat)
         /\ Len(q) \in Nat
         /\ Len(Append(q, m)) = Len(q) + 1
         /\ \A i \in 1 .. Len(q) : Append(q, m)[i] = q[i]
         /\ Append(q, m)[Len(q) + 1] = m
BY AppendProperties

-----------------------------------------------------------------------------
\* What a step does to the messages, whoever takes it.
Pushes == sent' = sent + 1 /\ queue' = Append(queue, sent') /\ UNCHANGED file

Moves ==
  /\ queue # << >> /\ queue' = Tail(queue) /\ UNCHANGED sent
  /\ file' \in {file, << >>, Append(file, Head(queue)), <<Head(queue)>>}

Clears ==
  /\ UNCHANGED sent
  /\ \/ queue' = << >> /\ UNCHANGED file
     \/ file' = << >> /\ UNCHANGED queue

Keeps == UNCHANGED <<queue, file, sent>>

LEMMA MessageSteps ==
  ASSUME [Next]_vars
  PROVE  Pushes \/ Moves \/ Clears \/ Keeps
<1>1. CASE DrainOne \/ FlushOne
  BY <1>1, Zenon DEF DrainOne, FlushOne, Popped, Write, Rewrite, WriteLost, WriteFails,
     Written, Rewritten, Moves, Clears, Keeps
<1>2. CASE SendMsg \/ SendLast
  BY <1>2 DEF SendMsg, SendLast, Pushes
<1>3. CASE End \/ Die
  BY <1>3 DEF End, Die, Clears, Keeps
<1>4. CASE Run \/ Loop \/ DrainDone \/ Sleep \/ FlushDone \/ Stop \/ Join
           \/ UNCHANGED vars
  BY <1>4 DEF Run, Loop, DrainDone, Sleep, FlushDone, Stop, Join, vars, Keeps
<1> QED
  BY <1>1, <1>2, <1>3, <1>4 DEF Next, LogThread

LEMMA MessagesCorrect ==
  ASSUME MessagesOK, [Next]_vars
  PROVE  MessagesOK'
<1>0. Len(file) \in Nat /\ Len(queue) \in Nat /\ sent \in Nat
  BY DEF MessagesOK
<1>1. CASE Pushes
  BY <1>0, <1>1, AppendOK DEF MessagesOK, Pushes
<1>2. CASE Moves
  <2>1. /\ Head(queue) \in Nat /\ Tail(queue) \in Seq(Nat)
        /\ Len(Tail(queue)) = Len(queue) - 1
    BY <1>2, TailOK DEF MessagesOK, Moves
  <2>2. file' \in Seq(Nat) /\ Len(file') \in Nat /\ Len(file') <= Len(file) + 1
    <3>1. CASE file' = file
      BY <1>0, <3>1 DEF MessagesOK
    <3>2. \/ file' = file \/ file' = << >>
          \/ file' = Append(file, Head(queue)) \/ file' = <<Head(queue)>>
      BY <1>2, Zenon DEF Moves
    <3>3. CASE file' = <<Head(queue)>>
      <4>1. file' \in Seq(Nat) /\ Len(file') = 1
        BY <3>3, <2>1, OneOK, Zenon
      <4> QED
        BY <1>0, <4>1
    <3>4. CASE file' = Append(file, Head(queue))
      BY <1>0, <2>1, <3>4, AppendOK DEF MessagesOK
    <3>5. CASE file' = << >>
      <4>1. file' \in Seq(Nat) /\ Len(file') = 0
        BY <3>5, EmptyOK, Zenon
      <4> QED
        BY <1>0, <4>1
    <3> QED
      BY <3>1, <3>2, <3>3, <3>4, <3>5, Zenon
  <2> QED
    BY <1>0, <1>2, <2>1, <2>2 DEF MessagesOK, Moves
<1>3. CASE Clears
  <2>1. CASE queue' = << >> /\ UNCHANGED file
    <3>1. queue' \in Seq(Nat) /\ Len(queue') = 0
      BY <2>1, EmptyOK, Zenon
    <3> QED
      BY <1>0, <1>3, <2>1, <3>1 DEF MessagesOK, Clears
  <2>2. CASE file' = << >> /\ UNCHANGED queue
    <3>1. file' \in Seq(Nat) /\ Len(file') = 0
      BY <2>2, EmptyOK, Zenon
    <3> QED
      BY <1>0, <1>3, <2>2, <3>1 DEF MessagesOK, Clears
  <2> QED
    BY <1>3, <2>1, <2>2 DEF Clears
<1>4. CASE Keeps
  BY <1>4 DEF MessagesOK, Keeps
<1> QED
  BY <1>1, <1>2, <1>3, <1>4, MessageSteps

\* The type invariant: messages move from the list to the file or vanish.
THEOREM TypeCorrect == Spec => []TypeOK
<1>1. Init => TypeOK
  <2> SUFFICES ASSUME Init PROVE TypeOK
    OBVIOUS
  <2>1. MessagesOK
    <3>1. /\ queue \in Seq(Nat) /\ Len(queue) = 0
          /\ file \in Seq(Nat) /\ Len(file) = 0
      BY EmptyOK, Zenon DEF Init
    <3> QED
      BY <3>1 DEF Init, MessagesOK
  <2>2. running \in BOOLEAN
    BY Zenon DEF Init
  <2> QED
    BY <2>1, <2>2, LoggerAssumption DEF Init, TypeOK, Labels
<1>2. TypeOK /\ [Next]_vars => TypeOK'
  <2> SUFFICES ASSUME TypeOK, [Next]_vars PROVE TypeOK'
    OBVIOUS
  <2>1. MessagesOK'
    BY MessagesCorrect DEF TypeOK
  <2>2. faults' = faults \/ Fault
    BY DEF Next, LogThread, SendMsg, Stop, SendLast, Join, Run, Loop, DrainOne,
       DrainDone, Sleep, FlushOne, FlushDone, End, Die, Write, Rewrite,
       WriteLost, WriteFails, vars
  <2>3. faults' \in 0 .. MaxFaults
    BY <2>2, LoggerAssumption DEF TypeOK, Fault
  <2>4. running' \in {running, TRUE, FALSE}
    BY Zenon DEF Next, LogThread, SendMsg, Stop, SendLast, Join, Run, Loop, DrainOne,
       DrainDone, Sleep, FlushOne, FlushDone, End, Die, vars
  <2>5. running' \in BOOLEAN
    BY <2>4, Zenon DEF TypeOK
  <2>6. pc' \in Labels
    BY DEF Next, LogThread, SendMsg, Stop, SendLast, Join, Run, Loop, AfterLoop,
       DrainOne, DrainDone, Sleep, FlushOne, FlushDone, End, Die, vars, TypeOK, Labels
  <2>7. main' \in {"up", "stopping", "joining", "joined"}
    BY DEF Next, LogThread, SendMsg, Stop, SendLast, Join, Run, Loop, DrainOne,
       DrainDone, Sleep, FlushOne, FlushDone, End, Die, vars, TypeOK
  <2> QED
    BY <2>1, <2>3, <2>5, <2>6, <2>7 DEF TypeOK
<1> QED
  BY <1>1, <1>2, PTL DEF Spec

-----------------------------------------------------------------------------
\* The order of the log.  f stands for the file, q for the list, n for the
\* number of messages sent.
Ordered(f, q, n) ==
  /\ \A i, j \in 1 .. Len(f) : i < j => f[i] < f[j]
  /\ \A i, j \in 1 .. Len(q) : i < j => q[i] < q[j]
  /\ \A i \in 1 .. Len(f), j \in 1 .. Len(q) : f[i] < q[j]
  /\ \A i \in 1 .. Len(f) : f[i] <= n
  /\ \A i \in 1 .. Len(q) : q[i] <= n

\* A new message is younger than all others.
LEMMA PushOrdered ==
  ASSUME NEW f \in Seq(Nat), NEW q \in Seq(Nat), NEW n \in Nat, Ordered(f, q, n),
         NEW r, r = Append(q, n + 1)
  PROVE  Ordered(f, r, n + 1)
<1>1. /\ Len(f) \in Nat /\ Len(q) \in Nat /\ Len(r) = Len(q) + 1
      /\ \A i \in 1 .. Len(q) : r[i] = q[i]
      /\ r[Len(q) + 1] = n + 1
  BY AppendOK
<1>2. /\ \A i \in 1 .. Len(f) : f[i] \in Nat
      /\ \A i \in 1 .. Len(q) : q[i] \in Nat
  OBVIOUS
<1>3. \A i \in 1 .. Len(r) : i \in 1 .. Len(q) \/ i = Len(q) + 1
  BY <1>1
<1>4. \A i \in 1 .. Len(r) : r[i] <= n + 1
  BY <1>1, <1>2, <1>3 DEF Ordered
<1>5. \A i \in 1 .. Len(f), j \in 1 .. Len(r) : f[i] < r[j]
  BY <1>1, <1>2, <1>3 DEF Ordered
<1>6. \A i, j \in 1 .. Len(r) : i < j => r[i] < r[j]
  BY <1>1, <1>2, <1>3 DEF Ordered
<1> QED
  BY <1>1, <1>2, <1>4, <1>5, <1>6, SMTT(30) DEF Ordered

\* The oldest message of the list is younger than the whole file and older
\* than the rest of the list.
LEMMA MoveOrdered ==
  ASSUME NEW f \in Seq(Nat), NEW q \in Seq(Nat), NEW n \in Nat, Ordered(f, q, n),
         q # << >>, NEW g, g \in {f, << >>, Append(f, Head(q)), <<Head(q)>>}
  PROVE  Ordered(g, Tail(q), n)
<1> DEFINE t == Tail(q)
<1>1. /\ Len(f) \in Nat /\ Len(q) \in Nat /\ Len(q) > 0
      /\ Len(t) = Len(q) - 1
      /\ \A i \in 1 .. Len(t) : t[i] = q[i + 1]
      /\ Head(q) = q[1]
  BY TailOK
<1>2. /\ \A i \in 1 .. Len(f) : f[i] \in Nat
      /\ \A i \in 1 .. Len(q) : q[i] \in Nat
      /\ 1 \in 1 .. Len(q)
      /\ \A i \in 1 .. Len(t) : i + 1 \in 1 .. Len(q) /\ 1 < i + 1
  BY <1>1
<1> HIDE DEF t
<1>3. Ordered(f, t, n)
  <2>1. ASSUME NEW i \in 1 .. Len(t), NEW j \in 1 .. Len(t), i < j
        PROVE  t[i] < t[j]
    <3>1. i + 1 < j + 1 /\ i + 1 \in 1 .. Len(q) /\ j + 1 \in 1 .. Len(q)
      BY <1>1, <1>2, <2>1
    <3>2. q[i + 1] < q[j + 1]
      BY <3>1 DEF Ordered
    <3> QED
      BY <1>1, <3>2
  <2>2. \A i \in 1 .. Len(f), j \in 1 .. Len(t) : f[i] < t[j]
    BY <1>1, <1>2 DEF Ordered
  <2>3. \A j \in 1 .. Len(t) : t[j] <= n
    BY <1>1, <1>2 DEF Ordered
  <2> QED
    BY <2>1, <2>2, <2>3 DEF Ordered
<1>6. /\ q[1] <= n
      /\ \A i \in 1 .. Len(f) : f[i] < q[1]
      /\ \A j \in 1 .. Len(t) : q[1] < t[j]
  BY <1>1, <1>2 DEF Ordered
<1>4. CASE g = Append(f, Head(q))
  <2>1. /\ Len(g) = Len(f) + 1
        /\ \A i \in 1 .. Len(f) : g[i] = f[i]
        /\ g[Len(f) + 1] = q[1]
    BY <1>1, <1>2, <1>4, AppendOK
  <2>2. \A i \in 1 .. Len(g) : i \in 1 .. Len(f) \/ i = Len(f) + 1
    BY <1>1, <2>1
  <2>3. \A i \in 1 .. Len(g) : g[i] <= n
    BY <1>6, <2>1, <2>2 DEF Ordered
  <2>4. \A i \in 1 .. Len(g), j \in 1 .. Len(t) : g[i] < t[j]
    BY <1>3, <1>6, <2>1, <2>2 DEF Ordered
  <2>5. ASSUME NEW i \in 1 .. Len(g), NEW j \in 1 .. Len(g), i < j
        PROVE  g[i] < g[j]
    <3>1. i \in 1 .. Len(f)
      BY <1>1, <2>1, <2>5
    <3>2. CASE j \in 1 .. Len(f)
      BY <2>1, <2>5, <3>1, <3>2 DEF Ordered
    <3>3. CASE j = Len(f) + 1
      BY <1>6, <2>1, <3>1, <3>3
    <3> QED
      BY <2>2, <3>2, <3>3
  <2> QED
    BY <1>3, <2>3, <2>4, <2>5 DEF Ordered, t
<1>5. CASE g = <<Head(q)>>
  <2>1. Len(g) = 1 /\ g[1] = q[1]
    BY <1>1, <1>2, <1>5, OneOK
  <2>2. \A i \in 1 .. Len(g) : i = 1
    BY <2>1
  <2>3. \A i \in 1 .. Len(g), j \in 1 .. Len(t) : g[i] < t[j]
    BY <1>6, <2>1, <2>2
  <2>4. /\ \A i \in 1 .. Len(g) : g[i] <= n
        /\ \A i, j \in 1 .. Len(g) : i < j => g[i] < g[j]
    BY <1>6, <2>1, <2>2
  <2> QED
    BY <1>3, <2>3, <2>4 DEF Ordered, t
<1>7. CASE g = f
  BY <1>3, <1>7, Zenon DEF t
<1>8. CASE g = << >>
  <2>1. 1 .. Len(g) = {}
    BY <1>8, EmptyOK
  <2> QED
    BY <1>3, <2>1, Zenon DEF Ordered, t
<1> QED
  BY <1>4, <1>5, <1>7, <1>8, Zenon

\* Nothing is out of order in an empty list or file.
LEMMA ClearOrdered ==
  ASSUME NEW f, NEW q, NEW n, Ordered(f, q, n), NEW e, e = << >>
  PROVE  Ordered(f, e, n) /\ Ordered(e, q, n)
<1>1. 1 .. Len(e) = {}
  BY EmptyOK
<1> QED
  BY <1>1, Zenon DEF Ordered

\* Two ordered sequences one after the other are an ordered sequence.
LEMMA OrderedConcat ==
  ASSUME MessagesOK, Ordered(file, queue, sent)
  PROVE  FileInOrder
<1> DEFINE all == file \o queue
<1>1. /\ Len(file) \in Nat /\ Len(queue) \in Nat
      /\ Len(all) = Len(file) + Len(queue)
      /\ \A i \in 1 .. Len(file) : all[i] = file[i]
      /\ \A i \in Len(file) + 1 .. Len(all) : all[i] = queue[i - Len(file)]
  BY DEF MessagesOK
<1>2. ASSUME NEW i \in 1 .. Len(all), NEW j \in 1 .. Len(all), i < j
      PROVE  all[i] < all[j]
  <2> HIDE DEF all
  <2>1. CASE j <= Len(file)
    BY <1>1, <1>2, <2>1 DEF Ordered
  <2>2. CASE i <= Len(file) /\ j > Len(file)
    BY <1>1, <1>2, <2>2 DEF Ordered
  <2>3. CASE i > Len(file)
    <3>1. /\ i - Len(file) \in 1 .. Len(queue) /\ j - Len(file) \in 1 .. Len(queue)
          /\ i - Len(file) < j - Len(file)
      BY <1>1, <1>2, <2>3
    <3>2. queue[i - Len(file)] < queue[j - Len(file)]
      BY <3>1 DEF Ordered
    <3> QED
      BY <1>1, <1>2, <2>3, <3>2
  <2> QED
    BY <1>1, <2>1, <2>2, <2>3
<1> QED
  BY <1>2 DEF FileInOrder

\* Whatever fails and wherever the thread is stopped, the log and then the
\* list hold messages in the order they were sent, each at most once.
THEOREM LogInOrder == Spec => []FileInOrder
<1>1. Init => Ordered(file, queue, sent)
  <2>1. Init => 1 .. Len(file) = {} /\ 1 .. Len(queue) = {}
    BY EmptyOK DEF Init
  <2> QED
    BY <2>1, Zenon DEF Ordered
<1>2. TypeOK /\ Ordered(file, queue, sent) /\ [Next]_vars
      => Ordered(file, queue, sent)'
  <2> SUFFICES ASSUME TypeOK, Ordered(file, queue, sent), [Next]_vars
               PROVE  Ordered(file', queue', sent')
    BY DEF Ordered
  <2>0. file \in Seq(Nat) /\ queue \in Seq(Nat) /\ sent \in Nat
    BY DEF TypeOK, MessagesOK
  <2>1. CASE Pushes
    BY <2>0, <2>1, PushOrdered DEF Pushes
  <2>2. CASE Moves
    <3>1. PICK g : /\ g \in {file, << >>, Append(file, Head(queue)), <<Head(queue)>>}
                   /\ file' = g
      BY <2>2, Zenon DEF Moves
    <3>2. Ordered(g, Tail(queue), sent)
      BY <2>0, <2>2, <3>1, MoveOrdered, Zenon DEF Moves
    <3> QED
      BY <2>2, <3>1, <3>2, Zenon DEF Moves
  <2>3. CASE Clears
    <3>1. CASE queue' = << >> /\ UNCHANGED <<file, sent>>
      BY <3>1, ClearOrdered, Zenon
    <3>2. CASE file' = << >> /\ UNCHANGED <<queue, sent>>
      BY <3>2, ClearOrdered, Zenon
    <3> QED
      BY <2>3, <3>1, <3>2, Zenon DEF Clears
  <2>4. CASE Keeps
    BY <2>4 DEF Keeps
  <2> QED
    BY <2>1, <2>2, <2>3, <2>4, MessageSteps
<1>3. TypeOK /\ Ordered(file, queue, sent) => FileInOrder
  BY OrderedConcat DEF TypeOK
<1> QED
  BY <1>1, <1>2, <1>3, TypeCorrect, PTL DEF Spec

-----------------------------------------------------------------------------
\* The messages are the numbers up to n: those of the file f, then those of
\* the list q.
Whole(f, q, n) ==
  /\ Len(f) + Len(q) = n
  /\ \A i \in 1 .. Len(f) : f[i] = i
  /\ \A i \in 1 .. Len(q) : q[i] = Len(f) + i

\* What a step does to the messages when nothing fails.
LEMMA FaultlessSteps ==
  ASSUME TypeOK, [Next]_vars, faults' = 0
  PROVE  /\ faults = 0
         /\ \/ Pushes
            \/ /\ queue # << >> /\ queue' = Tail(queue) /\ UNCHANGED sent
               /\ file' = Append(file, Head(queue))
            \/ Keeps
<1>1. ~Fault
  BY DEF Fault, TypeOK
<1>2. CASE DrainOne \/ FlushOne
  BY <1>1, <1>2, Zenon DEF DrainOne, FlushOne, Popped, Write, Rewrite, WriteLost,
     WriteFails, Written
<1>3. CASE SendMsg \/ SendLast
  BY <1>3 DEF SendMsg, SendLast, Pushes
<1>4. CASE End \/ Die
  BY <1>1, <1>4 DEF End, Die, Keeps
<1>5. CASE Run \/ Loop \/ DrainDone \/ Sleep \/ FlushDone \/ Stop \/ Join
           \/ UNCHANGED vars
  BY <1>5 DEF Run, Loop, DrainDone, Sleep, FlushDone, Stop, Join, vars, Keeps
<1> QED
  BY <1>2, <1>3, <1>4, <1>5 DEF Next, LogThread

LEMMA PushWhole ==
  ASSUME NEW f \in Seq(Nat), NEW q \in Seq(Nat), NEW n \in Nat, Whole(f, q, n),
         NEW r, r = Append(q, n + 1)
  PROVE  Whole(f, r, n + 1)
<1>1. /\ Len(f) \in Nat /\ Len(q) \in Nat /\ Len(r) = Len(q) + 1
      /\ \A i \in 1 .. Len(q) : r[i] = q[i]
      /\ r[Len(q) + 1] = n + 1
  BY AppendOK
<1>2. \A i \in 1 .. Len(r) : i \in 1 .. Len(q) \/ i = Len(q) + 1
  BY <1>1
<1>3. \A i \in 1 .. Len(r) : r[i] = Len(f) + i
  BY <1>1, <1>2 DEF Whole
<1> QED
  BY <1>1, <1>3 DEF Whole

LEMMA MoveWhole ==
  ASSUME NEW f \in Seq(Nat), NEW q \in Seq(Nat), NEW n \in Nat, Whole(f, q, n), q # << >>
  PROVE  Whole(Append(f, Head(q)), Tail(q), n)
<1> DEFINE g == Append(f, Head(q))
           t == Tail(q)
<1>1. /\ Len(f) \in Nat /\ Len(q) \in Nat /\ Len(q) > 0
      /\ Len(t) = Len(q) - 1
      /\ \A i \in 1 .. Len(t) : t[i] = q[i + 1]
      /\ Head(q) = q[1] /\ Head(q) \in Nat
  BY TailOK
<1>2. /\ Len(g) = Len(f) + 1
      /\ \A i \in 1 .. Len(f) : g[i] = f[i]
      /\ g[Len(f) + 1] = q[1]
  BY <1>1, AppendOK
<1> HIDE DEF g, t
<1>3. 1 \in 1 .. Len(q) /\ \A i \in 1 .. Len(t) : i + 1 \in 1 .. Len(q)
  BY <1>1
<1>4. \A i \in 1 .. Len(g) : g[i] = i
  <2>0. Len(f) \in Nat /\ Len(g) = Len(f) + 1
    BY <1>1, <1>2
  <2>1. \A i \in 1 .. Len(g) : i \in 1 .. Len(f) \/ i = Len(f) + 1
    BY <2>0
  <2>2. g[Len(f) + 1] = Len(f) + 1
    BY <1>2, <1>3 DEF Whole
  <2> QED
    BY <1>2, <2>1, <2>2 DEF Whole
<1>5. \A i \in 1 .. Len(t) : t[i] = Len(g) + i
  <2> SUFFICES ASSUME NEW i \in 1 .. Len(t) PROVE t[i] = Len(g) + i
    OBVIOUS
  <2>1. q[i + 1] = Len(f) + (i + 1)
    BY <1>3 DEF Whole
  <2> QED
    BY <1>1, <1>2, <2>1
<1>6. Len(g) + Len(t) = n
  <2>1. Len(f) + Len(q) = n
    BY DEF Whole
  <2> QED
    BY <1>1, <1>2, <2>1
<1> QED
  BY <1>4, <1>5, <1>6 DEF Whole, g, t

LEMMA WholeConcat ==
  ASSUME MessagesOK, Whole(file, queue, sent)
  PROVE  file \o queue = [i \in 1 .. sent |-> i]
<1> DEFINE all == file \o queue
<1>1. /\ Len(file) \in Nat /\ Len(queue) \in Nat
      /\ all \in Seq(Nat)
      /\ Len(all) = Len(file) + Len(queue)
      /\ \A i \in 1 .. Len(file) : all[i] = file[i]
      /\ \A i \in Len(file) + 1 .. Len(all) : all[i] = queue[i - Len(file)]
  BY DEF MessagesOK
<1> HIDE DEF all
<1>2. Len(all) = sent
  BY <1>1 DEF Whole
<1>3. ASSUME NEW i \in 1 .. Len(all) PROVE all[i] = i
  <2>1. CASE i <= Len(file)
    <3>1. i \in 1 .. Len(file)
      BY <1>1, <2>1
    <3> QED
      BY <1>1, <3>1 DEF Whole
  <2>2. CASE i > Len(file)
    <3>1. i - Len(file) \in 1 .. Len(queue) /\ i \in Len(file) + 1 .. Len(all)
      BY <1>1, <2>2
    <3>2. queue[i - Len(file)] = Len(file) + (i - Len(file))
      BY <3>1 DEF Whole
    <3> QED
      BY <1>1, <3>1, <3>2
  <2> QED
    BY <1>1, <2>1, <2>2
<1>4. all = [i \in 1 .. Len(all) |-> all[i]]
  BY <1>1
<1>5. all = [i \in 1 .. sent |-> i]
  BY <1>2, <1>3, <1>4
<1> QED
  BY <1>5 DEF all

\* As long as no write fails and nothing throws, every message sent is in the
\* log or in the list, whatever the threads do (logger.cpp:13-70 and 160).
THEOREM NoneLost == Spec => []NothingLost
<1> DEFINE Inv == faults = 0 => Whole(file, queue, sent)
<1>1. Init => Inv
  <2> SUFFICES ASSUME Init PROVE Whole(file, queue, sent)
    OBVIOUS
  <2>1. Len(file) = 0 /\ Len(queue) = 0 /\ sent = 0
    BY EmptyOK, Zenon DEF Init
  <2> QED
    BY <2>1 DEF Whole
<1>2. TypeOK /\ Inv /\ [Next]_vars => Inv'
  <2> SUFFICES ASSUME TypeOK, Inv, [Next]_vars, faults' = 0
               PROVE  Whole(file', queue', sent')
    BY DEF Whole
  <2>1. /\ file \in Seq(Nat) /\ queue \in Seq(Nat) /\ sent \in Nat
        /\ Whole(file, queue, sent)
    BY FaultlessSteps DEF TypeOK, MessagesOK
  <2>2. CASE Pushes
    BY <2>1, <2>2, PushWhole DEF Pushes
  <2>3. CASE /\ queue # << >> /\ queue' = Tail(queue) /\ UNCHANGED sent
             /\ file' = Append(file, Head(queue))
    BY <2>1, <2>3, MoveWhole
  <2>4. CASE Keeps
    BY <2>1, <2>4 DEF Keeps
  <2> QED
    BY <2>2, <2>3, <2>4, FaultlessSteps
<1>3. TypeOK /\ Inv => NothingLost
  BY WholeConcat DEF TypeOK, NothingLost
<1> QED
  BY <1>1, <1>2, <1>3, TypeCorrect, PTL DEF Spec

-----------------------------------------------------------------------------
\* A message that is pushed or moved leaves the others where they are.
LEMMA PushKeeps ==
  ASSUME MessagesOK, NEW n \in Nat, queue' = Append(queue, n), NEW m, Queued(m)
  PROVE  Queued(m)'
<1>1. PICK i \in 1 .. Len(queue) : queue[i] = m
  BY DEF Queued
<1>2. /\ Len(queue') = Len(queue) + 1 /\ Len(queue) \in Nat
      /\ queue'[i] = queue[i]
  BY AppendOK DEF MessagesOK
<1>3. i \in 1 .. Len(queue')
  BY <1>2
<1> QED
  BY <1>1, <1>2, <1>3 DEF Queued

LEMMA MoveKeeps ==
  ASSUME MessagesOK, queue # << >>, queue' = Popped,
         file' \in {Written(Head(queue)), Rewritten(Head(queue))}, NEW m, Queued(m)
  PROVE  Queued(m)' \/ Logged(m)'
<1>0. /\ Head(queue) \in Nat /\ Head(queue) = queue[1]
      /\ Len(queue) \in Nat /\ Len(queue') = Len(queue) - 1
      /\ \A i \in 1 .. Len(queue') : queue'[i] = queue[i + 1]
  BY TailOK DEF MessagesOK, Popped
<1>1. PICK i \in 1 .. Len(queue) : queue[i] = m
  BY DEF Queued
<1>2. CASE i = 1
  <2>1. Len(file') \in 1 .. Len(file') /\ file'[Len(file')] = m
    <3>1. CASE file' = Append(file, m)
      BY <1>0, <1>1, <1>2, <3>1, AppendOK DEF MessagesOK
    <3>2. CASE file' = <<m>>
      BY <1>0, <1>1, <1>2, <3>2, OneOK
    <3> QED
      BY <1>0, <1>1, <1>2, <3>1, <3>2, Zenon DEF Written, Rewritten
  <2> QED
    BY <2>1 DEF Logged
<1>3. CASE i # 1
  <2>1. i - 1 \in 1 .. Len(queue') /\ queue'[i - 1] = m
    BY <1>0, <1>1, <1>3
  <2> QED
    BY <2>1 DEF Queued
<1> QED
  BY <1>2, <1>3

\* A message that is popped takes no other with it.
LEMMA PopKeeps ==
  ASSUME MessagesOK, queue # << >>, queue' = Popped, NEW m, Queued(m), m # Head(queue)
  PROVE  Queued(m)'
<1>0. /\ Head(queue) = queue[1]
      /\ Len(queue) \in Nat /\ Len(queue') = Len(queue) - 1
      /\ \A i \in 1 .. Len(queue') : queue'[i] = queue[i + 1]
  BY TailOK DEF MessagesOK, Popped
<1>1. PICK i \in 1 .. Len(queue) : queue[i] = m
  BY DEF Queued
<1>2. i - 1 \in 1 .. Len(queue') /\ queue'[i - 1] = m
  BY <1>0, <1>1
<1> QED
  BY <1>2 DEF Queued

\* Why a message may leave the list for anything but the log.
MayDrop(m) ==
  \/ Len(queue) > FlushOver \/ pc = "flush"
  \/ m = Head(queue) /\ queue' = Tail(queue) /\ faults' > faults

\* Before the end a message is dropped only from a list that has grown too
\* long (logger.cpp:16-22), or by its own write, which failed after the file
\* was open (logger.cpp:211-213).
THEOREM OnlyLongListDropped == Spec => DropsOnlyLongList
<1>1. TypeOK /\ [Next]_vars
      => [\A m \in 1 .. sent : Queued(m) /\ ~Queued(m)' /\ ~Logged(m)' => MayDrop(m)]_vars
  <2> SUFFICES ASSUME TypeOK, [Next]_vars, NEW m \in 1 .. sent,
                      Queued(m), ~Queued(m)', ~Logged(m)'
               PROVE  MayDrop(m)
    OBVIOUS
  <2>0. MessagesOK /\ sent \in Nat /\ faults \in Nat
    BY LoggerAssumption DEF TypeOK, MessagesOK
  <2>1. queue' # queue
    BY DEF Queued
  <2>2. ~SendMsg /\ ~SendLast
    <3>1. ASSUME queue' = Append(queue, sent + 1) PROVE FALSE
      BY <2>0, <3>1, PushKeeps
    <3> QED
      BY <3>1 DEF SendMsg, SendLast
  <2>3. CASE DrainOne
    <3>1. CASE queue # << >> /\ queue' = Popped /\ (Write \/ Rewrite)
      BY <2>0, <3>1, MoveKeeps DEF Write, Rewrite
    <3>2. CASE queue # << >> /\ queue' = Popped /\ WriteLost
      <4>1. m = Head(queue)
        BY <2>0, <3>2, PopKeeps
      <4>2. faults' > faults
        BY <2>0, <3>2 DEF WriteLost, Fault
      <4> QED
        BY <3>2, <4>1, <4>2, Zenon DEF Popped, MayDrop
    <3>3. CASE queue' = IF TooLong THEN << >> ELSE queue
      BY <2>1, <3>3 DEF TooLong, MayDrop
    <3> QED
      BY <2>3, <3>1, <3>2, <3>3, Zenon DEF DrainOne
  <2>4. CASE FlushOne
    BY <2>4 DEF FlushOne, MayDrop
  <2> QED
    BY <2>1, <2>2, <2>3, <2>4
    DEF Next, LogThread, Stop, Join, Run, Loop, DrainDone, Sleep, FlushDone, End, Die, vars
<1> QED
  BY <1>1, TypeCorrect, PTL DEF Spec, DropsOnlyLongList, MayDrop
=============================================================================
