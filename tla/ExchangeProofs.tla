--------------------------- MODULE ExchangeProofs ---------------------------
(***************************************************************************)
(* What the parser takes of a request and what the handler asks for and    *)
(* answers, for every set of requests and of parameters.                   *)
(***************************************************************************)
EXTENDS Exchange, TLAPS, WellFoundedInduction, SequenceTheorems, FiniteSetTheorems

-----------------------------------------------------------------------------
\* Induction, and folds from the left as functions of what was folded so far.

\* What holds of 0 and, with n, of n + 1 holds of every natural number.
LEMMA Induction ==
  ASSUME NEW S, 0 \in S, \A n \in Nat : n \in S => n + 1 \in S
  PROVE  \A n \in Nat : n \in S
<1> DEFINE R == {p \in Nat \X Nat : p[1] < p[2]}
           T == {n \in Nat : n \notin S}
<1>1. IsWellFoundedOn(R, Nat)
  BY NatLessThanWellFounded, Zenon DEF OpToRel
<1> SUFFICES ASSUME T # {} PROVE FALSE
  OBVIOUS
<1>2. PICK m \in T : \A k \in T : ~ (<<k, m>> \in R)
  <2> HIDE DEF R
  <2> QED BY <1>1, WFMin
<1>3. m \in Nat /\ m # 0 /\ m - 1 \in Nat
  OBVIOUS
<1>4. m - 1 \in S
  <2>1. (m - 1) \notin T
    <3>1. <<m - 1, m>> \in R
      BY <1>3
    <3> QED BY <1>2, <3>1
  <2> QED BY <1>3, <2>1
<1> QED BY <1>3, <1>4

\* A set of sequences that has the empty one and is closed under Append().
LEMMA SeqInduction ==
  ASSUME NEW T, NEW S, << >> \in S, \A s \in Seq(T), e \in T : s \in S => Append(s, e) \in S
  PROVE  \A s \in Seq(T) : s \in S
<1> DEFINE N == {n \in Nat : \A s \in Seq(T) : Len(s) = n => s \in S}
<1>1. 0 \in N
  BY EmptySeq
<1>2. ASSUME NEW n \in Nat, n \in N, NEW s \in Seq(T), Len(s) = n + 1 PROVE s \in S
  <2>1. PICK r \in Seq(T), e \in T : s = Append(r, e)
    <3>1. s # << >>
      BY <1>2, EmptySeq
    <3> QED BY <3>1, SequenceEmptyOrAppend
  <2>2. Len(r) = n
    BY <1>2, <2>1, AppendProperties, LenProperties
  <2> QED BY <1>2, <2>1, <2>2
<1>3. \A n \in Nat : n \in N => n + 1 \in N
  BY <1>2
<1> HIDE DEF N
<1>4. \A n \in Nat : n \in N
  BY <1>1, <1>3, Induction
<1> QED BY <1>4, LenProperties DEF N

\* Two runs that begin alike and go on alike end alike.
LEMMA RunsAgree ==
  ASSUME NEW a, NEW b, NEW n \in Nat, a[0] = b[0],
         \A i \in 0 .. (n - 1) : a[i] = b[i] => a[i + 1] = b[i + 1]
  PROVE  a[n] = b[n]
<1> DEFINE S == {i \in Nat : i <= n => a[i] = b[i]}
<1>1. 0 \in S /\ \A i \in Nat : i \in S => i + 1 \in S
  OBVIOUS
<1> HIDE DEF S
<1>2. \A i \in Nat : i \in S
  BY <1>1, Induction
<1> QED BY <1>2 DEF S

\* The largest of numbers up to n + 1, when n + 1 is one of them.
LEMMA MaxOfInterval ==
  ASSUME NEW n \in Nat, NEW s \in SUBSET (1 .. (n + 1)), n + 1 \in s
  PROVE  Max(s) = n + 1
<1>1. \A y \in s : n + 1 >= y
  OBVIOUS
<1>2. ASSUME NEW x \in s, \A y \in s : x >= y PROVE x = n + 1
  BY <1>2
<1> QED BY <1>1, <1>2, Zenon DEF Max

\* A set of numbers from 1 to n has a largest one.
LEMMA MaxIn == \A n \in Nat : \A s \in SUBSET (1 .. n) : s # {} => Max(s) \in s
<1> DEFINE S == {n \in Nat : \A s \in SUBSET (1 .. n) : s # {} => Max(s) \in s}
<1>1. 0 \in S
  <2>1. 1 .. 0 = {}
    OBVIOUS
  <2> QED BY <2>1
<1>2. ASSUME NEW n \in Nat, n \in S, NEW s \in SUBSET (1 .. (n + 1)), s # {}
      PROVE  Max(s) \in s
  <2>1. CASE n + 1 \in s
    BY <2>1, MaxOfInterval
  <2>2. CASE n + 1 \notin s
    <3>1. s \in SUBSET (1 .. n)
      BY <2>2
    <3> QED BY <1>2, <3>1
  <2> QED BY <2>1, <2>2
<1>3. \A n \in Nat : n \in S => n + 1 \in S
  BY <1>2
<1> HIDE DEF S
<1>4. \A n \in Nat : n \in S
  BY <1>1, <1>3, Induction
<1> QED BY <1>4 DEF S

\* The sets that a fold over a sequence goes through.
LEMMA Intervals ==
  ASSUME NEW n \in Nat, NEW k \in 0 .. (n - 1)
  PROVE  /\ 1 .. (k + 1) \in SUBSET (1 .. n) /\ 1 .. (k + 1) # {}
         /\ (1 .. (k + 1)) \ {k + 1} = 1 .. k /\ Max(1 .. (k + 1)) = k + 1
<1>1. k + 1 \in 1 .. (k + 1) /\ k \in Nat
  OBVIOUS
<1>2. Max(1 .. (k + 1)) = k + 1
  BY <1>1, MaxOfInterval
<1>3. 1 .. (k + 1) \in SUBSET (1 .. n)
  OBVIOUS
<1>4. (1 .. (k + 1)) \ {k + 1} = 1 .. k
  OBVIOUS
<1> QED BY <1>1, <1>2, <1>3, <1>4, Zenon

\* The function that a fold from the left is defined by, with the fold's
\* operator as a function f.
Folds(iter, f, base, seq, n) ==
  \A s \in SUBSET (1 .. n) :
    iter[s] = IF s = {} THEN base ELSE f[<<iter[s \ {Max(s)}], seq[Max(s)]>>]

\* There is such a function for every sequence.
LEMMA FoldExists ==
  ASSUME NEW X, NEW T, NEW f \in [X \X T -> X], NEW base \in X, NEW seq \in Seq(T)
  PROVE  \E iter \in [SUBSET (1 .. Len(seq)) -> X] : Folds(iter, f, base, seq, Len(seq))
<1> DEFINE S == {n \in Nat : n <= Len(seq) =>
                   \E iter \in [SUBSET (1 .. n) -> X] : Folds(iter, f, base, seq, n)}
<1>0. Len(seq) \in Nat /\ \A i \in 1 .. Len(seq) : seq[i] \in T
  BY ElementOfSeq, LenProperties
<1>1. 0 \in S
  <2>1. Folds([s \in SUBSET (1 .. 0) |-> base], f, base, seq, 0)
    BY DEF Folds
  <2> QED BY <2>1
<1>2. ASSUME NEW n \in Nat, n + 1 <= Len(seq),
             NEW old \in [SUBSET (1 .. n) -> X], Folds(old, f, base, seq, n)
      PROVE  \E iter \in [SUBSET (1 .. (n + 1)) -> X] : Folds(iter, f, base, seq, n + 1)
  <2> DEFINE iter == [s \in SUBSET (1 .. (n + 1)) |->
                        IF n + 1 \in s THEN f[<<old[s \ {n + 1}], seq[n + 1]>>] ELSE old[s]]
             Rest(s) == IF s = {} THEN base
                        ELSE f[<<iter[s \ {Max(s)}], seq[Max(s)]>>]
  <2>0. iter \in [SUBSET (1 .. (n + 1)) -> X]
    <3>1. ASSUME NEW s \in SUBSET (1 .. (n + 1)), n + 1 \in s
          PROVE  f[<<old[s \ {n + 1}], seq[n + 1]>>] \in X
      <4>1. s \ {n + 1} \in SUBSET (1 .. n)
        OBVIOUS
      <4> QED BY <1>0, <1>2, <4>1
    <3>2. ASSUME NEW s \in SUBSET (1 .. (n + 1)), n + 1 \notin s PROVE old[s] \in X
      <4>1. s \in SUBSET (1 .. n)
        BY <3>2
      <4> QED BY <4>1
    <3> QED BY <3>1, <3>2
  <2>1. ASSUME NEW s \in SUBSET (1 .. (n + 1)) PROVE iter[s] = Rest(s)
    <3>1. CASE n + 1 \in s
      <4>1. Max(s) = n + 1
        BY <3>1, MaxOfInterval
      <4>2. s \ {n + 1} \in SUBSET (1 .. (n + 1)) /\ n + 1 \notin s \ {n + 1}
        OBVIOUS
      <4>3. iter[s \ {n + 1}] = old[s \ {n + 1}]
        BY <4>2
      <4> QED BY <3>1, <4>1, <4>3
    <3>2. CASE n + 1 \notin s
      <4>1. s \in SUBSET (1 .. n) /\ iter[s] = old[s]
        BY <3>2
      <4>2. CASE s = {}
        BY <1>2, <4>1, <4>2 DEF Folds
      <4>3. CASE s # {}
        <5> DEFINE m == Max(s)
        <5>1. s \ {m} \in SUBSET (1 .. (n + 1)) /\ n + 1 \notin s \ {m}
          BY <3>2
        <5>2. iter[s \ {m}] = old[s \ {m}]
          BY <5>1
        <5>3. old[s] = f[<<old[s \ {m}], seq[m]>>]
          BY <1>2, <4>1, <4>3 DEF Folds
        <5> QED BY <4>1, <4>3, <5>2, <5>3
      <4> QED BY <4>2, <4>3
    <3> QED BY <3>1, <3>2
  <2> HIDE DEF iter
  <2>2. Folds(iter, f, base, seq, n + 1)
    BY <2>1 DEF Folds
  <2> QED BY <2>0, <2>2
<1>3. ASSUME NEW n \in Nat, n \in S PROVE n + 1 \in S
  <2>1. ASSUME n + 1 <= Len(seq)
        PROVE  \E iter \in [SUBSET (1 .. (n + 1)) -> X] : Folds(iter, f, base, seq, n + 1)
    <3>1. n <= Len(seq)
      BY <1>0, <2>1
    <3>2. PICK old \in [SUBSET (1 .. n) -> X] : Folds(old, f, base, seq, n)
      BY <1>3, <3>1
    <3> QED BY <1>2, <2>1, <3>2
  <2>2. n + 1 \in Nat
    OBVIOUS
  <2> QED BY <2>1, <2>2, Zenon
<1> HIDE DEF S
<1>4. \A n \in Nat : n \in S
  BY <1>1, <1>3, Induction
<1>5. Len(seq) \in S
  BY <1>0, <1>4
<1>6. Len(seq) <= Len(seq)
  BY <1>0
<1> QED BY <1>5, <1>6, Zenon DEF S

\* A fold from the left, as the values that it runs through.
Runs(run, f, base, seq) ==
  /\ run[0] = base
  /\ \A k \in 0 .. (Len(seq) - 1) : run[k + 1] = f[<<run[k], seq[k + 1]>>]

FoldsTo(f, base, seq, x) ==
  \E run : Runs(run, f, base, seq) /\ run[Len(seq)] = x

Folding(iter, f, base, seq, X, T) ==
  /\ f \in [X \X T -> X] /\ base \in X /\ seq \in Seq(T)
  /\ iter[{}] = base
  /\ \A s \in SUBSET (1 .. Len(seq)) :
       s # {} /\ iter[s \ {Max(s)}] \in X => iter[s] = f[<<iter[s \ {Max(s)}], seq[Max(s)]>>]

\* A fold is the end of a run along its sequence.
LEMMA FoldReaches ==
  ASSUME NEW X, NEW T, NEW f, NEW base, NEW seq, NEW iter, Folding(iter, f, base, seq, X, T)
  PROVE  iter[1 .. Len(seq)] \in X /\ FoldsTo(f, base, seq, iter[1 .. Len(seq)])
<1> DEFINE n == Len(seq)
           run == [k \in 0 .. n |-> iter[1 .. k]]
           S == {k \in Nat : k <= n => run[k] \in X}
<1>0. seq \in Seq(T) /\ n \in Nat /\ \A i \in 1 .. n : seq[i] \in T
  BY ElementOfSeq, LenProperties DEF Folding
<1>1. run[0] = base /\ base \in X
  <2>1. 1 .. 0 = {} /\ 0 \in 0 .. n
    BY <1>0
  <2> QED BY <2>1 DEF Folding
<1>2. ASSUME NEW k \in 0 .. (n - 1), run[k] \in X
      PROVE  run[k + 1] = f[<<run[k], seq[k + 1]>>] /\ run[k + 1] \in X
  <2>1. /\ 1 .. (k + 1) \in SUBSET (1 .. n) /\ 1 .. (k + 1) # {}
        /\ (1 .. (k + 1)) \ {k + 1} = 1 .. k /\ Max(1 .. (k + 1)) = k + 1
    BY <1>0, Intervals
  <2>2. run[k] = iter[1 .. k] /\ run[k + 1] = iter[1 .. (k + 1)] /\ seq[k + 1] \in T
    BY <1>0
  <2> HIDE DEF run
  <2>3. iter[1 .. (k + 1)] = f[<<iter[1 .. k], seq[k + 1]>>]
    BY <1>2, <2>1, <2>2 DEF Folding
  <2>4. f \in [X \X T -> X]
    BY DEF Folding
  <2> QED BY <1>2, <2>2, <2>3, <2>4
<1> HIDE DEF run
<1>3. 0 \in S
  BY <1>1
<1>4. ASSUME NEW k \in Nat, k \in S PROVE k + 1 \in S
  <2>1. ASSUME k + 1 <= n PROVE run[k + 1] \in X
    <3>1. k \in 0 .. (n - 1) /\ run[k] \in X
      BY <1>0, <1>4, <2>1
    <3> QED BY <1>2, <3>1
  <2> QED BY <2>1
<1> HIDE DEF S
<1>5. \A k \in Nat : k \in S
  BY <1>3, <1>4, Induction
<1>6. \A k \in 0 .. n : run[k] \in X
  BY <1>0, <1>5 DEF S
<1>7. run \in [0 .. n -> X] /\ run[n] = iter[1 .. n]
  BY <1>0, <1>6 DEF run
<1>8. \A k \in 0 .. (n - 1) : run[k + 1] = f[<<run[k], seq[k + 1]>>]
  <2>1. ASSUME NEW k \in 0 .. (n - 1) PROVE k \in 0 .. n
    BY <1>0
  <2> QED BY <1>2, <1>6, <2>1
<1>9. n \in 0 .. n
  BY <1>0
<1> QED BY <1>1, <1>6, <1>7, <1>8, <1>9 DEF Runs, FoldsTo

\* One more element is one more step.
LEMMA FoldAppend ==
  ASSUME NEW T, NEW seq \in Seq(T), NEW t \in T, NEW f, NEW base, NEW x, NEW y,
         FoldsTo(f, base, seq, x), FoldsTo(f, base, Append(seq, t), y)
  PROVE  y = f[<<x, t>>]
<1> DEFINE n == Len(seq)
           more == Append(seq, t)
<1>1. /\ n \in Nat /\ Len(more) = n + 1 /\ more[n + 1] = t
      /\ \A i \in 1 .. n : more[i] = seq[i]
  BY AppendProperties, LenProperties
<1>2. PICK a : Runs(a, f, base, seq) /\ a[n] = x
  BY DEF FoldsTo
<1>3. PICK b : Runs(b, f, base, more) /\ b[n + 1] = y
  BY <1>1 DEF FoldsTo
<1>4. a[0] = b[0]
  BY <1>2, <1>3 DEF Runs
<1>5. ASSUME NEW i \in 0 .. (n - 1), a[i] = b[i] PROVE a[i + 1] = b[i + 1]
  <2>1. a[i + 1] = f[<<a[i], seq[i + 1]>>]
    BY <1>2 DEF Runs
  <2>2. i \in 0 .. (Len(more) - 1) /\ i + 1 \in 1 .. n
    BY <1>1
  <2>3. b[i + 1] = f[<<b[i], more[i + 1]>>]
    BY <1>3, <2>2 DEF Runs
  <2> QED BY <1>1, <1>5, <2>1, <2>2, <2>3
<1>6. a[n] = b[n]
  BY <1>1, <1>4, <1>5, RunsAgree
<1>7. n \in 0 .. (Len(more) - 1)
  BY <1>1
<1>8. b[n + 1] = f[<<b[n], more[n + 1]>>]
  BY <1>3, <1>7 DEF Runs
<1> QED BY <1>1, <1>2, <1>3, <1>6, <1>8

\* A fold of nothing is where it began.
LEMMA FoldNothing ==
  ASSUME NEW f, NEW base, NEW x, FoldsTo(f, base, << >>, x)
  PROVE  x = base
BY EmptySeq DEF FoldsTo, Runs

-----------------------------------------------------------------------------
\* Without(), token by token.
KeepOf(T, K) ==
  [p \in Seq(T) \X T |-> IF p[2] \in K THEN p[1] ELSE Append(p[1], p[2])]

\* One step of Without(), as a function.
LEMMA KeepType == \A T, K : KeepOf(T, K) \in [Seq(T) \X T -> Seq(T)]
BY AppendProperties DEF KeepOf

\* Without() is a fold along its text.
LEMMA WithoutFolds ==
  ASSUME NEW T, NEW K, NEW text \in Seq(T)
  PROVE  Without(text, K) \in Seq(T) /\ FoldsTo(KeepOf(T, K), << >>, text, Without(text, K))
<1> DEFINE n == Len(text)
           Op(kept, t) == IF t \in K THEN kept ELSE Append(kept, t)
           Is(i) == i = [s \in SUBSET (1 .. n) |->
                           IF s = {} THEN << >> ELSE Op(i[s \ {Max(s)}], text[Max(s)])]
           iter == CHOOSE i : Is(i)
<1>0. n \in Nat /\ DOMAIN text = 1 .. n /\ \A i \in 1 .. n : text[i] \in T
  BY ElementOfSeq, LenProperties
<1>1. KeepOf(T, K) \in [Seq(T) \X T -> Seq(T)] /\ << >> \in Seq(T)
  BY KeepType, EmptySeq
<1>2. \A x \in Seq(T), t \in T : KeepOf(T, K)[<<x, t>>] = Op(x, t)
  BY DEF KeepOf
<1>3. ASSUME NEW s \in SUBSET (1 .. n), s # {} PROVE text[Max(s)] \in T
  BY <1>0, <1>3, MaxIn
<1>4. PICK g \in [SUBSET (1 .. n) -> Seq(T)] : Folds(g, KeepOf(T, K), << >>, text, n)
  BY <1>1, FoldExists
<1>5. Is(g)
  <2>1. ASSUME NEW s \in SUBSET (1 .. n)
        PROVE  g[s] = IF s = {} THEN << >> ELSE Op(g[s \ {Max(s)}], text[Max(s)])
    <3>1. g[s \ {Max(s)}] \in Seq(T)
      BY <1>4
    <3>2. g[s] = IF s = {} THEN << >> ELSE KeepOf(T, K)[<<g[s \ {Max(s)}], text[Max(s)]>>]
      BY <1>4 DEF Folds
    <3> HIDE DEF Op
    <3> QED BY <1>2, <1>3, <3>1, <3>2
  <2>2. g = [s \in SUBSET (1 .. n) |-> g[s]]
    OBVIOUS
  <2> QED BY <2>1, <2>2
<1>6. Is(iter)
  <2> HIDE DEF Is
  <2> QED BY <1>5
<1>7. Without(text, K) = iter[1 .. n]
  BY <1>0 DEF Without, FoldLeft, MapThenFoldSet
<1> HIDE DEF iter, Op
<1>8. iter[{}] = << >>
  BY <1>6
<1>9. ASSUME NEW s \in SUBSET (1 .. n), s # {}, iter[s \ {Max(s)}] \in Seq(T)
      PROVE  iter[s] = KeepOf(T, K)[<<iter[s \ {Max(s)}], text[Max(s)]>>]
  <2>1. iter[s] = Op(iter[s \ {Max(s)}], text[Max(s)])
    BY <1>6, <1>9
  <2> QED BY <1>2, <1>3, <1>9, <2>1
<1>10. Folding(iter, KeepOf(T, K), << >>, text, Seq(T), T)
  BY <1>1, <1>8, <1>9 DEF Folding
<1>11. iter[1 .. n] \in Seq(T) /\ FoldsTo(KeepOf(T, K), << >>, text, iter[1 .. n])
  BY <1>10, FoldReaches
<1> QED BY <1>7, <1>11

\* What is left of a text are tokens of it.
LEMMA WithoutType ==
  ASSUME NEW T, NEW K, NEW text \in Seq(T)
  PROVE  Without(text, K) \in Seq(T)
BY WithoutFolds

\* Nothing is left of nothing.
LEMMA WithoutNothing == \A K : Without(<< >>, K) = << >>
<1>1. << >> \in Seq({})
  BY EmptySeq
<1> QED BY <1>1, WithoutFolds, FoldNothing

\* Without(), one token on.
LEMMA WithoutAppend ==
  ASSUME NEW T, NEW K, NEW text \in Seq(T), NEW t \in T
  PROVE  /\ t \in K => Without(Append(text, t), K) = Without(text, K)
         /\ t \notin K => Without(Append(text, t), K) = Append(Without(text, K), t)
<1> DEFINE nothing == << >>
<1>1. Append(text, t) \in Seq(T)
  BY AppendProperties
<1>2. /\ FoldsTo(KeepOf(T, K), nothing, text, Without(text, K))
      /\ FoldsTo(KeepOf(T, K), nothing, Append(text, t), Without(Append(text, t), K))
  BY <1>1, WithoutFolds
<1> HIDE DEF nothing
<1>3. Without(Append(text, t), K) = KeepOf(T, K)[<<Without(text, K), t>>]
  BY <1>2, FoldAppend
<1> QED BY <1>3, WithoutType DEF KeepOf

\* The same for a token that is dropped.
LEMMA WithoutDrops ==
  ASSUME NEW T, NEW K, NEW text \in Seq(T), NEW t \in T, t \in K
  PROVE  Without(Append(text, t), K) = Without(text, K)
BY WithoutAppend, Zenon

\* The same for a token that is kept.
LEMMA WithoutKeeps ==
  ASSUME NEW T, NEW K, NEW text \in Seq(T), NEW t \in T, t \notin K
  PROVE  Without(Append(text, t), K) = Append(Without(text, K), t)
BY WithoutAppend, Zenon

\* Split(), token by token.
Texts(T) == Seq(Seq(T)) \ {<< >>}
SplitOf(T) ==
  [p \in Texts(T) \X T |->
     IF p[2] = Newline THEN Append(p[1], << >>)
     ELSE Append(Front(p[1]), Append(Last(p[1]), p[2]))]

\* A sequence that is not empty is its front and its last element.
LEMMA FrontAndLast ==
  ASSUME NEW S, NEW seq \in Seq(S), seq # << >>
  PROVE  /\ Front(seq) \in Seq(S) /\ Last(seq) \in S
         /\ Len(Front(seq)) = Len(seq) - 1 /\ Len(seq) \in Nat \ {0}
         /\ seq = Append(Front(seq), Last(seq))
<1>1. PICK s \in Seq(S), e \in S : seq = Append(s, e)
  BY SequenceEmptyOrAppend
<1>2. /\ Len(seq) = Len(s) + 1 /\ Len(s) \in Nat /\ seq[Len(s) + 1] = e
      /\ \A i \in 1 .. Len(s) : seq[i] = s[i]
  BY <1>1, AppendProperties, LenProperties
<1>3. Last(seq) = e
  BY <1>2 DEF Last
<1>4. Front(seq) = s
  <2>1. \A i \in 1 .. Len(s) : seq[i] \in S
    BY <1>2, ElementOfSeq
  <2>2. SubSeq(seq, 1, Len(s)) = s
    BY <1>2, <2>1, SubSeqProperties, SeqEqual
  <2> QED BY <1>2, <2>2 DEF Front
<1> QED BY <1>1, <1>2, <1>3, <1>4

\* The front and the last element of a sequence that was appended to.
LEMMA FrontOfAppend ==
  ASSUME NEW S, NEW s \in Seq(S), NEW e \in S
  PROVE  Front(Append(s, e)) = s /\ Last(Append(s, e)) = e
<1>1. Append(s, e) \in Seq(S) /\ Append(s, e) # << >>
  BY AppendProperties
<1>2. /\ Append(s, e) = Append(Front(Append(s, e)), Last(Append(s, e)))
      /\ Front(Append(s, e)) \in Seq(S) /\ Last(Append(s, e)) \in S
  BY <1>1, FrontAndLast
<1> QED BY <1>2, AppendInjective

\* One step of Split(), as a function.
LEMMA SplitType ==
  ASSUME NEW T
  PROVE  SplitOf(T) \in [Texts(T) \X T -> Texts(T)] /\ << << >> >> \in Texts(T)
<1>1. ASSUME NEW lines \in Texts(T), NEW t \in T
      PROVE  /\ Append(lines, << >>) \in Texts(T)
             /\ Append(Front(lines), Append(Last(lines), t)) \in Texts(T)
  <2>1. Front(lines) \in Seq(Seq(T)) /\ Last(lines) \in Seq(T) /\ lines \in Seq(Seq(T))
    BY FrontAndLast DEF Texts
  <2>2. Append(Last(lines), t) \in Seq(T) /\ << >> \in Seq(T)
    BY <2>1, AppendProperties, EmptySeq
  <2>3. ASSUME NEW s \in Seq(Seq(T)), NEW e \in Seq(T) PROVE Append(s, e) \in Texts(T)
    <3> DEFINE U == Seq(T)
    <3> HIDE DEF U
    <3>1. s \in Seq(U) /\ e \in U
      BY DEF U
    <3>2. Append(s, e) \in Seq(U) /\ Append(s, e) # << >>
      BY <3>1, AppendProperties
    <3> QED BY <3>2 DEF Texts, U
  <2> QED BY <2>1, <2>2, <2>3
<1>2. << << >> >> \in Texts(T)
  <2>1. << >> \in Seq(T) /\ << >> \in Seq(Seq(T))
    BY EmptySeq
  <2>2. << << >> >> = Append(<< >>, << >>)
    OBVIOUS
  <2> QED BY <2>1, <2>2, AppendProperties DEF Texts
<1> QED BY <1>1, <1>2 DEF SplitOf

\* Split() is a fold along its text.
LEMMA SplitFolds ==
  ASSUME NEW T, NEW text \in Seq(T)
  PROVE  Split(text) \in Texts(T) /\ FoldsTo(SplitOf(T), << << >> >>, text, Split(text))
<1> DEFINE n == Len(text)
           X == Texts(T)
           Op(lines, t) == IF t = Newline THEN Append(lines, << >>)
                           ELSE Append(Front(lines), Append(Last(lines), t))
           Is(i) == i = [s \in SUBSET (1 .. n) |->
                           IF s = {} THEN << << >> >> ELSE Op(i[s \ {Max(s)}], text[Max(s)])]
           iter == CHOOSE i : Is(i)
<1>0. n \in Nat /\ DOMAIN text = 1 .. n /\ \A i \in 1 .. n : text[i] \in T
  BY ElementOfSeq, LenProperties
<1>1. SplitOf(T) \in [X \X T -> X] /\ << << >> >> \in X
  BY SplitType
<1>2. \A x \in X, t \in T : SplitOf(T)[<<x, t>>] = Op(x, t)
  BY DEF SplitOf
<1>3. ASSUME NEW s \in SUBSET (1 .. n), s # {} PROVE text[Max(s)] \in T
  BY <1>0, <1>3, MaxIn
<1> HIDE DEF X
<1>4. PICK g \in [SUBSET (1 .. n) -> X] : Folds(g, SplitOf(T), << << >> >>, text, n)
  BY <1>1, FoldExists
<1>5. Is(g)
  <2>1. ASSUME NEW s \in SUBSET (1 .. n)
        PROVE  g[s] = IF s = {} THEN << << >> >> ELSE Op(g[s \ {Max(s)}], text[Max(s)])
    <3>1. g[s \ {Max(s)}] \in X
      BY <1>4
    <3>2. g[s] = IF s = {} THEN << << >> >>
                 ELSE SplitOf(T)[<<g[s \ {Max(s)}], text[Max(s)]>>]
      BY <1>4 DEF Folds
    <3> HIDE DEF Op
    <3> QED BY <1>2, <1>3, <3>1, <3>2
  <2>2. g = [s \in SUBSET (1 .. n) |-> g[s]]
    OBVIOUS
  <2> QED BY <2>1, <2>2
<1>6. Is(iter)
  <2> HIDE DEF Is
  <2> QED BY <1>5
<1>7. Split(text) = iter[1 .. n]
  BY <1>0 DEF Split, FoldLeft, MapThenFoldSet
<1> HIDE DEF iter, Op
<1>8. iter[{}] = << << >> >>
  BY <1>6
<1>9. ASSUME NEW s \in SUBSET (1 .. n), s # {}, iter[s \ {Max(s)}] \in X
      PROVE  iter[s] = SplitOf(T)[<<iter[s \ {Max(s)}], text[Max(s)]>>]
  <2>1. iter[s] = Op(iter[s \ {Max(s)}], text[Max(s)])
    BY <1>6, <1>9
  <2> QED BY <1>2, <1>3, <1>9, <2>1
<1>10. Folding(iter, SplitOf(T), << << >> >>, text, X, T)
  BY <1>1, <1>8, <1>9 DEF Folding
<1>11. iter[1 .. n] \in X /\ FoldsTo(SplitOf(T), << << >> >>, text, iter[1 .. n])
  BY <1>10, FoldReaches
<1> QED BY <1>7, <1>11 DEF X

\* Split(), from nothing and one token on.
LEMMA SplitMeans ==
  ASSUME NEW T
  PROVE  /\ Split(<< >>) = << << >> >>
         /\ \A text \in Seq(T) : Split(text) \in Texts(T)
         /\ \A text \in Seq(T), t \in T :
              Split(Append(text, t)) =
                IF t = Newline THEN Append(Split(text), << >>)
                ELSE Append(Front(Split(text)), Append(Last(Split(text)), t))
<1>1. \A text \in Seq(T) : Split(text) \in Texts(T)
  BY SplitFolds
<1>2. Split(<< >>) = << << >> >>
  <2>1. << >> \in Seq(T)
    BY EmptySeq
  <2> QED BY <2>1, SplitFolds, FoldNothing
<1>3. ASSUME NEW text \in Seq(T), NEW t \in T
      PROVE  Split(Append(text, t)) =
               IF t = Newline THEN Append(Split(text), << >>)
               ELSE Append(Front(Split(text)), Append(Last(Split(text)), t))
  <2> DEFINE nothing == << << >> >>
  <2>1. Append(text, t) \in Seq(T)
    BY AppendProperties
  <2>2. /\ FoldsTo(SplitOf(T), nothing, text, Split(text))
        /\ FoldsTo(SplitOf(T), nothing, Append(text, t), Split(Append(text, t)))
    BY <2>1, SplitFolds
  <2> HIDE DEF nothing
  <2>3. Split(Append(text, t)) = SplitOf(T)[<<Split(text), t>>]
    BY <2>2, FoldAppend
  <2> QED BY <1>1, <2>3 DEF SplitOf
<1> QED BY <1>1, <1>2, <1>3

\* FlattenSeq(), part by part.
JoinOf(T) == [p \in Seq(T) \X Seq(T) |-> p[1] \o p[2]]

\* FlattenSeq() is a fold along its parts.
LEMMA FlattenFolds ==
  ASSUME NEW T, NEW parts \in Seq(Seq(T))
  PROVE  FlattenSeq(parts) \in Seq(T) /\ FoldsTo(JoinOf(T), << >>, parts, FlattenSeq(parts))
<1> DEFINE n == Len(parts)
           Op(f, i) == IF i = 1 THEN parts[i] ELSE f[i - 1] \o parts[i]
           Is(f) == f = [i \in 1 .. n |-> Op(f, i)]
           flatten == CHOOSE f : Is(f)
           run == [k \in 0 .. n |-> IF k = 0 THEN << >> ELSE flatten[k]]
<1>0. n \in Nat /\ \A i \in 1 .. n : parts[i] \in Seq(T)
  BY ElementOfSeq, LenProperties
<1>1. JoinOf(T) \in [Seq(T) \X Seq(T) -> Seq(T)] /\ << >> \in Seq(T)
  BY ConcatProperties, EmptySeq DEF JoinOf
<1>2. \A x, y \in Seq(T) : JoinOf(T)[<<x, y>>] = x \o y
  BY DEF JoinOf
<1>3. PICK g \in [SUBSET (1 .. n) -> Seq(T)] : Folds(g, JoinOf(T), << >>, parts, n)
  BY <1>1, FoldExists
<1>4. Is([i \in 1 .. n |-> g[1 .. i]])
  <2> DEFINE f == [i \in 1 .. n |-> g[1 .. i]]
  <2>1. ASSUME NEW i \in 1 .. n PROVE f[i] = Op(f, i)
    <3> DEFINE k == i - 1
    <3>1. k \in 0 .. (n - 1) /\ i = k + 1
      BY <1>0
    <3>2. /\ 1 .. i \in SUBSET (1 .. n) /\ 1 .. i # {}
          /\ (1 .. i) \ {i} = 1 .. k /\ Max(1 .. i) = i
      BY <1>0, <3>1, Intervals
    <3>3. g[1 .. i] = JoinOf(T)[<<g[1 .. k], parts[i]>>]
      BY <1>3, <3>2 DEF Folds
    <3>4. 1 .. k \in SUBSET (1 .. n)
      BY <3>2
    <3>5. g[1 .. i] = g[1 .. k] \o parts[i]
      BY <1>0, <1>2, <1>3, <3>3, <3>4
    <3>6. CASE i = 1
      <4>1. 1 .. k = {} /\ {} \in SUBSET (1 .. n)
        BY <3>6
      <4>2. g[1 .. k] = << >>
        BY <1>3, <4>1 DEF Folds
      <4>3. << >> \o parts[i] = parts[i]
        BY <1>0, ConcatEmptySeq
      <4> QED BY <3>5, <3>6, <4>2, <4>3
    <3>7. CASE i # 1
      <4>1. k \in 1 .. n
        BY <3>1, <3>7
      <4> QED BY <3>5, <3>7, <4>1
    <3> QED BY <3>6, <3>7
  <2> QED BY <2>1
<1>5. Is(flatten)
  <2> HIDE DEF Is
  <2> QED BY <1>4
<1> HIDE DEF flatten
<1>6. \A i \in 1 .. n : flatten[i] = Op(flatten, i)
  BY <1>5
<1>7. run[0] = << >>
  <2>1. 0 \in 0 .. n
    BY <1>0
  <2> QED BY <2>1
<1>8. ASSUME NEW k \in 0 .. (n - 1), run[k] \in Seq(T)
      PROVE  run[k + 1] = JoinOf(T)[<<run[k], parts[k + 1]>>] /\ run[k + 1] \in Seq(T)
  <2>1. k + 1 \in 1 .. n /\ k + 1 \in 0 .. n /\ k \in 0 .. n /\ parts[k + 1] \in Seq(T)
    BY <1>0
  <2>2. run[k + 1] = run[k] \o parts[k + 1]
    <3>1. CASE k = 0
      <4>1. << >> \o parts[k + 1] = parts[k + 1]
        BY <2>1, ConcatEmptySeq
      <4> QED BY <1>6, <2>1, <3>1, <4>1
    <3>2. CASE k # 0
      <4> DEFINE j == k + 1
      <4>0. j \in 1 .. n /\ j # 1 /\ j - 1 = k
        BY <2>1, <3>2
      <4>1. flatten[j] = flatten[k] \o parts[j]
        <5> HIDE DEF j
        <5> QED BY <1>6, <4>0
      <4>2. run[k + 1] = flatten[k + 1] /\ run[k] = flatten[k]
        BY <2>1, <3>2
      <4> QED BY <4>1, <4>2
    <3> QED BY <3>1, <3>2
  <2> HIDE DEF run
  <2>3. run[k] \o parts[k + 1] \in Seq(T)
    BY <1>8, <2>1, ConcatProperties
  <2> QED BY <1>2, <1>8, <2>1, <2>2, <2>3
<1> HIDE DEF run
<1>9. \A k \in 0 .. n : run[k] \in Seq(T)
  <2> DEFINE S == {k \in Nat : k <= n => run[k] \in Seq(T)}
  <2>1. 0 \in S
    BY <1>1, <1>7
  <2>2. ASSUME NEW k \in Nat, k \in S PROVE k + 1 \in S
    <3>1. ASSUME k + 1 <= n PROVE run[k + 1] \in Seq(T)
      <4>1. k \in 0 .. (n - 1) /\ run[k] \in Seq(T)
        BY <1>0, <2>2, <3>1
      <4> QED BY <1>8, <4>1
    <3> QED BY <3>1
  <2> HIDE DEF S
  <2>3. \A k \in Nat : k \in S
    BY <2>1, <2>2, Induction
  <2> QED BY <1>0, <2>3 DEF S
<1>10. Runs(run, JoinOf(T), << >>, parts)
  <2>1. \A k \in 0 .. (n - 1) : k \in 0 .. n
    BY <1>0
  <2> QED BY <1>7, <1>8, <1>9, <2>1 DEF Runs
<1>11. run[n] = FlattenSeq(parts)
  <2>1. CASE n = 0
    <3>1. parts = << >>
      BY <2>1, EmptySeq
    <3> QED BY <1>7, <2>1, <3>1, EmptySeq DEF FlattenSeq
  <2>2. CASE n # 0
    <3>1. n \in 1 .. n /\ n \in 0 .. n
      BY <1>0, <2>2
    <3>2. FlattenSeq(parts) = flatten[n]
      BY <2>2, Zenon DEF FlattenSeq, flatten
    <3> QED BY <2>2, <3>1, <3>2 DEF run
  <2> QED BY <2>1, <2>2
<1>12. n \in 0 .. n
  BY <1>0
<1> QED BY <1>9, <1>10, <1>11, <1>12 DEF FoldsTo

\* FlattenSeq(), from nothing and one part on.
LEMMA FlattenMeans ==
  ASSUME NEW T
  PROVE  /\ FlattenSeq(<< >>) = << >>
         /\ \A parts \in Seq(Seq(T)) : FlattenSeq(parts) \in Seq(T)
         /\ \A parts \in Seq(Seq(T)), part \in Seq(T) :
              FlattenSeq(Append(parts, part)) = FlattenSeq(parts) \o part
<1>1. \A parts \in Seq(Seq(T)) : FlattenSeq(parts) \in Seq(T)
  BY FlattenFolds
<1>2. FlattenSeq(<< >>) = << >>
  BY EmptySeq DEF FlattenSeq
<1>3. ASSUME NEW parts \in Seq(Seq(T)), NEW part \in Seq(T)
      PROVE  FlattenSeq(Append(parts, part)) = FlattenSeq(parts) \o part
  <2> DEFINE nothing == << >>
             U == Seq(T)
  <2>1. Append(parts, part) \in Seq(U)
    <3> HIDE DEF U
    <3>1. parts \in Seq(U) /\ part \in U
      BY DEF U
    <3> QED BY <3>1, AppendProperties
  <2>2. /\ FoldsTo(JoinOf(T), nothing, parts, FlattenSeq(parts))
        /\ FoldsTo(JoinOf(T), nothing, Append(parts, part), FlattenSeq(Append(parts, part)))
    BY <2>1, FlattenFolds
  <2>3. parts \in Seq(U) /\ part \in U
    OBVIOUS
  <2> HIDE DEF nothing, U
  <2>4. FlattenSeq(Append(parts, part)) = JoinOf(T)[<<FlattenSeq(parts), part>>]
    BY <2>2, <2>3, FoldAppend
  <2> QED BY <1>1, <2>4 DEF JoinOf
<1> QED BY <1>1, <1>2, <1>3

\* Appending to the second of two joined texts.
LEMMA ConcatAppend ==
  ASSUME NEW T, NEW s \in Seq(T), NEW u \in Seq(T), NEW t \in T
  PROVE  s \o Append(u, t) = Append(s \o u, t)
<1>1. <<t>> \in Seq(T) /\ s \o u \in Seq(T)
  BY ConcatProperties
<1>2. Append(u, t) = u \o <<t>> /\ Append(s \o u, t) = (s \o u) \o <<t>>
  BY <1>1, AppendIsConcat
<1>3. (s \o u) \o <<t>> = s \o (u \o <<t>>)
  BY <1>1, ConcatAssociative
<1> QED BY <1>2, <1>3

\* What is left of two joined texts is what is left of each.
LEMMA WithoutConcat ==
  ASSUME NEW T, NEW K, NEW s \in Seq(T)
  PROVE  \A u \in Seq(T) : Without(s \o u, K) = Without(s, K) \o Without(u, K)
<1> DEFINE S == {u \in Seq(T) : Without(s \o u, K) = Without(s, K) \o Without(u, K)}
<1>0. \A u \in Seq(T) : Without(u, K) \in Seq(T)
  BY WithoutNothing, WithoutType
<1>1. << >> \in S
  <2>1. << >> \in Seq(T) /\ s \o << >> = s /\ Without(s, K) \o << >> = Without(s, K)
    BY <1>0, EmptySeq, ConcatEmptySeq
  <2> QED BY <2>1, WithoutNothing, WithoutType
<1>2. ASSUME NEW u \in Seq(T), NEW t \in T, u \in S PROVE Append(u, t) \in S
  <2>1. /\ s \o Append(u, t) = Append(s \o u, t)
        /\ s \o u \in Seq(T) /\ Append(u, t) \in Seq(T)
    BY ConcatAppend, ConcatProperties, AppendProperties
  <2> DEFINE r == s \o u
  <2>2. /\ Without(Append(r, t), K) = IF t \in K THEN Without(r, K) ELSE Append(Without(r, K), t)
        /\ Without(Append(u, t), K) = IF t \in K THEN Without(u, K) ELSE Append(Without(u, K), t)
    <3>1. r \in Seq(T)
      BY <2>1
    <3> HIDE DEF r
    <3> QED BY <3>1, WithoutDrops, WithoutKeeps
  <2>3. Without(s, K) \o Append(Without(u, K), t) = Append(Without(s, K) \o Without(u, K), t)
    BY <1>0, ConcatAppend
  <2>4. Without(s \o u, K) = Without(s, K) \o Without(u, K)
    BY <1>2
  <2>5. Without(s \o Append(u, t), K) = Without(s, K) \o Without(Append(u, t), K)
    BY <2>1, <2>2, <2>3, <2>4, Zenon
  <2> QED BY <2>1, <2>5
<1> HIDE DEF S
<1>3. \A u \in Seq(T) : u \in S
  BY <1>1, <1>2, SeqInduction
<1> QED BY <1>3 DEF S

\* All of a text is kept, or none.
LEMMA WithoutNone ==
  ASSUME NEW T, NEW K, T \cap K = {}
  PROVE  \A s \in Seq(T) : Without(s, K) = s
<1> DEFINE S == {s \in Seq(T) : Without(s, K) = s}
<1>1. << >> \in S
  BY EmptySeq, WithoutNothing, WithoutType
<1>2. ASSUME NEW s \in Seq(T), NEW t \in T, s \in S PROVE Append(s, t) \in S
  <2>1. Append(s, t) \in Seq(T) /\ t \notin K
    BY AppendProperties
  <2>2. Without(Append(s, t), K) = Append(Without(s, K), t)
    BY <2>1, WithoutDrops, WithoutKeeps
  <2> QED BY <1>2, <2>1, <2>2
<1> HIDE DEF S
<1>3. \A s \in Seq(T) : s \in S
  BY <1>1, <1>2, SeqInduction
<1> QED BY <1>3 DEF S

\* Dropping fewer tokens first changes nothing.
LEMMA WithoutTwice ==
  ASSUME NEW T, NEW J, NEW K, J \subseteq K
  PROVE  \A s \in Seq(T) : Without(Without(s, J), K) = Without(s, K)
<1> DEFINE S == {s \in Seq(T) : Without(Without(s, J), K) = Without(s, K)}
<1>1. << >> \in S
  BY EmptySeq, WithoutNothing, WithoutType
<1>2. ASSUME NEW s \in Seq(T), NEW t \in T, s \in S PROVE Append(s, t) \in S
  <2> DEFINE r == Without(s, J)
  <2>1. Append(s, t) \in Seq(T) /\ r \in Seq(T)
    BY AppendProperties, WithoutNothing, WithoutType
  <2>2. /\ Without(Append(s, t), J) = IF t \in J THEN r ELSE Append(r, t)
        /\ Without(Append(s, t), K) = IF t \in K THEN Without(s, K) ELSE Append(Without(s, K), t)
        /\ Without(Append(r, t), K) = IF t \in K THEN Without(r, K) ELSE Append(Without(r, K), t)
    BY <2>1, WithoutDrops, WithoutKeeps
  <2>3. Without(r, K) = Without(s, K) /\ (t \in J => t \in K)
    BY <1>2
  <2>4. Without(Without(Append(s, t), J), K) = Without(Append(s, t), K)
    <3> HIDE DEF r
    <3> QED BY <2>2, <2>3
  <2> QED BY <2>1, <2>4
<1> HIDE DEF S
<1>3. \A s \in Seq(T) : s \in S
  BY <1>1, <1>2, SeqInduction
<1> QED BY <1>3 DEF S

-----------------------------------------------------------------------------
\* Size(), token by token.
SizeOf(t) == IF t \in Tokens \cup Foreign THEN LineLength ELSE 1

\* Size(), from nothing and one token on.
LEMMA SizeMeans ==
  ASSUME NEW T
  PROVE  /\ Size(<< >>) = 0
         /\ \A text \in Seq(T), t \in T : Size(Append(text, t)) = Size(text) + SizeOf(t)
         /\ \A text \in Seq(T) : Size(text) \in Nat
<1> DEFINE K == Tokens \cup Foreign
           chars(text) == Len(Without(text, K))
<1>0. LineLength \in Nat
  BY ParserAssumption DEF ParserAssumption
<1>1. chars(<< >>) = 0 /\ Len(<< >>) = 0
  BY WithoutNothing, WithoutType, EmptySeq
<1>2. \A text \in Seq(T) : chars(text) \in Nat /\ Len(text) \in Nat
  BY WithoutNothing, WithoutType, LenProperties
<1>3. ASSUME NEW text \in Seq(T), NEW t \in T
      PROVE  /\ Len(Append(text, t)) = Len(text) + 1
             /\ chars(Append(text, t)) = IF t \in K THEN chars(text) ELSE chars(text) + 1
  <2>1. Without(Append(text, t), K) =
          IF t \in K THEN Without(text, K) ELSE Append(Without(text, K), t)
    BY WithoutDrops, WithoutKeeps
  <2>2. Without(text, K) \in Seq(T)
    BY WithoutNothing, WithoutType
  <2>3. Len(Append(Without(text, K), t)) = chars(text) + 1
    BY <2>2, AppendProperties
  <2> QED BY <2>1, <2>3, AppendProperties
<1> HIDE DEF chars
<1>4. \A text : Size(text) = chars(text) + LineLength * (Len(text) - chars(text))
  BY DEF Size, chars
<1>5. Size(<< >>) = 0
  <2>1. LineLength * (0 - 0) = 0
    BY <1>0
  <2> QED BY <1>1, <1>4, <2>1
<1>6. ASSUME NEW text \in Seq(T), NEW t \in T
      PROVE  Size(Append(text, t)) = Size(text) + SizeOf(t)
  <2>0. \A n \in Int : LineLength * (n + 1) = LineLength * n + LineLength
    BY <1>0
  <2> DEFINE m == Len(text)
             c == chars(text)
  <2>1. m \in Nat /\ c \in Nat /\ m - c \in Int
    BY <1>2
  <2>2. CASE t \in K
    <3>1. chars(Append(text, t)) = c /\ Len(Append(text, t)) = m + 1
      BY <1>3, <2>2
    <3>2. Size(Append(text, t)) = c + LineLength * ((m + 1) - c)
      BY <1>4, <3>1
    <3>3. (m + 1) - c = (m - c) + 1
      BY <2>1
    <3>4. LineLength * ((m + 1) - c) = LineLength * (m - c) + LineLength
      BY <2>0, <2>1, <3>3
    <3>5. Size(text) = c + LineLength * (m - c) /\ LineLength * (m - c) \in Int
      BY <1>0, <1>4, <2>1
    <3> QED BY <1>0, <2>1, <2>2, <3>2, <3>4, <3>5 DEF SizeOf
  <2>3. CASE t \notin K
    <3>1. chars(Append(text, t)) = c + 1 /\ Len(Append(text, t)) = m + 1
      BY <1>3, <2>3
    <3>2. Size(Append(text, t)) = (c + 1) + LineLength * ((m + 1) - (c + 1))
      BY <1>4, <3>1
    <3>3. (m + 1) - (c + 1) = m - c
      BY <2>1
    <3>5. Size(text) = c + LineLength * (m - c) /\ LineLength * (m - c) \in Int
      BY <1>0, <1>4, <2>1
    <3> QED BY <2>1, <2>3, <3>2, <3>3, <3>5 DEF SizeOf
  <2> QED BY <2>2, <2>3
<1>7. \A text \in Seq(T) : Size(text) \in Nat
  <2> DEFINE S == {text \in Seq(T) : Size(text) \in Nat}
  <2>1. << >> \in S
    BY <1>5, EmptySeq
  <2>2. ASSUME NEW text \in Seq(T), NEW t \in T, text \in S PROVE Append(text, t) \in S
    <3>1. Append(text, t) \in Seq(T) /\ SizeOf(t) \in Nat
      BY <1>0, AppendProperties DEF SizeOf
    <3> QED BY <1>6, <2>2, <3>1
  <2> HIDE DEF S
  <2>3. \A text \in Seq(T) : text \in S
    BY <2>1, <2>2, SeqInduction
  <2> QED BY <2>3 DEF S
<1> QED BY <1>5, <1>6, <1>7

\* The size of a token.
LEMMA SizeOfNat == \A t : SizeOf(t) \in Nat
BY ParserAssumption DEF ParserAssumption, SizeOf

\* The size of two joined texts is that of each.
LEMMA SizeConcat ==
  ASSUME NEW T, NEW s \in Seq(T)
  PROVE  \A u \in Seq(T) : Size(s \o u) = Size(s) + Size(u)
<1> DEFINE S == {u \in Seq(T) : Size(s \o u) = Size(s) + Size(u)}
<1>1. << >> \in S
  <2>1. << >> \in Seq(T) /\ s \o << >> = s /\ Size(s) \in Nat
    BY EmptySeq, ConcatEmptySeq, SizeMeans
  <2> QED BY <2>1, SizeMeans
<1>2. ASSUME NEW u \in Seq(T), NEW t \in T, u \in S PROVE Append(u, t) \in S
  <2>1. /\ s \o Append(u, t) = Append(s \o u, t)
        /\ s \o u \in Seq(T) /\ Append(u, t) \in Seq(T)
    BY ConcatAppend, ConcatProperties, AppendProperties
  <2>2. /\ Size(Append(s \o u, t)) = Size(s \o u) + SizeOf(t)
        /\ Size(Append(u, t)) = Size(u) + SizeOf(t)
    BY <2>1, SizeMeans
  <2>3. Size(s) \in Nat /\ Size(u) \in Nat /\ SizeOf(t) \in Nat
    BY SizeMeans, SizeOfNat
  <2>4. Size(s \o u) = Size(s) + Size(u)
    BY <1>2
  <2>5. Size(s \o Append(u, t)) = Size(s) + Size(Append(u, t))
    BY <2>1, <2>2, <2>3, <2>4
  <2> QED BY <2>1, <2>5
<1> HIDE DEF S
<1>3. \A u \in Seq(T) : u \in S
  BY <1>1, <1>2, SeqInduction
<1> QED BY <1>3 DEF S

\* What is kept is no larger than the text.
LEMMA SizeWithout ==
  ASSUME NEW T, NEW K
  PROVE  \A s \in Seq(T) : Size(Without(s, K)) <= Size(s)
<1> DEFINE S == {s \in Seq(T) : Size(Without(s, K)) <= Size(s)}
<1>1. << >> \in S
  BY EmptySeq, WithoutNothing, WithoutType, SizeMeans
<1>2. ASSUME NEW s \in Seq(T), NEW t \in T, s \in S PROVE Append(s, t) \in S
  <2> DEFINE r == Without(s, K)
  <2>1. Append(s, t) \in Seq(T) /\ r \in Seq(T)
    BY AppendProperties, WithoutNothing, WithoutType
  <2>2. Without(Append(s, t), K) = IF t \in K THEN r ELSE Append(r, t)
    BY <2>1, WithoutDrops, WithoutKeeps
  <2>3. /\ Size(Append(r, t)) = Size(r) + SizeOf(t)
        /\ Size(Append(s, t)) = Size(s) + SizeOf(t)
        /\ Size(r) \in Nat /\ Size(s) \in Nat /\ SizeOf(t) \in Nat
    BY <2>1, SizeMeans, SizeOfNat
  <2>4. Size(r) <= Size(s)
    BY <1>2
  <2> HIDE DEF r
  <2>5. Size(Without(Append(s, t), K)) <= Size(Append(s, t))
    BY <2>2, <2>3, <2>4
  <2> QED BY <2>1, <2>5
<1> HIDE DEF S
<1>3. \A s \in Seq(T) : s \in S
  BY <1>1, <1>2, SeqInduction
<1> QED BY <1>3 DEF S

\* A text without header lines is as long as it is large.
LEMMA SizeOfCharacters ==
  ASSUME NEW T, T \cap (Tokens \cup Foreign) = {}
  PROVE  \A s \in Seq(T) : Size(s) = Len(s)
<1>0. LineLength \in Nat
  BY ParserAssumption DEF ParserAssumption
<1>1. ASSUME NEW s \in Seq(T) PROVE Size(s) = Len(s)
  <2>1. Without(s, Tokens \cup Foreign) = s /\ Len(s) \in Nat
    BY WithoutNone, LenProperties
  <2>2. Size(s) = Len(s) + LineLength * (Len(s) - Len(s))
    BY <2>1 DEF Size
  <2>3. Len(s) - Len(s) = 0 /\ LineLength * 0 = 0
    BY <1>0, <2>1
  <2> QED BY <2>1, <2>2, <2>3
<1> QED BY <1>1

\* A newline begins a new line.
LEMMA SplitNewline ==
  ASSUME NEW T, NEW text \in Seq(T), Newline \in T
  PROVE  Split(Append(text, Newline)) = Append(Split(text), << >>)
<1>1. \A s \in Seq(T), e \in T : e = Newline => Split(Append(s, e)) = Append(Split(s), << >>)
  BY SplitMeans
<1> QED BY <1>1

\* Any other token belongs to the last line.
LEMMA SplitOther ==
  ASSUME NEW T, NEW text \in Seq(T), NEW t \in T, t # Newline
  PROVE  Split(Append(text, t)) = Append(Front(Split(text)), Append(Last(Split(text)), t))
<1>1. \A s \in Seq(T), e \in T :
        e # Newline => Split(Append(s, e)) = Append(Front(Split(s)), Append(Last(Split(s)), e))
  BY SplitMeans
<1> QED BY <1>1

\* What Split() makes, as a sequence that is not empty.
LEMMA SplitParts ==
  ASSUME NEW T, NEW text \in Seq(T)
  PROVE  /\ Split(text) \in Seq(Seq(T)) /\ Split(text) # << >>
         /\ Front(Split(text)) \in Seq(Seq(T)) /\ Last(Split(text)) \in Seq(T)
         /\ Len(Split(text)) \in Nat \ {0}
         /\ Len(Front(Split(text))) = Len(Split(text)) - 1
         /\ Split(text) = Append(Front(Split(text)), Last(Split(text)))
<1> DEFINE U == Seq(T)
           lines == Split(text)
<1>1. lines \in Seq(U) /\ lines # << >>
  BY SplitMeans DEF Texts
<1> HIDE DEF U, lines
<1>2. /\ Front(lines) \in Seq(U) /\ Last(lines) \in U
      /\ Len(Front(lines)) = Len(lines) - 1 /\ Len(lines) \in Nat \ {0}
      /\ lines = Append(Front(lines), Last(lines))
  BY <1>1, FrontAndLast
<1> QED BY <1>1, <1>2 DEF U, lines

\* A text is split after any of its newlines.
LEMMA SplitConcat ==
  ASSUME NEW T, NEW s \in Seq(T), Newline \in T
  PROVE  \A u \in Seq(T) : Split(Append(s, Newline) \o u) = Split(s) \o Split(u)
<1> DEFINE S == {u \in Seq(T) : Split(Append(s, Newline) \o u) = Split(s) \o Split(u)}
           v == Append(s, Newline)
           nothing == << >>
           U == Seq(T)
<1>0. v \in Seq(T) /\ nothing \in Seq(T) /\ nothing \in U
  BY AppendProperties, EmptySeq
<1>1. << >> \in S
  <2>1. v \o << >> = v /\ Split(<< >>) = <<nothing>>
    BY <1>0, ConcatEmptySeq, SplitMeans
  <2>2. Split(s) \in Seq(U)
    BY SplitParts
  <2>3. Split(v) = Append(Split(s), nothing)
    BY SplitNewline
  <2>4. Append(Split(s), nothing) = Split(s) \o <<nothing>>
    <3> HIDE DEF U
    <3> QED BY <1>0, <2>2, AppendIsConcat
  <2> QED BY <1>0, <2>1, <2>3, <2>4
<1>2. ASSUME NEW u \in Seq(T), NEW t \in T, u \in S PROVE Append(u, t) \in S
  <2> DEFINE a == Split(s)
             b == Split(u)
  <2>1. /\ a \in Seq(U) /\ b \in Seq(U) /\ Front(b) \in Seq(U) /\ Last(b) \in U
        /\ b = Append(Front(b), Last(b))
    BY SplitParts
  <2>2. v \o Append(u, t) = Append(v \o u, t) /\ v \o u \in Seq(T) /\ Append(u, t) \in Seq(T)
    BY <1>0, ConcatAppend, ConcatProperties, AppendProperties
  <2>3. Split(v \o u) = a \o b
    BY <1>2
  <2>4. CASE t = Newline
    <3>1. Split(Append(u, t)) = Append(b, nothing)
      BY <2>4, SplitNewline
    <3>2. Split(Append(v \o u, t)) = Append(a \o b, nothing)
      <4> DEFINE r == v \o u
      <4>1. r \in Seq(T) /\ Split(r) = a \o b
        BY <2>2, <2>3
      <4> HIDE DEF r, a, b, nothing
      <4>2. Split(Append(r, Newline)) = Append(Split(r), << >>)
        BY <4>1, SplitNewline
      <4> QED BY <2>4, <4>1, <4>2 DEF r, nothing
    <3>3. a \o Append(b, nothing) = Append(a \o b, nothing)
      <4> HIDE DEF U, a, b, nothing
      <4> QED BY <1>0, <2>1, ConcatAppend
    <3> QED BY <2>2, <3>1, <3>2, <3>3
  <2>5. CASE t # Newline
    <3> DEFINE l == Append(Last(b), t)
    <3>1. Split(Append(u, t)) = Append(Front(b), l)
      BY <2>5, SplitOther
    <3>2. Split(Append(v \o u, t)) = Append(Front(a \o b), Append(Last(a \o b), t))
      <4> DEFINE r == v \o u
      <4>1. r \in Seq(T) /\ Split(r) = a \o b
        BY <2>2, <2>3
      <4> HIDE DEF r, a, b
      <4>2. Split(Append(r, t)) = Append(Front(Split(r)), Append(Last(Split(r)), t))
        BY <2>5, <4>1, SplitOther
      <4> QED BY <4>1, <4>2 DEF r
    <3>3. l \in U
      BY <2>1, AppendProperties
    <3> HIDE DEF U, a, b, l
    <3>4. a \o b = Append(a \o Front(b), Last(b)) /\ a \o Front(b) \in Seq(U)
      BY <2>1, ConcatAppend, ConcatProperties
    <3>5. Front(a \o b) = a \o Front(b) /\ Last(a \o b) = Last(b)
      <4> DEFINE f == a \o Front(b)
                 e == Last(b)
      <4>1. f \in Seq(U) /\ e \in U /\ a \o b = Append(f, e)
        BY <2>1, <3>4
      <4> HIDE DEF f, e
      <4>2. Front(Append(f, e)) = f /\ Last(Append(f, e)) = e
        BY <4>1, FrontOfAppend
      <4> QED BY <4>1, <4>2 DEF f, e
    <3>6. a \o Append(Front(b), l) = Append(a \o Front(b), l)
      BY <2>1, <3>3, ConcatAppend
    <3>7. Split(Append(v \o u, t)) = Append(a \o Front(b), l)
      BY <3>2, <3>5 DEF l
    <3>8. Split(v \o Append(u, t)) = a \o Split(Append(u, t))
      BY <2>2, <3>1, <3>6, <3>7, Zenon
    <3> QED BY <2>2, <3>8 DEF a
  <2> QED BY <2>4, <2>5
<1> HIDE DEF S
<1>3. \A u \in Seq(T) : u \in S
  BY <1>1, <1>2, SeqInduction
<1> QED BY <1>3 DEF S

\* The lines of a text hold all of it but their ends, whether or not an empty
\* one at the end counts.
LEMMA LinesHold ==
  ASSUME NEW T
  PROVE  \A u \in Seq(T) :
           /\ FlattenSeq(Split(u)) = Without(u, {Newline})
           /\ FlattenSeq(Lines(u)) = Without(u, {Newline})
<1> DEFINE S == {u \in Seq(T) : FlattenSeq(Split(u)) = Without(u, {Newline})}
           nothing == << >>
<1>0. nothing \in Seq(T)
  BY EmptySeq
<1>1. << >> \in S
  <2>1. Split(nothing) = <<nothing>> /\ <<nothing>> = Append(nothing, nothing)
    BY SplitMeans
  <2>2. nothing \in Seq(Seq(T))
    BY EmptySeq
  <2>3. /\ FlattenSeq(nothing) = nothing
        /\ FlattenSeq(Append(nothing, nothing)) = FlattenSeq(nothing) \o nothing
    BY <1>0, <2>2, FlattenMeans
  <2>4. nothing \o nothing = nothing /\ Without(nothing, {Newline}) = nothing
    BY <1>0, WithoutNothing, WithoutType
  <2> QED BY <1>0, <2>1, <2>3, <2>4
<1>2. ASSUME NEW u \in Seq(T), NEW t \in T, u \in S PROVE Append(u, t) \in S
  <2> DEFINE b == Split(u)
  <2>1. /\ b \in Seq(Seq(T)) /\ Front(b) \in Seq(Seq(T)) /\ Last(b) \in Seq(T)
        /\ b = Append(Front(b), Last(b))
    BY SplitParts
  <2>2. FlattenSeq(b) = Without(u, {Newline}) /\ Append(u, t) \in Seq(T)
    BY <1>2, AppendProperties
  <2>3. CASE t = Newline
    <3>1. Split(Append(u, t)) = Append(b, nothing)
      BY <2>3, SplitNewline
    <3>2. FlattenSeq(Append(b, nothing)) = FlattenSeq(b) \o nothing
      BY <1>0, <2>1, FlattenMeans
    <3>3. FlattenSeq(b) \in Seq(T)
      BY <2>1, FlattenMeans
    <3>4. FlattenSeq(b) \o nothing = FlattenSeq(b)
      BY <3>3, ConcatEmptySeq
    <3>5. Without(Append(u, t), {Newline}) = Without(u, {Newline})
      BY <2>3, WithoutDrops
    <3> QED BY <2>2, <3>1, <3>2, <3>4, <3>5
  <2>4. CASE t # Newline
    <3> DEFINE f == FlattenSeq(Front(b))
               l == Last(b)
    <3>1. Split(Append(u, t)) = Append(Front(b), Append(l, t))
      BY <2>4, SplitOther
    <3>2. Append(l, t) \in Seq(T) /\ f \in Seq(T)
      BY <2>1, AppendProperties, FlattenMeans
    <3>3. FlattenSeq(Append(Front(b), Append(l, t))) = f \o Append(l, t)
      BY <2>1, <3>2, FlattenMeans
    <3>4. FlattenSeq(b) = f \o l
      <4>1. FlattenSeq(Append(Front(b), l)) = f \o l
        BY <2>1, FlattenMeans
      <4> QED BY <2>1, <4>1
    <3>5. f \o Append(l, t) = Append(f \o l, t)
      <4> HIDE DEF f, l
      <4> QED BY <2>1, <3>2, ConcatAppend DEF l
    <3>6. Without(Append(u, t), {Newline}) = Append(Without(u, {Newline}), t)
      BY <2>4, WithoutKeeps
    <3> QED BY <2>2, <3>1, <3>3, <3>4, <3>5, <3>6
  <2> QED BY <2>3, <2>4
<1> HIDE DEF S
<1>3. \A u \in Seq(T) : u \in S
  BY <1>1, <1>2, SeqInduction
<1>4. ASSUME NEW u \in Seq(T), Last(Split(u)) = nothing
      PROVE  FlattenSeq(Front(Split(u))) = FlattenSeq(Split(u))
  <2> DEFINE b == Split(u)
  <2>1. Front(b) \in Seq(Seq(T)) /\ b = Append(Front(b), nothing)
    BY <1>4, SplitParts
  <2>2. /\ FlattenSeq(Append(Front(b), nothing)) = FlattenSeq(Front(b)) \o nothing
        /\ FlattenSeq(Front(b)) \in Seq(T)
    BY <1>0, <2>1, FlattenMeans
  <2>3. FlattenSeq(Front(b)) \o nothing = FlattenSeq(Front(b))
    BY <2>2, ConcatEmptySeq
  <2> QED BY <2>1, <2>2, <2>3
<1> QED BY <1>3, <1>4 DEF S, Lines

-----------------------------------------------------------------------------
\* Texts that begin with lines of one token each, as a header does.

\* A text that begins with lines of one token each.
Singles(line, k) == [i \in 1 .. k |-> <<line[i]>>]
BeginsWith(w, line, T) ==
  /\ w \in Seq(T) /\ line \in Seq(T \ {Newline}) /\ Newline \in T
  /\ 2 * Len(line) <= Len(w)
  /\ \A i \in 1 .. Len(line) : w[2 * i - 1] = line[i] /\ w[2 * i] = Newline

\* Lines of one token each.
LEMMA SinglesType ==
  ASSUME NEW T, NEW line \in Seq(T), NEW k \in 0 .. Len(line)
  PROVE  /\ Singles(line, k) \in Seq(Seq(T)) /\ Len(Singles(line, k)) = k
         /\ k < Len(line) => Singles(line, k + 1) = Append(Singles(line, k), <<line[k + 1]>>)
<1>0. Len(line) \in Nat /\ k \in Nat /\ \A i \in 1 .. Len(line) : line[i] \in T
  BY LenProperties, ElementOfSeq
<1> DEFINE U == Seq(T)
           one(i) == <<line[i]>>
<1>1. \A i \in 1 .. Len(line) : one(i) \in U
  BY <1>0
<1>2. ASSUME NEW j \in 0 .. Len(line)
      PROVE  /\ Singles(line, j) \in Seq(U) /\ Len(Singles(line, j)) = j
             /\ \A i \in 1 .. j : Singles(line, j)[i] = one(i)
  <2>1. j \in Nat /\ \A i \in 1 .. j : one(i) \in U
    BY <1>0, <1>1
  <2> HIDE DEF U, one
  <2>2. Singles(line, j) = [i \in 1 .. j |-> one(i)]
    BY DEF Singles, one
  <2> QED BY <2>1, <2>2
<1> HIDE DEF U, one
<1>3. ASSUME k < Len(line) PROVE Singles(line, k + 1) = Append(Singles(line, k), one(k + 1))
  <2> DEFINE a == Singles(line, k)
             b == Singles(line, k + 1)
  <2>1. k + 1 \in 0 .. Len(line) /\ k + 1 \in 1 .. Len(line)
    BY <1>0, <1>3
  <2>2. /\ b \in Seq(U) /\ Len(b) = k + 1 /\ \A i \in 1 .. (k + 1) : b[i] = one(i)
        /\ a \in Seq(U) /\ Len(a) = k /\ \A i \in 1 .. k : a[i] = one(i)
    BY <1>2, <2>1
  <2> HIDE DEF a, b
  <2>3. Append(a, one(k + 1)) \in Seq(U) /\ Len(Append(a, one(k + 1))) = k + 1
    BY <1>1, <2>1, <2>2, AppendProperties
  <2>4. \A i \in 1 .. (k + 1) : b[i] = Append(a, one(k + 1))[i]
    BY <1>0, <1>1, <2>1, <2>2, AppendProperties
  <2>5. b = Append(a, one(k + 1))
    BY <2>2, <2>3, <2>4, SeqEqual
  <2> QED BY <2>5 DEF a, b
<1> QED BY <1>2, <1>3 DEF U, one

\* Part of a text, with one more token.
LEMMA PrefixGrows ==
  ASSUME NEW T, NEW w \in Seq(T), NEW n \in 0 .. (Len(w) - 1)
  PROVE  /\ SubSeq(w, 1, n) \in Seq(T) /\ w[n + 1] \in T
         /\ SubSeq(w, 1, n + 1) = Append(SubSeq(w, 1, n), w[n + 1])
<1>0. Len(w) \in Nat /\ n \in Nat /\ \A i \in 1 .. Len(w) : w[i] \in T
  BY LenProperties, ElementOfSeq
<1>1. SubSeq(w, 1, n) \in Seq(T) /\ w[n + 1] \in T
  BY <1>0, SubSeqProperties
<1>2. 1 \in 1 .. Len(w) /\ n + 1 \in 1 .. Len(w) /\ (n + 1) - 1 = n
  BY <1>0
<1>3. SubSeq(w, 1, n + 1) = SubSeq(w, 1, (n + 1) - 1) \o <<w[n + 1]>>
  BY <1>2, SubSeqRecursiveSecond
<1>4. Append(SubSeq(w, 1, n), w[n + 1]) = SubSeq(w, 1, n) \o <<w[n + 1]>>
  BY <1>1, AppendIsConcat
<1> QED BY <1>1, <1>2, <1>3, <1>4

\* A part of a text.
LEMMA PartType ==
  ASSUME NEW T, NEW w \in Seq(T), NEW m \in Nat, NEW n \in 0 .. Len(w)
  PROVE  /\ SubSeq(w, m + 1, n) \in Seq(T)
         /\ Len(SubSeq(w, m + 1, n)) = IF m < n THEN n - m ELSE 0
         /\ \A i \in 1 .. (n - m) : SubSeq(w, m + 1, n)[i] = w[m + i]
<1>0. Len(w) \in Nat /\ n \in Nat /\ \A i \in 1 .. Len(w) : w[i] \in T
  BY LenProperties, ElementOfSeq
<1>1. m + 1 \in Int /\ n \in Int /\ \A i \in m + 1 .. n : w[i] \in T
  BY <1>0
<1>2. /\ SubSeq(w, m + 1, n) \in Seq(T)
      /\ Len(SubSeq(w, m + 1, n)) = IF m + 1 <= n THEN n - (m + 1) + 1 ELSE 0
      /\ \A i \in 1 .. n - (m + 1) + 1 : SubSeq(w, m + 1, n)[i] = w[(m + 1) + i - 1]
  BY <1>1, SubSeqProperties
<1>3. \A i \in 1 .. (n - m) : i \in 1 .. n - (m + 1) + 1 /\ (m + 1) + i - 1 = m + i
  BY <1>0
<1> QED BY <1>0, <1>2, <1>3

\* Two parts that meet are one part.
LEMMA PartsJoin ==
  ASSUME NEW T, NEW w \in Seq(T), NEW l \in Nat, NEW m \in l .. Len(w), NEW n \in m .. Len(w)
  PROVE  SubSeq(w, l + 1, n) = SubSeq(w, l + 1, m) \o SubSeq(w, m + 1, n)
<1>0. Len(w) \in Nat
  BY LenProperties
<1>1. l + 1 \in 1 .. Len(w) + 1 /\ m \in (l + 1) - 1 .. Len(w)
  BY <1>0
<1> QED BY <1>1, ConcatAdjacentSubSeq

\* What is left of a concatenation without its first part.
LEMMA RestOfConcat ==
  ASSUME NEW T, NEW s \in Seq(T), NEW u \in Seq(T)
  PROVE  SubSeq(s \o u, Len(s) + 1, Len(s \o u)) = u
<1> DEFINE r == SubSeq(s \o u, Len(s) + 1, Len(s \o u))
<1>1. /\ Len(s) \in Nat /\ Len(u) \in Nat /\ s \o u \in Seq(T)
      /\ Len(s \o u) = Len(s) + Len(u)
      /\ \A i \in 1 .. Len(s) + Len(u) : (s \o u)[i] = IF i <= Len(s) THEN s[i] ELSE u[i - Len(s)]
  BY LenProperties, ConcatProperties
<1>2. Len(s \o u) \in 0 .. Len(s \o u)
  BY <1>1
<1>3. /\ r \in Seq(T)
      /\ Len(r) = IF Len(s) < Len(s \o u) THEN Len(s \o u) - Len(s) ELSE 0
      /\ \A i \in 1 .. (Len(s \o u) - Len(s)) : r[i] = (s \o u)[Len(s) + i]
  BY <1>1, <1>2, PartType
<1> HIDE DEF r
<1>4. Len(r) = Len(u)
  BY <1>1, <1>3
<1>5. ASSUME NEW i \in 1 .. Len(u) PROVE r[i] = u[i]
  <2>1. /\ Len(s) + i \in 1 .. Len(s) + Len(u) /\ ~(Len(s) + i <= Len(s))
        /\ (Len(s) + i) - Len(s) = i /\ i \in 1 .. (Len(s \o u) - Len(s))
    BY <1>1
  <2>2. (s \o u)[Len(s) + i] = u[(Len(s) + i) - Len(s)]
    BY <1>1, <2>1
  <2> QED BY <1>3, <2>1, <2>2
<1>6. r = u
  BY <1>3, <1>4, <1>5, SeqEqual
<1> QED BY <1>6 DEF r

\* The lines of a text that begins with lines of one token each.
LEMMA HeaderSplit ==
  ASSUME NEW T, NEW w, NEW line, BeginsWith(w, line, T)
  PROVE  \A k \in 0 .. Len(line) :
           /\ Split(SubSeq(w, 1, 2 * k)) = Append(Singles(line, k), << >>)
           /\ k < Len(line) =>
                Split(SubSeq(w, 1, 2 * k + 1)) = Append(Singles(line, k), <<line[k + 1]>>)
<1> DEFINE m == Len(line)
           nothing == << >>
           Even(k) == Split(SubSeq(w, 1, 2 * k)) = Append(Singles(line, k), nothing)
           Odd(k) == Split(SubSeq(w, 1, 2 * k + 1)) = Append(Singles(line, k), <<line[k + 1]>>)
           S == {k \in Nat : k <= m => Even(k)}
           U == Seq(T)
<1>0. /\ w \in Seq(T) /\ line \in Seq(T) /\ Newline \in T /\ Len(w) \in Nat /\ m \in Nat
      /\ 2 * m <= Len(w) /\ nothing \in U
      /\ \A i \in 1 .. m : /\ line[i] \in T /\ line[i] # Newline
                           /\ w[2 * i - 1] = line[i] /\ w[2 * i] = Newline
  <2>1. line \in Seq(T \ {Newline}) /\ T \ {Newline} \subseteq T
    BY DEF BeginsWith
  <2>2. line \in Seq(T)
    BY <2>1, SeqMonotonic
  <2>3. Len(line) \in Nat /\ \A i \in 1 .. Len(line) : line[i] \in T \ {Newline}
    BY <2>1, LenProperties, ElementOfSeq
  <2>4. w \in Seq(T)
    BY DEF BeginsWith
  <2> QED BY <2>2, <2>3, <2>4, LenProperties, EmptySeq DEF BeginsWith
<1>1. \A k \in 0 .. m : Singles(line, k) \in Seq(U) /\ Len(Singles(line, k)) = k
  BY <1>0, SinglesType
<1>2. ASSUME NEW k \in Nat, k < m PROVE Singles(line, k + 1) = Append(Singles(line, k), <<line[k + 1]>>)
  <2>1. k \in 0 .. m
    BY <1>0, <1>2
  <2> QED BY <1>0, <1>2, <2>1, SinglesType
<1>3. ASSUME NEW k \in Nat, k < m, Even(k) PROVE Odd(k) /\ Even(k + 1)
  <2> DEFINE v == SubSeq(w, 1, 2 * k)
             x == SubSeq(w, 1, 2 * k + 1)
             a == Singles(line, k)
             t == line[k + 1]
  <2>1. /\ k + 1 \in 1 .. m /\ 2 * (k + 1) - 1 = 2 * k + 1 /\ 2 * (k + 1) = (2 * k + 1) + 1
        /\ 2 * k \in 0 .. (Len(w) - 1) /\ 2 * k + 1 \in 0 .. (Len(w) - 1) /\ k \in 0 .. m
    BY <1>0, <1>3
  <2>2. t \in T /\ t # Newline /\ w[2 * k + 1] = t /\ w[(2 * k + 1) + 1] = Newline
    BY <1>0, <2>1
  <2>3. v \in Seq(T) /\ x = Append(v, t)
    BY <1>0, <2>1, <2>2, PrefixGrows
  <2>4. x \in Seq(T) /\ SubSeq(w, 1, (2 * k + 1) + 1) = Append(x, Newline)
    BY <1>0, <2>1, <2>2, PrefixGrows
  <2>5. a \in Seq(U)
    BY <1>1, <2>1
  <2>6. Front(Append(a, nothing)) = a /\ Last(Append(a, nothing)) = nothing
    <3> HIDE DEF U, a, nothing
    <3> QED BY <1>0, <2>5, FrontOfAppend
  <2>7. Append(nothing, t) = <<t>>
    BY <2>2
  <2>8. Split(x) = Append(a, <<t>>)
    <3>1. Split(Append(v, t)) = Append(Front(Split(v)), Append(Last(Split(v)), t))
      <4> HIDE DEF v, t
      <4> QED BY <2>2, <2>3, SplitOther
    <3> QED BY <1>3, <2>3, <2>6, <2>7, <3>1
  <2>9. Split(Append(x, Newline)) = Append(Split(x), nothing)
    <3> HIDE DEF x
    <3> QED BY <1>0, <2>4, SplitNewline
  <2>10. Append(a, <<t>>) = Singles(line, k + 1)
    BY <1>2, <1>3
  <2> QED BY <2>1, <2>4, <2>8, <2>9, <2>10
<1>4. Even(0)
  <2>1. SubSeq(w, 1, 2 * 0) = nothing
    BY SubSeqEmpty
  <2>2. Singles(line, 0) = nothing
    BY DEF Singles
  <2>3. Split(nothing) = <<nothing>> /\ Append(nothing, nothing) = <<nothing>>
    BY SplitMeans
  <2> QED BY <2>1, <2>2, <2>3
<1> HIDE DEF Even, Odd
<1>5. \A k \in Nat : k \in S
  <2>1. 0 \in S
    BY <1>4
  <2>2. ASSUME NEW k \in Nat, k \in S PROVE k + 1 \in S
    <3>1. ASSUME k + 1 <= m PROVE Even(k + 1)
      <4>1. k < m /\ k <= m
        BY <1>0, <3>1
      <4> QED BY <1>3, <2>2, <4>1
    <3> QED BY <3>1
  <2> HIDE DEF S
  <2> QED BY <2>1, <2>2, Induction
<1>6. ASSUME NEW k \in 0 .. m PROVE Even(k) /\ (k < m => Odd(k))
  <2>1. k \in Nat /\ k <= m
    BY <1>0
  <2> QED BY <1>3, <1>5, <2>1
<1> QED BY <1>6 DEF Even, Odd

\* The kind of lines of a text.
LEMMA LinesType ==
  ASSUME NEW T, NEW u \in Seq(T)
  PROVE  Lines(u) \in Seq(Seq(T)) /\ Len(Lines(u)) <= Len(Split(u))
<1>1. /\ Split(u) \in Seq(Seq(T)) /\ Front(Split(u)) \in Seq(Seq(T))
      /\ Len(Front(Split(u))) = Len(Split(u)) - 1 /\ Len(Split(u)) \in Nat
  BY SplitParts
<1> QED BY <1>1 DEF Lines

\* After whole lines of one token each, the lines of the rest.
LEMMA LinesLong ==
  ASSUME NEW T, NEW w, NEW line, BeginsWith(w, line, T),
         NEW k \in 1 .. Len(line), NEW n \in 2 * k .. Len(w)
  PROVE  /\ Lines(SubSeq(w, 1, n)) = Singles(line, k) \o Lines(SubSeq(w, 2 * k + 1, n))
         /\ SubSeq(w, 2 * k + 1, n) \in Seq(T)
<1> DEFINE j == k - 1
           v == SubSeq(w, 1, 2 * j + 1)
           u == SubSeq(w, 2 * k + 1, n)
           text == SubSeq(w, 1, n)
           a == Singles(line, k)
           b == Split(u)
           U == Seq(T)
<1>0. w \in Seq(T) /\ line \in Seq(T) /\ Newline \in T /\ Len(line) \in Nat /\ Len(w) \in Nat
  <2>1. line \in Seq(T \ {Newline}) /\ T \ {Newline} \subseteq T /\ w \in Seq(T) /\ Newline \in T
    BY DEF BeginsWith
  <2> QED BY <2>1, SeqMonotonic, LenProperties
<1>1. /\ j \in 0 .. Len(line) /\ j < Len(line) /\ j + 1 = k /\ 2 * k = (2 * j + 1) + 1
      /\ 2 * j + 1 \in 0 .. (Len(w) - 1) /\ 2 * k \in 0 .. Len(w) /\ 2 * k \in Nat /\ 0 \in Nat
      /\ n \in 0 .. Len(w) /\ w[2 * k] = Newline /\ k \in 0 .. Len(line)
  BY <1>0 DEF BeginsWith
<1>2. v \in Seq(T) /\ SubSeq(w, 1, 2 * k) = Append(v, Newline)
  BY <1>0, <1>1, PrefixGrows
<1>3. Split(v) = a
  <2>1. Split(v) = Append(Singles(line, j), <<line[j + 1]>>)
    BY <1>1, HeaderSplit
  <2>2. Singles(line, j + 1) = Append(Singles(line, j), <<line[j + 1]>>)
    BY <1>0, <1>1, SinglesType
  <2> QED BY <1>1, <2>1, <2>2
<1>4. u \in Seq(T)
  BY <1>0, <1>1, PartType
<1>5. text = SubSeq(w, 1, 2 * k) \o u
  <2>1. 0 + 1 = 1 /\ 2 * k \in 0 .. Len(w) /\ n \in 2 * k .. Len(w)
    BY <1>1
  <2>2. SubSeq(w, 0 + 1, n) = SubSeq(w, 0 + 1, 2 * k) \o SubSeq(w, 2 * k + 1, n)
    BY <1>0, <2>1, PartsJoin
  <2> QED BY <2>1, <2>2
<1>6. Split(text) = a \o b
  <2>1. Split(Append(v, Newline) \o u) = Split(v) \o Split(u)
    <3> HIDE DEF v, u
    <3> QED BY <1>0, <1>2, <1>4, SplitConcat
  <2> QED BY <1>2, <1>3, <1>5, <2>1
<1>7. /\ a \in Seq(U) /\ Front(b) \in Seq(U) /\ Last(b) \in U
      /\ b = Append(Front(b), Last(b))
  BY <1>0, <1>1, <1>4, SinglesType, SplitParts
<1>8. Front(a \o b) = a \o Front(b) /\ Last(a \o b) = Last(b)
  <2> HIDE DEF U, a, b
  <2> DEFINE f == a \o Front(b)
             e == Last(b)
  <2>1. f \in Seq(U) /\ e \in U /\ a \o b = Append(f, e)
    <3>1. a \o Append(Front(b), Last(b)) = Append(a \o Front(b), Last(b))
      BY <1>7, ConcatAppend
    <3> QED BY <1>7, <3>1, ConcatProperties
  <2> HIDE DEF f, e
  <2>2. Front(Append(f, e)) = f /\ Last(Append(f, e)) = e
    BY <2>1, FrontOfAppend
  <2> QED BY <2>1, <2>2 DEF f, e
<1>9. Lines(text) = a \o Lines(u)
  <2> HIDE DEF a, text, u
  <2>1. Lines(text) = IF Last(Split(text)) = << >> THEN Front(Split(text)) ELSE Split(text)
    BY DEF Lines
  <2>2. Lines(u) = IF Last(b) = << >> THEN Front(b) ELSE b
    BY DEF Lines
  <2> HIDE DEF b
  <2> QED BY <1>6, <1>8, <2>1, <2>2
<1> QED BY <1>4, <1>9

\* Before the end of the kth line there are no more than k.
LEMMA LinesShort ==
  ASSUME NEW T, NEW w, NEW line, BeginsWith(w, line, T),
         NEW k \in 1 .. Len(line), NEW n \in 0 .. (2 * k - 1)
  PROVE  /\ Len(Lines(SubSeq(w, 1, n))) <= k
         /\ SubSeq(w, 1, n) \in Seq(T)
<1> DEFINE j == n \div 2
           text == SubSeq(w, 1, n)
           U == Seq(T)
<1>0. /\ w \in Seq(T) /\ line \in Seq(T) /\ Len(line) \in Nat /\ Len(w) \in Nat
      /\ \A i \in 1 .. Len(line) : line[i] \in T
  <2>1. line \in Seq(T \ {Newline}) /\ T \ {Newline} \subseteq T /\ w \in Seq(T)
    BY DEF BeginsWith
  <2> QED BY <2>1, SeqMonotonic, LenProperties, ElementOfSeq
<1>1. /\ j \in 0 .. Len(line) /\ j < Len(line) /\ j < k /\ (n = 2 * j \/ n = 2 * j + 1)
      /\ n \in 0 .. Len(w) /\ j + 1 \in 1 .. Len(line)
  BY <1>0 DEF BeginsWith
<1>2. text \in Seq(T)
  <2>1. SubSeq(w, 0 + 1, n) \in Seq(T)
    BY <1>0, <1>1, PartType
  <2> QED BY <2>1
<1> HIDE DEF j
<1>3. \E x \in U : Split(text) = Append(Singles(line, j), x)
  <2>1. << >> \in U /\ <<line[j + 1]>> \in U
    BY <1>0, <1>1
  <2>2. CASE n = 2 * j
    BY <1>1, <2>1, <2>2, HeaderSplit
  <2>3. CASE n = 2 * j + 1
    BY <1>1, <2>1, <2>3, HeaderSplit
  <2> QED BY <1>1, <2>2, <2>3
<1>4. Len(Split(text)) = j + 1
  <2>1. Singles(line, j) \in Seq(U) /\ Len(Singles(line, j)) = j
    BY <1>0, <1>1, SinglesType
  <2> HIDE DEF U
  <2> QED BY <1>3, <2>1, AppendProperties
<1>5. Lines(text) \in Seq(U) /\ Len(Lines(text)) <= Len(Split(text))
  BY <1>2, LinesType
<1>6. Len(Lines(text)) \in Nat
  BY <1>5, LenProperties
<1> QED BY <1>0, <1>1, <1>2, <1>4, <1>5, <1>6

\* What follows the first k lines of what was read.
Rest(w, k, n) ==
  IF n < 2 * k THEN << >> ELSE Without(SubSeq(w, 2 * k + 1, n), {Newline})

\* What follows the first k lines is the rest without its newlines.
LEMMA RestOfLines ==
  ASSUME NEW T, NEW w, NEW line, BeginsWith(w, line, T),
         NEW k \in 1 .. Len(line), NEW n \in 0 .. Len(w)
  PROVE  FlattenSeq(SubSeq(Lines(SubSeq(w, 1, n)), k + 1, Len(Lines(SubSeq(w, 1, n)))))
           = Rest(w, k, n)
<1> DEFINE text == SubSeq(w, 1, n)
           lines == Lines(text)
           U == Seq(T)
<1>0. /\ w \in Seq(T) /\ line \in Seq(T) /\ Len(line) \in Nat /\ Len(w) \in Nat
      /\ k \in 0 .. Len(line) /\ k \in Int
  <2>1. line \in Seq(T \ {Newline}) /\ T \ {Newline} \subseteq T /\ w \in Seq(T)
    BY DEF BeginsWith
  <2> QED BY <2>1, SeqMonotonic, LenProperties
<1>1. CASE n < 2 * k
  <2>1. n \in 0 .. (2 * k - 1)
    BY <1>0, <1>1
  <2>2. Len(lines) <= k /\ text \in Seq(T)
    BY <2>1, LinesShort
  <2>3. lines \in Seq(U)
    BY <2>2, LinesType
  <2>4. Len(lines) \in Nat
    BY <2>3, LenProperties
  <2> HIDE DEF lines
  <2>5. SubSeq(lines, k + 1, Len(lines)) = << >>
    <3>1. k + 1 \in Int /\ Len(lines) \in Int /\ Len(lines) < k + 1
      BY <1>0, <2>2, <2>4
    <3> QED BY <3>1, SubSeqEmpty
  <2>6. FlattenSeq(<< >>) = << >>
    BY FlattenMeans
  <2> QED BY <1>1, <2>5, <2>6 DEF lines, Rest
<1>2. CASE ~(n < 2 * k)
  <2> DEFINE u == SubSeq(w, 2 * k + 1, n)
             a == Singles(line, k)
  <2>1. n \in 2 * k .. Len(w)
    BY <1>0, <1>2
  <2>2. lines = a \o Lines(u) /\ u \in Seq(T)
    BY <2>1, LinesLong
  <2>3. Lines(u) \in Seq(U) /\ FlattenSeq(Lines(u)) = Without(u, {Newline})
    BY <2>2, LinesType, LinesHold
  <2>4. a \in Seq(U) /\ Len(a) = k
    BY <1>0, SinglesType
  <2>5. SubSeq(a \o Lines(u), Len(a) + 1, Len(a \o Lines(u))) = Lines(u)
    <3> HIDE DEF U, u, a
    <3> QED BY <2>3, <2>4, RestOfConcat
  <2> QED BY <1>2, <2>2, <2>3, <2>4, <2>5 DEF Rest
<1> QED BY <1>1, <1>2

PairsOf(h) == [i \in DOMAIN h |-> <<h[i], Newline>>]

\* Lines of one token each, with their ends.
LEMMA PairsHold ==
  ASSUME NEW K, NEW T, K \subseteq T, Newline \in T
  PROVE  \A h \in Seq(K) :
           /\ FlattenSeq(PairsOf(h)) \in Seq(T) /\ Len(FlattenSeq(PairsOf(h))) = 2 * Len(h)
           /\ \A i \in 1 .. Len(h) : /\ FlattenSeq(PairsOf(h))[2 * i - 1] = h[i]
                                     /\ FlattenSeq(PairsOf(h))[2 * i] = Newline
<1> DEFINE U == Seq(T)
           Good(h) == /\ PairsOf(h) \in Seq(U)
                      /\ FlattenSeq(PairsOf(h)) \in Seq(T)
                      /\ Len(FlattenSeq(PairsOf(h))) = 2 * Len(h)
                      /\ \A i \in 1 .. Len(h) : /\ FlattenSeq(PairsOf(h))[2 * i - 1] = h[i]
                                                /\ FlattenSeq(PairsOf(h))[2 * i] = Newline
           S == {h \in Seq(K) : Good(h)}
<1>1. << >> \in S
  <2> DEFINE nothing == << >>
  <2>1. PairsOf(nothing) = nothing
    BY DEF PairsOf
  <2>2. FlattenSeq(nothing) = nothing
    BY FlattenMeans
  <2>3. nothing \in Seq(K) /\ nothing \in Seq(T) /\ nothing \in Seq(U) /\ Len(nothing) = 0
    BY EmptySeq
  <2>4. 1 .. 0 = {} /\ 0 = 2 * 0
    OBVIOUS
  <2> HIDE DEF nothing
  <2>5. Good(nothing)
    BY <2>1, <2>2, <2>3, <2>4
  <2> QED BY <2>3, <2>5 DEF nothing
<1>2. ASSUME NEW h \in Seq(K), NEW t \in K, h \in S PROVE Append(h, t) \in S
  <2> DEFINE g == Append(h, t)
             p == PairsOf(h)
             e == <<t, Newline>>
             n == Len(h)
             f == FlattenSeq(p)
  <2>1. /\ g \in Seq(K) /\ Len(g) = n + 1 /\ g[n + 1] = t /\ n \in Nat
        /\ \A i \in 1 .. n : g[i] = h[i]
        /\ DOMAIN h = 1 .. n /\ DOMAIN g = 1 .. (n + 1)
    BY AppendProperties, LenProperties
  <2>2. e \in U /\ Len(e) = 2 /\ e[1] = t /\ e[2] = Newline
    OBVIOUS
  <2>3. /\ p \in Seq(U) /\ f \in Seq(T) /\ Len(f) = 2 * n
        /\ \A i \in 1 .. n : f[2 * i - 1] = h[i] /\ f[2 * i] = Newline
    BY <1>2
  <2>4. Len(p) = n /\ \A i \in 1 .. n : p[i] = <<h[i], Newline>>
    <3>1. DOMAIN p = 1 .. n /\ \A i \in 1 .. n : p[i] = <<h[i], Newline>>
      BY <2>1 DEF PairsOf
    <3>2. Len(p) \in Nat /\ DOMAIN p = 1 .. Len(p)
      <4> HIDE DEF U, p
      <4> QED BY <2>3, LenProperties
    <3> QED BY <2>1, <3>1, <3>2
  <2>5. PairsOf(g) = Append(p, e)
    <3> DEFINE q == PairsOf(g)
    <3>1. q = [i \in 1 .. (n + 1) |-> <<g[i], Newline>>]
      BY <2>1 DEF PairsOf
    <3>2. \A i \in 1 .. (n + 1) : <<g[i], Newline>> \in U
      BY <2>1, ElementOfSeq
    <3>3. q \in Seq(U) /\ Len(q) = n + 1 /\ \A i \in 1 .. (n + 1) : q[i] = <<g[i], Newline>>
      <4> DEFINE x(i) == <<g[i], Newline>>
      <4>1. \A i \in 1 .. (n + 1) : x(i) \in U
        BY <3>2
      <4>2. q = [i \in 1 .. (n + 1) |-> x(i)] /\ n + 1 \in Nat
        BY <2>1, <3>1
      <4> HIDE DEF x, U, q
      <4>3. q \in Seq(U) /\ Len(q) = n + 1 /\ \A i \in 1 .. (n + 1) : q[i] = x(i)
        BY <4>1, <4>2
      <4> QED BY <4>3 DEF x
    <3> HIDE DEF q, p, e, U
    <3>4. /\ Append(p, e) \in Seq(U) /\ Len(Append(p, e)) = n + 1
          /\ Append(p, e)[n + 1] = e /\ \A i \in 1 .. n : Append(p, e)[i] = p[i]
      BY <2>2, <2>3, <2>4, AppendProperties
    <3>5. ASSUME NEW i \in 1 .. (n + 1) PROVE q[i] = Append(p, e)[i]
      <4>1. CASE i = n + 1
        BY <2>1, <3>3, <3>4, <4>1 DEF e
      <4>2. CASE i # n + 1
        <5>1. i \in 1 .. n
          BY <2>1, <4>2
        <5> QED BY <2>1, <2>4, <3>3, <3>4, <5>1
      <4> QED BY <4>1, <4>2
    <3> QED BY <3>3, <3>4, <3>5, SeqEqual DEF q
  <2>6. FlattenSeq(PairsOf(g)) = f \o e
    <3>1. FlattenSeq(Append(p, e)) = FlattenSeq(p) \o e
      <4> HIDE DEF p, e
      <4> QED BY <2>2, <2>3, FlattenMeans
    <3> QED BY <2>5, <3>1
  <2> DEFINE v == f \o e
  <2>e. e \in Seq(T)
    BY <2>2
  <2> HIDE DEF p, e, f, g
  <2>7. /\ v \in Seq(T) /\ Len(v) = 2 * n + 2
        /\ \A i \in 1 .. (2 * n + 2) : v[i] = IF i <= 2 * n THEN f[i] ELSE e[i - 2 * n]
    <3>1. /\ v \in Seq(T) /\ Len(v) = Len(f) + Len(e)
          /\ \A i \in 1 .. Len(f) + Len(e) : v[i] = IF i <= Len(f) THEN f[i] ELSE e[i - Len(f)]
      BY <2>e, <2>3, ConcatProperties
    <3> HIDE DEF v
    <3> QED BY <2>1, <2>2, <2>3, <3>1
  <2> HIDE DEF v
  <2>8. ASSUME NEW i \in 1 .. (n + 1) PROVE v[2 * i - 1] = g[i] /\ v[2 * i] = Newline
    <3>1. CASE i = n + 1
      <4>1. /\ 2 * i - 1 \in 1 .. (2 * n + 2) /\ ~(2 * i - 1 <= 2 * n) /\ (2 * i - 1) - 2 * n = 1
            /\ 2 * i \in 1 .. (2 * n + 2) /\ ~(2 * i <= 2 * n) /\ 2 * i - 2 * n = 2
        BY <2>1, <3>1
      <4>2. v[2 * i - 1] = e[(2 * i - 1) - 2 * n] /\ v[2 * i] = e[2 * i - 2 * n]
        BY <2>7, <4>1
      <4> QED BY <2>1, <2>2, <3>1, <4>1, <4>2
    <3>2. CASE i # n + 1
      <4>1. /\ i \in 1 .. n /\ 2 * i - 1 \in 1 .. (2 * n + 2) /\ 2 * i - 1 <= 2 * n
            /\ 2 * i \in 1 .. (2 * n + 2) /\ 2 * i <= 2 * n
        BY <2>1, <3>2
      <4>2. v[2 * i - 1] = f[2 * i - 1] /\ v[2 * i] = f[2 * i]
        BY <2>7, <4>1
      <4> QED BY <2>1, <2>3, <4>1, <4>2
    <3> QED BY <3>1, <3>2
  <2>9. PairsOf(g) \in Seq(U)
    <3> HIDE DEF U
    <3> QED BY <2>2, <2>3, <2>5, AppendProperties
  <2>10. Good(g)
    <3>1. Len(v) = 2 * Len(g)
      BY <2>1, <2>7
    <3>2. FlattenSeq(PairsOf(g)) = v
      BY <2>6 DEF v
    <3> QED BY <2>1, <2>7, <2>8, <2>9, <3>1, <3>2
  <2> QED BY <2>1, <2>10 DEF g
<1> HIDE DEF S
<1>3. \A h \in Seq(K) : h \in S
  BY <1>1, <1>2, SeqInduction
<1> QED BY <1>3 DEF S

-----------------------------------------------------------------------------
\* What the assumptions say of the text that a client sends.

\* Header lines, the lines before the empty one, and all tokens of a request.
Headers == Tokens \cup Foreign
FirstLines(r) == <<r.first>> \o r.heads
Alphabet(r) == {r.first} \cup ToSet(r.heads) \cup ToSet(r.body) \cup Blank

\* What is assumed of a request, in terms of its parts.
LEMMA RequestParts ==
  ASSUME NEW r \in Requests
  PROVE  /\ r.first \notin Headers \cup {"open"} \cup Blank
         /\ r.heads \in Seq(ToSet(r.heads)) /\ ToSet(r.heads) \subseteq Headers
         /\ Len(r.heads) \in Nat /\ DOMAIN r.heads = 1 .. Len(r.heads)
         /\ \A i \in 1 .. Len(r.heads) : r.heads[i] \in ToSet(r.heads)
         /\ r.body \in Seq(ToSet(r.body) \ Headers) /\ Len(r.body) \in Nat
         /\ ToSet(r.body) \cap Headers = {}
         /\ r.length = NotANumber \/ r.length \in -SizeRange .. (SizeRange - 1)
<1>1. /\ r.first \notin Headers \cup {"open"} \cup Blank
      /\ r.heads \in Seq(Headers) /\ r.body \in Seq(ToSet(r.body) \ Headers)
      /\ r.length = NotANumber \/ r.length \in -SizeRange .. (SizeRange - 1)
  BY ParserAssumption DEF ParserAssumption, Headers
<1>2. /\ Len(r.heads) \in Nat /\ DOMAIN r.heads = 1 .. Len(r.heads)
      /\ \A i \in 1 .. Len(r.heads) : r.heads[i] \in Headers
  BY <1>1, LenProperties, ElementOfSeq
<1>3. ToSet(r.heads) \subseteq Headers /\ \A i \in 1 .. Len(r.heads) : r.heads[i] \in ToSet(r.heads)
  BY <1>2 DEF ToSet
<1>4. r.heads \in Seq(ToSet(r.heads))
  <2> DEFINE h == r.heads
             V == ToSet(h)
  <2>1. h \in Seq(Headers) /\ \A i \in 1 .. Len(h) : h[i] \in V
    BY <1>1, <1>3
  <2>2. 1 \in Int /\ Len(h) \in Int
    BY <1>2
  <2> HIDE DEF h, V
  <2>3. SubSeq(h, 1, Len(h)) \in Seq(V)
    BY <2>1, <2>2, SubSeqProperties
  <2>4. SubSeq(h, 1, Len(h)) = h
    BY <2>1, SubSeqFull
  <2> QED BY <2>3, <2>4 DEF h, V
<1>5. Len(r.body) \in Nat /\ ToSet(r.body) \cap Headers = {}
  <2>1. /\ Len(r.body) \in Nat /\ DOMAIN r.body = 1 .. Len(r.body)
        /\ \A i \in 1 .. Len(r.body) : r.body[i] \in ToSet(r.body) \ Headers
    BY <1>1, LenProperties, ElementOfSeq
  <2> QED BY <2>1 DEF ToSet
<1> QED BY <1>1, <1>2, <1>3, <1>4, <1>5

\* The text of a request: line by line, an empty line, and its body.
LEMMA WireShape ==
  ASSUME NEW r \in Requests
  PROVE  /\ BeginsWith(Wire(r), FirstLines(r), Alphabet(r))
         /\ Len(FirstLines(r)) = Len(r.heads) + 1
         /\ \A i \in 1 .. Len(r.heads) + 1 :
              FirstLines(r)[i] = IF i = 1 THEN r.first ELSE r.heads[i - 1]
         /\ HeaderEnd(r) = 2 * (Len(r.heads) + 1) + 2
         /\ Len(Wire(r)) = HeaderEnd(r) + Len(r.body)
         /\ Wire(r)[HeaderEnd(r) - 1] = Return /\ Wire(r)[HeaderEnd(r)] = Newline
         /\ \A i \in 1 .. Len(r.body) : Wire(r)[HeaderEnd(r) + i] = r.body[i]
<1> DEFINE T == Alphabet(r)
           a == <<r.first, Newline>>
           f == FlattenSeq(PairsOf(r.heads))
           e == <<Return, Newline>>
           m == Len(r.heads)
           h == 2 * (m + 1)
           line == FirstLines(r)
           b == r.body
           x == a \o f
           y == x \o e
           w == y \o b
<1>1. /\ m \in Nat /\ Len(b) \in Nat /\ b \in Seq(T) /\ r.heads \in Seq(ToSet(r.heads))
      /\ ToSet(r.heads) \subseteq T /\ Newline \in T /\ Return \in T /\ r.first \in T
      /\ ToSet(r.heads) \subseteq T \ {Newline} /\ r.first \in T \ {Newline}
      /\ \A i \in 1 .. m : r.heads[i] \in T \ {Newline}
  <2>1. b \in Seq(ToSet(b) \ Headers) /\ (ToSet(b) \ Headers) \subseteq T
    BY RequestParts DEF Alphabet
  <2>2. b \in Seq(T)
    BY <2>1, SeqMonotonic
  <2>3. Newline \in T /\ Return \in T /\ r.first \in T /\ ToSet(r.heads) \subseteq T /\ Newline \in Blank
    BY DEF Alphabet, Blank
  <2>4. Newline \notin Headers
    BY ParserAssumption, <2>3 DEF ParserAssumption, Headers
  <2>5. ToSet(r.heads) \subseteq Headers /\ r.first # Newline
    BY <2>3, RequestParts
  <2> QED BY <2>2, <2>3, <2>4, <2>5, RequestParts
<1>2. /\ f \in Seq(T) /\ Len(f) = 2 * m
      /\ \A i \in 1 .. m : f[2 * i - 1] = r.heads[i] /\ f[2 * i] = Newline
  BY <1>1, PairsHold
<1>3. /\ a \in Seq(T) /\ Len(a) = 2 /\ a[1] = r.first /\ a[2] = Newline
      /\ e \in Seq(T) /\ Len(e) = 2 /\ e[1] = Return /\ e[2] = Newline
  BY <1>1
<1>4. Wire(r) = w
  BY DEF Wire, PairsOf
<1>h. h \in Nat /\ Len(b) \in Nat
  BY <1>1
<1>b. b \in Seq(T)
  BY <1>1
<1>d. h = 2 * (m + 1)
  OBVIOUS
<1>l. b = r.body /\ Len(b) = Len(r.body) /\ \A i \in 1 .. Len(r.body) : b[i] = r.body[i]
  OBVIOUS
<1> HIDE DEF f, a, e, T, h, b
<1>5. /\ x \in Seq(T) /\ Len(x) = h
      /\ \A i \in 1 .. h : x[i] = IF i <= 2 THEN a[i] ELSE f[i - 2]
  <2>1. /\ x \in Seq(T) /\ Len(x) = Len(a) + Len(f)
        /\ \A i \in 1 .. Len(a) + Len(f) : x[i] = IF i <= Len(a) THEN a[i] ELSE f[i - Len(a)]
    BY <1>2, <1>3, ConcatProperties
  <2>2. Len(a) + Len(f) = h
    BY <1>1, <1>h, <1>d, <1>2, <1>3
  <2> QED BY <1>3, <2>1, <2>2
<1> HIDE DEF x
<1>6. /\ y \in Seq(T) /\ Len(y) = h + 2
      /\ \A i \in 1 .. (h + 2) : y[i] = IF i <= h THEN x[i] ELSE e[i - h]
  <2>1. /\ y \in Seq(T) /\ Len(y) = Len(x) + Len(e)
        /\ \A i \in 1 .. Len(x) + Len(e) : y[i] = IF i <= Len(x) THEN x[i] ELSE e[i - Len(x)]
    BY <1>3, <1>5, ConcatProperties
  <2> QED BY <1>3, <1>5, <2>1
<1> HIDE DEF y
<1>7. /\ w \in Seq(T) /\ Len(w) = h + 2 + Len(b)
      /\ \A i \in 1 .. (h + 2 + Len(b)) : w[i] = IF i <= h + 2 THEN y[i] ELSE b[i - (h + 2)]
  <2>1. /\ w \in Seq(T) /\ Len(w) = Len(y) + Len(b)
        /\ \A i \in 1 .. Len(y) + Len(b) : w[i] = IF i <= Len(y) THEN y[i] ELSE b[i - Len(y)]
    <3>1. y \in Seq(T)
      BY <1>6
    <3> QED BY <1>b, <3>1, ConcatProperties
  <2> QED BY <1>6, <2>1
<1> HIDE DEF w
<1>8. HeaderEnd(r) = h + 2
  BY <1>4, <1>h, <1>l, <1>7 DEF HeaderEnd
<1>9. w[h + 1] = Return /\ w[h + 2] = Newline
  <2>1. /\ h + 1 \in 1 .. (h + 2) /\ h + 2 \in 1 .. (h + 2) /\ ~(h + 1 <= h) /\ ~(h + 2 <= h)
        /\ (h + 1) - h = 1 /\ (h + 2) - h = 2
        /\ h + 1 \in 1 .. (h + 2 + Len(b)) /\ h + 2 \in 1 .. (h + 2 + Len(b))
        /\ h + 1 <= h + 2 /\ h + 2 <= h + 2
    BY <1>h
  <2>2. y[h + 1] = e[(h + 1) - h] /\ y[h + 2] = e[(h + 2) - h]
    BY <1>6, <2>1
  <2>3. w[h + 1] = y[h + 1] /\ w[h + 2] = y[h + 2]
    BY <1>7, <2>1
  <2> QED BY <1>3, <2>1, <2>2, <2>3
<1>10. ASSUME NEW i \in 1 .. Len(b) PROVE w[(h + 2) + i] = b[i]
  <2>1. (h + 2) + i \in 1 .. (h + 2 + Len(b)) /\ ~((h + 2) + i <= h + 2) /\ ((h + 2) + i) - (h + 2) = i
    BY <1>h
  <2>2. w[(h + 2) + i] = b[((h + 2) + i) - (h + 2)]
    BY <1>7, <2>1
  <2> QED BY <2>1, <2>2
<1>11. /\ line \in Seq(T \ {Newline}) /\ Len(line) = m + 1
       /\ \A i \in 1 .. (m + 1) : line[i] = IF i = 1 THEN r.first ELSE r.heads[i - 1]
  <2> DEFINE one == <<r.first>>
             V == T \ {Newline}
  <2>1. one \in Seq(V) /\ Len(one) = 1 /\ one[1] = r.first
    BY <1>1
  <2>2. r.heads \in Seq(V)
    BY <1>1, SeqMonotonic
  <2>3. line = one \o r.heads
    BY DEF FirstLines
  <2> HIDE DEF one, V, line
  <2>4. /\ line \in Seq(V) /\ Len(line) = Len(one) + m
        /\ \A i \in 1 .. Len(one) + m : line[i] = IF i <= Len(one) THEN one[i] ELSE r.heads[i - Len(one)]
    BY <2>1, <2>2, <2>3, ConcatProperties
  <2>5. \A i \in 1 .. (m + 1) : (i <= 1 <=> i = 1) /\ i \in 1 .. Len(one) + m
    BY <1>1, <2>1
  <2> QED BY <1>1, <2>1, <2>4, <2>5 DEF V
<1>12. ASSUME NEW i \in 1 .. (m + 1)
       PROVE  w[2 * i - 1] = line[i] /\ w[2 * i] = Newline
  <2>1. /\ 2 * i - 1 \in 1 .. h /\ 2 * i \in 1 .. h
        /\ 2 * i - 1 <= h /\ 2 * i <= h /\ 2 * i - 1 <= h + 2 /\ 2 * i <= h + 2
        /\ 2 * i - 1 \in 1 .. (h + 2) /\ 2 * i \in 1 .. (h + 2)
        /\ 2 * i - 1 \in 1 .. (h + 2 + Len(b)) /\ 2 * i \in 1 .. (h + 2 + Len(b))
    <3>1. 1 <= 2 * i - 1 /\ 2 * i <= h /\ i \in Nat
      BY <1>1, <1>h, <1>d
    <3> QED BY <1>h, <3>1
  <2>2. w[2 * i - 1] = x[2 * i - 1] /\ w[2 * i] = x[2 * i]
    BY <1>6, <1>7, <2>1
  <2>3. CASE i = 1
    <3>1. /\ 2 * i - 1 = 1 /\ 2 * i = 2 /\ 1 \in 1 .. h /\ 2 \in 1 .. h
      BY <2>1, <2>3
    <3>2. x[1] = a[1] /\ x[2] = a[2]
      BY <1>5, <3>1
    <3>3. line[1] = r.first
      BY <1>1, <1>11
    <3> QED BY <1>3, <2>2, <2>3, <3>1, <3>2, <3>3
  <2>4. CASE i # 1
    <3> DEFINE j == i - 1
    <3>1. /\ j \in 1 .. m /\ (2 * i - 1) - 2 = 2 * j - 1 /\ (2 * i) - 2 = 2 * j
          /\ ~(2 * i - 1 <= 2) /\ ~(2 * i <= 2)
      BY <1>1, <2>4
    <3>2. x[2 * i - 1] = f[(2 * i - 1) - 2] /\ x[2 * i] = f[(2 * i) - 2]
      BY <1>5, <2>1, <3>1
    <3>3. f[2 * j - 1] = r.heads[j] /\ f[2 * j] = Newline
      BY <1>2, <3>1
    <3>4. line[i] = r.heads[j]
      BY <1>11, <2>4
    <3> QED BY <2>2, <3>1, <3>2, <3>3, <3>4
  <2> QED BY <2>3, <2>4
<1>13. 2 * Len(line) <= Len(w)
  BY <1>1, <1>h, <1>d, <1>7, <1>11
<1>14. BeginsWith(w, line, T)
  <2> HIDE DEF line
  <2> QED BY <1>1, <1>7, <1>11, <1>12, <1>13 DEF BeginsWith
<1>15. BeginsWith(Wire(r), FirstLines(r), Alphabet(r))
  BY <1>4, <1>14 DEF T
<1>16. (h + 2) - 1 = h + 1
  BY <1>h
<1> HIDE DEF line
<1>17. /\ Len(line) = Len(r.heads) + 1
       /\ \A i \in 1 .. Len(r.heads) + 1 : line[i] = IF i = 1 THEN r.first ELSE r.heads[i - 1]
  BY <1>11
<1>18. \A i \in 1 .. Len(r.body) : Wire(r)[HeaderEnd(r) + i] = r.body[i]
  BY <1>4, <1>l, <1>8, <1>10
<1>19. HeaderEnd(r) = 2 * (Len(r.heads) + 1) + 2
  BY <1>h, <1>d, <1>8
<1> QED BY <1>4, <1>l, <1>19, <1>7, <1>8, <1>9, <1>15, <1>16, <1>17, <1>18 DEF line

\* A header has at most as many lines as tokens, and as many when none is repeated.
LEMMA HeadsCounted ==
  ASSUME NEW r \in Requests
  PROVE  /\ IsFiniteSet(ToSet(r.heads)) /\ Cardinality(ToSet(r.heads)) <= Len(r.heads)
         /\ IsInjective(r.heads) => Cardinality(ToSet(r.heads)) = Len(r.heads)
<1> DEFINE h == r.heads
           D == 1 .. Len(h)
           V == ToSet(h)
<1>1. Len(h) \in Nat /\ DOMAIN h = D /\ h \in [D -> V]
  BY RequestParts, LenProperties
<1>2. \A t \in V : \E i \in D : h[i] = t
  BY <1>1 DEF ToSet
<1>3. IsFiniteSet(D) /\ Cardinality(D) = Len(h)
  <2>1. 1 \in Int /\ Len(h) \in Int
    BY <1>1
  <2>2. IsFiniteSet(D) /\ Cardinality(D) = IF 1 > Len(h) THEN 0 ELSE Len(h) - 1 + 1
    BY <2>1, FS_Interval
  <2> QED BY <1>1, <2>2
<1> HIDE DEF h, D, V
<1>4. h \in Surjection(D, V)
  BY <1>1, <1>2 DEF Surjection
<1>5. /\ IsFiniteSet(V) /\ Cardinality(V) <= Cardinality(D)
      /\ Cardinality(V) = Cardinality(D) <=> h \in Injection(D, V)
  BY <1>3, <1>4, FS_Surjection
<1>6. IsInjective(h) => h \in Injection(D, V)
  BY <1>1 DEF Injection
<1> QED BY <1>3, <1>5, <1>6 DEF h, V

\* Of the alphabet of a request, the header lines are those of its header.
LEMMA AlphabetHeaders ==
  ASSUME NEW r \in Requests
  PROVE  Alphabet(r) \cap Headers = ToSet(r.heads)
<1>1. Blank \cap Headers = {}
  BY ParserAssumption DEF ParserAssumption, Headers
<1> QED BY <1>1, RequestParts DEF Alphabet

\* Read lines as the parser splits them.
Seen(r, n) == Lines(SubSeq(Wire(r), 1, n))

\* The kind of lines that are read.
LEMMA SeenType ==
  ASSUME NEW r \in Requests, NEW n \in 0 .. Len(Wire(r))
  PROVE  Seen(r, n) \in Seq(Seq(Alphabet(r))) /\ Wire(r) \in Seq(Alphabet(r))
<1>1. Wire(r) \in Seq(Alphabet(r))
  BY WireShape DEF BeginsWith
<1>2. SubSeq(Wire(r), 0 + 1, n) \in Seq(Alphabet(r))
  BY <1>1, PartType
<1>3. SubSeq(Wire(r), 1, n) \in Seq(Alphabet(r))
  BY <1>2
<1>4. Lines(SubSeq(Wire(r), 1, n)) \in Seq(Seq(Alphabet(r)))
  BY <1>3, LinesType
<1> QED BY <1>1, <1>4 DEF Seen

\* There are at most as many fields as header lines.
LEMMA FieldsBound ==
  ASSUME NEW r \in Requests, NEW n \in 0 .. Len(Wire(r))
  PROVE  /\ Fields(Seen(r, n)) \subseteq ToSet(r.heads)
         /\ Cardinality(Fields(Seen(r, n))) + 1 \in 1 .. Len(r.heads) + 1
<1> DEFINE lines == Seen(r, n)
           T == Alphabet(r)
           U == Seq(T)
<1>1. lines \in Seq(U)
  BY SeenType
<1> HIDE DEF lines
<1>2. ASSUME NEW i \in DOMAIN lines PROVE ToSet(lines[i]) \subseteq T
  <2>1. lines[i] \in U
    <3> HIDE DEF U
    <3> QED BY <1>1, LenProperties, ElementOfSeq
  <2>2. \A j \in DOMAIN lines[i] : lines[i][j] \in T
    BY <2>1, LenProperties, ElementOfSeq
  <2> QED BY <2>2 DEF ToSet
<1>3. Fields(lines) \subseteq Tokens \cap T
  BY <1>2 DEF Fields
<1>4. Fields(lines) \subseteq ToSet(r.heads)
  BY <1>3, AlphabetHeaders DEF Headers
<1>5. /\ Cardinality(Fields(lines)) \in Nat
      /\ Cardinality(Fields(lines)) <= Cardinality(ToSet(r.heads))
      /\ Cardinality(ToSet(r.heads)) \in Nat
  BY <1>4, HeadsCounted, FS_Subset, FS_CardinalityType
<1> QED BY <1>4, <1>5, HeadsCounted, RequestParts DEF lines

\* What the first read hands to the body.
LEMMA BodyOfFirst ==
  ASSUME NEW r \in Requests, NEW n \in 0 .. Len(Wire(r))
  PROVE  \E k \in 1 .. Len(r.heads) + 1 :
           /\ Body(Seen(r, n)) = Rest(Wire(r), k, n)
           /\ k = Cardinality(Fields(Seen(r, n))) + 1
<1> DEFINE k == Cardinality(Fields(Seen(r, n))) + 1
           lines == Seen(r, n)
<1>1. k \in 1 .. Len(r.heads) + 1 /\ k \in 1 .. Len(FirstLines(r))
  BY FieldsBound, WireShape
<1>2. FlattenSeq(SubSeq(lines, k + 1, Len(lines))) = Rest(Wire(r), k, n)
  <2> HIDE DEF k
  <2>1. BeginsWith(Wire(r), FirstLines(r), Alphabet(r))
    BY WireShape
  <2> QED BY <1>1, <2>1, RestOfLines DEF Seen
<1>3. k + 1 = Cardinality(Fields(lines)) + 2
  <2> DEFINE c == Cardinality(Fields(lines))
  <2>1. c + 1 \in Int /\ c \in Int
    <3>1. Fields(lines) \subseteq ToSet(r.heads) /\ IsFiniteSet(ToSet(r.heads))
      BY FieldsBound, HeadsCounted
    <3> QED BY <3>1, FS_Subset, FS_CardinalityType
  <2> HIDE DEF c
  <2>2. (c + 1) + 1 = c + 2
    BY <2>1
  <2> QED BY <2>2 DEF c
<1> QED BY <1>1, <1>2, <1>3 DEF Body

\* A line of one token holds that token.
LEMMA OneLine == ASSUME NEW x PROVE ToSet(<<x>>) = {x}
BY DEF ToSet

\* Once the header of a good request is there, all of its fields are found.
LEMMA GoodSeen ==
  ASSUME NEW r \in Requests, WellFormed(r), NEW n \in HeaderEnd(r) .. Len(Wire(r))
  PROVE  /\ Fields(Seen(r, n)) = ToSet(r.heads)
         /\ Cardinality(Fields(Seen(r, n))) = Len(r.heads)
         /\ Head(Seen(r, n)) = <<RequestLine>> /\ LengthLine \in Fields(Seen(r, n))
         /\ r.length # NotANumber
<1> DEFINE w == Wire(r)
           m == Len(r.heads) + 1
           line == FirstLines(r)
           u == SubSeq(w, 2 * m + 1, n)
           a == Singles(line, m)
           b == Lines(u)
           lines == Seen(r, n)
           T == Alphabet(r)
           U == Seq(T)
<1>1. /\ m \in 1 .. Len(line) /\ n \in 2 * m .. Len(w) /\ BeginsWith(w, line, T)
      /\ n \in 0 .. Len(w) /\ m = Len(line)
  BY RequestParts, WireShape
<1>2. lines = a \o b /\ u \in Seq(T)
  BY <1>1, LinesLong DEF Seen
<1>3. b \in Seq(U)
  BY <1>2, LinesType
<1>4. line \in Seq(T) /\ m \in 0 .. Len(line)
  <2>1. line \in Seq(T \ {Newline}) /\ T \ {Newline} \subseteq T
    BY <1>1 DEF BeginsWith
  <2> QED BY <1>1, <2>1, SeqMonotonic
<1>5. a \in Seq(U) /\ Len(a) = m
  BY <1>4, SinglesType
<1>6. \A i \in 1 .. m : a[i] = <<line[i]>>
  BY DEF Singles
<1> HIDE DEF U, a, b, lines, line
<1>7. /\ \A i \in 1 .. Len(a) + Len(b) : lines[i] = IF i <= Len(a) THEN a[i] ELSE b[i - Len(a)]
      /\ lines \in Seq(U) /\ Len(lines) = Len(a) + Len(b) /\ Len(b) \in Nat
  BY <1>2, <1>3, <1>5, ConcatProperties, LenProperties
<1>8. \A i \in 1 .. m : lines[i] = <<line[i]>> /\ i \in DOMAIN lines
  <2>1. DOMAIN lines = 1 .. (Len(a) + Len(b))
    BY <1>7, LenProperties
  <2>2. \A i \in 1 .. m : i \in 1 .. Len(a) + Len(b) /\ i <= Len(a)
    <3>1. m \in Nat
      BY RequestParts
    <3> HIDE DEF m
    <3> QED BY <1>5, <1>7, <3>1
  <2> HIDE DEF m
  <2> QED BY <1>6, <1>7, <2>1, <2>2
<1>9. \A i \in 1 .. m : line[i] = IF i = 1 THEN r.first ELSE r.heads[i - 1]
  BY WireShape DEF line
<1>10. Head(lines) = <<RequestLine>>
  <2>1. lines[1] = <<r.first>>
    BY <1>1, <1>8, <1>9
  <2>2. lines # << >>
    BY <1>1, <1>5, <1>7, EmptySeq
  <2>3. Head(lines) = lines[1]
    BY <1>7, <2>2
  <2> QED BY <2>1, <2>3 DEF WellFormed
<1>11. ToSet(r.heads) \subseteq Fields(lines)
  <2>1. ASSUME NEW t \in ToSet(r.heads) PROVE t \in Fields(lines)
    <3>1. PICK j \in 1 .. Len(r.heads) : r.heads[j] = t
      BY RequestParts DEF ToSet
    <3> DEFINE i == j + 1
    <3>2. i \in 1 .. m /\ 1 < i /\ i - 1 = j /\ i # 1
      BY <1>1
    <3>3. i <= HeaderLines
      <4>1. Len(r.heads) < HeaderLines /\ HeaderLines \in Nat
        BY ParserAssumption DEF WellFormed, ParserAssumption
      <4> QED BY <4>1, RequestParts
    <3>4. t \in Tokens
      BY DEF WellFormed
    <3> HIDE DEF i
    <3>5. lines[i] = <<t>> /\ i \in DOMAIN lines
      BY <1>8, <1>9, <3>1, <3>2
    <3>6. t \in ToSet(lines[i])
      BY <3>5, OneLine
    <3> QED BY <3>2, <3>3, <3>4, <3>5, <3>6 DEF Fields
  <2> QED BY <2>1
<1>12. Fields(lines) = ToSet(r.heads)
  BY <1>1, <1>11, FieldsBound DEF lines
<1>13. Cardinality(ToSet(r.heads)) = Len(r.heads)
  BY HeadsCounted DEF WellFormed
<1>14. LengthLine \in ToSet(r.heads)
  BY DEF WellFormed
<1>15. r.length # NotANumber
  <2>1. r.length = Size(r.body) /\ Size(r.body) \in Nat
    BY RequestParts, SizeMeans DEF WellFormed
  <2> QED BY <2>1, ParserAssumption DEF ParserAssumption
<1> QED BY <1>10, <1>12, <1>13, <1>14, <1>15 DEF lines

-----------------------------------------------------------------------------
\* The invariant of the parser.

\* Nothing was taken yet: nothing was read, or the first read was refused,
\* which a good request meets only when its header is cut.
Untaken ==
  /\ jsonRequest = << >> /\ readAmount = 0 /\ contentLength = 0 /\ result # "true"
  /\ result = "indeterminate" => read = 0 /\ first = 0
  /\ WellFormed(request) => first < HeaderEnd(request)

\* The first k lines were taken off, and what follows them was kept: without
\* its newlines as far as it came with the first read, as it came after that.
TakenFrom(k) ==
  /\ jsonRequest = Rest(Wire(request), k, first) \o SubSeq(Wire(request), first + 1, read)
  /\ WellFormed(request) /\ first >= HeaderEnd(request) => k = Len(request.heads) + 1

\* What was taken is counted, and decides the answer.
Taken ==
  /\ \E k \in 1 .. Len(request.heads) + 1 : TakenFrom(k)
  /\ readAmount = Size(jsonRequest)
  /\ contentLength = Wrapped(request.length) /\ request.length # NotANumber
  /\ result = IF readAmount < contentLength THEN "indeterminate" ELSE Rebuilt(jsonRequest)

Parsing ==
  /\ request \in Requests
  /\ read \in 0 .. Len(Wire(request)) /\ first \in 0 .. read
  /\ readHeader \in BOOLEAN /\ result \in {"indeterminate", "true", "false"}
  /\ readHeader => Untaken
  /\ ~readHeader => Taken

\* The kind and the lengths of the text of a request.
LEMMA WireType ==
  ASSUME NEW r \in Requests
  PROVE  /\ Wire(r) \in Seq(Alphabet(r)) /\ Len(Wire(r)) \in Nat
         /\ Wire(r) \in Seq(ToSet(Wire(r)))
         /\ Len(r.heads) \in Nat /\ Len(r.body) \in Nat
         /\ HeaderEnd(r) \in Nat /\ HeaderEnd(r) >= 4 /\ HeaderEnd(r) <= Len(Wire(r))
         /\ HeaderEnd(r) = 2 * (Len(r.heads) + 1) + 2
         /\ Len(Wire(r)) = HeaderEnd(r) + Len(r.body)
<1> DEFINE w == Wire(r)
           V == ToSet(w)
<1>1. w \in Seq(Alphabet(r)) /\ Len(w) \in Nat /\ DOMAIN w = 1 .. Len(w)
  BY WireShape, LenProperties DEF BeginsWith
<1>2. w \in Seq(V)
  <2>1. \A i \in 1 .. Len(w) : w[i] \in V
    BY <1>1 DEF ToSet
  <2> HIDE DEF w, V
  <2>2. SubSeq(w, 1, Len(w)) = w
    BY <1>1, SubSeqFull
  <2>3. 1 \in Int /\ Len(w) \in Int
    BY <1>1
  <2>4. SubSeq(w, 1, Len(w)) \in Seq(V)
    BY <2>1, <2>3, SubSeqProperties
  <2> QED BY <2>2, <2>4
<1>3. Len(r.heads) \in Nat /\ Len(r.body) \in Nat
  BY RequestParts
<1>4. HeaderEnd(r) = 2 * (Len(r.heads) + 1) + 2 /\ Len(w) = HeaderEnd(r) + Len(r.body)
  BY WireShape
<1> DEFINE h == HeaderEnd(r)
           l == Len(r.heads)
<1>5. l \in Nat /\ h = 2 * (l + 1) + 2
  BY <1>3, <1>4
<1>6. h \in Nat /\ h >= 4
  <2> HIDE DEF h, l
  <2> QED BY <1>5
<1>7. h <= Len(w)
  <2> DEFINE n == Len(w)
             b == Len(r.body)
  <2>1. n = h + b /\ b \in Nat
    BY <1>3, <1>4
  <2> HIDE DEF h, n, b
  <2>2. h <= n
    BY <1>6, <2>1
  <2> QED BY <2>2 DEF n
<1> QED BY <1>1, <1>2, <1>3, <1>4, <1>6, <1>7

\* A text that was read, cut in two.
LEMMA PrefixParts ==
  ASSUME NEW T, NEW w \in Seq(T), NEW m \in 0 .. Len(w), NEW n \in m .. Len(w)
  PROVE  /\ SubSeq(w, 1, m) \in Seq(T) /\ SubSeq(w, 1, n) \in Seq(T)
         /\ SubSeq(w, m + 1, n) \in Seq(T)
         /\ SubSeq(w, 1, n) = SubSeq(w, 1, m) \o SubSeq(w, m + 1, n)
<1>1. /\ 0 + 1 = 1 /\ 0 \in Nat /\ m \in Nat /\ n \in 0 .. Len(w) /\ n \in m .. Len(w)
      /\ m \in 0 .. Len(w)
  BY LenProperties
<1>2. SubSeq(w, 0 + 1, m) \in Seq(T) /\ SubSeq(w, 0 + 1, n) \in Seq(T)
      /\ SubSeq(w, m + 1, n) \in Seq(T)
  BY <1>1, PartType
<1>3. SubSeq(w, 0 + 1, n) = SubSeq(w, 0 + 1, m) \o SubSeq(w, m + 1, n)
  BY <1>1, PartsJoin
<1> QED BY <1>1, <1>2, <1>3

\* The kind of texts that were kept.
LEMMA RestType ==
  ASSUME NEW T, NEW w \in Seq(T), NEW k \in Nat, NEW n \in 0 .. Len(w)
  PROVE  Rest(w, k, n) \in Seq(T)
<1>1. << >> \in Seq(T)
  BY EmptySeq
<1>2. 2 * k \in Nat
  OBVIOUS
<1>3. SubSeq(w, 2 * k + 1, n) \in Seq(T)
  BY <1>2, PartType
<1> QED BY <1>1, <1>3, WithoutType DEF Rest

\* No more is kept of a text than was read.
LEMMA SizeOfRest ==
  ASSUME NEW T, NEW w \in Seq(T), NEW k \in Nat, NEW n \in 0 .. Len(w)
  PROVE  Size(Rest(w, k, n)) <= Size(SubSeq(w, 1, n))
<1>0. 2 * k \in Nat /\ 0 \in Nat /\ Len(w) \in Nat /\ n \in Nat /\ n \in n .. Len(w)
  BY LenProperties
<1>1. SubSeq(w, 1, n) \in Seq(T)
  BY <1>0, PrefixParts
<1>2. Size(SubSeq(w, 1, n)) \in Nat
  BY <1>1, SizeMeans
<1>3. CASE n < 2 * k
  BY <1>2, <1>3, SizeMeans DEF Rest
<1>4. CASE ~(n < 2 * k)
  <2> DEFINE a == SubSeq(w, 1, 2 * k)
             b == SubSeq(w, 2 * k + 1, n)
  <2>1. 2 * k \in 0 .. Len(w) /\ n \in 2 * k .. Len(w)
    BY <1>0, <1>4
  <2>2. a \in Seq(T) /\ b \in Seq(T) /\ SubSeq(w, 1, n) = a \o b
    BY <1>0, <2>1, PrefixParts
  <2>3. Rest(w, k, n) = Without(b, {Newline})
    BY <1>4 DEF Rest
  <2> HIDE DEF a, b
  <2>4. Size(a \o b) = Size(a) + Size(b) /\ Size(a) \in Nat /\ Size(b) \in Nat
    BY <2>2, SizeConcat, SizeMeans
  <2>5. Size(Without(b, {Newline})) <= Size(b) /\ Without(b, {Newline}) \in Seq(T)
    BY <2>2, SizeWithout, WithoutType
  <2>6. Size(Without(b, {Newline})) \in Nat
    BY <2>5, SizeMeans
  <2> DEFINE x == Size(Without(b, {Newline}))
             y == Size(a)
             z == Size(b)
  <2>7. x \in Nat /\ y \in Nat /\ z \in Nat /\ x <= z
    BY <2>4, <2>5, <2>6
  <2>8. Size(Rest(w, k, n)) = x /\ Size(SubSeq(w, 1, n)) = y + z
    BY <2>2, <2>3, <2>4
  <2> HIDE DEF x, y, z
  <2>9. x <= y + z
    BY <2>7
  <2> QED BY <2>8, <2>9
<1> QED BY <1>3, <1>4

\* A length is a size_t.
LEMMA WrappedType ==
  ASSUME NEW n \in Int
  PROVE  Wrapped(n) \in 0 .. SizeRange - 1
BY ParserAssumption DEF ParserAssumption, Wrapped

\* The invariant has the types of the variables.
LEMMA ParsingType == Parsing => TypeOK
<1> SUFFICES ASSUME Parsing PROVE TypeOK
  OBVIOUS
<1> DEFINE w == Wire(request)
           V == ToSet(w)
<1>1. /\ request \in Requests /\ read \in 0 .. Len(w) /\ first \in 0 .. read
      /\ readHeader \in BOOLEAN /\ result \in {"indeterminate", "true", "false"}
  BY DEF Parsing
<1>2. w \in Seq(V) /\ Len(w) \in Nat /\ Len(request.heads) \in Nat
  BY <1>1, WireType
<1> HIDE DEF w, V
<1>3. 0 \in Nat /\ first \in 0 .. Len(w) /\ first \in Nat /\ read \in Nat /\ read \in first .. Len(w)
  BY <1>1, <1>2
<1>4. SubSeq(w, 1, read) \in Seq(V) /\ SubSeq(w, 1, first) \in Seq(V)
      /\ SubSeq(w, first + 1, read) \in Seq(V)
      /\ SubSeq(w, 1, read) = SubSeq(w, 1, first) \o SubSeq(w, first + 1, read)
  BY <1>1, <1>2, <1>3, PrefixParts
<1>5. CASE readHeader
  <2>1. jsonRequest = << >> /\ readAmount = 0 /\ contentLength = 0
    BY <1>5 DEF Parsing, Untaken
  <2>2. Size(SubSeq(w, 1, read)) \in Nat
    BY <1>4, SizeMeans
  <2>3. 0 \in 0 .. SizeRange - 1
    BY ParserAssumption DEF ParserAssumption
  <2>4. ToSet(<< >>) = {}
    BY DEF ToSet
  <2> QED BY <1>1, <2>1, <2>2, <2>3, <2>4 DEF TypeOK, w
<1>6. CASE ~readHeader
  <2>1. Taken
    BY <1>6 DEF Parsing
  <2>2. PICK k \in 1 .. Len(request.heads) + 1 : TakenFrom(k)
    BY <2>1 DEF Taken
  <2> DEFINE a == Rest(w, k, first)
             b == SubSeq(w, first + 1, read)
             c == SubSeq(w, 1, first)
  <2>3. jsonRequest = a \o b
    BY <2>2 DEF TakenFrom, w
  <2>4. k \in Nat
    BY <1>2
  <2>5. a \in Seq(V) /\ b \in Seq(V) /\ c \in Seq(V) /\ Size(a) <= Size(c)
    BY <1>2, <1>3, <1>4, <2>4, RestType, SizeOfRest
  <2>6. SubSeq(w, 1, read) = c \o b
    BY <1>4
  <2> HIDE DEF a, b, c
  <2>7. /\ Size(a \o b) = Size(a) + Size(b) /\ Size(c \o b) = Size(c) + Size(b)
        /\ Size(a) \in Nat /\ Size(b) \in Nat /\ Size(c) \in Nat
    BY <2>5, SizeConcat, SizeMeans
  <2>8. readAmount \in 0 .. Size(SubSeq(w, 1, read))
    <3> DEFINE d == Size(a)
               e == Size(b)
               g == Size(c)
    <3>1. readAmount = d + e /\ Size(SubSeq(w, 1, read)) = g + e
      BY <2>1, <2>3, <2>6, <2>7 DEF Taken
    <3>2. d \in Nat /\ e \in Nat /\ g \in Nat /\ d <= g
      BY <2>5, <2>7
    <3> HIDE DEF d, e, g
    <3>3. d + e \in 0 .. g + e
      BY <3>2
    <3> QED BY <3>1, <3>3
  <2>9. contentLength \in 0 .. SizeRange - 1
    <3>1. request.length # NotANumber /\ contentLength = Wrapped(request.length)
      BY <2>1 DEF Taken
    <3> DEFINE n == request.length
    <3>2. n \in -SizeRange .. (SizeRange - 1)
      BY <1>1, <3>1, RequestParts
    <3> HIDE DEF n
    <3>3. n \in Int
      BY <3>2
    <3>4. Wrapped(n) \in 0 .. SizeRange - 1
      BY <3>3, WrappedType
    <3> QED BY <3>1, <3>4 DEF n
  <2>10. ToSet(jsonRequest) \subseteq V
    <3>1. jsonRequest \in Seq(V)
      BY <2>3, <2>5, ConcatProperties
    <3>2. \A i \in DOMAIN jsonRequest : jsonRequest[i] \in V
      BY <3>1, LenProperties, ElementOfSeq
    <3> QED BY <3>2 DEF ToSet
  <2> QED BY <1>1, <2>8, <2>9, <2>10 DEF TypeOK, w, V
<1> QED BY <1>5, <1>6

\* The invariant holds of a connection that has read nothing.
LEMMA InitParsing == Init => Parsing
<1> SUFFICES ASSUME Init PROVE Parsing
  OBVIOUS
<1>1. request \in Requests
  BY DEF Init
<1>2. Len(Wire(request)) \in Nat /\ HeaderEnd(request) \in Nat /\ HeaderEnd(request) >= 4
  BY <1>1, WireType
<1> QED BY <1>1, <1>2 DEF Init, Parsing, Untaken

\* Three texts are joined in either order.
Reassociates(s, t, u) == (s \o t) \o u = s \o (t \o u)

LEMMA Reassociate ==
  ASSUME NEW T, NEW s \in Seq(T), NEW t \in Seq(T), NEW u \in Seq(T)
  PROVE  Reassociates(s, t, u)
BY ConcatAssociative DEF Reassociates

\* A later read adds to what was taken, and nothing else.
LEMMA LaterKeeps ==
  ASSUME Parsing, NEW n \in 1 .. Len(Wire(request)) - read, read' = read + n,
         UNCHANGED request, LaterRead(SubSeq(Wire(request), read + 1, read + n))
  PROVE  Parsing'
<1> DEFINE w == Wire(request)
           T == Alphabet(request)
           b == SubSeq(w, first + 1, read)
           c == SubSeq(w, read + 1, read + n)
<1>1. request \in Requests /\ read \in 0 .. Len(w) /\ first \in 0 .. read
  BY DEF Parsing
<1>2. w \in Seq(T) /\ Len(w) \in Nat /\ Len(request.heads) \in Nat
  BY <1>1, WireType
<1>3. Taken /\ readHeader = FALSE
  BY DEF LaterRead, Parsing
<1>4. /\ readAmount' = readAmount + Size(c) /\ jsonRequest' = jsonRequest \o c
      /\ result' = IF readAmount' < contentLength THEN "indeterminate" ELSE Rebuilt(jsonRequest')
      /\ UNCHANGED <<first, readHeader, contentLength, request>>
  BY DEF LaterRead
<1> HIDE DEF w
<1>5. /\ first \in Nat /\ read \in first .. Len(w) /\ read + n \in read .. Len(w)
      /\ read \in Nat /\ first \in 0 .. Len(w) /\ read \in 0 .. Len(w) /\ read + n \in 0 .. Len(w)
      /\ read' \in 0 .. Len(w) /\ first \in 0 .. read'
  BY <1>1, <1>2 DEF w
<1>6. b \in Seq(T) /\ c \in Seq(T) /\ SubSeq(w, first + 1, read + n) = b \o c
  BY <1>2, <1>5, PartType, PartsJoin
<1>7. PICK k \in 1 .. Len(request.heads) + 1 : TakenFrom(k)
  BY <1>3 DEF Taken
<1> DEFINE a == Rest(w, k, first)
<1>8. a \in Seq(T) /\ jsonRequest = a \o b
  <2>1. k \in Nat
    BY <1>2
  <2> QED BY <1>2, <1>5, <1>7, <2>1, RestType DEF TakenFrom, w
<1>9. Wire(request') = w
  BY <1>4 DEF w
<1>10. TakenFrom(k)'
  <2>1. (a \o b) \o c = a \o (b \o c)
    <3>1. a \in Seq(T) /\ b \in Seq(T) /\ c \in Seq(T)
      BY <1>6, <1>8
    <3> HIDE DEF a, b, c, T
    <3>2. Reassociates(a, b, c)
      BY <3>1, Reassociate
    <3> QED BY <3>2 DEF Reassociates
  <2>2. jsonRequest' = a \o SubSeq(w, first + 1, read + n)
    BY <1>4, <1>6, <1>8, <2>1
  <2> QED BY <1>4, <1>7, <2>2 DEF TakenFrom, w
<1>11. readAmount' = Size(jsonRequest')
  <2>1. jsonRequest \in Seq(T) /\ readAmount = Size(jsonRequest)
    <3>1. a \o b \in Seq(T)
      <4> HIDE DEF a, b
      <4> QED BY <1>6, <1>8, ConcatProperties
    <3> QED BY <1>3, <1>8, <3>1 DEF Taken
  <2> HIDE DEF c
  <2>2. Size(jsonRequest \o c) = Size(jsonRequest) + Size(c)
    BY <1>6, <2>1, SizeConcat
  <2> QED BY <1>4, <2>1, <2>2
<1>12. Taken'
  <2>1. \E i \in 1 .. Len(request'.heads) + 1 : TakenFrom(i)'
    BY <1>4, <1>10
  <2> QED BY <1>3, <1>4, <1>11, <2>1 DEF Taken
<1>13. result' \in {"indeterminate", "true", "false"}
  BY <1>4 DEF Rebuilt
<1> QED BY <1>1, <1>3, <1>4, <1>5, <1>9, <1>12, <1>13 DEF Parsing, w

\* The first read is refused, or what it holds is taken.
LEMMA FirstKeeps ==
  ASSUME Parsing, result = "indeterminate",
         NEW n \in 1 .. Len(Wire(request)) - read, read' = read + n,
         UNCHANGED request, FirstRead(SubSeq(Wire(request), read + 1, read + n))
  PROVE  Parsing'
<1> DEFINE w == Wire(request)
           T == Alphabet(request)
           text == SubSeq(w, 1, n)
           lines == Seen(request, n)
<1>1. request \in Requests /\ request' = request
  BY DEF Parsing
<1>2. w \in Seq(T) /\ Len(w) \in Nat /\ Len(request.heads) \in Nat
  BY <1>1, WireType
<1>3. /\ readHeader /\ Untaken /\ read = 0 /\ first = 0
      /\ jsonRequest = << >> /\ readAmount = 0 /\ contentLength = 0
  BY DEF FirstRead, Parsing, Untaken
<1>4. n \in 1 .. Len(w) /\ n \in 0 .. Len(w) /\ n \in n .. Len(w) /\ n \in Nat /\ 0 + 1 = 1 /\ 0 + n = n
  BY <1>2, <1>3 DEF w
<1>5. read' = n /\ SubSeq(w, read + 1, read + n) = text
  BY <1>3, <1>4
<1>6. text \in Seq(T) /\ Len(text) = n
  <2>1. SubSeq(w, 0 + 1, n) \in Seq(T) /\ Len(SubSeq(w, 0 + 1, n)) = n
    <3>1. 0 \in Nat /\ 0 < n /\ n - 0 = n
      BY <1>4
    <3> QED BY <1>2, <1>4, <3>1, PartType
  <2> QED BY <1>4, <2>1
<1>7. /\ first' = n
      /\ \/ /\ Refused(lines) /\ result' = "false"
            /\ UNCHANGED <<readHeader, contentLength, readAmount, jsonRequest>>
         \/ /\ ~Refused(lines) /\ readHeader' = FALSE
            /\ contentLength' = Wrapped(request.length)
            /\ readAmount' = readAmount + Size(Body(lines))
            /\ jsonRequest' = jsonRequest \o Body(lines)
            /\ result' = IF contentLength' > readAmount' THEN "indeterminate"
                         ELSE Rebuilt(jsonRequest')
  <2>1. FirstRead(text)
    BY <1>5 DEF w
  <2>2. Lines(text) = lines
    BY DEF Seen, w
  <2> HIDE DEF text, lines
  <2> QED BY <1>6, <2>1, <2>2 DEF FirstRead
<1>8. /\ Wire(request') = w /\ read' \in 0 .. Len(w) /\ first' \in 0 .. read'
  BY <1>1, <1>4, <1>5, <1>7
<1>9. CASE Refused(lines)
  <2>1. /\ result' = "false" /\ readHeader'
        /\ jsonRequest' = << >> /\ readAmount' = 0 /\ contentLength' = 0
    BY <1>3, <1>7, <1>9
  <2>2. ASSUME WellFormed(request), ~(n < HeaderEnd(request)) PROVE FALSE
    <3>1. HeaderEnd(request) \in Nat
      BY <1>1, WireType
    <3>2. n \in HeaderEnd(request) .. Len(w)
      BY <1>2, <1>4, <2>2, <3>1
    <3> QED BY <1>1, <1>9, <2>2, <3>2, GoodSeen DEF Refused, w
  <2>3. Untaken'
    BY <1>1, <1>7, <2>1, <2>2 DEF Untaken
  <2> QED BY <1>1, <1>8, <2>1, <2>3, <1>3 DEF Parsing
<1>10. CASE ~Refused(lines)
  <2>1. PICK k \in 1 .. Len(request.heads) + 1 :
          Body(lines) = Rest(w, k, n) /\ k = Cardinality(Fields(lines)) + 1
    BY <1>1, <1>4, BodyOfFirst DEF w
  <2>2. k \in Nat
    BY <1>2
  <2> DEFINE a == Rest(w, k, n)
             none == SubSeq(w, n + 1, n)
  <2>3. a \in Seq(T) /\ Size(a) \in Nat
    <3>1. a \in Seq(T)
      BY <1>2, <1>4, <2>2, RestType
    <3> HIDE DEF a
    <3> QED BY <3>1, SizeMeans
  <2>4. none = << >>
    <3>1. none \in Seq(T) /\ Len(none) = 0
      BY <1>2, <1>4, PartType
    <3> QED BY <3>1, EmptySeq
  <2>5. << >> \o a = a /\ a \o none = a
    <3> HIDE DEF a, none
    <3> QED BY <2>3, <2>4, ConcatEmptySeq
  <2>6. /\ readHeader' = FALSE /\ contentLength' = Wrapped(request.length)
        /\ readAmount' = 0 + Size(a) /\ jsonRequest' = << >> \o a
        /\ result' = IF contentLength' > readAmount' THEN "indeterminate"
                     ELSE Rebuilt(jsonRequest')
    BY <1>3, <1>7, <1>10, <2>1
  <2>7. jsonRequest' = a /\ readAmount' = Size(a) /\ request.length # NotANumber
    <3>1. request.length # NotANumber
      BY <1>10 DEF Refused
    <3> HIDE DEF a
    <3> QED BY <2>3, <2>5, <2>6, <3>1
  <2>8. result' = IF readAmount' < contentLength' THEN "indeterminate"
                  ELSE Rebuilt(jsonRequest')
    <3>1. contentLength' \in Int /\ readAmount' \in Int
      <4>1. request.length \in -SizeRange .. (SizeRange - 1) /\ SizeRange \in Nat
        BY <1>1, <2>7, RequestParts, ParserAssumption DEF ParserAssumption
      <4> DEFINE l == request.length
      <4>2. l \in Int
        <5>1. l \in -SizeRange .. (SizeRange - 1) /\ SizeRange \in Nat
          BY <4>1
        <5> HIDE DEF l
        <5> QED BY <5>1
      <4>3. Wrapped(l) \in 0 .. SizeRange - 1
        <5> HIDE DEF l
        <5> QED BY <4>2, WrappedType
      <4>4. contentLength' = Wrapped(l)
        BY <2>6
      <4> HIDE DEF l, a
      <4> QED BY <2>3, <2>7, <4>3, <4>4
    <3>2. contentLength' > readAmount' <=> readAmount' < contentLength'
      BY <3>1
    <3> QED BY <2>6, <3>2
  <2>9. TakenFrom(k)'
    <3>1. jsonRequest' = Rest(w, k, n) \o SubSeq(w, n + 1, n)
      BY <2>5, <2>7
    <3>2. ASSUME WellFormed(request), n >= HeaderEnd(request)
          PROVE  k = Len(request.heads) + 1
      <4>1. HeaderEnd(request) \in Nat
        BY <1>1, WireType
      <4>2. n \in HeaderEnd(request) .. Len(w)
        BY <1>2, <1>4, <3>2, <4>1
      <4> QED BY <1>1, <2>1, <3>2, <4>2, GoodSeen DEF w
    <3> QED BY <1>1, <1>5, <1>7, <3>1, <3>2 DEF TakenFrom
  <2>10. Taken'
    BY <1>1, <2>1, <2>6, <2>7, <2>8, <2>9 DEF Taken
  <2>11. result' \in {"indeterminate", "true", "false"}
    BY <2>8 DEF Rebuilt
  <2> QED BY <1>1, <1>8, <2>6, <2>10, <2>11 DEF Parsing
<1> QED BY <1>9, <1>10

\* A read keeps the invariant.
LEMMA ParsingStep == Parsing /\ [Next]_vars => Parsing'
<1> SUFFICES ASSUME Parsing, [Next]_vars PROVE Parsing'
  OBVIOUS
<1>1. ASSUME NEW n \in 1 .. Len(Wire(request)) - read, Read(n) PROVE Parsing'
  BY <1>1, FirstKeeps, LaterKeeps DEF Read
<1>2. CASE UNCHANGED vars
  BY <1>2 DEF vars, Parsing, Untaken, Taken, TakenFrom
<1> QED BY <1>1, <1>2 DEF Next

-----------------------------------------------------------------------------
\* What is taken for complete is the body.

\* The header holds no "open".
LEMMA HeaderTokens ==
  ASSUME NEW r \in Requests, NEW i \in 1 .. HeaderEnd(r)
  PROVE  Wire(r)[i] \in Alphabet(r) \ {"open"}
<1> DEFINE l == Len(r.heads)
           h == HeaderEnd(r)
           w == Wire(r)
           f == FirstLines(r)
<1>1. /\ w \in Seq(Alphabet(r)) /\ h <= Len(w) /\ h = 2 * (l + 1) + 2 /\ l \in Nat /\ Len(w) \in Nat
      /\ h \in Nat
  BY WireType
<1>2. w[i] \in Alphabet(r)
  <2> HIDE DEF w, h, l
  <2>1. i \in 1 .. Len(w)
    BY <1>1 DEF h
  <2> QED BY <1>1, <2>1, ElementOfSeq
<1>3. Newline # "open" /\ Return # "open"
  BY DEF Newline, Return
<1>4. \A j \in 1 .. l + 1 : f[j] # "open"
  <2>1. \A j \in 1 .. l + 1 : f[j] = IF j = 1 THEN r.first ELSE r.heads[j - 1]
    BY WireShape
  <2>2. r.first # "open"
    BY RequestParts
  <2>3. \A j \in 1 .. l : r.heads[j] # "open"
    <3>1. \A j \in 1 .. l : r.heads[j] \in Headers
      BY RequestParts
    <3>2. "open" \notin Headers
      BY ParserAssumption DEF ParserAssumption, Headers
    <3> QED BY <3>1, <3>2
  <2>4. ASSUME NEW j \in 1 .. l + 1, j # 1 PROVE j - 1 \in 1 .. l
    <3> HIDE DEF l
    <3> QED BY <1>1, <2>4
  <2> QED BY <2>1, <2>2, <2>3, <2>4
<1>5. \A j \in 1 .. l + 1 : w[2 * j - 1] = f[j] /\ w[2 * j] = Newline
  BY WireShape DEF BeginsWith
<1>6. w[h - 1] = Return /\ w[h] = Newline
  BY WireShape
<1>7. \/ i = h - 1
      \/ i = h
      \/ \E j \in 1 .. l + 1 : i = 2 * j - 1 \/ i = 2 * j
  <2>1. i \in 1 .. h
    OBVIOUS
  <2> HIDE DEF h, l
  <2>2. ASSUME i # h - 1, i # h PROVE \E j \in 1 .. l + 1 : i = 2 * j - 1 \/ i = 2 * j
    <3>1. i \in 1 .. 2 * (l + 1)
      BY <1>1, <2>1, <2>2
    <3>2. PICK j \in Nat : i = 2 * j \/ i = 2 * j - 1
      <4>1. (i + 1) \div 2 \in Nat /\ (i = 2 * ((i + 1) \div 2) \/ i = 2 * ((i + 1) \div 2) - 1)
        BY <3>1
      <4> QED BY <4>1
    <3>3. j \in 1 .. l + 1
      BY <1>1, <3>1, <3>2
    <3> QED BY <3>2, <3>3
  <2> QED BY <2>2
<1>8. w[i] # "open"
  <2> HIDE DEF w, f, h, l
  <2> QED BY <1>3, <1>4, <1>5, <1>6, <1>7
<1> QED BY <1>2, <1>8

\* A part of a text whose tokens are in a set.
LEMMA PartIn ==
  ASSUME NEW T, NEW w \in Seq(T), NEW m \in Nat, NEW n \in 0 .. Len(w), NEW V,
         \A i \in m + 1 .. n : w[i] \in V
  PROVE  SubSeq(w, m + 1, n) \in Seq(V)
<1>1. m + 1 \in Int /\ n \in Int
  BY LenProperties
<1> QED BY <1>1, SubSeqProperties

\* What comes before the "open" of a text that is read as an object is blank.
LEMMA BlankBefore ==
  ASSUME NEW T, NEW s \in Seq(T \ {"open"}), NEW t \in Seq(T), Parsed(s \o t)
  PROVE  NonBlank(s \o t) = NonBlank(t)
<1>1. s \in Seq(T) /\ T \ {"open"} \subseteq T
  BY SeqMonotonic
<1>2. /\ NonBlank(s) \in Seq(T \ {"open"}) /\ NonBlank(s) \in Seq(T) /\ NonBlank(t) \in Seq(T)
      /\ NonBlank(s \o t) = NonBlank(s) \o NonBlank(t)
  BY <1>1, WithoutType, WithoutConcat DEF NonBlank
<1> DEFINE p == NonBlank(s)
           q == NonBlank(t)
<1>3. Head(p \o q) = "open"
  BY <1>2 DEF Parsed
<1> HIDE DEF p, q
<1>4. p \in Seq(T \ {"open"}) /\ p \in Seq(T) /\ q \in Seq(T)
  BY <1>2 DEF p, q
<1>5. CASE p = << >>
  BY <1>2, <1>4, <1>5, ConcatEmptySeq DEF p, q
<1>6. CASE p # << >>
  <2>1. Len(p) \in Nat \ {0}
    BY <1>4, <1>6, EmptySeq, LenProperties
  <2>2. 1 \in 1 .. Len(p)
    BY <2>1
  <2>3. p[1] \in T \ {"open"}
    BY <1>4, <2>2, ElementOfSeq
  <2>4. (p \o q)[1] = p[1]
    BY <1>4, <2>2, ConcatProperties
  <2>5. Head(p \o q) = (p \o q)[1]
    <3>1. p \o q \in Seq(T) /\ p \o q # << >>
      <4>1. p \o q \in Seq(T) /\ Len(p \o q) = Len(p) + Len(q) /\ Len(q) \in Nat
        BY <1>4, ConcatProperties, LenProperties
      <4>2. Len(p \o q) # 0
        BY <2>1, <4>1
      <4> QED BY <4>1, <4>2, EmptySeq
    <3> DEFINE s1 == p \o q
    <3> HIDE DEF s1
    <3>2. s1 \in Seq(T) /\ s1 # << >>
      BY <3>1 DEF s1
    <3>3. Head(s1) = s1[1]
      BY <3>2, HeadTailProperties
    <3> QED BY <3>3 DEF s1
  <2> QED BY <1>3, <2>3, <2>4, <2>5
<1> QED BY <1>5, <1>6

\* Where what was kept begins.
LEMMA KeptFrom ==
  ASSUME Parsing, ~readHeader
  PROVE  \E c \in 0 .. read :
           /\ c <= HeaderEnd(request)
           /\ NonBlank(jsonRequest) = NonBlank(SubSeq(Wire(request), c + 1, read))
<1> DEFINE w == Wire(request)
           T == Alphabet(request)
           b == SubSeq(w, first + 1, read)
           l == Len(request.heads)
<1>1. request \in Requests /\ read \in 0 .. Len(w) /\ first \in 0 .. read /\ Taken
  BY DEF Parsing
<1>2. /\ w \in Seq(T) /\ Len(w) \in Nat /\ l \in Nat
      /\ HeaderEnd(request) = 2 * (l + 1) + 2
  BY <1>1, WireType
<1>3. PICK k \in 1 .. l + 1 : TakenFrom(k)
  BY <1>1 DEF Taken
<1>4. jsonRequest = Rest(w, k, first) \o b
  BY <1>3 DEF TakenFrom
<1> DEFINE c == IF first < 2 * k THEN first ELSE 2 * k
           a == Rest(w, k, first)
<1>5. /\ first \in Nat /\ first \in 0 .. Len(w) /\ read \in first .. Len(w) /\ k \in Nat
      /\ c \in 0 .. read /\ c <= HeaderEnd(request)
  <2> HIDE DEF w, l
  <2>1. /\ first \in Nat /\ first \in 0 .. Len(w) /\ read \in first .. Len(w) /\ k \in Nat
    BY <1>1, <1>2
  <2>2. c \in 0 .. read
    BY <1>1, <1>2, <2>1
  <2>3. c <= 2 * (l + 1) + 2
    BY <1>2, <2>1
  <2> QED BY <1>2, <2>1, <2>2, <2>3
<1>6. a \in Seq(T) /\ b \in Seq(T)
  <2>1. a \in Seq(T)
    BY <1>2, <1>5, RestType
  <2>2. b \in Seq(T)
    BY <1>1, <1>2, <1>5, PartType
  <2> QED BY <2>1, <2>2
<1>7. NonBlank(jsonRequest) = NonBlank(a) \o NonBlank(b)
  <2> HIDE DEF a, b
  <2> QED BY <1>4, <1>6, WithoutConcat DEF NonBlank, a, b
<1>8. CASE first < 2 * k
  <2>1. a = << >> /\ NonBlank(a) = << >>
    BY <1>8, WithoutNothing DEF Rest, NonBlank
  <2>2. NonBlank(b) \in Seq(T)
    BY <1>6, WithoutType DEF NonBlank
  <2>3. NonBlank(jsonRequest) = NonBlank(b)
    BY <1>7, <2>1, <2>2, ConcatEmptySeq
  <2> QED BY <1>5, <1>8, <2>3
<1>9. CASE ~(first < 2 * k)
  <2> DEFINE d == SubSeq(w, 2 * k + 1, first)
  <2>1. 2 * k \in Nat /\ first \in 2 * k .. Len(w) /\ read \in first .. Len(w)
    BY <1>2, <1>5, <1>9
  <2>2. d \in Seq(T) /\ SubSeq(w, 2 * k + 1, read) = d \o b
    BY <1>2, <1>5, <2>1, PartType, PartsJoin
  <2>3. a = Without(d, {Newline}) /\ {Newline} \subseteq Blank
    BY <1>9 DEF Rest, Blank
  <2>4. NonBlank(a) = NonBlank(d)
    <3> HIDE DEF d
    <3> QED BY <2>2, <2>3, WithoutTwice DEF NonBlank
  <2>5. NonBlank(d \o b) = NonBlank(d) \o NonBlank(b)
    <3> HIDE DEF d, b
    <3> QED BY <1>6, <2>2, WithoutConcat DEF NonBlank
  <2>6. NonBlank(jsonRequest) = NonBlank(SubSeq(w, 2 * k + 1, read))
    BY <1>7, <2>2, <2>4, <2>5
  <2> QED BY <1>5, <1>9, <2>6
<1> QED BY <1>8, <1>9

\* What was kept begins at the body, or before it with nothing but blanks
\* and the header, and the header holds no "open".
LEMMA ParsingBody == Parsing => TrueIsBody
<1> SUFFICES ASSUME Parsing, result = "true"
             PROVE  NonBlank(jsonRequest)
                      = NonBlank(SubSeq(Wire(request), HeaderEnd(request) + 1, read))
  BY DEF TrueIsBody
<1> DEFINE w == Wire(request)
           T == Alphabet(request)
           h == HeaderEnd(request)
<1>1. request \in Requests /\ read \in 0 .. Len(w) /\ ~readHeader /\ Parsed(jsonRequest)
  <2>1. request \in Requests /\ read \in 0 .. Len(w) /\ readHeader \in BOOLEAN
    BY DEF Parsing
  <2>2. ~readHeader
    BY <2>1 DEF Parsing, Untaken
  <2>3. Parsed(jsonRequest)
    BY <2>2 DEF Parsing, Taken, Rebuilt
  <2> QED BY <2>1, <2>2, <2>3
<1>2. w \in Seq(T) /\ Len(w) \in Nat /\ h \in Nat /\ h <= Len(w)
  BY <1>1, WireType
<1>3. PICK c \in 0 .. read :
        c <= h /\ NonBlank(jsonRequest) = NonBlank(SubSeq(w, c + 1, read))
  BY <1>1, KeptFrom
<1>4. \A i \in 1 .. h : w[i] \in T \ {"open"}
  BY <1>1, HeaderTokens
<1> HIDE DEF w, T, h
<1>5. Parsed(SubSeq(w, c + 1, read))
  BY <1>1, <1>3 DEF Parsed
<1>6. CASE read <= h
  <2> DEFINE s == SubSeq(w, c + 1, read)
  <2>1. c \in Nat /\ read \in 0 .. Len(w) /\ \A i \in c + 1 .. read : w[i] \in T \ {"open"}
    BY <1>1, <1>2, <1>4, <1>6
  <2>2. s \in Seq(T \ {"open"})
    BY <1>2, <2>1, PartIn
  <2>3. << >> \in Seq(T) /\ s \in Seq(T)
    BY <1>1, <1>2, <2>1, EmptySeq, PartType
  <2>4. s \o << >> = s
    <3> HIDE DEF s
    <3> QED BY <2>3, ConcatEmptySeq
  <2>5. NonBlank(s) = NonBlank(<< >>)
    <3>1. Parsed(s \o << >>)
      BY <1>5, <2>4
    <3> HIDE DEF s
    <3> QED BY <2>2, <2>3, <2>4, <3>1, BlankBefore
  <2>6. NonBlank(<< >>) = << >>
    BY WithoutNothing DEF NonBlank
  <2> QED BY <1>5, <2>5, <2>6 DEF Parsed
<1>7. CASE ~(read <= h)
  <2> DEFINE s == SubSeq(w, c + 1, h)
             t == SubSeq(w, h + 1, read)
  <2>1. /\ c \in Nat /\ h \in 0 .. Len(w) /\ h \in c .. Len(w) /\ read \in h .. Len(w)
        /\ read \in 0 .. Len(w) /\ \A i \in c + 1 .. h : w[i] \in T \ {"open"}
    BY <1>1, <1>2, <1>3, <1>4, <1>7
  <2>2. s \in Seq(T \ {"open"}) /\ t \in Seq(T) /\ SubSeq(w, c + 1, read) = s \o t
    BY <1>2, <2>1, PartIn, PartType, PartsJoin
  <2> HIDE DEF s, t
  <2>3. NonBlank(s \o t) = NonBlank(t)
    BY <1>5, <2>2, BlankBefore
  <2> QED BY <1>3, <2>2, <2>3 DEF w, h, t
<1> QED BY <1>6, <1>7

-----------------------------------------------------------------------------
\* What becomes of a good request.

\* A text that loses nothing had nothing to lose.
LEMMA WithoutLess ==
  ASSUME NEW T, NEW K
  PROVE  \A s \in Seq(T) :
           /\ Len(Without(s, K)) <= Len(s)
           /\ Len(Without(s, K)) = Len(s) => s \in Seq(T \ K)
<1> DEFINE S == {s \in Seq(T) :
                   /\ Len(Without(s, K)) <= Len(s)
                   /\ Len(Without(s, K)) = Len(s) => s \in Seq(T \ K)}
<1>1. << >> \in S
  <2>1. << >> \in Seq(T) /\ << >> \in Seq(T \ K)
    BY EmptySeq
  <2>2. Len(<< >>) \in Nat
    BY <2>1, LenProperties
  <2>3. Len(<< >>) <= Len(<< >>)
    BY <2>2
  <2> QED BY <2>1, <2>3, WithoutNothing
<1>2. ASSUME NEW s \in Seq(T), NEW t \in T, s \in S PROVE Append(s, t) \in S
  <2> DEFINE r == Without(s, K)
  <2>1. /\ Append(s, t) \in Seq(T) /\ r \in Seq(T) /\ Len(Append(s, t)) = Len(s) + 1
        /\ Len(s) \in Nat /\ Len(r) \in Nat
    BY AppendProperties, WithoutType, LenProperties
  <2>2. Len(r) <= Len(s) /\ (Len(r) = Len(s) => s \in Seq(T \ K))
    BY <1>2
  <2> HIDE DEF S
  <2>3. CASE t \in K
    <3>1. Len(Without(Append(s, t), K)) = Len(r)
      BY <2>3, WithoutDrops
    <3> HIDE DEF r
    <3>2. Len(r) <= Len(s) + 1 /\ Len(r) # Len(s) + 1
      BY <2>1, <2>2
    <3> QED BY <2>1, <3>1, <3>2 DEF S
  <2>4. CASE t \notin K
    <3>1. Without(Append(s, t), K) = Append(r, t)
      BY <2>4, WithoutKeeps
    <3> HIDE DEF r
    <3>2. Len(Append(r, t)) = Len(r) + 1
      BY <2>1, AppendProperties
    <3>3. Len(r) + 1 <= Len(s) + 1
      BY <2>1, <2>2
    <3>4. ASSUME Len(r) + 1 = Len(s) + 1 PROVE Append(s, t) \in Seq(T \ K)
      <4>1. Len(r) = Len(s)
        BY <2>1, <3>4
      <4>2. s \in Seq(T \ K) /\ t \in T \ K
        BY <2>2, <2>4, <4>1
      <4> QED BY <4>2, AppendProperties
    <3> QED BY <2>1, <3>1, <3>2, <3>3, <3>4 DEF S
  <2> QED BY <2>3, <2>4
<1> HIDE DEF S
<1>3. \A s \in Seq(T) : s \in S
  BY <1>1, <1>2, SeqInduction
<1> QED BY <1>3 DEF S

\* The text of the body, as a part of the wire.
LEMMA BodyPart ==
  ASSUME NEW r \in Requests, NEW n \in HeaderEnd(r) .. Len(Wire(r))
  PROVE  /\ SubSeq(Wire(r), HeaderEnd(r) + 1, n) \in Seq(ToSet(r.body))
         /\ n = Len(Wire(r)) => SubSeq(Wire(r), HeaderEnd(r) + 1, n) = r.body
<1> DEFINE w == Wire(r)
           h == HeaderEnd(r)
           b == r.body
           T == Alphabet(r)
<1>1. /\ w \in Seq(T) /\ h \in Nat /\ Len(w) \in Nat /\ Len(b) \in Nat /\ Len(w) = h + Len(b)
  BY WireType
<1>2. b \in Seq(ToSet(b)) /\ \A i \in 1 .. Len(b) : b[i] \in ToSet(b) /\ w[h + i] = b[i]
  <2>1. b \in Seq(ToSet(b) \ Headers) /\ ToSet(b) \ Headers \subseteq ToSet(b)
    BY RequestParts
  <2>2. b \in Seq(ToSet(b))
    BY <2>1, SeqMonotonic
  <2>3. \A i \in 1 .. Len(b) : b[i] \in ToSet(b)
    BY <2>2, ElementOfSeq
  <2> QED BY <2>2, <2>3, WireShape
<1>3. n \in h .. Len(w)
  OBVIOUS
<1> DEFINE V == ToSet(b)
           c == SubSeq(w, h + 1, n)
<1> HIDE DEF w, h, b, T, V
<1>4. c \in Seq(V)
  <2>1. \A i \in h + 1 .. n : w[i] \in V
    <3>1. ASSUME NEW i \in h + 1 .. n PROVE w[i] \in V
      <4>1. i - h \in 1 .. Len(b) /\ h + (i - h) = i
        BY <1>1, <1>3
      <4> QED BY <1>2, <4>1 DEF V
    <3> QED BY <3>1
  <2>2. n \in 0 .. Len(w)
    BY <1>1, <1>3
  <2> QED BY <1>1, <2>1, <2>2, PartIn
<1>5. ASSUME n = Len(w) PROVE c = b
  <2>1. /\ n - h = Len(b) /\ n \in 0 .. Len(w)
        /\ (IF h < n THEN n - h ELSE 0) = Len(b)
    BY <1>1, <1>3, <1>5
  <2>2. Len(c) = Len(b) /\ \A i \in 1 .. Len(b) : c[i] = w[h + i]
    BY <1>1, <2>1, PartType
  <2>3. c \in Seq(V) /\ b \in Seq(V) /\ \A i \in 1 .. Len(b) : c[i] = b[i]
    BY <1>2, <1>4, <2>2 DEF V
  <2> HIDE DEF c
  <2> QED BY <2>2, <2>3, SeqEqual
<1> QED BY <1>4, <1>5 DEF w, h, b, V, c

\* What a good request has left when its first read holds the header: the empty
\* line's first character, the part of the body in the first read without its
\* newlines, and the part that came later.
GoodTaken(y, z) ==
  LET V == ToSet(request.body)
      kept == Without(y, {Newline})
  IN  /\ y \in Seq(V) /\ z \in Seq(V) /\ kept \in Seq(V)
      /\ y = SubSeq(Wire(request), HeaderEnd(request) + 1, first)
      /\ y \o z = SubSeq(Wire(request), HeaderEnd(request) + 1, read)
      /\ jsonRequest = (<<Return>> \o kept) \o z
      /\ NonBlank(jsonRequest) = NonBlank(y \o z)
      /\ readAmount = 1 + (Len(kept) + Len(z))

\* Where a good request stands once its header was read.
LEMMA GoodReading ==
  ASSUME Parsing, WellFormed(request), first >= HeaderEnd(request)
  PROVE  /\ ~readHeader /\ request \in Requests /\ Len(request.body) \in Nat
         /\ HeaderEnd(request) \in Nat /\ Len(Wire(request)) = HeaderEnd(request) + Len(request.body)
         /\ first \in HeaderEnd(request) .. read /\ read \in HeaderEnd(request) .. Len(Wire(request))
         /\ contentLength = Len(request.body) /\ readAmount = Size(jsonRequest)
         /\ result = IF readAmount < contentLength THEN "indeterminate" ELSE Rebuilt(jsonRequest)
         /\ TakenFrom(Len(request.heads) + 1)
<1> DEFINE w == Wire(request)
           h == HeaderEnd(request)
           b == request.body
           l == Len(request.heads)
<1>1. request \in Requests /\ read \in 0 .. Len(w) /\ first \in 0 .. read /\ readHeader \in BOOLEAN
  BY DEF Parsing
<1>2. /\ h \in Nat /\ Len(w) = h + Len(b) /\ Len(b) \in Nat /\ Len(w) \in Nat /\ l \in Nat
      /\ w \in Seq(Alphabet(request))
  BY <1>1, WireType
<1>3. ~readHeader
  <2>1. ASSUME first < h PROVE FALSE
    <3>1. first >= h
      OBVIOUS
    <3> HIDE DEF h, w
    <3> QED BY <1>1, <1>2, <2>1, <3>1
  <2> QED BY <1>1, <2>1 DEF Parsing, Untaken
<1>4. Taken
  BY <1>3 DEF Parsing
<1>5. TakenFrom(l + 1)
  BY <1>4 DEF Taken, TakenFrom
<1>6. first \in h .. read /\ read \in h .. Len(w)
  <2>1. first >= h
    OBVIOUS
  <2> HIDE DEF h, w
  <2> QED BY <1>1, <1>2, <2>1
<1>7. contentLength = Len(b)
  <2>1. request.length = Size(b) /\ request.length # NotANumber
        /\ contentLength = Wrapped(request.length)
    BY <1>4 DEF WellFormed, Taken
  <2>2. b \in Seq(ToSet(b)) /\ ToSet(b) \cap (Tokens \cup Foreign) = {}
    <3>1. b \in Seq(ToSet(b) \ Headers) /\ ToSet(b) \ Headers \subseteq ToSet(b)
          /\ ToSet(b) \cap Headers = {}
      BY <1>1, RequestParts
    <3> QED BY <3>1, SeqMonotonic DEF Headers
  <2>3. Size(b) = Len(b)
    BY <2>2, SizeOfCharacters
  <2>4. request.length \in -SizeRange .. (SizeRange - 1)
    BY <1>1, <2>1, RequestParts
  <2>5. SizeRange \in Nat \ {0}
    BY ParserAssumption DEF ParserAssumption
  <2> DEFINE n == Len(b)
  <2>6. n \in Nat /\ n \in -SizeRange .. (SizeRange - 1) /\ contentLength = Wrapped(n)
    BY <1>2, <2>1, <2>3, <2>4
  <2> HIDE DEF n
  <2>7. n % SizeRange = n
    BY <2>5, <2>6
  <2> QED BY <2>6, <2>7 DEF Wrapped, n
<1> QED BY <1>1, <1>2, <1>3, <1>4, <1>5, <1>6, <1>7 DEF Taken

\* What a good request has left then.
LEMMA GoodKept ==
  ASSUME Parsing, WellFormed(request), first >= HeaderEnd(request)
  PROVE  \E y, z : GoodTaken(y, z)
<1> DEFINE w == Wire(request)
           h == HeaderEnd(request)
           T == Alphabet(request)
           V == ToSet(request.body)
           l == Len(request.heads)
           y == SubSeq(w, h + 1, first)
           z == SubSeq(w, first + 1, read)
           NL == {Newline}
<1>1. /\ request \in Requests /\ h \in Nat /\ first \in h .. read /\ read \in h .. Len(w)
      /\ Len(w) = h + Len(request.body) /\ Len(request.body) \in Nat
      /\ readAmount = Size(jsonRequest) /\ TakenFrom(l + 1)
  BY GoodReading
<1>2. w \in Seq(T) /\ h = 2 * (l + 1) + 2 /\ l \in Nat /\ Len(w) \in Nat
  BY <1>1, WireType
<1>3. jsonRequest = Rest(w, l + 1, first) \o z
  BY <1>1 DEF TakenFrom
<1> DEFINE j == 2 * (l + 1)
           x == SubSeq(w, j + 1, h)
           o == <<Return>>
<1>4. /\ j \in Nat /\ h = j + 2 /\ ~(first < j)
      /\ first \in h .. Len(w) /\ read \in first .. Len(w) /\ h \in j .. Len(w)
      /\ h \in 0 .. Len(w) /\ first \in 0 .. Len(w) /\ first \in Nat
  <2> DEFINE n == Len(w)
  <2>1. j \in Nat /\ n \in Nat
    BY <1>2
  <2>2. h = j + 2
    BY <1>2
  <2>3. first \in h .. read /\ read \in h .. n
    BY <1>1
  <2> HIDE DEF j, h, n
  <2>4. /\ j \in Nat /\ h = j + 2 /\ ~(first < j)
        /\ first \in h .. n /\ read \in first .. n /\ h \in j .. n
        /\ h \in 0 .. n /\ first \in 0 .. n /\ first \in Nat
    BY <1>1, <2>1, <2>2, <2>3
  <2> QED BY <2>4 DEF n
<1>5. Rest(w, l + 1, first) = Without(SubSeq(w, j + 1, first), NL)
  BY <1>4 DEF Rest
<1>6. x \in Seq(T) /\ SubSeq(w, j + 1, first) = x \o y
  BY <1>2, <1>4, PartType, PartsJoin
<1>7. y \in Seq(V) /\ z \in Seq(V) /\ y \o z = SubSeq(w, h + 1, read)
  <2>1. y \in Seq(V) /\ SubSeq(w, h + 1, read) \in Seq(V)
    BY <1>1, <1>4, BodyPart
  <2>2. y \o z = SubSeq(w, h + 1, read)
    BY <1>1, <1>2, <1>4, PartsJoin
  <2>3. \A i \in first + 1 .. read : w[i] \in V
    <3>1. \A i \in 1 .. Len(request.body) : w[h + i] \in V
      <4>1. request.body \in Seq(V)
        <5>1. request.body \in Seq(V \ Headers) /\ V \ Headers \subseteq V
          BY <1>1, RequestParts
        <5> QED BY <5>1, SeqMonotonic
      <4>2. \A i \in 1 .. Len(request.body) : w[h + i] = request.body[i]
        BY <1>1, WireShape
      <4> QED BY <4>1, <4>2, ElementOfSeq
    <3>2. ASSUME NEW i \in first + 1 .. read PROVE w[i] \in V
      <4> DEFINE n == Len(w)
                 m == Len(request.body)
      <4>1. h \in Nat /\ n = h + m /\ m \in Nat /\ first \in h .. n /\ read \in first .. n
        BY <1>1, <1>4
      <4>2. i - h \in 1 .. m /\ h + (i - h) = i
        <5> HIDE DEF h, n, m
        <5> QED BY <3>2, <4>1
      <4> QED BY <3>1, <4>2
    <3> QED BY <3>2
  <2>4. z \in Seq(V)
    <3>1. read \in 0 .. Len(w)
      BY <1>1
    <3> HIDE DEF w, V
    <3> QED BY <1>2, <1>4, <2>3, <3>1, PartIn
  <2> QED BY <2>1, <2>2, <2>4
<1>8. Without(x, NL) = o /\ NonBlank(x) = << >> /\ NonBlank(o) = << >> /\ o \in Seq(T) /\ Len(o) = 1
  <2>1. w[j + 1] = Return /\ w[j + 2] = Newline
    <3>1. w[h - 1] = Return /\ w[h] = Newline
      BY <1>1, WireShape
    <3>2. h - 1 = j + 1 /\ h = j + 2
      BY <1>4
    <3> QED BY <3>1, <3>2
  <2>2. Len(x) = 2 /\ \A i \in 1 .. 2 : x[i] = w[j + i]
    <3>1. h - j = 2 /\ j < h
      BY <1>4
    <3> QED BY <1>2, <1>4, <3>1, PartType
  <2>3. x = Append(Append(<< >>, Return), Newline)
    <3> DEFINE e == << >>
               f == Append(e, Return)
               g == Append(f, Newline)
    <3>1. e \in Seq(Blank) /\ Len(e) = 0
      BY EmptySeq
    <3> HIDE DEF e
    <3>2. f \in Seq(Blank) /\ Len(f) = 1 /\ f[1] = Return
      BY <3>1, AppendProperties DEF Blank
    <3> HIDE DEF f
    <3>3. g \in Seq(Blank) /\ Len(g) = 2 /\ g[1] = Return /\ g[2] = Newline
      <4>1. Newline \in Blank
        BY DEF Blank
      <4>2. /\ g \in Seq(Blank) /\ Len(g) = Len(f) + 1 /\ g[Len(f) + 1] = Newline
            /\ \A i \in 1 .. Len(f) : g[i] = f[i]
        <5> DEFINE N == Newline
                   B == Blank
        <5>1. f \in Seq(B) /\ N \in B
          BY <3>2, <4>1
        <5> HIDE DEF N, B
        <5>2. /\ Append(f, N) \in Seq(B) /\ Len(Append(f, N)) = Len(f) + 1
              /\ Append(f, N)[Len(f) + 1] = N /\ \A i \in 1 .. Len(f) : Append(f, N)[i] = f[i]
          BY <5>1, AppendProperties
        <5> QED BY <5>2 DEF N, B
      <4>3. Len(f) + 1 = 2 /\ 1 \in 1 .. Len(f)
        BY <3>2
      <4> QED BY <3>2, <4>2, <4>3
    <3> HIDE DEF g
    <3>4. \A i \in 1 .. 2 : x[i] = g[i]
      <4> HIDE DEF x, w, j, g
      <4>1. 1 \in 1 .. 2 /\ 2 \in 1 .. 2 /\ \A i \in 1 .. 2 : i = 1 \/ i = 2
        OBVIOUS
      <4>2. x[1] = w[j + 1] /\ x[2] = w[j + 2]
        BY <2>2, <4>1
      <4> QED BY <2>1, <3>3, <4>1, <4>2
    <3>5. x = g
      <4> HIDE DEF x
      <4> QED BY <1>6, <2>2, <3>3, <3>4, SeqEqual
    <3> QED BY <3>5 DEF g, f, e
  <2>4. Return \notin NL /\ Newline \in NL /\ Return \in Blank /\ Newline \in Blank
    BY DEF Return, Newline, Blank
  <2> DEFINE e == << >>
             p == Append(e, Return)
  <2>5. e \in Seq(Blank) /\ p \in Seq(Blank) /\ o = p /\ x = Append(p, Newline)
    <3>1. e \in Seq(Blank) /\ p \in Seq(Blank)
      BY <2>4, EmptySeq, AppendProperties
    <3>2. o = p
      OBVIOUS
    <3> QED BY <2>3, <3>1, <3>2
  <2>6. Without(e, NL) = e /\ NonBlank(e) = e
    BY WithoutNothing DEF NonBlank
  <2> HIDE DEF x, e, p, o, NL
  <2>7. Without(x, NL) = o
    <3>1. Without(Append(p, Newline), NL) = Without(p, NL)
      BY <2>4, <2>5, WithoutDrops
    <3>2. Without(p, NL) = Append(Without(e, NL), Return)
      BY <2>4, <2>5, WithoutKeeps DEF p
    <3> QED BY <2>5, <2>6, <3>1, <3>2 DEF p
  <2>8. NonBlank(o) = e /\ NonBlank(x) = e
    <3>1. Without(p, Blank) = Without(e, Blank)
      BY <2>4, <2>5, WithoutDrops DEF p
    <3>2. Without(Append(p, Newline), Blank) = Without(p, Blank)
      BY <2>4, <2>5, WithoutDrops
    <3> QED BY <2>5, <2>6, <3>1, <3>2 DEF NonBlank
  <2>9. o \in Seq(T) /\ Len(o) = 1
    BY DEF Alphabet, Blank, o
  <2> QED BY <2>7, <2>8, <2>9 DEF e
<1>9. V \subseteq T /\ y \in Seq(T) /\ z \in Seq(T)
  <2>1. V \subseteq T
    BY DEF Alphabet
  <2> QED BY <1>7, <2>1, SeqMonotonic
<1> DEFINE kept == Without(y, NL)
<1>10. kept \in Seq(V) /\ kept \in Seq(T)
  BY <1>7, <1>9, WithoutType
<1>11. jsonRequest = (o \o kept) \o z
  <2>1. Without(x \o y, NL) = Without(x, NL) \o Without(y, NL)
    <3> HIDE DEF x, y, NL
    <3> QED BY <1>6, <1>9, WithoutConcat
  <2> QED BY <1>3, <1>5, <1>6, <1>8, <2>1
<1>12. o \o kept \in Seq(T)
  <2> HIDE DEF o, kept
  <2> QED BY <1>8, <1>10, ConcatProperties
<1>13. NonBlank(jsonRequest) = NonBlank(y \o z)
  <2>1. /\ NonBlank((o \o kept) \o z) = NonBlank(o \o kept) \o NonBlank(z)
        /\ NonBlank(o \o kept) = NonBlank(o) \o NonBlank(kept)
        /\ NonBlank(y \o z) = NonBlank(y) \o NonBlank(z)
    <3> HIDE DEF o, kept, y, z
    <3> QED BY <1>8, <1>9, <1>10, <1>12, WithoutConcat DEF NonBlank
  <2>2. NonBlank(kept) = NonBlank(y) /\ NonBlank(y) \in Seq(T)
    <3>1. NL \subseteq Blank
      BY DEF Blank
    <3> HIDE DEF y, NL
    <3> QED BY <1>9, <3>1, WithoutTwice, WithoutType DEF NonBlank
  <2>3. NonBlank(o) \o NonBlank(kept) = NonBlank(y)
    BY <1>8, <2>2, ConcatEmptySeq
  <2> QED BY <1>11, <2>1, <2>3
<1>14. readAmount = 1 + (Len(kept) + Len(z))
  <2>1. /\ Size((o \o kept) \o z) = Size(o \o kept) + Size(z)
        /\ Size(o \o kept) = Size(o) + Size(kept)
    <3> HIDE DEF o, kept, z
    <3> QED BY <1>8, <1>9, <1>10, <1>12, SizeConcat
  <2>2. Size(o) = Len(o)
    <3>1. o \in Seq(Blank) /\ Blank \cap (Tokens \cup Foreign) = {}
      BY ParserAssumption DEF ParserAssumption, Blank
    <3> QED BY <3>1, SizeOfCharacters
  <2>3. Size(kept) = Len(kept) /\ Size(z) = Len(z)
    <3>1. V \cap (Tokens \cup Foreign) = {}
      BY <1>1, RequestParts DEF Headers
    <3> HIDE DEF kept, z
    <3> QED BY <1>7, <1>10, <3>1, SizeOfCharacters
  <2>4. Len(kept) \in Nat /\ Len(z) \in Nat
    BY <1>7, <1>10, LenProperties
  <2>5. readAmount = (1 + Len(kept)) + Len(z)
    BY <1>1, <1>8, <1>11, <2>1, <2>2, <2>3
  <2> HIDE DEF kept, z
  <2> QED BY <2>4, <2>5
<1>15. GoodTaken(y, z)
  BY <1>7, <1>10, <1>11, <1>13, <1>14 DEF GoodTaken
<1> QED BY <1>15

\* What is left of the body counts as complete with one character to come.
LEMMA GoodAnswer ==
  ASSUME Parsing, WellFormed(request), first >= HeaderEnd(request),
         NEW y, NEW z, GoodTaken(y, z), read = Len(Wire(request)),
         Len(Without(y, {Newline})) + Len(z) + 1 >= Len(request.body)
  PROVE  result = "true"
<1>1. /\ result = IF readAmount < contentLength THEN "indeterminate" ELSE Rebuilt(jsonRequest)
      /\ contentLength = Len(request.body) /\ contentLength \in Nat
      /\ request \in Requests /\ read \in HeaderEnd(request) .. Len(Wire(request))
  BY GoodReading
<1> DEFINE a == Len(Without(y, {Newline}))
           b == Len(z)
<1>2. readAmount = 1 + (a + b) /\ a \in Nat /\ b \in Nat /\ a + b + 1 >= contentLength
  BY <1>1, LenProperties DEF GoodTaken
<1> HIDE DEF a, b
<1>3. ~(readAmount < contentLength)
  BY <1>1, <1>2
<1>4. y \o z = request.body
  BY <1>1, BodyPart DEF GoodTaken
<1>5. NonBlank(jsonRequest) = NonBlank(request.body)
  BY <1>4 DEF GoodTaken
<1>6. Parsed(jsonRequest)
  BY <1>5 DEF WellFormed, Parsed
<1> QED BY <1>1, <1>3, <1>6 DEF Rebuilt

\* The empty line evens out a newline of the body, and is one character too
\* many when the body has none.
LEMMA ParsingGood == Parsing => GoodAnswered
<1> SUFFICES ASSUME Parsing, WellFormed(request)
             PROVE  /\ BodyNewlines(request) <= 1 /\ first = Len(Wire(request)) => result = "true"
                    /\ BodyNewlines(request) = 0 /\ first >= HeaderEnd(request) =>
                         /\ AllRead => result # "indeterminate"
                         /\ result = "false" => read = Len(Wire(request)) - 1
  BY DEF GoodAnswered
<1> DEFINE w == Wire(request)
           h == HeaderEnd(request)
           b == request.body
           V == ToSet(b)
           NL == {Newline}
<1>1. request \in Requests
  BY DEF Parsing
<1>2. h \in Nat /\ Len(w) \in Nat /\ h <= Len(w) /\ Len(w) = h + Len(b) /\ Len(b) \in Nat
  BY <1>1, WireType
<1>3. b \in Seq(V) /\ Len(Without(b, NL)) \in Nat
  <2>1. b \in Seq(V \ Headers) /\ V \ Headers \subseteq V
    BY <1>1, RequestParts
  <2>2. b \in Seq(V)
    BY <2>1, SeqMonotonic
  <2> QED BY <2>2, WithoutType, LenProperties
<1>4. ASSUME BodyNewlines(request) <= 1, first = Len(w) PROVE result = "true"
  <2>1. first >= h
    <3> HIDE DEF h, w
    <3> QED BY <1>2, <1>4
  <2>2. first \in h .. read /\ read \in h .. Len(w)
    BY <2>1, GoodReading
  <2>3. read = Len(w) /\ first = read
    <3> HIDE DEF h, w
    <3> QED BY <1>2, <1>4, <2>2
  <2>4. PICK y, z : GoodTaken(y, z)
    BY <2>1, GoodKept
  <2>5. y = b
    <3>1. y = SubSeq(w, h + 1, first)
      BY <2>4 DEF GoodTaken
    <3>2. first \in h .. Len(w) /\ first = Len(w)
      BY <1>4, <2>2, <2>3
    <3>3. SubSeq(w, h + 1, first) = b
      BY <1>1, <3>2, BodyPart
    <3> QED BY <3>1, <3>3
  <2>6. Len(z) \in Nat
    BY <2>4, LenProperties DEF GoodTaken
  <2>7. Len(Without(y, NL)) + Len(z) + 1 >= Len(b)
    <3>1. Len(b) - Len(Without(b, NL)) <= 1
      BY <1>4 DEF BodyNewlines
    <3> DEFINE i == Len(b)
               j == Len(Without(b, NL))
               k == Len(z)
    <3>2. i \in Nat /\ j \in Nat /\ k \in Nat /\ i - j <= 1
      BY <1>2, <1>3, <2>6, <3>1
    <3> HIDE DEF i, j, k
    <3>3. j + k + 1 >= i
      BY <3>2
    <3> QED BY <2>5, <3>3 DEF i, j, k
  <2> QED BY <2>1, <2>3, <2>4, <2>7, GoodAnswer
<1>5. ASSUME BodyNewlines(request) = 0, first >= h
      PROVE  /\ AllRead => result # "indeterminate"
             /\ result = "false" => read = Len(w) - 1
  <2>1. /\ first \in h .. read /\ read \in h .. Len(w)
        /\ contentLength = Len(b)
        /\ result = IF readAmount < contentLength THEN "indeterminate" ELSE Rebuilt(jsonRequest)
    BY <1>5, GoodReading
  <2>2. PICK y, z : GoodTaken(y, z)
    BY <1>5, GoodKept
  <2>3. b \in Seq(V \ NL)
    <3>1. Len(b) - Len(Without(b, NL)) = 0
      BY <1>5 DEF BodyNewlines
    <3> DEFINE i == Len(b)
               j == Len(Without(b, NL))
    <3>2. i \in Nat /\ j \in Nat /\ i - j = 0
      BY <1>2, <1>3, <3>1
    <3>3. i = j
      <4> HIDE DEF i, j
      <4> QED BY <3>2
    <3> HIDE DEF b, V, NL
    <3> QED BY <1>3, <3>3, WithoutLess
  <2>4. Newline \notin V
    <3>1. \A i \in 1 .. Len(b) : b[i] \in V \ NL
      BY <2>3, ElementOfSeq
    <3>2. DOMAIN b = 1 .. Len(b)
      BY <1>3, LenProperties
    <3> QED BY <3>1, <3>2 DEF ToSet
  <2>5. Without(y, NL) = y
    <3>1. V \cap NL = {}
      BY <2>4
    <3>2. y \in Seq(V)
      BY <2>2 DEF GoodTaken
    <3> QED BY <3>1, <3>2, WithoutNone
  <2>6. Len(y) + Len(z) = read - h
    <3>1. y \in Seq(V) /\ z \in Seq(V) /\ y \o z = SubSeq(w, h + 1, read)
      BY <2>2 DEF GoodTaken
    <3>2. Len(y \o z) = Len(y) + Len(z)
      <4> HIDE DEF V
      <4> QED BY <3>1, ConcatProperties
    <3>3. w \in Seq(Alphabet(request)) /\ h \in Nat /\ read \in 0 .. Len(w)
      BY <1>1, <1>2, <2>1, WireType
    <3>4. Len(SubSeq(w, h + 1, read)) = IF h < read THEN read - h ELSE 0
      BY <3>3, PartType
    <3>5. (IF h < read THEN read - h ELSE 0) = read - h
      <4> HIDE DEF w, h
      <4> QED BY <1>2, <2>1
    <3> QED BY <3>1, <3>2, <3>4, <3>5
  <2>7. readAmount = 1 + (read - h)
    BY <2>2, <2>5, <2>6 DEF GoodTaken
  <2>8. ASSUME AllRead PROVE result = "true"
    <3>1. read = Len(w)
      BY <2>8 DEF AllRead
    <3>2. Len(Without(y, NL)) + Len(z) + 1 >= Len(b)
      <4>1. Len(Without(y, NL)) + Len(z) = read - h
        BY <2>5, <2>6
      <4> DEFINE i == Len(w)
                 j == Len(b)
                 k == Len(Without(y, NL)) + Len(z)
      <4>2. i = h + j /\ j \in Nat /\ h \in Nat /\ k = read - h /\ read = i
        BY <1>2, <3>1, <4>1
      <4> HIDE DEF i, j, k, h
      <4>3. k + 1 >= j
        BY <4>2
      <4> QED BY <4>3 DEF j, k
    <3> QED BY <1>5, <2>2, <3>1, <3>2, GoodAnswer
  <2>9. ASSUME result = "false" PROVE read = Len(w) - 1
    <3>1. ~(readAmount < contentLength)
      BY <2>1, <2>9
    <3>2. read # Len(w)
      BY <2>8, <2>9 DEF AllRead
    <3> DEFINE i == Len(w)
               j == Len(b)
    <3>3. i = h + j /\ j \in Nat /\ h \in Nat /\ read \in h .. i /\ read # i
          /\ ~(1 + (read - h) < j)
      BY <1>2, <2>1, <2>7, <3>1, <3>2
    <3> HIDE DEF i, j, h
    <3>4. read = i - 1
      BY <3>3
    <3> QED BY <3>4 DEF i
  <2>10. "true" # "indeterminate"
    OBVIOUS
  <2> QED BY <2>8, <2>9, <2>10
<1> QED BY <1>4, <1>5

-----------------------------------------------------------------------------
\* The handler: from the answer of the parser to the reply.

\* Before the reply nothing was asked, and the operation is reached with its
\* password compared and its parameters tested.
Ready ==
  /\ LetThrough(call) \/ call.id = "createuser"
  /\ ~Missing(call) /\ ~Unconverted(call)

Handled ==
  /\ phase # "sent" => asked = NotAsked /\ reply = NoReply
  /\ phase = "operate" => Ready
  /\ session \in {"none", "open", "lost"}
  /\ phase \in {"verify", "operate"} => session # "none"

\* The documents of a reply to an operation that was asked for.
Told(rep) ==
  /\ rep.status \notin {"401", "503"}
  /\ \/ rep.content = << >> /\ rep.length = 0
     \/ \E x : /\ rep.content = <<x>> /\ rep.length = 1
               /\ x # "1004" /\ x # "1010"

Asked ==
  asked # NotAsked => asked.id = call.id /\ Ready /\ Told(reply)

Answered ==
  phase = "sent" =>
    /\ reply.length = Len(reply.content)
    /\ Len(reply.content) = 1 \/ (reply.content = << >> /\ call.id \in Lists \ stored)

IInv == Handled /\ Asked /\ Answered /\ RefusedRightly /\ ReturnedIsTold

\* Of the replies, the parts that the proofs speak of.
LEMMA ReplyParts ==
  ASSUME NEW status, NEW content
  PROVE  /\ Reply(status, content).status = status
         /\ Reply(status, content).content = content
         /\ Reply(status, content).length = Len(content)
BY DEF Reply

\* Sequences of one element.
LEMMA Singleton == ASSUME NEW x, NEW y PROVE Len(<<x>>) = 1 /\ (<<x>> = <<y>> => x = y)
OBVIOUS

\* The reply that holds nothing.
LEMMA Nothing == NoReply.content = << >> /\ Len(<< >>) = 0
BY DEF NoReply, Reply

\* What is told when a result is appended to no reply.
LEMMA AppendedToNothing ==
  ASSUME NEW x PROVE Appended(NoReply, <<x>>) = Reply("200", <<x>>)
<1>1. << >> \o <<x>> = <<x>>
  OBVIOUS
<1> QED BY <1>1, Nothing DEF Appended

\* What is told when nothing is appended.
LEMMA NothingAppended ==
  ASSUME NEW x, NEW status
  PROVE  /\ Appended(NoReply, << >>) = Reply("200", << >>)
         /\ Appended(Reply(status, <<x>>), << >>) = Reply("200", <<x>>)
<1>1. << >> \o << >> = << >> /\ <<x>> \o << >> = <<x>>
  OBVIOUS
<1>2. Reply(status, <<x>>).content = <<x>>
  BY ReplyParts
<1> QED BY <1>1, <1>2, Nothing DEF Appended

\* Every reply that is built from one document tells it.
LEMMA OneTold ==
  ASSUME NEW x, NEW status, status \notin {"401", "503"}, x # "1004", x # "1010"
  PROVE  Told(Reply(status, <<x>>)) /\ Reply(status, <<x>>).length = 1
                                    /\ Reply(status, <<x>>).content = <<x>>
<1> DEFINE rep == Reply(status, <<x>>)
<1>0. rep.status = status /\ rep.content = <<x>> /\ rep.length = Len(<<x>>)
  BY ReplyParts, Zenon
<1>1. rep.length = 1
  BY <1>0, Singleton, Zenon
<1> QED BY <1>0, <1>1 DEF Told

\* The codes that reach json_reply() are those of its switch, or its default.
LEMMA ReturnedCodes ==
  ASSUME NEW id, NEW code, code \in Returned(id) \/ code \in ReturnedLost(id)
  PROVE  /\ code # "1004" /\ code # "1010"
         /\ id \in {"createuser", "updateimage"} => JsonString(code) = code
<1>1. code \in Returned(id)
  BY DEF ReturnedLost
<1> QED BY <1>1 DEF Returned, JsonString, Switch

\* The status lines that matter are those of their codes.
LEMMA StatusKept == StatusLine("200") = "200" /\ StatusLine("401") = "401" /\ StatusLine("503") = "503"
BY DEF StatusLine, Stock, Switch

\* to_buffers() sends the reply as it is.
LEMMA BuffersKeep ==
  ASSUME NEW rep
  PROVE  /\ Buffers(rep).content = rep.content /\ Buffers(rep).length = rep.length
         /\ Buffers(rep).status = StatusLine(rep.status)
         /\ Told(rep) => Told(Buffers(rep))
<1>1. /\ Buffers(rep).content = rep.content /\ Buffers(rep).length = rep.length
      /\ Buffers(rep).status = StatusLine(rep.status)
  BY DEF Buffers
<1>2. rep.status \notin {"401", "503"} => StatusLine(rep.status) \notin {"401", "503"}
  BY DEF StatusLine
<1> QED BY <1>1, <1>2, Zenon DEF Told

\* Of what is told, nothing is a refusal.
LEMMA ToldCodes ==
  ASSUME NEW rep, Told(rep)
  PROVE  rep.content # <<"1004">> /\ rep.content # <<"1010">>
<1>1. CASE rep.content = << >>
  <2>1. << >> # <<"1004">> /\ << >> # <<"1010">>
    OBVIOUS
  <2> QED BY <1>1, <2>1
<1>2. CASE rep.content # << >>
  <2>1. PICK x : rep.content = <<x>> /\ x # "1004" /\ x # "1010"
    BY <1>2, Zenon DEF Told
  <2>2. <<x>> # <<"1004">> /\ <<x>> # <<"1010">>
    BY <2>1, Singleton, Zenon
  <2> QED BY <2>1, <2>2, Zenon
<1> QED BY <1>1, <1>2

\* A reply of one document made by json_reply() or stock_reply().
LEMMA OneSent ==
  ASSUME NEW x, NEW status
  PROVE  Reply(status, <<x>>).length = 1 /\ Len(Reply(status, <<x>>).content) = 1
<1>1. Len(<<x>>) = 1
  BY Singleton
<1>2. /\ Reply(status, <<x>>).content = <<x>>
      /\ Reply(status, <<x>>).length = Len(<<x>>)
  BY ReplyParts, Zenon
<1> QED BY <1>1, <1>2, Zenon

\* What may be answered without an operation.
Refusing(x, status) ==
  \/ status = "503"
  \/ /\ status = "200"
     /\ \/ call.id = "createuser"
        \/ /\ x = "1010" /\ LetThrough(call) => session = "lost"
           /\ ~LetThrough(call) => x = "1010"

\* A step that sends a reply without asking for anything.
LEMMA SendUnasked ==
  ASSUME Handled, phase # "sent", NEW x, NEW status,
         Send(Reply(status, <<x>>)), UNCHANGED asked, Refusing(x, status)
  PROVE  IInv'
<1> DEFINE rep == Reply(status, <<x>>)
<1>1. /\ asked' = NotAsked /\ phase' = "sent" /\ reply' = Buffers(rep)
      /\ UNCHANGED <<call, session>>
  BY DEF Handled, Send
<1>2. /\ rep.status = status /\ rep.content = <<x>> /\ rep.length = 1
      /\ Len(rep.content) = 1
  BY ReplyParts, OneSent, Zenon
<1> HIDE DEF rep
<1>3. /\ reply'.length = 1 /\ Len(reply'.content) = 1 /\ reply'.content = <<x>>
      /\ reply'.status = StatusLine(status)
  BY <1>1, <1>2, BuffersKeep, Zenon
<1>4. Handled' /\ Asked' /\ ReturnedIsTold'
  BY <1>1 DEF Handled, Asked, ReturnedIsTold
<1>5. Answered'
  BY <1>1, <1>3 DEF Answered
<1>6. RefusedRightly'
  <2>1. <<x>> = <<"1010">> => x = "1010"
    BY Singleton, Zenon
  <2>2. reply'.status = "200" => status = "200"
    BY <1>3, StatusKept DEF Refusing
  <2> QED BY <1>1, <1>3, <2>1, <2>2, Zenon DEF Refusing, RefusedRightly
<1> QED BY <1>4, <1>5, <1>6 DEF IInv

\* A step that sends what was made of what an operation returned.
LEMMA SendAsked ==
  ASSUME Handled, phase = "operate", NEW rep, NEW returned, Send(rep),
         asked' = [id |-> call.id, returned |-> returned],
         returned # << >> => rep.content = returned,
         Told(rep), rep.length = Len(rep.content),
         Len(rep.content) = 1 \/ (rep.content = << >> /\ call.id \in Lists \ stored)
  PROVE  IInv'
<1>1. /\ phase' = "sent" /\ reply' = Buffers(rep)
      /\ call' = call /\ stored' = stored /\ session' = session
  BY DEF Send
<1>2. Ready /\ Ready'
  BY <1>1 DEF Handled, Ready, Missing, Unconverted
<1>3. asked'.id = call'.id /\ asked'.returned = returned
  BY <1>1
<1>4. /\ reply'.length = rep.length /\ reply'.content = rep.content
      /\ Told(reply')
  BY <1>1, BuffersKeep
<1>5. Handled' /\ Asked' /\ Answered'
  BY <1>1, <1>2, <1>3, <1>4 DEF Handled, Asked, Answered, Told
<1>6. RefusedRightly'
  <2>1. reply'.content # <<"1010">>
    BY <1>4, ToldCodes, Zenon
  <2>2. LetThrough(call)' \/ call'.id = "createuser"
    BY <1>2 DEF Ready
  <2> QED BY <2>1, <2>2, Zenon DEF RefusedRightly
<1>7. ReturnedIsTold'
  BY <1>3, <1>4, Zenon DEF ReturnedIsTold
<1> QED BY <1>5, <1>6, <1>7 DEF IInv

\* A step that sends nothing yet.
LEMMA GotoStep ==
  ASSUME IInv, phase # "sent", NEW label, label # "sent", Goto(label),
         label = "operate" => Ready, label \in {"verify", "operate"}, session # "none"
  PROVE  IInv'
<1>1. UNCHANGED <<call, session, stored, asked, reply>> /\ phase' = label
  BY DEF Goto
<1>2. Ready' <=> Ready
  BY <1>1 DEF Ready, Missing, Unconverted
<1> QED BY <1>1, <1>2 DEF IInv, Handled, Asked, Answered, Told, RefusedRightly, ReturnedIsTold

\* The invariant of the handler holds at first.
LEMMA InitIInv == ExchangeInit => IInv
<1> SUFFICES ASSUME ExchangeInit PROVE IInv
  OBVIOUS
<1>1. phase = "read" /\ asked = NotAsked /\ reply = NoReply /\ session \in {"none", "open"}
  BY DEF ExchangeInit
<1> QED BY <1>1 DEF IInv, Handled, Asked, Answered, RefusedRightly, ReturnedIsTold

\* An operation is asked for, and its result told.
LEMMA OperateStep == ASSUME IInv, Operate PROVE IInv'
<1>0. Handled /\ phase = "operate" /\ reply = NoReply
  BY DEF IInv, Handled, Operate
<1>1. ASSUME NEW code,
             code \in Returned(call.id) \/ code \in ReturnedLost(call.id),
             asked' = [id |-> call.id, returned |-> <<code>>],
             \/ call.id = "createuser" /\ Send(Appended(JsonReply(code), << >>))
             \/ call.id = "updateimage" /\ Send(JsonReply(code))
             \/ Send(Appended(reply, <<code>>))
      PROVE  IInv'
  <2>1. /\ code # "1004" /\ code # "1010"
        /\ call.id \in {"createuser", "updateimage"} => JsonString(code) = code
    BY <1>1, ReturnedCodes
  <2>2. /\ Appended(JsonReply(code), << >>) = Reply("200", <<JsonString(code)>>)
        /\ JsonReply(code) = Reply("200", <<JsonString(code)>>)
        /\ Appended(reply, <<code>>) = Reply("200", <<code>>)
    BY <1>0, NothingAppended, AppendedToNothing DEF JsonReply
  <2>3. Send(Reply("200", <<code>>))
    BY <1>1, <2>1, <2>2
  <2>4. Told(Reply("200", <<code>>)) /\ Reply("200", <<code>>).content = <<code>>
    BY <2>1, OneTold
  <2> QED
    BY <1>0, <1>1, <2>3, <2>4, OneSent, SendAsked
<1>2. CASE asked' = [id |-> call.id, returned |-> << >>] /\ Send(Caught(call.id))
  <2>1. PICK x, status : /\ x # "1004" /\ x # "1010" /\ status \notin {"401", "503"}
                         /\ Caught(call.id) = Reply(status, <<x>>)
    <3>1. \/ Caught(call.id) = Reply("400", <<Page>>)
          \/ Caught(call.id) = Reply("200", <<JsonString("1003")>>)
          \/ Caught(call.id) = Reply("200", <<JsonString("1013")>>)
      BY DEF Caught, StockReply, JsonReply
    <3>2. /\ JsonString("1003") = "1003" /\ JsonString("1013") = "1013"
          /\ Page # "1004" /\ Page # "1010"
      BY DEF JsonString, Switch, Page
    <3> QED BY <3>1, <3>2
  <2>2. Told(Reply(status, <<x>>))
    BY <2>1, OneTold
  <2> QED
    BY <1>0, <1>2, <2>1, <2>2, OneSent, SendAsked
<1> QED BY <1>1, <1>2 DEF Operate

\* A list is asked for, and told or empty.
LEMMA ListStep == ASSUME IInv, GetList PROVE IInv'
<1>0. Handled /\ phase = "operate" /\ reply = NoReply
  BY DEF IInv, Handled, GetList
<1>1. CASE call.id \in stored
  <2>1. Send(Reply("200", <<"rows">>)) /\ asked' = [id |-> call.id, returned |-> <<"rows">>]
    BY <1>0, <1>1, AppendedToNothing DEF GetList
  <2> QED BY <1>0, <2>1, ReplyParts, OneTold, OneSent, SendAsked
<1>2. CASE call.id \notin stored
  <2>1. /\ Send(Reply("200", << >>)) /\ asked' = [id |-> call.id, returned |-> << >>]
        /\ call.id \in Lists
    BY <1>0, <1>2, NothingAppended DEF GetList
  <2>2. /\ Reply("200", << >>).content = << >> /\ Reply("200", << >>).length = 0
        /\ Reply("200", << >>).status = "200"
    BY ReplyParts, Nothing
  <2>3. Told(Reply("200", << >>))
    BY <2>2 DEF Told
  <2> QED BY <1>0, <1>2, <2>1, <2>2, <2>3, Nothing, SendAsked
<1> QED BY <1>1, <1>2

\* Every step keeps the invariant of the handler.
LEMMA IInvStep == ASSUME IInv, [ExchangeNext]_exchange PROVE IInv'
<1>0. Handled
  BY DEF IInv
<1>1. CASE UNCHANGED exchange \/ ReadMore
  <2>1. UNCHANGED <<phase, call, session, stored, asked, reply>>
    BY <1>1 DEF exchange, handling, ReadMore
  <2> QED
    BY <2>1 DEF IInv, Handled, Asked, Answered, Told, Ready, Missing, Unconverted,
                RefusedRightly, ReturnedIsTold
<1>2. CASE Unauthorized
  <2>1. /\ phase # "sent" /\ phase' = "sent" /\ asked' = asked /\ session' = session
        /\ reply' = Buffers(Reply("401", <<Page>>))
    BY <1>2 DEF Unauthorized, StockReply
  <2>2. asked' = NotAsked
    BY <1>0, <2>1 DEF Handled
  <2>3. reply'.length = 1 /\ Len(reply'.content) = 1
    BY <2>1, OneSent, BuffersKeep
  <2>4. reply'.status = "401"
    BY <2>1, ReplyParts, StatusKept DEF Buffers
  <2>5. Handled' /\ Asked' /\ Answered'
    BY <1>0, <2>1, <2>2, <2>3 DEF Handled, Asked, Answered
  <2>6. RefusedRightly' /\ ReturnedIsTold'
    BY <2>2, <2>4 DEF RefusedRightly, ReturnedIsTold
  <2> QED BY <2>5, <2>6 DEF IInv
<1>3. CASE Accept
  BY <1>3 DEF Accept, IInv, Handled, Asked, Answered, RefusedRightly, ReturnedIsTold
<1>4. CASE Handle
  <2>1. CASE Send(StockReply("503")) /\ UNCHANGED asked
    BY <1>0, <1>4, <2>1, SendUnasked DEF Handle, StockReply, Refusing
  <2>2. CASE call.id = "createuser" /\ Send(JsonReply("1004")) /\ UNCHANGED asked
    BY <1>0, <1>4, <2>2, SendUnasked DEF Handle, JsonReply, Refusing
  <2>3. CASE session # "none" /\ call.id = "createuser" /\ ~Missing(call) /\ Goto("operate")
    <3>1. Ready
      BY <2>3 DEF Ready, Unconverted, Converted
    <3> QED BY <1>4, <2>3, <3>1, GotoStep DEF Handle
  <2>4. CASE session # "none" /\ Goto("verify")
    BY <1>4, <2>4, GotoStep DEF Handle
  <2> QED BY <1>4, <2>1, <2>2, <2>3, <2>4 DEF Handle
<1>5. CASE Verify
  <2>1. CASE Authenticated /\ Asks /\ Goto("operate")
    <3>1. Ready
      BY <2>1 DEF Ready, Authenticated, PasswordRead, LetThrough, Asks
    <3> QED BY <1>0, <1>5, <2>1, <3>1, GotoStep DEF Verify, Handled
  <2>2. CASE Send(JsonReply(Answer)) /\ UNCHANGED asked
    <3>1. session # "none" /\ session \in {"none", "open", "lost"}
      BY <1>0, <1>5 DEF Handled, Verify
    <3>2. Refusing(JsonString(Answer), "200")
      <4>1. CASE Authenticated
        <5>1. Answer \in {"1009", "1007", "1004", "1013"} /\ LetThrough(call)
          BY <4>1 DEF Answer, Authenticated, PasswordRead, LetThrough
        <5>2. JsonString(Answer) # "1010"
          BY <5>1 DEF JsonString, Switch
        <5> QED BY <5>1, <5>2 DEF Refusing
      <4>2. CASE ~Authenticated
        <5>1. JsonString(Answer) = "1010"
          BY <4>2 DEF Answer, JsonString, Switch
        <5>2. LetThrough(call) => session = "lost"
          BY <3>1, <4>2 DEF Authenticated, PasswordRead, LetThrough
        <5> QED BY <5>1, <5>2 DEF Refusing
      <4> QED BY <4>1, <4>2
    <3> QED BY <1>0, <1>5, <2>2, <3>2, SendUnasked DEF Verify, JsonReply
  <2> QED BY <1>5, <2>1, <2>2 DEF Verify
<1>6. CASE Operate
  BY <1>6, OperateStep
<1>7. CASE GetList
  BY <1>7, ListStep
<1>8. CASE Lose
  BY <1>8 DEF Lose, IInv, Handled, Asked, Answered, Told, Ready, Missing, Unconverted,
              RefusedRightly, ReturnedIsTold
<1>9. ASSUME NEW list \in Lists, Store(list) PROVE IInv'
  BY <1>9 DEF Store, IInv, Handled, Asked, Answered, Told, Ready, Missing, Unconverted,
              RefusedRightly, ReturnedIsTold
<1> QED
  BY <1>1, <1>2, <1>3, <1>4, <1>5, <1>6, <1>7, <1>8, <1>9 DEF ExchangeNext

\* The invariant of the handler.
LEMMA Invariance == ExchangeSpec => []IInv
BY InitIInv, IInvStep, PTL DEF ExchangeSpec

\* Nothing but "createuser" is asked of SRV_DB or Config without the user's own
\* password, except for a name nobody has and an empty password
\* (srv_db.cpp:196-206), with a parameter missing or no number, or for a
\* request that is answered as refused (request_handler.cpp:39-227).
THEOREM AsksVerified == ExchangeSpec => []ActsVerified
<1>1. IInv => ActsVerified
  <2>1. Told(reply) => /\ reply.content # <<"1004">> /\ reply.content # <<"1010">>
                       /\ reply.status \notin {"401", "503"}
    BY ToldCodes DEF Told
  <2> QED BY <2>1 DEF IInv, Asked, Ready, ActsVerified
<1> QED BY <1>1, Invariance, PTL

\* A reply holds one document and announces its length, except for a list that
\* no poller has stored (request_handler.cpp:213-236, reply.cpp:309-334).
THEOREM OneDocumentSent == ExchangeSpec => []OneDocument
<1>1. IInv => OneDocument
  BY DEF IInv, Answered, OneDocument
<1> QED BY <1>1, Invariance, PTL

\* A user with his own password, and a name nobody has with an empty one, is
\* refused only when the session was lost, and every other one always
\* (request_handler.cpp:47-56 and 224-227).
THEOREM RefusalsRight == ExchangeSpec => []RefusedRightly
<1>1. IInv => RefusedRightly
  BY DEF IInv
<1> QED BY <1>1, Invariance, PTL

\* The client is told what the operation returned (request_handler.cpp:44-45
\* and 121, reply.cpp:271-305).
THEOREM ReturnedTold == ExchangeSpec => []ReturnedIsTold
<1>1. IInv => ReturnedIsTold
  BY DEF IInv
<1> QED BY <1>1, Invariance, PTL

-----------------------------------------------------------------------------
\* Both together: every step of an exchange reads, or leaves the parser alone,
\* or sets it back.

LEMMA ForgetParsing == ASSUME Parsing, Forget PROVE Parsing'
<1>1. request' \in Requests
  BY DEF Parsing, Forget
<1>2. Len(Wire(request')) \in Nat /\ HeaderEnd(request') \in Nat /\ HeaderEnd(request') >= 4
  BY <1>1, WireType
<1>3. /\ read' = 0 /\ first' = 0 /\ readHeader' = TRUE /\ contentLength' = 0 /\ readAmount' = 0
      /\ jsonRequest' = << >> /\ result' = "indeterminate"
  BY DEF Forget
<1> QED BY <1>1, <1>2, <1>3 DEF Parsing, Untaken

\* What the handler does leaves the parser alone.
LEMMA ParserAlone ==
  ASSUME Handle \/ Verify \/ Operate \/ GetList \/ Lose \/ (\E list \in Lists : Store(list))
  PROVE  UNCHANGED vars
<1>1. ASSUME NEW rep, Send(rep) PROVE UNCHANGED vars
  BY <1>1 DEF Send
<1>2. ASSUME NEW label, Goto(label) PROVE UNCHANGED vars
  BY <1>2 DEF Goto
<1>3. CASE Handle
  BY <1>1, <1>2, <1>3, Zenon DEF Handle
<1>4. CASE Verify
  BY <1>1, <1>2, <1>4, Zenon DEF Verify
<1>5. CASE Operate
  BY <1>1, <1>5, Zenon DEF Operate
<1>6. CASE GetList
  BY <1>1, <1>6, Zenon DEF GetList
<1>7. CASE Lose
  BY <1>7 DEF Lose
<1>8. CASE \E list \in Lists : Store(list)
  BY <1>8 DEF Store
<1> QED BY <1>3, <1>4, <1>5, <1>6, <1>7, <1>8

LEMMA ParsingExchange == Parsing /\ [ExchangeNext]_exchange => Parsing'
<1> SUFFICES ASSUME Parsing, [ExchangeNext]_exchange PROVE Parsing'
  OBVIOUS
<1>1. CASE Unauthorized \/ Accept
  BY <1>1, ForgetParsing DEF Unauthorized, Accept
<1>2. CASE ReadMore
  BY <1>2, ParsingStep DEF ReadMore
<1>3. CASE UNCHANGED exchange
  BY <1>3, ParsingStep DEF exchange
<1>4. CASE Handle \/ Verify \/ Operate \/ GetList \/ Lose \/ (\E list \in Lists : Store(list))
  BY <1>4, ParserAlone, ParsingStep
<1> QED BY <1>1, <1>2, <1>3, <1>4 DEF ExchangeNext

LEMMA ParserInvariance == ExchangeSpec => []Parsing
<1>1. ExchangeInit => Parsing
  BY InitParsing DEF ExchangeInit
<1> QED BY <1>1, ParsingExchange, PTL DEF ExchangeSpec

\* The kinds of the handler's variables.
Typed ==
  /\ phase \in {"read", "handle", "verify", "operate", "sent"}
  /\ call \in Calls \cup {NoCall}
  /\ stored \subseteq Lists
  /\ asked.id \in Operations \cup Lists \cup {"none"}

LEMMA TypedStep == ASSUME Typed, [ExchangeNext]_exchange PROVE Typed'
<1>1. ASSUME NEW rep, Send(rep), asked' = asked \/ asked'.id \in Operations \cup Lists
      PROVE  Typed'
  BY <1>1 DEF Send, Typed
<1>2. ASSUME NEW label, Goto(label), label \in {"verify", "operate"} PROVE Typed'
  BY <1>2 DEF Goto, Typed
<1>3. CASE Handle
  BY <1>1, <1>2, <1>3, Zenon DEF Handle
<1>4. CASE Verify
  BY <1>1, <1>2, <1>4, Zenon DEF Verify
<1>5. CASE Operate \/ GetList
  <2>1. /\ asked'.id = call.id /\ call.id \in Operations \cup Lists
        /\ phase' = "sent" /\ UNCHANGED <<call, stored>>
    <3>1. \E x : asked' = [id |-> call.id, returned |-> x]
      BY <1>5, Zenon DEF Operate, GetList
    <3>2. \E rep : Send(rep)
      BY <1>5, Zenon DEF Operate, GetList
    <3>3. call.id \in Operations \cup Lists
      BY <1>5 DEF Operate, GetList
    <3> QED BY <3>1, <3>2, <3>3 DEF Send
  <2> QED BY <2>1 DEF Typed
<1>6. CASE Unauthorized \/ Accept \/ Lose \/ ReadMore \/ UNCHANGED exchange
  BY <1>6 DEF Unauthorized, Accept, Lose, ReadMore, exchange, handling, Typed
<1>7. CASE \E list \in Lists : Store(list)
  BY <1>7 DEF Store, Typed
<1> QED BY <1>3, <1>4, <1>5, <1>6, <1>7 DEF ExchangeNext

\* Every variable of the parser and of the handler keeps its type, whatever is
\* sent and however the reads cut it; no more is counted than was read, and the
\* length that a reply announces is that of a text (request_parser.cpp:14-141,
\* request_handler.cpp:39-236).
THEOREM TypeCorrect == ExchangeSpec => []ExchangeTypeOK
<1>1. ExchangeInit => Typed
  BY DEF ExchangeInit, Typed, NotAsked
<1>2. ExchangeSpec => []Typed
  BY <1>1, TypedStep, PTL DEF ExchangeSpec
<1>3. IInv /\ Typed /\ Parsing => ExchangeTypeOK
  <2> SUFFICES ASSUME IInv, Typed, Parsing PROVE ExchangeTypeOK
    OBVIOUS
  <2>1. reply.length \in Nat
    <3>1. CASE phase = "sent"
      BY <3>1, Nothing DEF IInv, Answered
    <3>2. CASE phase # "sent"
      <4>1. reply = NoReply
        BY <3>2 DEF IInv, Handled
      <4> QED BY <4>1, Nothing DEF NoReply, Reply
    <3> QED BY <3>1, <3>2
  <2> QED BY <2>1, ParsingType DEF ExchangeTypeOK, IInv, Handled, Typed
<1> QED BY <1>2, <1>3, Invariance, ParserInvariance, PTL

\* A request is taken for complete only with the text of its body, as far as it
\* was read, whatever its header says and however the reads cut it
\* (request_parser.cpp:105-128).
THEOREM TrueOnlyBody == ExchangeSpec => []TrueIsBody
BY ParsingBody, ParserInvariance, PTL

\* A good request in one read is accepted when its body has one newline at most;
\* one without newlines in its body, its header in the first read, is answered
\* once it has come, and refused only when a read ends one character early
\* (request_parser.cpp:105-138).
THEOREM GoodOnesAnswered == ExchangeSpec => []GoodAnswered
BY ParsingGood, ParserInvariance, PTL
=============================================================================
