--------------------------- MODULE EventLoop_proofs ---------------------------
(***************************************************************************)
(* Theorems about EventLoop, for any functions, priorities and delays: its *)
(* type, that get takes an event than which none on the queue is more      *)
(* urgent, and that the loop never sleeps past a waiting event.            *)
(*                                                                         *)
(* The first rests on the order of the heap, which IInv adds: no event is  *)
(* less than its parent.  That heapq's two operations keep it is shown for *)
(* heaps of every size.  The way of an event through the heap is defined   *)
(* by what it is closed under, and what holds all along it is proved by    *)
(* looking at the least position where it would fail (LeastOfSet).         *)
(***************************************************************************)
EXTENDS EventLoop, SequenceTheorems, WellFoundedInduction, TLAPS

\* The priority of the event at each position is at least that of its parent.
Ordered(h) == \A i \in 2..Len(h) : ~Less(h[i], h[i \div 2])

IInv == TypeOK /\ Ordered(queue) /\ WakesInTime

-----------------------------------------------------------------------------
(* Numbers and events *)

\* A set of numbers that is not empty has a least one: what proofs by induction
\* need.
LEMMA LeastOfSet ==
    ASSUME NEW T \in SUBSET Nat, T # {}
    PROVE  \E x \in T : \A y \in T : x <= y
<1> DEFINE R == {ss \in Nat \X Nat : ss[1] < ss[2]}
<1>1. IsWellFoundedOn(R, Nat)
  BY NatLessThanWellFounded DEF OpToRel
<1>2. PICK x \in T : \A y \in T : ~(<<y, x>> \in R)
  BY <1>1, WFMin
<1>3. ASSUME NEW y \in T PROVE x <= y
  <2>1. x \in Nat /\ y \in Nat
    OBVIOUS
  <2>2. ~(y < x)
    BY <1>2, <2>1
  <2> QED BY <2>1, <2>2
<1> QED BY <1>3

LEMMA PriorityIsANumber ==
    ASSUME NEW e \in Event
    PROVE  e.fn \in Function /\ e.left \in Int /\ Priority[e.fn] \in Nat
  BY FunctionAssumption DEF Event

LEMMA LessIsAnOrder ==
    ASSUME NEW a \in Event, NEW b \in Event, NEW c \in Event
    PROVE  /\ Less(a, b) => ~Less(b, a)
           /\ ~Less(b, a) /\ ~Less(c, b) => ~Less(c, a)
           /\ Less(a, b) /\ ~Less(c, b) => Less(a, c)
  BY PriorityIsANumber DEF Less

\* The root of an ordered heap has the least priority.
LEMMA RootIsUrgent ==
    ASSUME NEW h \in Seq(Event), Ordered(h), NEW k \in DOMAIN h
    PROVE  Priority[h[1].fn] <= Priority[h[k].fn]
<1> DEFINE T == {i \in 1..Len(h) : Less(h[i], h[1])}
<1>1. /\ Len(h) \in Nat /\ DOMAIN h = 1..Len(h)
      /\ \A i \in 1..Len(h) : h[i] \in Event
  OBVIOUS
<1>2. T = {}
  <2> SUFFICES ASSUME T # {} PROVE FALSE
    OBVIOUS
  <2>1. PICK i \in T : \A j \in T : i <= j
    <3>1. T \in SUBSET Nat
      OBVIOUS
    <3> HIDE DEF T
    <3> QED BY <3>1, LeastOfSet
  <2>2. i \in 1..Len(h) /\ Less(h[i], h[1]) /\ 1 \in 1..Len(h)
    BY <1>1, <2>1
  <2>3. i # 1
    BY <1>1, <2>2, LessIsAnOrder
  <2>4. i \in 2..Len(h) /\ i \div 2 \in 1..Len(h) /\ i \div 2 < i
    BY <1>1, <2>2, <2>3
  <2>5. ~Less(h[i], h[i \div 2]) /\ ~Less(h[i \div 2], h[1])
    BY <2>1, <2>4 DEF Ordered
  <2> QED BY <1>1, <2>2, <2>4, <2>5, LessIsAnOrder
<1>3. k \in 1..Len(h) /\ 1 \in 1..Len(h)
  BY <1>1
<1>4. ~Less(h[k], h[1])
  BY <1>2, <1>3
<1> QED BY <1>1, <1>3, <1>4, PriorityIsANumber DEF Less

-----------------------------------------------------------------------------
(* The way of an event *)

\* There is a way: all that every set with k that is closed under the steps has.
LEMMA WayIsAWay ==
    ASSUME NEW n \in Nat, NEW k \in 1..n, NEW step,
           \A j \in DOMAIN step : j \in 1..n => step[j] \in 1..n
    PROVE  LET S == Way(n, k, step) IN
           /\ S \in SUBSET (1..n)
           /\ \A i \in 1..n : i \in S <=> i = k \/ \E j \in S \cap DOMAIN step : step[j] = i
<1> DEFINE Closed(S) == k \in S /\ \A j \in S \cap DOMAIN step : step[j] \in S
           Is(S) == \A i \in 1..n : i \in S <=> i = k \/ \E j \in S \cap DOMAIN step : step[j] = i
           W == {i \in 1..n : \A S \in SUBSET (1..n) : Closed(S) => i \in S}
<1>1. W \in SUBSET (1..n) /\ Closed(W)
  OBVIOUS
<1>2. ASSUME NEW i \in W, i # k PROVE \E j \in W \cap DOMAIN step : step[j] = i
  <2> SUFFICES ASSUME ~\E j \in W \cap DOMAIN step : step[j] = i PROVE FALSE
    OBVIOUS
  <2>1. W \ {i} \in SUBSET (1..n) /\ Closed(W \ {i})
    BY <1>1, <1>2
  <2> QED BY <1>2, <2>1
<1>3. Is(W)
  BY <1>1, <1>2
<1> HIDE DEF W
<1>4. \E S \in SUBSET (1..n) : Is(S)
  BY <1>1, <1>3
<1> QED BY <1>4 DEF Way

LEMMA GoesUpKeepsOrder ==
    ASSUME NEW h \in Seq(Event), NEW k \in 1..Len(h), 2 * k > Len(h),
           \A i \in 2..Len(h) : i # k => ~Less(h[i], h[i \div 2])
    PROVE  /\ GoesUp(h, k) \in Seq(Event) /\ Len(GoesUp(h, k)) = Len(h)
           /\ Ordered(GoesUp(h, k))
<1> DEFINE n == Len(h)
           step == Rises(h, k)
           way == Way(n, k, step)
           new == [i \in 1..n |-> IF i \notin way THEN h[i] ELSE IF i \div 2 \in way THEN h[i \div 2] ELSE h[k]]
<1>1. n \in Nat /\ k \in Nat /\ k <= n /\ \A i \in 1..n : h[i] \in Event
  OBVIOUS
<1>2. /\ DOMAIN step = {j \in 2..k : Less(h[k], h[j \div 2])}
      /\ \A j \in DOMAIN step : step[j] = j \div 2
  BY DEF Rises
<1>3. \A j \in DOMAIN step : j \in 1..n => step[j] \in 1..n
  BY <1>1, <1>2
<1> HIDE DEF step
<1>4. /\ way \in SUBSET (1..n)
      /\ \A i \in 1..n : i \in way <=> i = k \/ \E j \in way \cap DOMAIN step : step[j] = i
  BY <1>1, <1>3, WayIsAWay
<1> HIDE DEF way
\* Only what e is less than is passed, and all that it is less than.
<1>5. \A i \in way : i = k \/ (i < k /\ Less(h[k], h[i]))
  BY <1>1, <1>2, <1>4
<1>6. \A i \in way : i <= k /\ (i > 1 /\ i \div 2 \notin way => ~Less(h[k], h[i \div 2]))
  <2>0. \A i \in way : i <= k
    BY <1>1, <1>4, <1>5
  <2> SUFFICES ASSUME NEW i \in way, i > 1, i \div 2 \notin way, Less(h[k], h[i \div 2]) PROVE FALSE
    BY <2>0
  <2>1. i \in 2..k /\ i \div 2 \in 1..n
    BY <1>1, <1>4, <1>5
  <2>2. i \in way \cap DOMAIN step /\ step[i] = i \div 2
    BY <1>2, <2>1
  <2> QED BY <1>4, <2>1, <2>2
<1>7. new \in Seq(Event) /\ Len(new) = n
  <2>1. \A i \in way : i \div 2 \in way => i \div 2 \in 1..n
    BY <1>4
  <2>2. new \in [1..n -> Event]
    BY <1>1, <1>4, <2>1
  <2> QED BY <1>1, <2>2
<1>8. ASSUME NEW i \in 2..n PROVE ~Less(new[i], new[i \div 2])
  <2> DEFINE p == i \div 2
  <2>1. i \in 1..n /\ p \in 1..n /\ p < i /\ p # k /\ i > 1
    BY <1>1
  <2>a. h[i] \in Event /\ h[p] \in Event /\ h[k] \in Event
    BY <1>1, <2>1
  <2>2. new[i] = IF i \notin way THEN h[i] ELSE IF p \in way THEN h[p] ELSE h[k]
    BY <2>1
  <2>3. new[p] = IF p \notin way THEN h[p] ELSE IF p \div 2 \in way THEN h[p \div 2] ELSE h[k]
    BY <2>1
  <2>4. CASE p \notin way /\ i \notin way
    BY <1>4, <2>1, <2>2, <2>3, <2>4
  <2>5. CASE p \notin way /\ i \in way
    BY <1>6, <2>1, <2>2, <2>3, <2>5
  <2>6. CASE p \in way
    <3>1. Less(h[k], h[p])
      BY <1>5, <2>1, <2>6
    <3>2. p \div 2 \in way => p \in 2..n /\ p \div 2 \in 1..n /\ ~Less(h[p], h[p \div 2])
      <4>1. p \div 2 \in way => p \div 2 \in 1..n
        BY <1>4
      <4>2. p \div 2 \in way => p \in 2..n
        BY <2>1, <4>1
      <4> QED BY <2>1, <4>1, <4>2
    <3>3. ~Less(h[p], new[p]) /\ new[p] \in Event
      <4>1. CASE p \div 2 \in way
        BY <1>1, <2>3, <2>6, <3>2, <4>1
      <4>2. CASE p \div 2 \notin way
        BY <2>3, <2>6, <2>a, <3>1, <4>2, LessIsAnOrder
      <4> QED BY <4>1, <4>2
    <3> HIDE DEF new
    <3>4. i \in way => ~Less(new[i], new[p])
      BY <2>2, <2>6, <3>3
    <3>5. i \notin way => ~Less(new[i], new[p])
      <4>1. i \notin way => ~Less(h[i], h[p])
        BY <1>4
      <4>2. i \notin way => ~Less(h[i], new[p])
        BY <2>a, <3>3, <4>1, LessIsAnOrder
      <4> QED BY <2>2, <4>2
    <3> QED BY <3>4, <3>5
  <2> QED BY <2>4, <2>5, <2>6
<1>9. GoesUp(h, k) = new
  BY DEF GoesUp, way, step
<1> HIDE DEF new
<1> QED BY <1>7, <1>8, <1>9 DEF Ordered

LEMMA GoesDownMakesOrder ==
    ASSUME NEW h \in Seq(Event), h # <<>>,
           \A i \in 2..Len(h) : i \div 2 # 1 => ~Less(h[i], h[i \div 2])
    PROVE  /\ GoesDown(h) \in Seq(Event) /\ Len(GoesDown(h)) = Len(h)
           /\ Ordered(GoesDown(h))
<1> DEFINE n == Len(h)
           child == LesserChild(h)
           way == Way(n, 1, child)
           freed == {i \in way : i = 1 \/ \E j \in way : j >= i /\ ~Less(h[1], h[j])}
           new == [i \in 1..n |->
                     IF i \notin freed THEN h[i]
                     ELSE IF i \in DOMAIN child /\ child[i] \in freed THEN h[child[i]] ELSE h[1]]
<1>1. n \in Nat /\ n > 0 /\ 1 \in 1..n /\ \A i \in 1..n : h[i] \in Event
  OBVIOUS
\* Of two children it is the lesser.
<1>2. /\ DOMAIN child = 1..(n \div 2)
      /\ \A j \in 1..(n \div 2) :
            /\ child[j] \in 2..n /\ child[j] \div 2 = j /\ child[j] > j
            /\ \A i \in 2..n : i \div 2 = j => ~Less(h[i], h[child[j]])
  <2>1. DOMAIN child = 1..(n \div 2)
    BY DEF LesserChild
  <2>2. ASSUME NEW j \in 1..(n \div 2)
        PROVE  /\ child[j] \in 2..n /\ child[j] \div 2 = j /\ child[j] > j
               /\ \A i \in 2..n : i \div 2 = j => ~Less(h[i], h[child[j]])
    <3>1. child[j] = IF 2 * j < n /\ ~Less(h[2 * j], h[2 * j + 1]) THEN 2 * j + 1 ELSE 2 * j
      BY DEF LesserChild
    <3>2. 2 * j <= n /\ 2 * j \in 1..n
      BY <1>1
    <3>3. child[j] \in 2..n /\ child[j] \div 2 = j /\ child[j] > j
      BY <1>1, <3>1, <3>2
    <3>4. ASSUME NEW i \in 2..n, i \div 2 = j PROVE ~Less(h[i], h[child[j]])
      <4>1. i = 2 * j \/ (i = 2 * j + 1 /\ 2 * j < n)
        BY <1>1, <3>4
      <4>2. h[i] \in Event /\ h[2 * j] \in Event
        BY <1>1, <3>2
      <4> HIDE DEF child
      <4>3. CASE i = child[j]
        BY <4>2, <4>3, LessIsAnOrder
      <4>4. CASE i # child[j]
        BY <3>1, <4>1, <4>2, <4>4, LessIsAnOrder
      <4> QED BY <4>3, <4>4
    <3> QED BY <3>3, <3>4
  <2> QED BY <2>1, <2>2
<1> HIDE DEF child
<1>3. /\ way \in SUBSET (1..n)
      /\ \A i \in 1..n : i \in way <=> i = 1 \/ \E j \in way \cap DOMAIN child : child[j] = i
  <2>1. \A j \in DOMAIN child : j \in 1..n => child[j] \in 1..n
    BY <1>1, <1>2
  <2> QED BY <1>1, <2>1, WayIsAWay
<1> HIDE DEF way
<1>4. \A i \in way : i # 1 =>
        i \in 2..n /\ i \div 2 \in way \cap DOMAIN child /\ child[i \div 2] = i
  BY <1>1, <1>2, <1>3
\* The way goes on from each position to the child, up to the last.
<1>5. \A b \in way : \A a \in way : a < b => a \in DOMAIN child /\ child[a] <= b
  <2> DEFINE T == {b \in way : \E a \in way : a < b /\ ~(a \in DOMAIN child /\ child[a] <= b)}
  <2> SUFFICES ASSUME T # {} PROVE FALSE
    OBVIOUS
  <2>1. PICK b \in T : \A c \in T : b <= c
    <3>0. way \in SUBSET Nat
      BY <1>1, <1>3
    <3>1. T \in SUBSET Nat
      BY <3>0
    <3> HIDE DEF T
    <3> QED BY <3>1, LeastOfSet
  <2>2. PICK a \in way : a < b /\ ~(a \in DOMAIN child /\ child[a] <= b)
    BY <2>1
  <2>3. a \in 1..n /\ b \in 1..n /\ b # 1 /\ b \in way
    BY <1>1, <1>3, <2>1, <2>2
  <2>4. PICK q \in way \cap DOMAIN child : child[q] = b /\ q = b \div 2
    BY <1>4, <2>3
  <2>5. q \in 1..n /\ q < b
    BY <1>1, <2>3, <2>4
  <2>6. \A c \in way : c < q => c \in DOMAIN child /\ child[c] <= q
    BY <1>3, <2>1, <2>3, <2>4, <2>5
  <2>7. CASE a < q
    BY <1>1, <1>2, <2>2, <2>3, <2>5, <2>6, <2>7
  <2>8. CASE a = q
    BY <2>2, <2>3, <2>4, <2>8
  <2>9. CASE a > q
    <3>1. PICK r \in way \cap DOMAIN child : child[r] = a /\ r = a \div 2
      <4>1. a # 1
        BY <2>3, <2>5, <2>9
      <4> QED BY <1>4, <4>1
    <3>2. r \in 1..n /\ r <= q
      BY <1>1, <1>3, <2>2, <2>3, <2>4, <3>1
    <3>3. r # q
      BY <2>2, <2>3, <2>4, <3>1
    <3>4. a <= q
      BY <2>5, <2>6, <3>1, <3>2, <3>3
    <3> QED BY <2>3, <2>5, <2>9, <3>4
  <2> QED BY <2>3, <2>5, <2>7, <2>8, <2>9
<1>6. 1 \in way /\ 1 \in freed /\ freed \subseteq way
  BY <1>1, <1>3
<1>7. new \in Seq(Event) /\ Len(new) = n
  <2>1. \A i \in freed : i \in DOMAIN child /\ child[i] \in freed => child[i] \in 1..n
    BY <1>3
  <2> HIDE DEF freed
  <2>2. new \in [1..n -> Event]
    BY <1>1, <2>1
  <2> QED BY <1>1, <2>2
<1>8. ASSUME NEW i \in 2..n PROVE ~Less(new[i], new[i \div 2])
  <2> DEFINE p == i \div 2
             e == h[1]
  <2>1. i \in 1..n /\ p \in 1..n /\ p < i /\ i > 1 /\ p \in DOMAIN child
    BY <1>1, <1>2
  <2>2. h[i] \in Event /\ h[p] \in Event /\ e \in Event
    BY <1>1, <2>1
  <2>3. /\ child[p] \in 2..n /\ child[p] \div 2 = p /\ ~Less(h[i], h[child[p]])
        /\ h[child[p]] \in Event
    BY <1>1, <1>2, <2>1
  <2>4. new[i] = IF i \notin freed THEN h[i]
                 ELSE IF i \in DOMAIN child /\ child[i] \in freed THEN h[child[i]] ELSE e
    BY <2>1
  <2>5. new[p] = IF p \notin freed THEN h[p] ELSE IF child[p] \in freed THEN h[child[p]] ELSE e
    BY <2>1
  <2> HIDE DEF new
  <2>6. CASE i \in freed
    <3>1. i \in way /\ p \in way /\ child[p] = i
      BY <1>4, <1>6, <2>1, <2>6
    <3>2. PICK j \in way : j >= i /\ ~Less(e, h[j])
      BY <2>1, <2>6
    <3>3. p \in freed
      <4>1. j >= p
        BY <1>3, <2>1, <3>2
      <4> QED BY <3>1, <3>2, <4>1
    <3>4. new[p] = h[i]
      BY <2>5, <2>6, <3>1, <3>3
    <3>5. CASE i \in DOMAIN child /\ child[i] \in freed
      <4>1. child[i] \in 2..n /\ child[i] \div 2 = i /\ i # 1
        BY <1>2, <2>1, <3>5
      <4>2. ~Less(h[child[i]], h[i])
        BY <4>1
      <4> QED BY <2>4, <2>6, <3>4, <3>5, <4>2
    <3>6. CASE ~(i \in DOMAIN child /\ child[i] \in freed)
      <4>1. j = i
        <5> SUFFICES ASSUME j > i PROVE FALSE
          BY <1>3, <2>1, <3>2
        <5>1. i \in DOMAIN child /\ child[i] <= j
          BY <1>5, <3>1, <3>2
        <5>2. child[i] \in way
          <6>1. child[i] \in 1..n
            BY <1>2, <5>1
          <6> QED BY <1>3, <3>1, <5>1, <6>1
        <5>3. j >= child[i]
          BY <1>2, <1>3, <5>1, <3>2
        <5> QED BY <3>2, <3>6, <5>1, <5>2, <5>3
      <4> QED BY <2>4, <2>6, <3>2, <3>4, <3>6, <4>1
    <3> QED BY <3>5, <3>6
  <2>7. CASE i \notin freed /\ p \in freed
    <3>1. CASE child[p] \in freed
      BY <2>3, <2>4, <2>5, <2>7, <3>1
    <3>2. CASE child[p] \notin freed
      <4>1. child[p] \in way
        BY <1>3, <1>6, <2>1, <2>3, <2>7
      <4>2. Less(e, h[child[p]])
        BY <1>3, <2>3, <3>2, <4>1
      <4>3. ~Less(h[i], e)
        BY <2>2, <2>3, <4>2, LessIsAnOrder
      <4> QED BY <2>4, <2>5, <2>7, <3>2, <4>3
    <3> QED BY <3>1, <3>2
  <2>8. CASE i \notin freed /\ p \notin freed
    <3>1. p # 1
      BY <1>6, <2>8
    <3>2. ~Less(h[i], h[p])
      BY <3>1
    <3> QED BY <2>4, <2>5, <2>8, <3>2
  <2> QED BY <2>6, <2>7, <2>8
<1>9. GoesDown(h) = new
  BY DEF GoesDown, child, way
<1> HIDE DEF new
<1> QED BY <1>7, <1>8, <1>9 DEF Ordered

\* What is put on the queue and taken from it leaves it ordered.
LEMMA PushKeepsOrder ==
    ASSUME NEW h \in Seq(Event), Ordered(h), NEW e \in Event
    PROVE  Push(h, e) \in Seq(Event) /\ Ordered(Push(h, e))
<1> DEFINE g == Append(h, e)
           k == Len(h) + 1
<1>1. /\ g \in Seq(Event) /\ Len(g) = k /\ k \in 1..Len(g) /\ k \in Nat
      /\ \A i \in 1..Len(h) : g[i] = h[i]
  OBVIOUS
<1>2. \A i \in 2..Len(g) : i # k => i \in 2..Len(h) /\ i \div 2 \in 1..Len(h) /\ i \in 1..Len(h)
  BY <1>1
<1>3. \A i \in 2..Len(g) : i # k => ~Less(g[i], g[i \div 2])
  BY <1>1, <1>2 DEF Ordered
<1>4. 2 * k > Len(g)
  BY <1>1
<1> HIDE DEF g, k
<1>5. GoesUp(g, k) \in Seq(Event) /\ Ordered(GoesUp(g, k))
  BY <1>1, <1>3, <1>4, GoesUpKeepsOrder
<1> QED BY <1>5 DEF Push, g, k

LEMMA PopKeepsOrder ==
    ASSUME NEW h \in Seq(Event), Ordered(h), h # <<>>
    PROVE  Pop(h) \in Seq(Event) /\ Ordered(Pop(h))
<1> DEFINE rest == SubSeq(h, 1, Len(h) - 1)
           g == [rest EXCEPT ![1] = h[Len(h)]]
<1>1. /\ rest \in Seq(Event) /\ Len(rest) = Len(h) - 1 /\ Len(h) \in Nat /\ Len(h) > 0
      /\ \A i \in 1..(Len(h) - 1) : rest[i] = h[i]
  <2>1. Len(h) \in Nat /\ Len(h) > 0 /\ \A i \in 1..(Len(h) - 1) : h[i] \in Event
    BY EmptySeq
  <2>2. /\ rest \in Seq(Event)
        /\ Len(rest) = IF 1 <= Len(h) - 1 THEN (Len(h) - 1) - 1 + 1 ELSE 0
        /\ \A i \in 1..((Len(h) - 1) - 1 + 1) : rest[i] = h[1 + i - 1]
    BY <2>1, SubSeqProperties
  <2>3. \A i \in 1..(Len(h) - 1) : i \in 1..((Len(h) - 1) - 1 + 1) /\ 1 + i - 1 = i
    BY <2>1
  <2> HIDE DEF rest
  <2>4. Len(rest) = Len(h) - 1
    <3>1. ASSUME NEW n \in Nat, n > 0
          PROVE  (IF 1 <= n - 1 THEN (n - 1) - 1 + 1 ELSE 0) = n - 1
      BY <3>1
    <3> QED BY <2>1, <2>2, <3>1
  <2>5. \A i \in 1..(Len(h) - 1) : rest[i] = h[i]
    <3> SUFFICES ASSUME NEW i \in 1..(Len(h) - 1) PROVE rest[i] = h[i]
      OBVIOUS
    <3>1. rest[i] = h[1 + i - 1]
      BY <2>2, <2>3
    <3> QED BY <2>3, <3>1
  <2> QED BY <2>1, <2>2, <2>4, <2>5
<1> HIDE DEF rest
<1>2. CASE rest = <<>>
  BY <1>1, <1>2 DEF Pop, rest, Ordered
<1>3. CASE rest # <<>>
  <2>1. /\ g \in Seq(Event) /\ Len(g) = Len(h) - 1 /\ g # <<>>
        /\ \A i \in 2..(Len(h) - 1) : g[i] = h[i]
    BY <1>1, <1>3
  <2>2. \A i \in 2..Len(g) : i \div 2 # 1 => ~Less(g[i], g[i \div 2])
    <3>1. \A i \in 2..Len(g) : i \div 2 # 1 =>
            i \in 2..Len(h) /\ i \in 2..(Len(h) - 1) /\ i \div 2 \in 2..(Len(h) - 1)
      BY <1>1, <2>1
    <3> HIDE DEF g
    <3> QED BY <2>1, <3>1 DEF Ordered
  <2> HIDE DEF g
  <2>3. GoesDown(g) \in Seq(Event) /\ Ordered(GoesDown(g))
    BY <2>1, <2>2, GoesDownMakesOrder
  <2> QED BY <1>3, <2>3 DEF Pop, rest, g
<1> QED BY <1>2, <1>3

-----------------------------------------------------------------------------
(* The invariant *)

LEMMA NewIsAnEvent == \A f \in Function : New(f) \in Event
  BY FunctionAssumption DEF New, Event

LEMMA InitInvariant == Init => IInv
<1> SUFFICES ASSUME Init PROVE IInv
  OBVIOUS
<1>1. TypeOK
  <2>1. running \in BOOLEAN /\ stopped \in BOOLEAN
    BY Zenon DEF Init
  <2> QED BY <2>1 DEF Init, TypeOK
<1> QED BY <1>1 DEF Init, IInv, Ordered, WakesInTime

\* Waits for what is due first.
LEMMA WaitWakesInTime ==
    ASSUME IInv, Wait
    PROVE  /\ timeout' \in Nat /\ at' \in {"get", "dead"}
           /\ at' = "get" => \A e \in waiting : timeout' <= e.left
<1>1. PICK e \in waiting :
        /\ First(e)
        /\ timeout' = (IF e.left < 0 THEN 0 ELSE e.left)
        /\ at' = IF e.left < 0 THEN "dead" ELSE "get"
  BY DEF Wait
<1>2. e.left \in Int /\ \A d \in waiting : e.left <= d.left
  BY <1>1, PriorityIsANumber DEF IInv, TypeOK, First
<1> QED BY <1>1, <1>2

\* The events wait for one tick less, and the loop as well.
LEMMA TickKeepsInv == ASSUME IInv, Tick PROVE IInv'
<1>1. \A e \in Event : /\ [e EXCEPT !.left = Later(@)] \in Event
                       /\ [e EXCEPT !.left = Later(@)].fn = e.fn
                       /\ [e EXCEPT !.left = Later(@)].left = Later(e.left)
                       /\ Later(e.left) = IF e.left > -1 THEN e.left - 1 ELSE e.left
  BY DEF Event, Later, Overdue
<1>2. /\ queue' \in Seq(Event) /\ Len(queue') = Len(queue)
      /\ \A k \in 1..Len(queue) : queue'[k].fn = queue[k].fn
  <2>1. /\ queue \in Seq(Event) /\ DOMAIN queue = 1..Len(queue) /\ Len(queue) \in Nat
        /\ \A k \in 1..Len(queue) : queue[k] \in Event
    BY DEF IInv, TypeOK
  <2>2. queue' = [k \in 1..Len(queue) |-> [queue[k] EXCEPT !.left = Later(@)]]
    BY <2>1 DEF Tick
  <2>3. queue' \in [1..Len(queue) -> Event] /\ \A k \in 1..Len(queue) : queue'[k].fn = queue[k].fn
    BY <1>1, <2>1, <2>2
  <2> QED BY <2>1, <2>3
<1>3. waiting' \subseteq Event /\ \A d \in waiting' : \E e \in waiting : d.left = Later(e.left)
  BY <1>1 DEF Tick, IInv, TypeOK
<1>4. timeout \in Nat /\ timeout' = (IF timeout > 0 THEN timeout - 1 ELSE timeout)
  BY DEF Tick, IInv, TypeOK
<1>5. TypeOK'
  BY <1>2, <1>3, <1>4 DEF Tick, control, IInv, TypeOK
<1>6. Ordered(queue')
  <2>1. \A i \in 2..Len(queue) : i \in 1..Len(queue) /\ i \div 2 \in 1..Len(queue)
    BY DEF IInv, TypeOK
  <2> QED BY <1>2, <2>1 DEF Ordered, Less, IInv
<1>7. WakesInTime'
  <2> SUFFICES ASSUME at = "get", NEW d \in waiting' PROVE timeout' <= d.left \/ timeout' = 0
    BY DEF WakesInTime, Tick
  <2>1. PICK e \in waiting : d.left = Later(e.left)
    BY <1>3
  <2>2. timeout <= e.left \/ timeout = 0
    BY DEF IInv, WakesInTime
  <2>3. e.left \in Int /\ Later(e.left) = IF e.left > -1 THEN e.left - 1 ELSE e.left
    BY <1>1, PriorityIsANumber DEF IInv, TypeOK
  <2> QED BY <1>4, <2>1, <2>2, <2>3
<1> QED BY <1>5, <1>6, <1>7 DEF IInv

LEMMA NextInvariant == IInv /\ [Next]_vars => IInv'
<1> SUFFICES ASSUME IInv, [Next]_vars PROVE IInv'
  OBVIOUS
<1> USE DEF IInv
\* Steps of other threads that put an event on the queue.
<1>1. ASSUME NEW f \in Function, queue' = Push(queue, New(f)), UNCHANGED <<waiting, thread, control>>
      PROVE  IInv'
  <2>1. queue' \in Seq(Event) /\ Ordered(queue')
    BY <1>1, NewIsAnEvent, PushKeepsOrder DEF TypeOK
  <2> QED BY <1>1, <2>1 DEF TypeOK, WakesInTime, thread, control
\* Steps that leave the events alone and do not go to sleep.
<1>2. ASSUME UNCHANGED <<events, timeout>>, at' = at \/ at' # "get", TypeOK' PROVE IInv'
  BY <1>2 DEF events, WakesInTime
<1>3. CASE Iterate
  <2>1. stopped' \in BOOLEAN
    BY <1>3, Zenon DEF Iterate, TypeOK
  <2>2. TypeOK'
    BY <1>3, <2>1 DEF Iterate, TypeOK, events
  <2> QED BY <1>2, <1>3, <2>2 DEF Iterate
<1>4. CASE Drain
  <2>1. /\ waiting' \subseteq waiting /\ timeout' \in Nat /\ at' \in {"get", "execute", "wait"}
        /\ executing' \in Function \cup {None} /\ next' \in {"head", "drain"}
        /\ at' = "get" => waiting' = {}
    BY <1>4, PriorityIsANumber, FunctionAssumption DEF Drain, Execute, TypeOK
  <2>2. TypeOK'
    BY <1>4, <2>1 DEF Drain, TypeOK, control
  <2> QED BY <1>4, <2>1, <2>2 DEF Drain, WakesInTime
<1>5. CASE Wait
  <2>1. TypeOK'
    BY <1>5, WaitWakesInTime DEF Wait, TypeOK, events, control
  <2> QED BY <1>5, <2>1, WaitWakesInTime DEF Wait, events, WakesInTime
<1>6. CASE Get
  <2>1. queue # <<>> /\ queue[1] \in Event
    BY <1>6 DEF Get, TypeOK
  <2>2. queue' \in Seq(Event) /\ Ordered(queue')
    BY <1>6, <2>1, PopKeepsOrder DEF Get, TypeOK
  <2>3. /\ waiting' \subseteq Event /\ at' \in {"head", "execute"} /\ timeout' = 0
        /\ executing' \in Function \cup {None} /\ next' \in {"head", "drain"}
    BY <1>6, <2>1, PriorityIsANumber DEF Get, Execute, TypeOK
  <2>4. TypeOK'
    BY <1>6, <2>2, <2>3 DEF Get, TypeOK, control
  <2> QED BY <2>2, <2>3, <2>4 DEF WakesInTime
<1>7. CASE TimesOut
  <2>1. TypeOK'
    BY <1>7 DEF TimesOut, TypeOK, events, control
  <2> QED BY <1>2, <1>7, <2>1 DEF TimesOut
<1>8. CASE Run
  <2>1. queue' \in Seq(Event) /\ Ordered(queue')
    BY <1>8, FunctionAssumption, NewIsAnEvent, PushKeepsOrder DEF Run, TypeOK
  <2>2. TypeOK'
    BY <1>8, <2>1 DEF Run, TypeOK, control
  <2> QED BY <1>8, <2>1, <2>2 DEF Run, WakesInTime, TypeOK
<1>9. ASSUME NEW f \in Function, Autostart(f) \/ Add(f) PROVE IInv'
  BY <1>1, <1>9 DEF Autostart, Add
<1>10. CASE Start
  <2>1. TypeOK'
    BY <1>10 DEF Start, TypeOK, events
  <2> QED BY <1>2, <1>10, <2>1 DEF Start
<1>11. CASE Cleared
  <2>1. stopped' \in BOOLEAN
    BY <1>11, Zenon DEF Cleared
  <2>2. TypeOK'
    BY <1>11, <2>1 DEF Cleared, TypeOK, events, thread
  <2> QED BY <1>2, <1>11, <2>2 DEF Cleared, thread
<1>12. CASE Stop
  <2>1. running' \in BOOLEAN
    BY <1>12, Zenon DEF Stop
  <2>2. TypeOK'
    BY <1>12, <2>1 DEF Stop, TypeOK, events, thread
  <2> QED BY <1>2, <1>12, <2>2 DEF Stop, thread
<1>13. CASE Join
  <2>1. TypeOK'
    BY <1>13 DEF Join, TypeOK, events, thread
  <2> QED BY <1>2, <1>13, <2>1 DEF Join, thread
<1>14. CASE UNCHANGED vars
  <2>1. TypeOK'
    BY <1>14 DEF vars, events, thread, control, TypeOK
  <2> QED BY <1>2, <1>14, <2>1 DEF vars, thread
<1> QED BY <1>3, <1>4, <1>5, <1>6, <1>7, <1>8, <1>9, <1>10, <1>11, <1>12, <1>13, <1>14,
           TickKeepsInv DEF Next, Loop

-----------------------------------------------------------------------------
(* The theorems *)

LEMMA Invariance == Spec => []IInv
<1> QED BY InitInvariant, NextInvariant, PTL DEF Spec

\* Every variable keeps its type, and the queue its layout, for any functions,
\* delays and priorities.
THEOREM TypeCorrect == Spec => []TypeOK
<1>1. IInv => TypeOK
  BY DEF IInv
<1> QED BY <1>1, Invariance, PTL

\* The event that get takes (event.py:221) is never less urgent than another one
\* on the queue, however many there are and in whatever order they came.
THEOREM MostUrgentComesFirst == Spec => []UrgentFirst
<1>1. IInv => UrgentFirst
  BY RootIsUrgent DEF IInv, TypeOK, UrgentFirst
<1> QED BY <1>1, Invariance, PTL

\* The loop (event.py:217) sleeps no longer than until the first waiting event
\* is due, however many events wait.
THEOREM LoopWakesInTime == Spec => []WakesInTime
<1>1. IInv => WakesInTime
  BY DEF IInv
<1> QED BY <1>1, Invariance, PTL
=============================================================================
