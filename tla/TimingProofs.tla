---------------------------- MODULE TimingProofs ----------------------------
(***************************************************************************)
(* Proofs about RingBufferContract and RequestTiming.                      *)
(*                                                                         *)
(* First induction, sums and remainders, for the sampler.  Then the ring,  *)
(* for every finite set of producers, every size and every retry bound:    *)
(* the index arithmetic, what holds whoever consumes (types, ownership of  *)
(* positions, the counters, tail behind head), and what needs a single     *)
(* consumer (one slot empty, tail only advances, the bounded channel, the  *)
(* order in which data are delivered).  Then the pauses of a request, and  *)
(* the totals of the sampler.                                              *)
(***************************************************************************)
EXTENDS RingBufferContract, RequestTiming, FiniteSetTheorems, TLAPS

-----------------------------------------------------------------------------
(***************************************************************************)
(* Induction, sums and remainders.  Induction over the numbers is had from *)
(* the least element of a set, and that from finite sets being well        *)
(* founded; it gives what adding a sequence up does when an element is     *)
(* added at its end or leaves at its front.                                *)
(***************************************************************************)

\* A set of numbers that is not empty has a least element.
LEMMA LeastNat ==
  ASSUME NEW T, T \subseteq Nat, T # {}
  PROVE  \E n \in T : \A m \in T : n <= m
<1> DEFINE R == StrictSubsetOrdering(Nat)
           U == {1..n : n \in T}
<1>1. IsWellFoundedOn(R, FiniteSubsetsOf(Nat))
  BY FS_StrictSubsetOrderingWellFounded
<1>2. U \subseteq FiniteSubsetsOf(Nat) /\ U # {}
  <2>1. ASSUME NEW n \in T PROVE 1..n \subseteq Nat /\ IsFiniteSet(1..n)
    BY FS_Interval
  <2> QED
    BY <2>1 DEF FiniteSubsetsOf
<1>3. PICK u \in U : \A w \in U : ~(<<w, u>> \in R)
  <2> HIDE DEF R, U
  <2> QED
    BY <1>1, <1>2, WFMin
<1>4. PICK n \in T : u = 1..n
  OBVIOUS
<1>5. ASSUME NEW m \in T, m < n PROVE FALSE
  <2>1. 1..m \in U /\ 1..m \subseteq 1..n /\ n \in 1..n /\ n \notin 1..m
    BY <1>5
  <2>2. 1..m \in SUBSET Nat /\ 1..n \in SUBSET Nat /\ 1..m # 1..n
    BY <2>1
  <2>3. <<1..m, 1..n>> \in R
    BY <2>1, <2>2 DEF StrictSubsetOrdering
  <2> QED
    BY <1>3, <1>4, <2>1, <2>3
<1> QED
  BY <1>5

\* A set that has 0 and every successor has all numbers.
LEMMA Induction ==
  ASSUME NEW T, 0 \in T, \A n \in Nat : n \in T => n + 1 \in T
  PROVE  Nat \subseteq T
<1> SUFFICES ASSUME Nat \ T # {} PROVE FALSE
  OBVIOUS
<1>1. PICK n \in Nat \ T : \A m \in Nat \ T : n <= m
  BY LeastNat
<1> QED
  BY <1>1


\* What adds a sequence up is the function of its prefixes.

IsTotal(t, s) == t = [i \in 0..Len(s) |-> IF i = 0 THEN 0 ELSE t[i - 1] + s[i]]

\* No two functions add one sequence up.
LEMMA TotalUnique ==
  ASSUME NEW s, Len(s) \in Nat, NEW t, NEW u, IsTotal(t, s), IsTotal(u, s)
  PROVE  t = u
<1> DEFINE T == {i \in Nat : i \in 0..Len(s) => t[i] = u[i]}
<1>1. 0 \in T
  BY DEF IsTotal
<1>2. ASSUME NEW n \in Nat, n \in T PROVE n + 1 \in T
  BY <1>2 DEF IsTotal
<1>3. Nat \subseteq T
  <2> HIDE DEF T
  <2> QED
    BY <1>1, <1>2, Induction
<1>4. \A i \in 0..Len(s) : t[i] = u[i]
  BY <1>3
<1>5. /\ t = [i \in 0..Len(s) |-> t[i]]
      /\ u = [i \in 0..Len(s) |-> u[i]]
  BY DEF IsTotal
<1> QED
  BY <1>4, <1>5


\* The first n + 1 of these sums.
PartTotals(n, s) ==
  {t \in [0..n -> Int] : t[0] = 0 /\ \A i \in 1..n : t[i] = t[i - 1] + s[i]}
Totals(s) == PartTotals(Len(s), s)

\* The sums up to n go on to n + 1.
LEMMA NextTotal ==
  ASSUME NEW n \in Nat, NEW s, NEW t \in PartTotals(n, s), s[n + 1] \in Int
  PROVE  PartTotals(n + 1, s) # {}
<1>1. t \in [0..n -> Int] /\ t[0] = 0 /\ \A i \in 1..n : t[i] = t[i - 1] + s[i]
  BY DEF PartTotals
<1> DEFINE u == [i \in 0..(n + 1) |-> IF i = n + 1 THEN t[n] + s[n + 1] ELSE t[i]]
<1>2. t[n] \in Int
  BY <1>1
<1>3. u \in [0..(n + 1) -> Int] /\ u[0] = 0
  BY <1>1, <1>2
<1>4. ASSUME NEW i \in 1..(n + 1) PROVE u[i] = u[i - 1] + s[i]
  <2>1. i - 1 \in 0..n /\ u[i - 1] = t[i - 1]
    OBVIOUS
  <2> QED
    BY <1>1, <2>1
<1> HIDE DEF u
<1> QED
  BY <1>3, <1>4 DEF PartTotals

\* Every sequence can be added up.
LEMMA TotalExists ==
  ASSUME NEW s, s \in Seq(Int)
  PROVE  Totals(s) # {}
<1> DEFINE T == {n \in Nat : n <= Len(s) => PartTotals(n, s) # {}}
<1>1. 0 \in T
  <2>1. [i \in 0..0 |-> 0] \in PartTotals(0, s)
    BY DEF PartTotals
  <2> QED
    BY <2>1
<1>2. ASSUME NEW n \in Nat, n \in T PROVE n + 1 \in T
  <2> SUFFICES ASSUME n + 1 <= Len(s) PROVE PartTotals(n + 1, s) # {}
    OBVIOUS
  <2>1. PICK t \in PartTotals(n, s) : TRUE
    BY <1>2
  <2>2. s[n + 1] \in Int
    OBVIOUS
  <2> QED
    BY <2>1, <2>2, NextTotal
<1>3. Nat \subseteq T
  <2> HIDE DEF T
  <2> QED
    BY <1>1, <1>2, Induction
<1> QED
  BY <1>3 DEF Totals

\* The sum is the last of the partial sums.
LEMMA SumIs ==
  ASSUME NEW s, s \in Seq(Int), NEW t \in Totals(s)
  PROVE  Sum(s) = t[Len(s)]
<1> DEFINE c == CHOOSE c : IsTotal(c, s)
<1>1. IsTotal(t, s)
  BY DEF Totals, PartTotals, IsTotal
<1>2. IsTotal(c, s)
  <2> HIDE DEF IsTotal
  <2> QED
    BY <1>1
<1>3. c = t
  <2> HIDE DEF c
  <2> QED
    BY <1>1, <1>2, TotalUnique
<1>4. Sum(s) = c[Len(s)]
  BY DEF Sum, IsTotal
<1> QED
  BY <1>3, <1>4

LEMMA SumType ==
  ASSUME NEW s, s \in Seq(Int)
  PROVE  Sum(s) \in Int
<1>1. PICK t \in Totals(s) : TRUE
  BY TotalExists
<1> QED
  BY <1>1, SumIs DEF Totals, PartTotals

LEMMA SumEmpty == Sum(<<>>) = 0
<1>1. <<>> \in Seq(Int) /\ Len(<<>>) = 0
  OBVIOUS
<1>2. PICK t \in Totals(<<>>) : TRUE
  BY <1>1, TotalExists
<1> QED
  BY <1>1, <1>2, SumIs DEF Totals, PartTotals

\* An element added at the end is added to the sum.
LEMMA SumAppend ==
  ASSUME NEW s, s \in Seq(Int), NEW x \in Int
  PROVE  Sum(Append(s, x)) = Sum(s) + x
<1>1. PICK t \in Totals(s) : TRUE
  BY TotalExists
<1> DEFINE r == Append(s, x)
           n == Len(s)
           u == [i \in 0..(n + 1) |-> IF i = n + 1 THEN t[n] + x ELSE t[i]]
<1>2. r \in Seq(Int) /\ Len(r) = n + 1 /\ n \in Nat /\ r[n + 1] = x
      /\ \A i \in 1..n : r[i] = s[i]
  OBVIOUS
<1>3. t \in [0..n -> Int] /\ t[0] = 0 /\ \A i \in 1..n : t[i] = t[i - 1] + s[i]
  BY DEF Totals, PartTotals
<1> HIDE DEF r, n
<1>4. u \in [0..(n + 1) -> Int] /\ u[0] = 0 /\ u[n + 1] = t[n] + x
  BY <1>2, <1>3
<1>5. ASSUME NEW i \in 1..(n + 1) PROVE u[i] = u[i - 1] + r[i]
  <2>1. i - 1 \in 0..n /\ u[i - 1] = t[i - 1]
    BY <1>2
  <2> QED
    BY <1>2, <1>3, <2>1
<1> HIDE DEF u
<1>6. u \in Totals(r)
  BY <1>2, <1>4, <1>5 DEF Totals, PartTotals
<1>7. Sum(r) = u[n + 1] /\ Sum(s) = t[n]
  BY <1>1, <1>2, <1>6, SumIs DEF n
<1> QED
  BY <1>4, <1>7 DEF r

\* The first element is taken from the sum when it leaves.
LEMMA SumTail ==
  ASSUME NEW s, s \in Seq(Int), s # <<>>
  PROVE  Sum(s) = Head(s) + Sum(Tail(s))
<1>1. PICK t \in Totals(s) : TRUE
  BY TotalExists
<1> DEFINE r == Tail(s)
           n == Len(s)
           u == [i \in 0..(n - 1) |-> t[i + 1] - s[1]]
<1>2. /\ r \in Seq(Int) /\ Len(r) = n - 1 /\ n \in Nat \ {0} /\ Head(s) = s[1] /\ s[1] \in Int
      /\ \A i \in 1..(n - 1) : r[i] = s[i + 1]
  OBVIOUS
<1>3. t \in [0..n -> Int] /\ t[0] = 0 /\ \A i \in 1..n : t[i] = t[i - 1] + s[i]
  BY DEF Totals, PartTotals
<1> HIDE DEF r, n
<1>4. t[1] = s[1] /\ 1 \in 1..n
  <2>1. 1 \in 1..n /\ t[1] = t[1 - 1] + s[1] /\ 1 - 1 = 0
    BY <1>2, <1>3
  <2> QED
    BY <1>2, <1>3, <2>1
<1>5. u \in [0..(n - 1) -> Int] /\ u[0] = 0 /\ u[n - 1] = t[n] - s[1]
  BY <1>2, <1>3, <1>4
<1>6. ASSUME NEW i \in 1..(n - 1) PROVE u[i] = u[i - 1] + r[i]
  <2>1. u[i] = t[i + 1] - s[1] /\ u[i - 1] = t[i] - s[1]
    BY <1>2
  <2>2. t[i + 1] = t[i] + s[i + 1] /\ t[i] \in Int /\ t[i + 1] \in Int
    <3>1. i + 1 \in 1..n /\ i \in 0..n /\ i + 1 \in 0..n /\ (i + 1) - 1 = i
      BY <1>2
    <3> QED
      BY <1>3, <3>1
  <2>3. r[i] = s[i + 1] /\ s[i + 1] \in Int
    BY <1>2 DEF n
  <2> QED
    BY <1>2, <2>1, <2>2, <2>3
<1> HIDE DEF u
<1>7. u \in Totals(r)
  BY <1>2, <1>5, <1>6 DEF Totals, PartTotals
<1>8. Sum(r) = u[n - 1] /\ Sum(s) = t[n]
  BY <1>1, <1>2, <1>7, SumIs DEF n
<1> QED
  BY <1>2, <1>3, <1>5, <1>8 DEF r

\* Division with a remainder, for any modulus.
LEMMA DivMod ==
  ASSUME NEW W \in Nat \ {0}, NEW x \in Int
  PROVE  x = W * (x \div W) + (x % W) /\ x % W \in 0..(W-1) /\ x \div W \in Int
OBVIOUS
LEMMA NoMultiple ==
  ASSUME NEW W \in Nat \ {0}, NEW q \in Int, NEW r \in Int, W * q = r, -W < r, r < W
  PROVE  q = 0
<1>1. CASE q >= 1
  <2>1. W * q >= W
    BY <1>1
  <2> QED
    BY <2>1
<1>2. CASE q <= -1
  <2>1. W * q <= -W
    BY <1>2
  <2> QED
    BY <2>1
<1> QED
  BY <1>1, <1>2
\* A remainder is the only number of the word that differs by a multiple.
LEMMA ModUnique ==
  ASSUME NEW W \in Nat \ {0}, NEW q \in Int, NEW r \in Int, NEW x \in Int, x = W * q + r, 0 <= r, r < W
  PROVE  r = x % W
<1>1. x = W * (x \div W) + (x % W) /\ x % W \in 0..(W-1) /\ x \div W \in Int
  BY DivMod
<1> DEFINE d == (x \div W) - q
<1>2. d \in Int /\ W * d = r - (x % W)
  BY <1>1
<1>3. d = 0
  <2> HIDE DEF d
  <2> QED
  BY <1>1, <1>2, NoMultiple
<1> QED
  BY <1>2, <1>3, <1>1
\* A remainder may be taken before an addition (uint64 sums).
LEMMA ModAdds ==
  ASSUME NEW W \in Nat \ {0}, NEW x \in Int, NEW y \in Int
  PROVE  (x + y) % W = ((x % W) + y) % W
<1>1. PICK q \in Int, m \in 0..(W-1) : x = W * q + m /\ m = x % W
  BY DivMod
<1>2. m + y \in Int
  BY <1>1
<1>3. PICK p \in Int, n \in 0..(W-1) : m + y = W * p + n /\ n = (m + y) % W
  BY <1>2, DivMod
<1>4. x + y = W * (q + p) + n /\ q + p \in Int /\ x + y \in Int /\ n \in Int
  BY <1>1, <1>3
<1>5. n = (x + y) % W
  <2> DEFINE k == q + p
             z == x + y
  <2>1. z = W * k + n /\ k \in Int /\ z \in Int /\ n \in Int /\ 0 <= n /\ n < W
    BY <1>4
  <2> HIDE DEF k, z
  <2>2. n = z % W
    BY <2>1, ModUnique
  <2> QED
    BY <2>2 DEF z
<1> QED
  BY <1>1, <1>3, <1>5

USE SizeAssumption, RetryAssumption, DataAssumption

-----------------------------------------------------------------------------
(***************************************************************************)
(* uint64 differences stay in range, and are the integer difference when   *)
(* that is one (ringbuffer.go:75, 141).                                    *)
(***************************************************************************)
LEMMA WordType == Word \in Nat /\ Word > 2 * Size
<1>1. Cardinality(Producers) \in Nat
  BY WordAssumption, FS_CardinalityType
<1>2. QED
  BY <1>1, WordAssumption

\* The value of a uint64 expression.
LEMMA U64Type == \A x \in Int : U64(x) \in 0 .. Word - 1
  BY WordType DEF U64

LEMMA U64Small == \A x \in 0 .. Word - 1 : U64(x) = x
  BY WordType DEF U64

LEMMA U64Negative == \A x \in (-Word) .. (-1) : U64(x) = x + Word
  BY WordType DEF U64

LEMMA U64Bound == \A x \in Nat : U64(x) <= x
  BY WordType DEF U64

\* The slot of a position exists (ringbuffer.go:95).
LEMMA SlotType == \A n \in Nat : SlotOf(n) \in Slots
  BY DEF SlotOf, Slots

\* A batch never reaches beyond the head it was computed from
\* (ringbuffer.go:141-150).
LEMMA BatchType ==
  ASSUME NEW h \in Nat, NEW t \in Nat, t <= h
  PROVE  BatchSize(h, t) \in Nat /\ BatchSize(h, t) <= h - t
<1>1. U64(h - t) \in Nat /\ U64(h - t) <= h - t
  BY U64Type, U64Bound, WordType
<1>2. QED
  BY <1>1 DEF BatchSize
LEMMA BatchNat ==
  ASSUME NEW h \in Nat, NEW t \in Nat
  PROVE  BatchSize(h, t) \in Nat
<1>1. U64(h - t) \in Nat
  BY U64Type, WordType
<1>2. QED
  BY <1>1 DEF BatchSize

-----------------------------------------------------------------------------
(***************************************************************************)
(* Types.                                                                  *)
(***************************************************************************)

LEMMA TypeInit == Init => TypeOK
BY DEF Init, RingInit, TypeOK, Data

\* A step of TryPush keeps the types.
LEMMA TypeProducer ==
  ASSUME TypeOK, UNCHANGED delivered, NEW p \in Producers,
         CallTryPush(p) \/ PushStep(p)
  PROVE  TypeOK'
<1> USE DEF TypeOK, sharedVars, consumerVars
<1>1. CASE CallTryPush(p) \/ LoadHead(p)
  BY <1>1 DEF CallTryPush, LoadHead, ReadHead, Goto
<1>2. CASE LoadTail(p)
  BY <1>2 DEF LoadTail, Goto
<1>3. CASE Claim(p)
  BY <1>3 DEF Claim, Goto
<1>4. CASE LoseRace(p)
  <2>1. retry[p] + 1 \in 0 .. MaxRetries
    <3>1. pc[p] = "cas"
      BY <1>4 DEF LoseRace
    <3>2. retry[p] \in 0 .. MaxRetries /\ retry[p] < MaxRetries
      BY <3>1
    <3>3. QED
      BY <3>2, RetryAssumption
  <2>2. /\ retry' = [retry EXCEPT ![p] = retry[p] + 1]
        /\ pc' = [pc EXCEPT ![p] = AfterLostRace(retry[p] + 1)]
        /\ UNCHANGED <<sharedVars, seenHead, consumerVars>>
    BY <1>4 DEF LoseRace, Goto
  <2>3. /\ retry' \in [Producers -> 0 .. MaxRetries]
        /\ \A q \in Producers : pc'[q] \notin {"drop", "dropped"} => retry'[q] < MaxRetries
    BY <2>1, <2>2 DEF AfterLostRace
  <2>4. QED
    BY <2>2, <2>3 DEF AfterLostRace
<1>5. CASE WriteSlot(p)
  <2>1. PICK d \in {p, Torn} : buffer' = [buffer EXCEPT ![SlotOf(seenHead[p])] = d]
    BY <1>5 DEF WriteSlot
  <2>2. d \in Data
    BY DEF Data
  <2>3. buffer' \in [Slots -> Data]
    BY <2>1, <2>2
  <2>4. QED
    BY <1>5, <2>3 DEF WriteSlot, Goto
<1>6. CASE CountPush(p)
  BY <1>6 DEF CountPush, Goto
<1>7. CASE CountDrop(p)
  BY <1>7 DEF CountDrop, Goto
<1>8. QED
  BY <1>1, <1>2, <1>3, <1>4, <1>5, <1>6, <1>7 DEF PushStep

\* A step of PopAll keeps the types.
LEMMA TypeConsumer ==
  ASSUME TypeOK, UNCHANGED delivered, NEW c \in Consumers,
         CallPopAll(c) \/ PopStep(c)
  PROVE  TypeOK'
<1> USE DEF TypeOK, sharedVars, producerVars
<1>1. CASE CallPopAll(c)
  BY <1>1 DEF CallPopAll, CGoto
<1>2. CASE PopLoadHead(c)
  <2>1. BatchSize(head, from[c]) \in Nat
    BY BatchNat
  <2>2. QED
    BY <1>2, <2>1 DEF PopLoadHead, CGoto
<1>3. CASE CopySlot(c)
  <2> DEFINE position == from[c] + Len(result[c])
  <2>1. position \in Nat /\ SlotOf(position) \in Slots
    BY SlotType
  <2>2. PICK d \in {buffer[SlotOf(position)], Torn} :
          result' = [result EXCEPT ![c] = Append(@, d)]
    BY <1>3 DEF CopySlot
  <2>3. d \in Data
    BY <2>1 DEF Data
  <2>4. Append(result[c], d) \in Seq(Data)
    BY <2>3
  <2>5. result' \in [Consumers -> Seq(Data)]
    BY <2>2, <2>4
  <2>6. early' \in SUBSET Nat
    BY <1>3, <2>1 DEF CopySlot
  <2>7. QED
    BY <1>3, <2>5, <2>6 DEF CopySlot, CGoto
<1>4. CASE StoreTail(c)
  BY <1>4 DEF StoreTail, EndOfBatch, CGoto
<1>5. QED
  BY <1>1, <1>2, <1>3, <1>4 DEF PopStep

LEMMA TypeDeliver ==
  ASSUME TypeOK, NEW c \in Consumers, Deliver(c)
  PROVE  TypeOK'
<1>1. delivered \o result[c] \in Seq(Data)
  BY DEF TypeOK
<1>2. result' \in [Consumers -> Seq(Data)]
  BY DEF TypeOK, Deliver, ReturnPopAll
<1>3. QED
  BY <1>1, <1>2 DEF TypeOK, Deliver, ReturnPopAll, CGoto, sharedVars, producerVars

(***************************************************************************)
(* Every variable keeps its type in every behaviour.                       *)
(***************************************************************************)
THEOREM TypeCorrect == Spec => []TypeOK
<1>1. TypeOK /\ [Next]_vars => TypeOK'
  <2> SUFFICES ASSUME TypeOK, [Next]_vars PROVE TypeOK'
    OBVIOUS
  <2>1. CASE UNCHANGED vars
    BY <2>1 DEF TypeOK, vars, ringVars, sharedVars, producerVars, consumerVars
  <2>2. CASE Next
    BY <2>2, TypeProducer, TypeConsumer, TypeDeliver DEF Next
  <2>3. QED
    BY <2>1, <2>2
<1>2. QED
  BY TypeInit, <1>1, PTL DEF Spec
-----------------------------------------------------------------------------
(***************************************************************************)
(* Whoever consumes: tail stays behind head.  The strengthening says that  *)
(* what PopAll and TryPush loaded is behind the present head.              *)
(***************************************************************************)
IndexInv ==
  /\ TailBehindHead
  /\ \A c \in Consumers : cpc[c] = "loadHead" => from[c] <= head
  /\ \A p \in Producers : pc[p] \in {"loadTail", "cas"} => seenHead[p] <= head

LEMMA IndexInit == Init => IndexInv
BY DEF Init, RingInit, IndexInv, TailBehindHead

LEMMA IndexStep == TypeOK /\ IndexInv /\ [Next]_vars => IndexInv'
<1> SUFFICES ASSUME TypeOK, IndexInv, [Next]_vars PROVE IndexInv'
  OBVIOUS
<1> USE DEF TypeOK, IndexInv, TailBehindHead, sharedVars
<1>1. ASSUME NEW p \in Producers, CallTryPush(p) \/ LoadHead(p)
      PROVE  IndexInv'
  <2>1. /\ UNCHANGED <<head, tail, cpc, from, available>>
        /\ seenHead' = [seenHead EXCEPT ![p] = head]
        /\ pc' = [pc EXCEPT ![p] = "loadTail"]
    BY <1>1 DEF CallTryPush, LoadHead, ReadHead, Goto, consumerVars
  <2>2. QED
    BY <2>1
<1>2. ASSUME NEW p \in Producers, LoadTail(p)
      PROVE  IndexInv'
  BY <1>2 DEF LoadTail, Goto, consumerVars
<1>3. ASSUME NEW p \in Producers, Claim(p)
      PROVE  IndexInv'
  BY <1>3 DEF Claim, Goto, consumerVars
<1>4. ASSUME NEW p \in Producers, LoseRace(p)
      PROVE  IndexInv'
  BY <1>4 DEF LoseRace, AfterLostRace, Goto, consumerVars
<1>5. ASSUME NEW p \in Producers, WriteSlot(p) \/ CountPush(p) \/ CountDrop(p)
      PROVE  IndexInv'
  BY <1>5 DEF WriteSlot, CountPush, CountDrop, Goto, consumerVars
<1>6. ASSUME NEW c \in Consumers, CallPopAll(c)
      PROVE  IndexInv'
  BY <1>6 DEF CallPopAll, CGoto, producerVars
<1>7. ASSUME NEW c \in Consumers, PopLoadHead(c)
      PROVE  IndexInv'
  <2>1. from[c] <= head
    BY <1>7 DEF PopLoadHead
  <2>2. /\ BatchSize(head, from[c]) \in Nat
        /\ from[c] + BatchSize(head, from[c]) <= head
    BY <2>1, BatchType
  <2>3. QED
    BY <1>7, <2>2 DEF PopLoadHead, CGoto, producerVars
<1>8. ASSUME NEW c \in Consumers, CopySlot(c)
      PROVE  IndexInv'
  BY <1>8 DEF CopySlot, CGoto, producerVars
<1>9. ASSUME NEW c \in Consumers, StoreTail(c)
      PROVE  IndexInv'
  BY <1>9 DEF StoreTail, EndOfBatch, CGoto, producerVars
<1>10. ASSUME NEW c \in Consumers, Deliver(c)
       PROVE  IndexInv'
  BY <1>10 DEF Deliver, ReturnPopAll, CGoto, producerVars
<1>11. CASE UNCHANGED vars
  BY <1>11 DEF vars, ringVars, producerVars, consumerVars
<1>12. QED
  BY <1>1, <1>2, <1>3, <1>4, <1>5, <1>6, <1>7, <1>8, <1>9, <1>10, <1>11
     DEF Next, PushStep, PopStep

(***************************************************************************)
(* However many goroutines call PopAll, tail never overtakes head.         *)
(***************************************************************************)
THEOREM TailStaysBehindHead == Spec => []TailBehindHead
<1>1. IndexInv => TailBehindHead
  BY DEF IndexInv
<1>2. QED
  BY <1>1, IndexInit, IndexStep, TypeCorrect, PTL DEF Spec

-----------------------------------------------------------------------------
(***************************************************************************)
(* The compare-and-swap gives each position to one producer.               *)
(***************************************************************************)
LEMMA OwnerInit == Init => PositionsOwnedOnce
BY DEF Init, RingInit, PositionsOwnedOnce, Claimed

\* Steps that leave every claimed position with its owner.
LEMMA OwnerSame ==
  ASSUME PositionsOwnedOnce, UNCHANGED head, Claimed' = Claimed,
         \A p \in Claimed : seenHead'[p] = seenHead[p]
  PROVE  PositionsOwnedOnce'
BY DEF PositionsOwnedOnce

LEMMA OwnerStep == TypeOK /\ PositionsOwnedOnce /\ [Next]_vars => PositionsOwnedOnce'
<1> SUFFICES ASSUME TypeOK, PositionsOwnedOnce, [Next]_vars
             PROVE  PositionsOwnedOnce'
  OBVIOUS
<1> USE DEF TypeOK, sharedVars, producerVars
<1>1. ASSUME NEW p \in Producers, CallTryPush(p) \/ LoadHead(p)
      PROVE  PositionsOwnedOnce'
  <2>1. UNCHANGED head /\ p \notin Claimed /\ Claimed' = Claimed
    BY <1>1 DEF CallTryPush, LoadHead, ReadHead, Goto, Claimed
  <2>2. \A q \in Claimed : seenHead'[q] = seenHead[q]
    BY <1>1, <2>1 DEF CallTryPush, LoadHead, ReadHead, Claimed
  <2>3. QED
    BY <2>1, <2>2, OwnerSame
<1>2. ASSUME NEW p \in Producers, LoadTail(p) \/ LoseRace(p)
      PROVE  PositionsOwnedOnce'
  <2>1. UNCHANGED <<head, seenHead>> /\ Claimed' = Claimed
    BY <1>2 DEF LoadTail, LoseRace, AfterLostRace, Goto, Claimed
  <2>2. QED
    BY <2>1, OwnerSame
<1>3. ASSUME NEW p \in Producers, Claim(p)
      PROVE  PositionsOwnedOnce'
  <2>1. /\ p \notin Claimed /\ Claimed' = Claimed \cup {p}
        /\ UNCHANGED seenHead /\ seenHead[p] = head /\ head' = head + 1
    BY <1>3 DEF Claim, Goto, Claimed
  <2>2. \A q \in Claimed : seenHead[q] \in 0 .. head - 1
    BY DEF PositionsOwnedOnce
  <2>3. \A q, r \in Claimed' : seenHead'[q] = seenHead'[r] => q = r
    BY <2>1, <2>2 DEF PositionsOwnedOnce
  <2>4. {seenHead'[q] : q \in Claimed'} = {seenHead[q] : q \in Claimed} \cup {head}
    BY <2>1
  <2>5. (0 .. head - 1) \cup {head} = 0 .. head' - 1
    BY <2>1
  <2>6. QED
    BY <2>3, <2>4, <2>5 DEF PositionsOwnedOnce
<1>4. ASSUME NEW p \in Producers, WriteSlot(p) \/ CountPush(p) \/ CountDrop(p)
      PROVE  PositionsOwnedOnce'
  <2>1. UNCHANGED <<head, seenHead>> /\ Claimed' = Claimed
    BY <1>4 DEF WriteSlot, CountPush, CountDrop, Goto, Claimed
  <2>2. QED
    BY <2>1, OwnerSame
<1>5. ASSUME NEW c \in Consumers, CallPopAll(c) \/ PopStep(c) \/ Deliver(c)
      PROVE  PositionsOwnedOnce'
  <2>1. UNCHANGED <<head, seenHead, pc>>
    BY <1>5 DEF CallPopAll, PopStep, PopLoadHead, CopySlot, StoreTail, Deliver,
                ReturnPopAll
  <2>2. QED
    BY <2>1, OwnerSame DEF Claimed
<1>6. CASE UNCHANGED vars
  BY <1>6, OwnerSame DEF vars, ringVars, Claimed
<1>7. QED
  BY <1>1, <1>2, <1>3, <1>4, <1>5, <1>6 DEF Next, PushStep

(***************************************************************************)
(* Every position below head belongs to exactly one successful TryPush.    *)
(***************************************************************************)
THEOREM EveryPositionOwnedOnce == Spec => []PositionsOwnedOnce
BY OwnerInit, OwnerStep, TypeCorrect, PTL DEF Spec
-----------------------------------------------------------------------------
(***************************************************************************)
(* The counters.  At(labels) are the producers at one of these labels; a   *)
(* step moves one producer, so that a cardinality changes by at most one.  *)
(***************************************************************************)
At(labels) == {p \in Producers : pc[p] \in labels}

LEMMA AtFinite ==
  ASSUME NEW labels
  PROVE  IsFiniteSet(At(labels)) /\ Cardinality(At(labels)) \in Nat
<1>1. At(labels) \subseteq Producers
  BY DEF At
<1>2. QED
  BY <1>1, WordAssumption, FS_Subset, FS_CardinalityType

LEMMA AtEnter ==
  ASSUME TypeOK, NEW p \in Producers, NEW labels, NEW b,
         pc' = [pc EXCEPT ![p] = b], pc[p] \notin labels, b \in labels
  PROVE  Cardinality(At(labels)') = Cardinality(At(labels)) + 1
<1>1. At(labels)' = At(labels) \cup {p} /\ p \notin At(labels)
  BY DEF At, TypeOK
<1>2. QED
  BY <1>1, AtFinite, FS_AddElement

LEMMA AtLeave ==
  ASSUME TypeOK, NEW p \in Producers, NEW labels, NEW b,
         pc' = [pc EXCEPT ![p] = b], pc[p] \in labels, b \notin labels
  PROVE  Cardinality(At(labels)') = Cardinality(At(labels)) - 1
<1>1. At(labels)' = At(labels) \ {p} /\ p \in At(labels)
  BY DEF At, TypeOK
<1>2. QED
  BY <1>1, AtFinite, FS_RemoveElement

LEMMA AtSame ==
  ASSUME TypeOK, NEW p \in Producers, NEW labels, NEW b,
         pc' = [pc EXCEPT ![p] = b], pc[p] \in labels <=> b \in labels
  PROVE  At(labels)' = At(labels)
BY DEF At, TypeOK

\* The three sets that CallsAccounted counts.
Storing == At({"write", "count"})
Succeeded == At({"pushed"})
Failed == At({"dropped"})

LEMMA AccountedAt ==
  CallsAccounted <=> /\ head = pushed + Cardinality(Storing)
                     /\ pushed = Cardinality(Succeeded)
                     /\ dropped = Cardinality(Failed)
<1>1. /\ Storing = {p \in Producers : pc[p] \in {"write", "count"}}
      /\ Succeeded = {p \in Producers : pc[p] = "pushed"}
      /\ Failed = {p \in Producers : pc[p] = "dropped"}
  BY DEF Storing, Succeeded, Failed, At
<1>2. QED
  BY <1>1 DEF CallsAccounted

LEMMA AccountInit == Init => CallsAccounted
<1> SUFFICES ASSUME Init PROVE CallsAccounted
  OBVIOUS
<1>1. Storing = {} /\ Succeeded = {} /\ Failed = {}
  BY DEF Init, RingInit, Storing, Succeeded, Failed, At
<1>2. QED
  BY <1>1, AccountedAt, FS_EmptySet DEF Init, RingInit

LEMMA AccountStep == TypeOK /\ CallsAccounted /\ [Next]_vars => CallsAccounted'
<1> SUFFICES ASSUME TypeOK, CallsAccounted, [Next]_vars PROVE CallsAccounted'
  OBVIOUS
<1> DEFINE Acc == /\ head = pushed + Cardinality(Storing)
                  /\ pushed = Cardinality(Succeeded)
                  /\ dropped = Cardinality(Failed)
<1>a. Acc /\ (Acc' => CallsAccounted')
  <2>1. /\ Storing' = {p \in Producers : pc'[p] \in {"write", "count"}}
        /\ Succeeded' = {p \in Producers : pc'[p] = "pushed"}
        /\ Failed' = {p \in Producers : pc'[p] = "dropped"}
    BY DEF Storing, Succeeded, Failed, At
  <2>2. Acc' => CallsAccounted'
    BY <2>1 DEF CallsAccounted
  <2>3. QED
    BY <2>2, AccountedAt
<1>n. /\ Cardinality(Storing) \in Nat
      /\ Cardinality(Succeeded) \in Nat
      /\ Cardinality(Failed) \in Nat
  BY AtFinite DEF Storing, Succeeded, Failed
<1>1. ASSUME NEW p \in Producers, CallTryPush(p) \/ LoadHead(p)
      PROVE  Acc'
  <2>1. /\ UNCHANGED <<head, pushed, dropped>>
        /\ pc' = [pc EXCEPT ![p] = "loadTail"]
        /\ pc[p] \in {"idle", "loadHead"}
    BY <1>1 DEF CallTryPush, LoadHead, ReadHead, Goto, sharedVars
  <2>2. Storing' = Storing /\ Succeeded' = Succeeded /\ Failed' = Failed
    BY <2>1, AtSame DEF Storing, Succeeded, Failed
  <2>3. QED
    BY <1>a, <2>1, <2>2
<1>2. ASSUME NEW p \in Producers, LoadTail(p) \/ LoseRace(p)
      PROVE  Acc'
  <2>1. PICK b \in {"drop", "cas", "loadHead"} :
          /\ UNCHANGED <<head, pushed, dropped>>
          /\ pc' = [pc EXCEPT ![p] = b]
          /\ pc[p] \in {"loadTail", "cas"}
    BY <1>2 DEF LoadTail, LoseRace, AfterLostRace, Goto, sharedVars
  <2>2. Storing' = Storing /\ Succeeded' = Succeeded /\ Failed' = Failed
    BY <2>1, AtSame DEF Storing, Succeeded, Failed
  <2>3. QED
    BY <1>a, <2>1, <2>2
<1>3. ASSUME NEW p \in Producers, Claim(p)
      PROVE  Acc'
  <2>1. /\ head' = head + 1 /\ UNCHANGED <<pushed, dropped>>
        /\ pc' = [pc EXCEPT ![p] = "write"] /\ pc[p] = "cas"
    BY <1>3 DEF Claim, Goto
  <2>2. Cardinality(Storing') = Cardinality(Storing) + 1
    BY <2>1, AtEnter DEF Storing
  <2>3. Succeeded' = Succeeded /\ Failed' = Failed
    BY <2>1, AtSame DEF Succeeded, Failed
  <2>4. QED
    BY <1>a, <1>n, <2>1, <2>2, <2>3 DEF TypeOK
<1>4. ASSUME NEW p \in Producers, WriteSlot(p)
      PROVE  Acc'
  <2>1. /\ UNCHANGED <<head, pushed, dropped>>
        /\ pc' = [pc EXCEPT ![p] = "count"] /\ pc[p] = "write"
    BY <1>4 DEF WriteSlot, Goto
  <2>2. Storing' = Storing /\ Succeeded' = Succeeded /\ Failed' = Failed
    BY <2>1, AtSame DEF Storing, Succeeded, Failed
  <2>3. QED
    BY <1>a, <2>1, <2>2
<1>5. ASSUME NEW p \in Producers, CountPush(p)
      PROVE  Acc'
  <2>1. /\ pushed' = pushed + 1 /\ UNCHANGED <<head, dropped>>
        /\ pc' = [pc EXCEPT ![p] = "pushed"] /\ pc[p] = "count"
    BY <1>5 DEF CountPush, Goto
  <2>2. Cardinality(Storing') = Cardinality(Storing) - 1
    BY <2>1, AtLeave DEF Storing
  <2>3. Cardinality(Succeeded') = Cardinality(Succeeded) + 1
    BY <2>1, AtEnter DEF Succeeded
  <2>4. Failed' = Failed
    BY <2>1, AtSame DEF Failed
  <2>5. QED
    BY <1>a, <1>n, <2>1, <2>2, <2>3, <2>4 DEF TypeOK
<1>6. ASSUME NEW p \in Producers, CountDrop(p)
      PROVE  Acc'
  <2>1. /\ dropped' = dropped + 1 /\ UNCHANGED <<head, pushed>>
        /\ pc' = [pc EXCEPT ![p] = "dropped"] /\ pc[p] = "drop"
    BY <1>6 DEF CountDrop, Goto
  <2>2. Cardinality(Failed') = Cardinality(Failed) + 1
    BY <2>1, AtEnter DEF Failed
  <2>3. Storing' = Storing /\ Succeeded' = Succeeded
    BY <2>1, AtSame DEF Storing, Succeeded
  <2>4. QED
    BY <1>a, <1>n, <2>1, <2>2, <2>3 DEF TypeOK
<1>7. ASSUME NEW c \in Consumers, CallPopAll(c) \/ PopStep(c) \/ Deliver(c)
      PROVE  Acc'
  <2>1. UNCHANGED <<head, pushed, dropped, pc>>
    BY <1>7 DEF CallPopAll, PopStep, PopLoadHead, CopySlot, StoreTail, Deliver,
                ReturnPopAll, sharedVars, producerVars
  <2>2. QED
    BY <1>a, <2>1 DEF Storing, Succeeded, Failed, At
<1>8. CASE UNCHANGED vars
  <2>1. UNCHANGED <<head, pushed, dropped, pc>>
    BY <1>8 DEF vars, ringVars, sharedVars, producerVars
  <2>2. QED
    BY <1>a, <2>1 DEF Storing, Succeeded, Failed, At
<1>9. QED
  BY <1>a, <1>1, <1>2, <1>3, <1>4, <1>5, <1>6, <1>7, <1>8 DEF Next, PushStep

(***************************************************************************)
(* Every finished call is counted once, as pushed or as dropped.           *)
(***************************************************************************)
THEOREM EveryCallCounted == Spec => []CallsAccounted
BY AccountInit, AccountStep, TypeCorrect, PTL DEF Spec
-----------------------------------------------------------------------------
(***************************************************************************)
(* One consumer: one slot stays empty.  A producer that passed the full    *)
(* check keeps its room until the compare-and-swap, because tail can only  *)
(* have advanced since; and tail only advances because it is still what    *)
(* the consumer loaded.                                                    *)
(***************************************************************************)
SingleConsumer == \A c, d \in Consumers : c = d

RoomInv ==
  /\ OneSlotEmpty
  /\ \A c \in Consumers : cpc[c] \in {"loadHead", "copy", "store"} => from[c] = tail
  /\ \A p \in Producers : pc[p] = "cas" => seenHead[p] - tail <= Size - 2

\* head counts calls, and there are fewer than 2^64 of them.
LEMMA HeadBound ==
  ASSUME TypeOK, CallsAccounted
  PROVE  head + 2 * Size < Word
<1>1. /\ head = Cardinality(Storing) + Cardinality(Succeeded)
      /\ IsFiniteSet(Storing) /\ IsFiniteSet(Succeeded)
      /\ Cardinality(Storing) \in Nat /\ Cardinality(Succeeded) \in Nat
  BY AccountedAt, AtFinite DEF Storing, Succeeded
<1>2. Storing \cap Succeeded = {}
  BY DEF Storing, Succeeded, At
<1>3. Cardinality(Storing \cup Succeeded) = head
  BY <1>1, <1>2, FS_Union, FS_EmptySet
<1>4. Storing \cup Succeeded \subseteq Producers
  BY DEF Storing, Succeeded, At
<1>5. head <= Cardinality(Producers) /\ Cardinality(Producers) \in Nat
  BY <1>3, <1>4, WordAssumption, FS_Subset, FS_CardinalityType
<1>6. QED
  BY <1>5, WordAssumption DEF TypeOK

\* The full check of TryPush, in uint64, is exact for a ring that keeps one
\* slot empty, even when the tail it loaded has passed the head it loaded.
LEMMA FullCheck ==
  ASSUME NEW h \in Nat, NEW t \in Nat, h - t <= Size - 1, t + 2 * Size < Word
  PROVE  NoRoom(h, t) <=> h - t = Size - 1
<1>1. CASE h >= t
  <2>1. U64(h - t) = h - t
    BY <1>1, U64Small, WordType
  <2>2. U64(Size - (h - t)) = Size - (h - t)
    BY <1>1, U64Small, WordType
  <2>3. QED
    BY <1>1, <2>1, <2>2 DEF NoRoom
<1>2. CASE h < t
  <2>1. U64(h - t) = h - t + Word
    BY <1>2, U64Negative, WordType
  <2>2. U64(Size - (h - t + Word)) = Size + (t - h)
    <3>1. Size - (h - t + Word) \in (-Word) .. (-1)
      BY <1>2, WordType
    <3>2. QED
      BY <3>1, U64Negative, WordType
  <2>3. Size + (t - h) > 1 /\ h - t < Size - 1
    BY <1>2
  <2>4. QED
    BY <2>1, <2>2, <2>3 DEF NoRoom
<1>3. QED
  BY <1>1, <1>2

LEMMA RoomInit == Init => RoomInv
BY DEF Init, RingInit, RoomInv, OneSlotEmpty

LEMMA RoomStep ==
  ASSUME SingleConsumer
  PROVE  TypeOK /\ IndexInv /\ CallsAccounted /\ RoomInv /\ [Next]_vars => RoomInv'
<1> SUFFICES ASSUME TypeOK, IndexInv, CallsAccounted, RoomInv, [Next]_vars
             PROVE  RoomInv'
  OBVIOUS
<1> USE DEF TypeOK, RoomInv, OneSlotEmpty, sharedVars
<1>1. ASSUME NEW p \in Producers, CallTryPush(p) \/ LoadHead(p)
      PROVE  RoomInv'
  <2>1. /\ UNCHANGED <<head, tail, cpc, from>>
        /\ seenHead' = [seenHead EXCEPT ![p] = head]
        /\ pc' = [pc EXCEPT ![p] = "loadTail"]
    BY <1>1 DEF CallTryPush, LoadHead, ReadHead, Goto, consumerVars
  <2>2. QED
    BY <2>1
<1>2. ASSUME NEW p \in Producers, LoadTail(p)
      PROVE  RoomInv'
  <2>1. seenHead[p] - tail <= Size - 1 /\ tail + 2 * Size < Word
    BY <1>2, HeadBound, WordType DEF LoadTail, IndexInv, TailBehindHead
  <2>2. ~NoRoom(seenHead[p], tail) => seenHead[p] - tail <= Size - 2
    BY <2>1, FullCheck
  <2>3. /\ UNCHANGED <<head, tail, cpc, from, seenHead>>
        /\ pc' = [pc EXCEPT ![p] = IF NoRoom(seenHead[p], tail) THEN "drop" ELSE "cas"]
    BY <1>2 DEF LoadTail, Goto, consumerVars
  <2>4. QED
    BY <2>2, <2>3
<1>3. ASSUME NEW p \in Producers, Claim(p)
      PROVE  RoomInv'
  BY <1>3 DEF Claim, Goto, consumerVars
<1>4. ASSUME NEW p \in Producers, LoseRace(p)
      PROVE  RoomInv'
  BY <1>4 DEF LoseRace, AfterLostRace, Goto, consumerVars
<1>5. ASSUME NEW p \in Producers, WriteSlot(p) \/ CountPush(p) \/ CountDrop(p)
      PROVE  RoomInv'
  BY <1>5 DEF WriteSlot, CountPush, CountDrop, Goto, consumerVars
<1>6. ASSUME NEW c \in Consumers, CallPopAll(c)
      PROVE  RoomInv'
  BY <1>6 DEF CallPopAll, CGoto, producerVars
<1>7. ASSUME NEW c \in Consumers, PopLoadHead(c) \/ CopySlot(c)
      PROVE  RoomInv'
  <2>1. /\ UNCHANGED <<head, tail, from, pc, seenHead>>
        /\ cpc[c] \in {"loadHead", "copy"}
        /\ \A d \in Consumers : d # c => cpc'[d] = cpc[d]
    BY <1>7 DEF PopLoadHead, CopySlot, CGoto, producerVars
  <2>2. QED
    BY <2>1
<1>8. ASSUME NEW c \in Consumers, StoreTail(c)
      PROVE  RoomInv'
  <2>1. /\ UNCHANGED <<head, from, pc, seenHead>>
        /\ cpc[c] = "store" /\ cpc' = [cpc EXCEPT ![c] = "return"]
        /\ tail' = from[c] + available[c]
    BY <1>8 DEF StoreTail, EndOfBatch, CGoto, producerVars
  <2>2. tail' >= tail
    BY <2>1
  <2>3. \A d \in Consumers : cpc'[d] = "return"
    BY <2>1, SingleConsumer DEF SingleConsumer
  <2>4. QED
    BY <2>1, <2>2, <2>3
<1>9. ASSUME NEW c \in Consumers, Deliver(c)
      PROVE  RoomInv'
  BY <1>9 DEF Deliver, ReturnPopAll, CGoto, producerVars
<1>10. CASE UNCHANGED vars
  BY <1>10 DEF vars, ringVars, producerVars, consumerVars
<1>11. QED
  BY <1>1, <1>2, <1>3, <1>4, <1>5, <1>6, <1>7, <1>8, <1>9, <1>10
     DEF Next, PushStep, PopStep

LEMMA RoomCorrect ==
  ASSUME SingleConsumer
  PROVE  Spec => [](TypeOK /\ IndexInv /\ CallsAccounted /\ RoomInv)
<1>1. TypeOK /\ IndexInv /\ CallsAccounted /\ RoomInv /\ [Next]_vars => RoomInv'
  BY RoomStep
<1>2. QED
  BY <1>1, TypeCorrect, IndexInit, IndexStep, EveryCallCounted, RoomInit, PTL DEF Spec

(***************************************************************************)
(* With one consumer the ring never holds more than Size - 1 data.         *)
(***************************************************************************)
THEOREM OneSlotStaysEmpty ==
  ASSUME SingleConsumer
  PROVE  Spec => []OneSlotEmpty
<1>1. RoomInv => OneSlotEmpty
  BY DEF RoomInv
<1>2. QED
  BY <1>1, RoomCorrect, PTL

(***************************************************************************)
(* With one consumer tail only moves forward.                              *)
(***************************************************************************)
THEOREM TailAdvances ==
  ASSUME SingleConsumer
  PROVE  Spec => TailOnlyAdvances
<1>1. TypeOK /\ RoomInv /\ [Next]_vars => [tail' >= tail]_vars
  <2> SUFFICES ASSUME TypeOK, RoomInv, Next PROVE tail' >= tail
    OBVIOUS
  <2>1. ASSUME NEW c \in Consumers, StoreTail(c) PROVE tail' >= tail
    BY <2>1 DEF StoreTail, EndOfBatch, TypeOK, RoomInv
  <2>2. ASSUME NEW c \in Consumers, CallPopAll(c) \/ PopLoadHead(c) \/ CopySlot(c)
                                    \/ Deliver(c)
        PROVE  tail' >= tail
    BY <2>2 DEF CallPopAll, PopLoadHead, CopySlot, Deliver, ReturnPopAll,
                sharedVars, TypeOK
  <2>3. ASSUME NEW p \in Producers, CallTryPush(p) \/ PushStep(p)
        PROVE  tail' >= tail
    BY <2>3 DEF CallTryPush, PushStep, LoadHead, ReadHead, LoadTail, Claim,
                LoseRace, WriteSlot, CountPush, CountDrop, sharedVars, TypeOK
  <2>4. QED
    BY <2>1, <2>2, <2>3 DEF Next, PopStep
<1>2. QED
  BY <1>1, RoomCorrect, PTL DEF Spec, TailOnlyAdvances
-----------------------------------------------------------------------------
(***************************************************************************)
(* One consumer: the ring implements the bounded channel.  Only three      *)
(* kinds of step are visible: the compare-and-swap (Accept), the full      *)
(* check or the last lost race (Refuse), and the store of tail (Take).     *)
(* A lost race means that head has moved, so retry never exceeds it.       *)
(***************************************************************************)
RetryInv ==
  \A p \in Producers :
    /\ pc[p] = "idle" => retry[p] = 0
    /\ pc[p] = "loadHead" => retry[p] <= head
    /\ pc[p] \in {"loadTail", "cas"} => retry[p] <= seenHead[p]

LEMMA RetryInit == Init => RetryInv
BY DEF Init, RingInit, RetryInv

LEMMA RetryStep == TypeOK /\ IndexInv /\ RetryInv /\ [Next]_vars => RetryInv'
<1> SUFFICES ASSUME TypeOK, IndexInv, RetryInv, [Next]_vars PROVE RetryInv'
  OBVIOUS
<1> USE DEF TypeOK, RetryInv, sharedVars
<1>1. ASSUME NEW p \in Producers, CallTryPush(p) \/ LoadHead(p)
      PROVE  RetryInv'
  <2>1. /\ UNCHANGED <<head, retry>> /\ retry[p] <= head
        /\ seenHead' = [seenHead EXCEPT ![p] = head]
        /\ pc' = [pc EXCEPT ![p] = "loadTail"]
    BY <1>1 DEF CallTryPush, LoadHead, ReadHead, Goto
  <2>2. QED
    BY <2>1
<1>2. ASSUME NEW p \in Producers, LoadTail(p)
      PROVE  RetryInv'
  BY <1>2 DEF LoadTail, Goto
<1>3. ASSUME NEW p \in Producers, Claim(p)
      PROVE  RetryInv'
  BY <1>3 DEF Claim, Goto
<1>4. ASSUME NEW p \in Producers, LoseRace(p)
      PROVE  RetryInv'
  <2>1. seenHead[p] < head
    BY <1>4 DEF LoseRace, IndexInv
  <2>2. QED
    BY <1>4, <2>1 DEF LoseRace, AfterLostRace, Goto
<1>5. ASSUME NEW p \in Producers, WriteSlot(p) \/ CountPush(p) \/ CountDrop(p)
      PROVE  RetryInv'
  BY <1>5 DEF WriteSlot, CountPush, CountDrop, Goto
<1>6. ASSUME NEW c \in Consumers, CallPopAll(c) \/ PopStep(c) \/ Deliver(c)
      PROVE  RetryInv'
  BY <1>6 DEF CallPopAll, PopStep, PopLoadHead, CopySlot, StoreTail, Deliver,
              ReturnPopAll, producerVars
<1>7. CASE UNCHANGED vars
  BY <1>7 DEF vars, ringVars, producerVars
<1>8. QED
  BY <1>1, <1>2, <1>3, <1>4, <1>5, <1>6, <1>7 DEF Next, PushStep

LEMMA ChannelInit == Init => Abstract!Init
BY DEF Init, RingInit, Abstract!Init, Outcome, Claimed

\* A step that moves producer p between labels with the same outcome, or
\* moves nobody, is invisible.
LEMMA OutcomeSame ==
  ASSUME TypeOK, NEW p \in Producers, NEW b, pc' = [pc EXCEPT ![p] = b],
         \/ /\ pc[p] \in {"idle", "loadHead", "loadTail", "cas"}
            /\ b \in {"idle", "loadHead", "loadTail", "cas"}
         \/ /\ pc[p] \in {"write", "count", "pushed"}
            /\ b \in {"write", "count", "pushed"}
         \/ pc[p] \in {"drop", "dropped"} /\ b \in {"drop", "dropped"}
  PROVE  Outcome' = Outcome
<1>1. \A q \in Producers :
        /\ (q \in Claimed)' <=> q \in Claimed
        /\ pc'[q] \in {"drop", "dropped"} <=> pc[q] \in {"drop", "dropped"}
  BY DEF TypeOK, Claimed
<1>2. QED
  BY <1>1 DEF Outcome

LEMMA ChannelStep ==
  ASSUME SingleConsumer, TypeOK, IndexInv, CallsAccounted, RoomInv, RetryInv,
         [Next]_vars
  PROVE  [Abstract!Next]_(Abstract!chanVars)
<1> USE DEF Abstract!chanVars
<1>1. ASSUME NEW p \in Producers, CallTryPush(p) \/ LoadHead(p)
      PROVE  UNCHANGED <<head, tail, Outcome>>
  <2>1. /\ UNCHANGED <<head, tail>> /\ pc[p] \in {"idle", "loadHead"}
        /\ pc' = [pc EXCEPT ![p] = "loadTail"]
    BY <1>1 DEF CallTryPush, LoadHead, ReadHead, Goto, sharedVars
  <2>2. QED
    BY <2>1, OutcomeSame
<1>2. ASSUME NEW p \in Producers, pc[p] \in {"loadTail", "cas"},
             UNCHANGED <<head, tail>>, pc' = [pc EXCEPT ![p] = "drop"],
             head - tail >= Size - 1 \/ head >= MaxRetries
      PROVE  Abstract!Next
  <2>1. Outcome[p] = "pending"
    BY <1>2 DEF Outcome, Claimed
  <2>2. Outcome' = [Outcome EXCEPT ![p] = "refused"]
    BY <1>2 DEF Outcome, Claimed, TypeOK
  <2>3. Abstract!Refuse(p)
    BY <1>2, <2>1, <2>2 DEF Abstract!Refuse, Abstract!Full
  <2>4. QED
    BY <2>3 DEF Abstract!Next
<1>3. ASSUME NEW p \in Producers, LoadTail(p)
      PROVE  [Abstract!Next]_(Abstract!chanVars)
  <2>1. CASE NoRoom(seenHead[p], tail)
    <3>1. /\ seenHead[p] <= head /\ tail + 2 * Size < Word
          /\ seenHead[p] - tail <= Size - 1
      BY <1>3, HeadBound, WordType
         DEF LoadTail, TypeOK, IndexInv, TailBehindHead, RoomInv, OneSlotEmpty
    <3>2. seenHead[p] - tail = Size - 1
      BY <2>1, <3>1, FullCheck DEF TypeOK
    <3>3. head - tail >= Size - 1
      BY <3>1, <3>2 DEF TypeOK
    <3>4. QED
      BY <1>2, <1>3, <2>1, <3>3 DEF LoadTail, Goto, sharedVars
  <2>2. CASE ~NoRoom(seenHead[p], tail)
    BY <1>3, <2>2, OutcomeSame DEF LoadTail, Goto, sharedVars
  <2>3. QED
    BY <2>1, <2>2
<1>4. ASSUME NEW p \in Producers, LoseRace(p)
      PROVE  [Abstract!Next]_(Abstract!chanVars)
  <2>1. CASE retry[p] + 1 < MaxRetries
    BY <1>4, <2>1, OutcomeSame DEF LoseRace, AfterLostRace, Goto, sharedVars
  <2>2. CASE ~(retry[p] + 1 < MaxRetries)
    <3>1. retry[p] <= seenHead[p] /\ seenHead[p] < head
      BY <1>4 DEF LoseRace, RetryInv, IndexInv, TypeOK
    <3>2. head >= MaxRetries
      BY <2>2, <3>1 DEF TypeOK
    <3>3. QED
      BY <1>2, <1>4, <2>2, <3>2 DEF LoseRace, AfterLostRace, Goto, sharedVars
  <2>3. QED
    BY <2>1, <2>2
<1>5. ASSUME NEW p \in Producers, Claim(p)
      PROVE  Abstract!Next
  <2>1. head - tail < Size - 1 /\ head' = head + 1 /\ UNCHANGED tail
    BY <1>5 DEF Claim, RoomInv, TypeOK
  <2>2. Outcome[p] = "pending" /\ Outcome' = [Outcome EXCEPT ![p] = "accepted"]
    BY <1>5 DEF Claim, Goto, Outcome, Claimed, TypeOK
  <2>3. Abstract!Accept(p)
    BY <2>1, <2>2 DEF Abstract!Accept, Abstract!Full, TypeOK
  <2>4. QED
    BY <2>3 DEF Abstract!Next
<1>6. ASSUME NEW p \in Producers, WriteSlot(p) \/ CountPush(p) \/ CountDrop(p)
      PROVE  UNCHANGED <<head, tail, Outcome>>
  <2>1. PICK b \in {"count", "pushed", "dropped"} :
          /\ UNCHANGED <<head, tail>> /\ pc' = [pc EXCEPT ![p] = b]
          /\ \/ pc[p] \in {"write", "count"} /\ b \in {"count", "pushed"}
             \/ pc[p] = "drop" /\ b = "dropped"
    BY <1>6 DEF WriteSlot, CountPush, CountDrop, Goto
  <2>2. QED
    BY <2>1, OutcomeSame
<1>7. ASSUME NEW c \in Consumers, StoreTail(c)
      PROVE  [Abstract!Next]_(Abstract!chanVars)
  <2>1. UNCHANGED <<head, Outcome>>
    BY <1>7 DEF StoreTail, EndOfBatch, producerVars, Outcome, Claimed
  <2>2. /\ tail' = tail + available[c]
        /\ tail + available[c] <= head /\ available[c] \in Nat
    BY <1>7 DEF StoreTail, EndOfBatch, RoomInv, IndexInv, TailBehindHead, TypeOK
  <2>3. CASE available[c] = 0
    BY <2>1, <2>2, <2>3 DEF TypeOK
  <2>4. CASE available[c] > 0
    BY <2>1, <2>2, <2>4 DEF Abstract!Next, Abstract!Take, TypeOK
  <2>5. QED
    BY <2>2, <2>3, <2>4
<1>8. ASSUME NEW c \in Consumers,
             CallPopAll(c) \/ PopLoadHead(c) \/ CopySlot(c) \/ Deliver(c)
      PROVE  UNCHANGED <<head, tail, Outcome>>
  BY <1>8 DEF CallPopAll, PopLoadHead, CopySlot, Deliver, ReturnPopAll,
              sharedVars, producerVars, Outcome, Claimed
<1>9. CASE UNCHANGED vars
  BY <1>9 DEF vars, ringVars, sharedVars, producerVars, Outcome, Claimed
<1>10. QED
  BY <1>1, <1>3, <1>4, <1>5, <1>6, <1>7, <1>8, <1>9 DEF Next, PushStep, PopStep

(***************************************************************************)
(* With one consumer, the ring buffer implements the bounded channel.      *)
(***************************************************************************)
THEOREM RingImplementsChannel ==
  ASSUME SingleConsumer
  PROVE  Spec => ImplementsChannel
<1>1. Spec => []RetryInv
  BY RetryInit, RetryStep, TypeCorrect, IndexInit, IndexStep, PTL DEF Spec
<1>2. /\ TypeOK /\ IndexInv /\ CallsAccounted /\ RoomInv /\ RetryInv
      /\ [Next]_vars
      => [Abstract!Next]_(Abstract!chanVars)
  BY ChannelStep
<1>3. QED
  BY <1>1, <1>2, ChannelInit, RoomCorrect, PTL
     DEF Spec, ImplementsChannel, Abstract!Spec

-----------------------------------------------------------------------------
(***************************************************************************)
(* One consumer: what PopAll delivers.  A slot's content is known from the *)
(* end of its owner's store until the position is read, because no two     *)
(* positions between tail and head share a slot; and a store never comes   *)
(* late, for a position behind the consumer, unless that position was read *)
(* early.                                                                  *)
(***************************************************************************)

\* How far delivered and the batch in hand reach.
LengthInv ==
  \A c \in Consumers :
    /\ cpc[c] \in {"idle", "loadHead", "copy", "store"} => Len(delivered) = tail
    /\ cpc[c] \in {"idle", "loadHead"} => result[c] = << >>
    /\ cpc[c] = "copy" => Len(result[c]) < available[c]
    /\ cpc[c] = "store" => Len(result[c]) = available[c]
    /\ cpc[c] = "return" =>
         Len(delivered) = from[c] /\ tail = from[c] + Len(result[c])

\* The next position that the consumer will read.
ReadUpTo(c) == from[c] + Len(result[c])

StoresInTime ==
  \A p \in Producers : pc[p] = "write" =>
    /\ tail <= seenHead[p]
    /\ \A c \in Consumers : cpc[c] \in {"copy", "store"} => ReadUpTo(c) <= seenHead[p]

StoredInSlot ==
  \A p \in Claimed : pc[p] # "write" /\ tail <= seenHead[p] =>
    buffer[SlotOf(seenHead[p])] = p

\* A sequence of the data claimed at consecutive positions.
InOrderFrom(s, first) ==
  \A i \in 1 .. Len(s) : s[i] \in Claimed /\ seenHead[s[i]] = first + i - 1

BatchInOrder ==
  \A c \in Consumers : cpc[c] \in {"copy", "store", "return"} =>
    InOrderFrom(result[c], from[c])

OrderInv ==
  early = {} => /\ StoresInTime /\ StoredInSlot /\ BatchInOrder
                /\ InOrderFrom(delivered, 0)


LEMMA SlotsDiffer ==
  ASSUME NEW x \in Nat, NEW y \in Nat, x # y, x - y < Size, y - x < Size
  PROVE  SlotOf(x) # SlotOf(y)
<1>1. PICK a \in Nat, i \in 0 .. Size - 1 : x = Size * a + i /\ x % Size = i
  <2>1. x \div Size \in Nat /\ x % Size \in 0 .. Size - 1
        /\ x = Size * (x \div Size) + (x % Size)
    OBVIOUS
  <2> QED
    BY <2>1
<1>2. PICK b \in Nat, j \in 0 .. Size - 1 : y = Size * b + j /\ y % Size = j
  <2>1. y \div Size \in Nat /\ y % Size \in 0 .. Size - 1
        /\ y = Size * (y \div Size) + (y % Size)
    OBVIOUS
  <2> QED
    BY <2>1
<1>3. ASSUME i = j PROVE FALSE
  <2>1. CASE a > b
    <3>1. PICK k \in Nat : a = b + 1 + k
      BY <2>1
    <3>2. Size * a = Size * b + Size + Size * k /\ Size * k >= 0
      BY <3>1
    <3> QED
      BY <1>1, <1>2, <1>3, <3>2
  <2>2. CASE b > a
    <3>1. PICK k \in Nat : b = a + 1 + k
      BY <2>2
    <3>2. Size * b = Size * a + Size + Size * k /\ Size * k >= 0
      BY <3>1
    <3> QED
      BY <1>1, <1>2, <1>3, <3>2
  <2>3. a # b
    BY <1>1, <1>2, <1>3
  <2> QED
    BY <2>1, <2>2, <2>3
<1> QED
  BY <1>1, <1>2, <1>3 DEF SlotOf

LEMMA LengthStep ==
  ASSUME SingleConsumer, TypeOK, RoomInv, LengthInv, [Next]_vars
  PROVE  LengthInv'
<1> USE DEF LengthInv, TypeOK
<1>1. ASSUME NEW p \in Producers, CallTryPush(p) \/ PushStep(p), UNCHANGED delivered
      PROVE  LengthInv'
  <2>1. UNCHANGED <<tail, cpc, from, available, result>>
    BY <1>1 DEF CallTryPush, PushStep, LoadHead, ReadHead, LoadTail, Claim, LoseRace,
       WriteSlot, CountPush, CountDrop, sharedVars, consumerVars
  <2> QED
    BY <1>1, <2>1
<1>2. ASSUME NEW c \in Consumers, CallPopAll(c), UNCHANGED delivered PROVE LengthInv'
  BY <1>2, SingleConsumer DEF CallPopAll, CGoto, sharedVars, SingleConsumer
<1>3. ASSUME NEW c \in Consumers, PopLoadHead(c), UNCHANGED delivered PROVE LengthInv'
  <2>1. PICK n \in Nat : n = BatchSize(head, from[c])
    BY BatchNat
  <2>2. /\ available' = [available EXCEPT ![c] = n]
        /\ cpc' = [cpc EXCEPT ![c] = IF n = 0 THEN "return" ELSE "copy"]
        /\ cpc[c] = "loadHead" /\ UNCHANGED <<tail, from, result>>
    BY <1>3, <2>1 DEF PopLoadHead, CGoto, sharedVars
  <2>3. Len(result[c]) = 0 /\ from[c] = tail /\ Len(delivered) = tail
    BY <2>2 DEF RoomInv
  <2> QED
    BY <1>3, <2>2, <2>3, SingleConsumer DEF SingleConsumer
<1>4. ASSUME NEW c \in Consumers, CopySlot(c), UNCHANGED delivered PROVE LengthInv'
  <2>1. PICK d \in Data : result' = [result EXCEPT ![c] = Append(@, d)]
    <3>1. from[c] + Len(result[c]) \in Nat
      BY <1>4
    <3>2. buffer[SlotOf(from[c] + Len(result[c]))] \in Data
      BY <3>1, SlotType
    <3> QED
      BY <1>4, <3>2 DEF CopySlot, Data
  <2>2. /\ cpc[c] = "copy" /\ UNCHANGED <<tail, from, available>>
        /\ cpc' = [cpc EXCEPT ![c] = IF Len(result[c]) + 1 = available[c]
                                     THEN "store" ELSE "copy"]
    BY <1>4 DEF CopySlot, CGoto, sharedVars
  <2>3. Len(result'[c]) = Len(result[c]) + 1 /\ Len(result[c]) \in Nat
    BY <2>1
  <2> QED
    BY <1>4, <2>2, <2>3, SingleConsumer DEF SingleConsumer
<1>5. ASSUME NEW c \in Consumers, StoreTail(c), UNCHANGED delivered PROVE LengthInv'
  BY <1>5, SingleConsumer DEF StoreTail, EndOfBatch, CGoto, RoomInv, SingleConsumer
<1>6. ASSUME NEW c \in Consumers, Deliver(c) PROVE LengthInv'
  <2>1. /\ cpc[c] = "return" /\ cpc'[c] = "idle" /\ result'[c] = << >>
        /\ UNCHANGED tail /\ delivered' = delivered \o result[c]
    BY <1>6 DEF Deliver, ReturnPopAll, CGoto, sharedVars
  <2>2. Len(delivered') = Len(delivered) + Len(result[c])
    BY <2>1
  <2>3. Len(delivered) = from[c] /\ tail = from[c] + Len(result[c])
    BY <2>1
  <2> QED
    BY <2>1, <2>2, <2>3, SingleConsumer DEF SingleConsumer
<1>7. CASE UNCHANGED vars
  BY <1>7 DEF vars, ringVars, sharedVars, consumerVars
<1> QED
  BY <1>1, <1>2, <1>3, <1>4, <1>5, <1>6, <1>7 DEF Next, PopStep


\* A successful call keeps its position.
LEMMA ClaimsStay ==
  ASSUME TypeOK, [Next]_vars
  PROVE  Claimed \subseteq Claimed' /\ \A p \in Claimed : seenHead'[p] = seenHead[p]
<1> USE DEF TypeOK, Claimed
<1>1. ASSUME NEW p \in Producers, CallTryPush(p) \/ LoadHead(p) \/ LoadTail(p)
      PROVE  Claimed \subseteq Claimed' /\ \A q \in Claimed : seenHead'[q] = seenHead[q]
  BY <1>1 DEF CallTryPush, LoadHead, ReadHead, LoadTail, Goto
<1>2. ASSUME NEW p \in Producers, Claim(p) \/ LoseRace(p) \/ WriteSlot(p)
                                  \/ CountPush(p) \/ CountDrop(p)
      PROVE  Claimed \subseteq Claimed' /\ \A q \in Claimed : seenHead'[q] = seenHead[q]
  BY <1>2 DEF Claim, LoseRace, WriteSlot, CountPush, CountDrop, Goto
<1>3. ASSUME NEW c \in Consumers, CallPopAll(c) \/ PopStep(c) \/ Deliver(c)
      PROVE  Claimed \subseteq Claimed' /\ \A q \in Claimed : seenHead'[q] = seenHead[q]
  BY <1>3 DEF CallPopAll, PopStep, PopLoadHead, CopySlot, StoreTail, Deliver,
     ReturnPopAll, producerVars
<1>4. CASE UNCHANGED vars
  BY <1>4 DEF vars, ringVars, producerVars
<1> QED
  BY <1>1, <1>2, <1>3, <1>4 DEF Next, PushStep

\* The positions that are claimed and not read have their slots to themselves.
LEMMA SlotsOfClaimed ==
  ASSUME TypeOK, PositionsOwnedOnce, OneSlotEmpty, NEW p \in Claimed, NEW q \in Claimed,
         p # q, tail <= seenHead[p], tail <= seenHead[q]
  PROVE  SlotOf(seenHead[p]) # SlotOf(seenHead[q])
<1>1. /\ seenHead[p] \in 0 .. head - 1 /\ seenHead[q] \in 0 .. head - 1
      /\ seenHead[p] # seenHead[q]
  BY DEF PositionsOwnedOnce
<1>2. head - tail < Size /\ head \in Nat /\ tail \in Nat
  BY DEF TypeOK, OneSlotEmpty
<1> QED
  BY <1>1, <1>2, SlotsDiffer

(***************************************************************************)
(* What no consumer's step changes; what no producer's step changes.       *)
(***************************************************************************)
LEMMA DeliveredStays ==
  ASSUME TypeOK, [Next]_vars, BatchInOrder, InOrderFrom(delivered, 0),
         UNCHANGED <<cpc, from, result, delivered>>
  PROVE  BatchInOrder' /\ InOrderFrom(delivered, 0)'
BY ClaimsStay DEF BatchInOrder, InOrderFrom

LEMMA SlotsStay ==
  ASSUME StoredInSlot, UNCHANGED <<pc, seenHead, buffer>>, tail' >= tail,
         TypeOK, tail' \in Nat
  PROVE  StoredInSlot'
BY DEF StoredInSlot, Claimed, TypeOK

\* The conditions under which OrderInv says anything, on both sides of a step.
OrderPre == TypeOK /\ IndexInv /\ RoomInv /\ PositionsOwnedOnce /\ LengthInv

InOrder == StoresInTime /\ StoredInSlot /\ BatchInOrder /\ InOrderFrom(delivered, 0)

LEMMA PushKeepsOrder ==
  ASSUME OrderPre, InOrder, [Next]_vars, NEW p \in Producers,
         CallTryPush(p) \/ PushStep(p), UNCHANGED delivered
  PROVE  InOrder'
<1> USE DEF OrderPre
<1>0. UNCHANGED <<tail, cpc, from, available, result>>
  BY DEF CallTryPush, PushStep, LoadHead, ReadHead, LoadTail, Claim, LoseRace,
     WriteSlot, CountPush, CountDrop, sharedVars, consumerVars
<1>1. BatchInOrder' /\ InOrderFrom(delivered, 0)'
  BY <1>0, DeliveredStays DEF InOrder
<1>2. CASE CallTryPush(p) \/ LoadHead(p) \/ LoadTail(p) \/ LoseRace(p) \/ CountDrop(p)
  <2>1. /\ UNCHANGED buffer /\ Claimed' = Claimed
        /\ \A q \in Producers : pc'[q] = "write" <=> pc[q] = "write"
        /\ \A q \in Producers : pc[q] = "write" => q \in Claimed
    BY <1>2 DEF CallTryPush, LoadHead, ReadHead, LoadTail, LoseRace, AfterLostRace,
       CountDrop, Goto, sharedVars, TypeOK, Claimed
  <2>2. \A q \in Claimed : seenHead'[q] = seenHead[q] /\ q \in Producers
    BY ClaimsStay DEF Claimed
  <2>3. StoresInTime'
    BY <1>0, <2>1, <2>2 DEF InOrder, StoresInTime, ReadUpTo
  <2>4. StoredInSlot'
    BY <1>0, <2>1, <2>2 DEF InOrder, StoredInSlot
  <2> QED
    BY <1>1, <2>3, <2>4 DEF InOrder
<1>3. CASE Claim(p)
  <2>1. /\ UNCHANGED <<buffer, seenHead>> /\ seenHead[p] = head
        /\ pc' = [pc EXCEPT ![p] = "write"] /\ pc[p] = "cas"
    BY <1>3 DEF Claim, Goto
  <2>2. tail <= head /\ \A c \in Consumers : cpc[c] \in {"copy", "store"} =>
          from[c] + Len(result[c]) <= head
    BY DEF IndexInv, TailBehindHead, LengthInv, TypeOK
  <2>3. StoresInTime'
    BY <1>0, <2>1, <2>2 DEF InOrder, StoresInTime, ReadUpTo, TypeOK
  <2>4. StoredInSlot'
    BY <1>0, <2>1 DEF InOrder, StoredInSlot, Claimed, TypeOK
  <2> QED
    BY <1>1, <2>3, <2>4 DEF InOrder
<1>4. CASE WriteSlot(p)
  <2>1. /\ UNCHANGED seenHead /\ pc[p] = "write" /\ p \in Claimed
        /\ pc' = [pc EXCEPT ![p] = "count"] /\ Claimed' = Claimed
    BY <1>4 DEF WriteSlot, Goto, TypeOK, Claimed
  <2>2. \A q \in Producers : pc[q] = "write" => q \in Claimed /\ tail <= seenHead[q]
    BY DEF InOrder, StoresInTime, Claimed
  <2>3. Writers(SlotOf(seenHead[p])) = {p}
    BY <2>1, <2>2, SlotsOfClaimed DEF Writers, RoomInv
  <2>4. buffer' = [buffer EXCEPT ![SlotOf(seenHead[p])] = p]
    BY <1>4, <2>3 DEF WriteSlot
  <2>5. SlotOf(seenHead[p]) \in Slots
    BY SlotType DEF TypeOK
  <2>6. StoresInTime'
    BY <1>0, <2>1 DEF InOrder, StoresInTime, ReadUpTo, TypeOK
  <2>7. ASSUME NEW q \in Claimed, pc'[q] # "write", tail <= seenHead[q]
        PROVE  buffer'[SlotOf(seenHead[q])] = q
    <3>1. CASE q = p
      BY <2>4, <2>5, <3>1 DEF TypeOK
    <3>2. CASE q # p
      <4>1. q \in Producers /\ pc[q] # "write"
        BY <2>1, <2>7, <3>2 DEF Claimed, TypeOK
      <4>2. SlotOf(seenHead[q]) # SlotOf(seenHead[p])
        BY <2>1, <2>2, <2>7, <3>2, SlotsOfClaimed DEF RoomInv
      <4>3. SlotOf(seenHead[q]) \in Slots
        BY <4>1, SlotType DEF TypeOK
      <4>4. buffer[SlotOf(seenHead[q])] = q
        BY <2>7, <4>1 DEF InOrder, StoredInSlot
      <4> QED
        BY <2>4, <4>2, <4>3, <4>4 DEF TypeOK
    <3> QED
      BY <3>1, <3>2
  <2>8. StoredInSlot'
    BY <1>0, <2>1, <2>7 DEF StoredInSlot
  <2> QED
    BY <1>1, <2>6, <2>8 DEF InOrder
<1>5. CASE CountPush(p)
  <2>1. /\ UNCHANGED <<seenHead, buffer>> /\ Claimed' = Claimed
        /\ \A q \in Producers : pc'[q] = "write" <=> pc[q] = "write"
    BY <1>5 DEF CountPush, Goto, TypeOK, Claimed
  <2>2. StoresInTime'
    BY <1>0, <2>1 DEF InOrder, StoresInTime, ReadUpTo
  <2>3. StoredInSlot'
    BY <1>0, <2>1 DEF InOrder, StoredInSlot, Claimed
  <2> QED
    BY <1>1, <2>2, <2>3 DEF InOrder
<1> QED
  BY <1>2, <1>3, <1>4, <1>5 DEF PushStep


(***************************************************************************)
(* A slot that is not read early holds the datum of the call that claimed  *)
(* its position, whole.                                                    *)
(***************************************************************************)
LEMMA CopyKeepsOrder ==
  ASSUME SingleConsumer, OrderPre, InOrder, [Next]_vars, NEW c \in Consumers, CopySlot(c),
         UNCHANGED delivered, early' = {}
  PROVE  InOrder'
<1> USE DEF OrderPre
<1>1. /\ cpc[c] = "copy" /\ cpc'[c] \in {"copy", "store"}
      /\ UNCHANGED <<tail, buffer, pc, seenHead, from>>
      /\ from[c] = tail /\ from[c] \in Nat /\ tail \in Nat /\ head \in Nat
      /\ result[c] \in Seq(Data) /\ Len(result[c]) \in Nat
      /\ from[c] + Len(result[c]) < head
  BY DEF CopySlot, CGoto, sharedVars, producerVars, RoomInv, LengthInv, IndexInv,
     TailBehindHead, TypeOK
<1>2. PICK position \in Nat : position = from[c] + Len(result[c])
  BY <1>1
<1>3. Owner(position) = {}
  BY <1>2 DEF CopySlot
<1>4. PICK p \in Claimed : seenHead[p] = position
  <2>1. position \in 0 .. head - 1
    BY <1>1, <1>2
  <2> QED
    BY <2>1 DEF PositionsOwnedOnce
<1>5. p \in Producers /\ pc[p] # "write" /\ tail <= seenHead[p]
  BY <1>1, <1>2, <1>3, <1>4 DEF Owner, Claimed
<1>6. buffer[SlotOf(position)] = p
  BY <1>4, <1>5 DEF InOrder, StoredInSlot
<1>7. Writers(SlotOf(position)) = {}
  <2>1. \A q \in Producers : pc[q] = "write" =>
          q \in Claimed /\ tail <= seenHead[q] /\ q # p
    BY <1>5 DEF InOrder, StoresInTime, Claimed
  <2> QED
    BY <1>4, <1>5, <2>1, SlotsOfClaimed DEF Writers, RoomInv
<1>8. result' = [result EXCEPT ![c] = Append(@, p)]
  BY <1>2, <1>6, <1>7 DEF CopySlot
<1>9. /\ result'[c] = Append(result[c], p) /\ p \in Data
      /\ Len(result'[c]) = Len(result[c]) + 1
  BY <1>1, <1>5, <1>8 DEF TypeOK, Data
<1>10. \A d \in Consumers : d = c
  BY DEF SingleConsumer
<1>11. StoresInTime'
  <2> SUFFICES ASSUME NEW q \in Producers, pc[q] = "write"
               PROVE  /\ tail <= seenHead[q]
                      /\ from[c] + Len(result'[c]) <= seenHead[q]
    BY <1>1, <1>10 DEF StoresInTime, ReadUpTo
  <2>1. tail <= seenHead[q] /\ from[c] + Len(result[c]) <= seenHead[q]
    BY <1>1 DEF InOrder, StoresInTime, ReadUpTo
  <2>2. seenHead[q] # position /\ seenHead[q] \in Nat
    BY <1>3 DEF Owner, TypeOK
  <2> QED
    BY <1>1, <1>2, <1>9, <2>1, <2>2
<1>12. StoredInSlot'
  BY <1>1 DEF InOrder, StoredInSlot, Claimed
<1>13. InOrderFrom(result[c], from[c])'
  <2>1. InOrderFrom(result[c], from[c])
    BY <1>1 DEF InOrder, BatchInOrder
  <2>2. Claimed' = Claimed
    BY <1>1 DEF Claimed
  <2>3. ASSUME NEW i \in 1 .. Len(result[c]) + 1
        PROVE  result'[c][i] \in Claimed /\ seenHead[result'[c][i]] = from[c] + i - 1
    <3>1. CASE i = Len(result[c]) + 1
      <4>1. result'[c][i] = p
        BY <1>1, <1>9, <3>1
      <4> QED
        BY <1>1, <1>2, <1>4, <3>1, <4>1
    <3>2. CASE i # Len(result[c]) + 1
      <4>1. i \in 1 .. Len(result[c])
        BY <1>1, <3>2
      <4>2. result'[c][i] = result[c][i]
        BY <1>1, <1>9, <4>1
      <4> QED
        BY <2>1, <4>1, <4>2 DEF InOrderFrom
    <3> QED
      BY <3>1, <3>2
  <2> QED
    BY <1>1, <1>9, <2>2, <2>3 DEF InOrderFrom
<1>14. BatchInOrder'
  BY <1>10, <1>13 DEF BatchInOrder
<1>15. InOrderFrom(delivered, 0)'
  BY ClaimsStay DEF InOrder, InOrderFrom
<1> QED
  BY <1>11, <1>12, <1>14, <1>15 DEF InOrder

(***************************************************************************)
(* The other steps of the consumer move positions, batches and deliveries  *)
(* along, and leave every datum where it is in the order.                  *)
(***************************************************************************)
LEMMA StartKeepsOrder ==
  ASSUME SingleConsumer, OrderPre, InOrder, [Next]_vars, NEW c \in Consumers,
         CallPopAll(c) \/ PopLoadHead(c), UNCHANGED delivered
  PROVE  InOrder'
<1> USE DEF OrderPre
<1>1. /\ UNCHANGED <<tail, buffer, pc, seenHead, result>> /\ result[c] = << >>
      /\ cpc[c] \in {"idle", "loadHead"} /\ cpc'[c] \in {"loadHead", "copy", "return"}
  BY DEF CallPopAll, PopLoadHead, CGoto, sharedVars, producerVars, LengthInv, TypeOK
<1>2. \A d \in Consumers : d = c
  BY DEF SingleConsumer
<1>3. cpc'[c] # "loadHead" => from'[c] = tail
  BY DEF CallPopAll, PopLoadHead, CGoto, RoomInv, TypeOK
<1>4. tail \in Nat /\ Len(result'[c]) = 0
  BY <1>1 DEF TypeOK
<1>5. StoresInTime'
  <2>1. \A p \in Producers : pc[p] = "write" => tail <= seenHead[p]
    BY DEF InOrder, StoresInTime
  <2>2. cpc'[c] \in {"copy", "store"} => ReadUpTo(c)' = tail
    BY <1>3, <1>4 DEF ReadUpTo
  <2> QED
    BY <1>1, <1>2, <2>1, <2>2 DEF StoresInTime
<1>6. StoredInSlot'
  BY <1>1 DEF InOrder, StoredInSlot, Claimed
<1>7. BatchInOrder'
  BY <1>2, <1>4 DEF BatchInOrder, InOrderFrom
<1>8. InOrderFrom(delivered, 0)'
  BY ClaimsStay DEF InOrder, InOrderFrom
<1> QED
  BY <1>5, <1>6, <1>7, <1>8 DEF InOrder

LEMMA StoreTailKeepsOrder ==
  ASSUME SingleConsumer, OrderPre, InOrder, [Next]_vars, NEW c \in Consumers,
         StoreTail(c), UNCHANGED delivered
  PROVE  InOrder'
<1> USE DEF OrderPre
<1>1. /\ UNCHANGED <<buffer, pc, seenHead, from, result>>
      /\ cpc[c] = "store" /\ cpc'[c] = "return"
      /\ tail' = from[c] + Len(result[c]) /\ from[c] = tail
      /\ tail \in Nat /\ Len(result[c]) \in Nat
  BY DEF StoreTail, EndOfBatch, CGoto, producerVars, RoomInv, LengthInv, TypeOK
<1>2. \A d \in Consumers : d = c
  BY DEF SingleConsumer
<1>3. StoresInTime'
  BY <1>1, <1>2 DEF InOrder, StoresInTime, ReadUpTo
<1>4. StoredInSlot'
  <2>1. tail' >= tail /\ tail' \in Nat
    BY <1>1
  <2> QED
    BY <1>1, <2>1, SlotsStay DEF InOrder
<1>5. BatchInOrder'
  BY <1>1, <1>2, ClaimsStay DEF InOrder, BatchInOrder, InOrderFrom
<1>6. InOrderFrom(delivered, 0)'
  BY ClaimsStay DEF InOrder, InOrderFrom
<1> QED
  BY <1>3, <1>4, <1>5, <1>6 DEF InOrder

LEMMA DeliverKeepsOrder ==
  ASSUME SingleConsumer, OrderPre, InOrder, [Next]_vars, NEW c \in Consumers, Deliver(c)
  PROVE  InOrder'
<1> USE DEF OrderPre
<1>1. /\ UNCHANGED <<tail, buffer, pc, seenHead>>
      /\ cpc[c] = "return" /\ cpc'[c] = "idle"
      /\ delivered' = delivered \o result[c]
      /\ Len(delivered) = from[c]
      /\ delivered \in Seq(Data) /\ result[c] \in Seq(Data)
  BY DEF Deliver, ReturnPopAll, CGoto, sharedVars, producerVars, LengthInv, TypeOK
<1>2. \A d \in Consumers : d = c
  BY DEF SingleConsumer
<1>3. StoresInTime'
  BY <1>1, <1>2 DEF InOrder, StoresInTime
<1>4. StoredInSlot'
  BY <1>1 DEF InOrder, StoredInSlot, Claimed
<1>5. BatchInOrder'
  BY <1>1, <1>2 DEF BatchInOrder
<1>6. InOrderFrom(delivered, 0)'
  <2>1. InOrderFrom(delivered, 0) /\ InOrderFrom(result[c], from[c])
    BY <1>1 DEF InOrder, BatchInOrder
  <2>2. PICK m \in Nat, n \in Nat : m = Len(delivered) /\ n = Len(result[c])
    BY <1>1
  <2>3. /\ Len(delivered') = m + n
        /\ \A i \in 1 .. m : delivered'[i] = delivered[i]
        /\ \A i \in m + 1 .. m + n : delivered'[i] = result[c][i - m]
    <3>1. PICK s \in Seq(Data), t \in Seq(Data) :
            s = delivered /\ t = result[c] /\ delivered' = s \o t
      BY <1>1
    <3>2. /\ Len(s \o t) = Len(s) + Len(t)
          /\ \A i \in 1 .. Len(s) : (s \o t)[i] = s[i]
          /\ \A i \in Len(s) + 1 .. Len(s) + Len(t) : (s \o t)[i] = t[i - Len(s)]
      OBVIOUS
    <3> QED
      BY <2>2, <3>1, <3>2
  <2>4. Claimed' = Claimed
    BY <1>1 DEF Claimed
  <2>5. ASSUME NEW i \in 1 .. m + n
        PROVE  delivered'[i] \in Claimed /\ seenHead[delivered'[i]] = 0 + i - 1
    <3>1. CASE i \in 1 .. m
      BY <2>1, <2>2, <2>3, <3>1 DEF InOrderFrom
    <3>2. CASE i \notin 1 .. m
      <4>1. i \in m + 1 .. m + n /\ i - m \in 1 .. n
        BY <3>2
      <4>2. /\ result[c][i - m] \in Claimed
            /\ seenHead[result[c][i - m]] = m + (i - m) - 1
        BY <1>1, <2>1, <2>2, <4>1 DEF InOrderFrom
      <4> QED
        BY <2>3, <4>1, <4>2
    <3> QED
      BY <3>1, <3>2
  <2> QED
    BY <1>1, <2>3, <2>4, <2>5 DEF InOrderFrom
<1> QED
  BY <1>3, <1>4, <1>5, <1>6 DEF InOrder

LEMMA OrderAtFirst == Init => LengthInv /\ OrderInv
<1> SUFFICES ASSUME Init PROVE LengthInv /\ OrderInv
  OBVIOUS
<1> USE DEF Init, RingInit
<1>1. LengthInv
  BY DEF LengthInv
<1>2. Claimed = {} /\ \A p \in Producers : pc[p] # "write"
  BY DEF Claimed
<1>3. StoresInTime /\ StoredInSlot
  BY <1>2 DEF StoresInTime, StoredInSlot
<1>4. BatchInOrder /\ InOrderFrom(delivered, 0)
  BY DEF BatchInOrder, InOrderFrom
<1> QED
  BY <1>1, <1>3, <1>4 DEF OrderInv

LEMMA OrderStep ==
  ASSUME SingleConsumer, OrderPre, OrderInv, [Next]_vars
  PROVE  OrderInv'
<1> SUFFICES ASSUME early' = {} PROVE InOrder'
  BY DEF OrderInv, InOrder
<1>1. early = {}
  <2>1. CASE \E c \in Consumers : CopySlot(c)
    BY <2>1 DEF CopySlot
  <2>2. CASE ~ \E c \in Consumers : CopySlot(c)
    BY <2>2 DEF Next, CallTryPush, PushStep, LoadHead, ReadHead, LoadTail, Claim,
       LoseRace, WriteSlot, CountPush, CountDrop, CallPopAll, PopStep, PopLoadHead,
       StoreTail, Deliver, ReturnPopAll, vars, ringVars, consumerVars
  <2> QED
    BY <2>1, <2>2
<1>2. InOrder
  BY <1>1 DEF OrderInv, InOrder
<1>3. CASE UNCHANGED vars
  <2>1. UNCHANGED <<tail, buffer, pc, seenHead, cpc, from, result, delivered>>
    BY <1>3 DEF vars, ringVars, sharedVars, producerVars, consumerVars
  <2>2. BatchInOrder' /\ InOrderFrom(delivered, 0)'
    BY <1>2, <2>1, DeliveredStays DEF InOrder, OrderPre
  <2>3. StoresInTime' /\ StoredInSlot'
    BY <1>2, <2>1 DEF InOrder, StoresInTime, StoredInSlot, ReadUpTo, Claimed
  <2> QED
    BY <2>2, <2>3 DEF InOrder
<1> QED
  BY <1>2, <1>3, PushKeepsOrder, CopyKeepsOrder, StartKeepsOrder, StoreTailKeepsOrder,
     DeliverKeepsOrder DEF Next, PopStep

(***************************************************************************)
(* With one consumer, and as long as no slot was read before its owner     *)
(* stored into it, PopAll delivers the claimed data in the order of their  *)
(* positions, each once and whole (ringbuffer.go:94-98, 153-160).          *)
(***************************************************************************)
THEOREM DeliveredInOrder ==
  ASSUME SingleConsumer
  PROVE  Spec => []InOrderOnce
<1>1. OrderPre /\ OrderInv /\ [Next]_vars => OrderInv' /\ LengthInv'
  BY OrderStep, LengthStep DEF OrderPre
<1>2. TypeOK /\ IndexInv /\ RoomInv /\ PositionsOwnedOnce /\ LengthInv => OrderPre
  BY DEF OrderPre
<1>3. TypeOK /\ OrderInv => InOrderOnce
  <2> SUFFICES ASSUME TypeOK, OrderInv, early = {}, NEW i \in DOMAIN delivered
               PROVE  delivered[i] \in Claimed /\ seenHead[delivered[i]] = i - 1
    BY DEF InOrderOnce
  <2>1. i \in 1 .. Len(delivered)
    BY DEF TypeOK
  <2> QED
    BY <2>1 DEF OrderInv, InOrderFrom
<1> QED
  BY <1>1, <1>2, <1>3, OrderAtFirst, RoomCorrect, EveryPositionOwnedOnce, PTL DEF Spec


-----------------------------------------------------------------------------
(***************************************************************************)
(* A measured request counts as blocked no less than the time its calls    *)
(* spent in their invokers and no more than the time they took altogether, *)
(* for any number of calls, overlapping or not, as long as no call began   *)
(* while another was opening or closing a pause.                           *)
(*                                                                         *)
(* The property speaks of a request that is over.  The invariant says what *)
(* the accounts are while it runs: the pause in progress, from the start   *)
(* stored or about to be stored to now, counts as paused already.          *)
(***************************************************************************)

Places == {"idle", "pause", "store", "invoke", "load", "add", "clear", "done"}
Opening == {"pause", "store"}
Pausing == {"pause", "store", "load", "add", "clear"}
Paused == {"invoke", "load", "add"}

TimingType ==
  /\ now \in Nat \ {0} /\ request \in {"running", "measured"}
  /\ call \in [Downstream -> Places]
  /\ stamp \in [Downstream -> Nat] /\ \A c \in Downstream : stamp[c] <= now
  /\ pauseStartTimeNs \in Nat /\ pauseStartTimeNs <= now
  /\ activeCallCount \in Nat /\ totalPausedTimeNs \in Nat
  /\ inside \in Nat /\ engaged \in Nat
  /\ disturbed \in BOOLEAN

\* The calls that have been pushed and not popped.
Pushed == CallsAt({"pause", "store", "invoke"})
CountRight == IsFiniteSet(Pushed) /\ activeCallCount = Cardinality(Pushed)

\* Who opens or closes a pause is the only call in progress.
PausesAlone ==
  \A c, d \in Downstream : call[c] \in Pausing => c = d \/ Returned(d)

\* What is paused, with the part of the pause in progress.
Accounted(part) ==
  inside <= totalPausedTimeNs + part /\ totalPausedTimeNs + part <= engaged

PauseStored(c) ==
  /\ 0 < pauseStartTimeNs /\ Accounted(now - pauseStartTimeNs)
  /\ call[c] = "add" => stamp[c] = pauseStartTimeNs

\* The time that "store" has read is not stored yet, and nobody is inside.
PauseRead(c) ==
  /\ 0 < stamp[c] /\ inside <= totalPausedTimeNs
  /\ totalPausedTimeNs + (now - stamp[c]) <= engaged

AccountsRight ==
  /\ \A c \in Downstream : call[c] \in Paused => PauseStored(c)
  /\ \A c \in Downstream : call[c] = "store" => PauseRead(c)
  /\ \A c \in Downstream : call[c] \in {"pause", "clear"} => Accounted(0)
  /\ (\A c \in Downstream : Returned(c)) => Accounted(0)

MeasuredRight ==
  request = "measured" =>
    /\ \A c \in Downstream : Returned(c)
    /\ processingTime = (now - 1) - totalPausedTimeNs

TimingInv ==
  /\ TimingType /\ CountRight /\ MeasuredRight
  /\ ~disturbed => PausesAlone /\ AccountsRight

-----------------------------------------------------------------------------
LEMMA Moves ==
  ASSUME call \in [Downstream -> Places], NEW c \in Downstream, NEW before, NEW after \in Places,
         MoveCall(c, before, after)
  PROVE  /\ call[c] = before /\ call'[c] = after /\ call' \in [Downstream -> Places]
         /\ \A d \in Downstream : d # c => call'[d] = call[d]
BY DEF MoveCall

LEMMA TypesStay == TimingType /\ CountRight /\ [RequestNext]_requestVars => TimingType'
<1> SUFFICES ASSUME TimingType, CountRight, [RequestNext]_requestVars PROVE TimingType'
  OBVIOUS
<1> USE DEF contextVars, timeHistory
<1>1. ASSUME NEW c \in Downstream, BeginCall(c) PROVE TimingType'
  <2>1. call' \in [Downstream -> Places]
    BY <1>1 DEF BeginCall, MoveCall, TimingType, Places
  <2> QED
    BY <1>1, <2>1 DEF BeginCall, BetweenPauses, TimingType
<1>2. ASSUME NEW c \in Downstream, ReadPauseStart(c) PROVE TimingType'
  BY <1>2 DEF ReadPauseStart, MoveCall, TimingType, Places
<1>3. ASSUME NEW c \in Downstream, StorePauseStart(c) PROVE TimingType'
  BY <1>3 DEF StorePauseStart, MoveCall, TimingType, Places
<1>4. ASSUME NEW c \in Downstream, EndCall(c) PROVE TimingType'
  <2>1. c \in Pushed
    BY <1>4 DEF EndCall, MoveCall, Pushed, CallsAt
  <2>2. Cardinality(Pushed) # 0
    BY <1>4, <2>1, FS_EmptySet DEF CountRight
  <2>3. activeCallCount' \in Nat
    BY <1>4, <2>2 DEF EndCall, CountRight, TimingType
  <2>4. call' \in [Downstream -> Places]
    BY <1>4 DEF EndCall, MoveCall, TimingType, Places
  <2> QED
    BY <1>4, <2>3, <2>4 DEF EndCall, TimingType
<1>5. ASSUME NEW c \in Downstream, LoadPauseStart(c) PROVE TimingType'
  <2>1. call' \in [Downstream -> Places]
    BY <1>5 DEF LoadPauseStart, MoveCall, TimingType, Places
  <2> QED
    BY <1>5, <2>1 DEF LoadPauseStart, TimingType
<1>6. ASSUME NEW c \in Downstream, AddPause(c) PROVE TimingType'
  <2>1. call' \in [Downstream -> Places]
    BY <1>6 DEF AddPause, MoveCall, TimingType, Places
  <2> QED
    BY <1>6, <2>1 DEF AddPause, TimingType
<1>7. ASSUME NEW c \in Downstream, ClearPauseStart(c) PROVE TimingType'
  <2>1. call' \in [Downstream -> Places]
    BY <1>7 DEF ClearPauseStart, MoveCall, TimingType, Places
  <2>2. /\ stamp' \in [Downstream -> Nat]
        /\ \A d \in Downstream : stamp'[d] = 0 \/ stamp'[d] = stamp[d]
    BY <1>7 DEF ClearPauseStart, TimingType
  <2>3. now' = now /\ \A d \in Downstream : stamp'[d] <= now'
    BY <1>7, <2>2 DEF ClearPauseStart, TimingType
  <2> QED
    BY <1>7, <2>1, <2>2, <2>3 DEF ClearPauseStart, TimingType
<1>8. CASE TimeGoesOn
  BY <1>8 DEF TimeGoesOn, TimingType
<1>9. CASE Measured
  BY <1>9 DEF Measured, MeasureRequest, TimingType
<1>10. CASE UNCHANGED timingVars
  BY <1>10 DEF timingVars, TimingType
<1> QED
  BY <1>1, <1>2, <1>3, <1>4, <1>5, <1>6, <1>7, <1>8, <1>9, <1>10
     DEF RequestNext, TimingNext, TimingClientInterceptor, requestVars

(***************************************************************************)
(* A call is pushed when it begins and popped when its invoker returns.    *)
(***************************************************************************)
LEMMA CountStays == TimingType /\ CountRight /\ [RequestNext]_requestVars => CountRight'
<1> SUFFICES ASSUME TimingType, CountRight, [RequestNext]_requestVars PROVE CountRight'
  OBVIOUS
<1>0. call \in [Downstream -> Places]
  BY DEF TimingType
<1>1. ASSUME NEW c \in Downstream, BeginCall(c) PROVE CountRight'
  <2>1. PICK to \in {"pause", "invoke"} : MoveCall(c, "idle", to)
    BY <1>1 DEF BeginCall
  <2>2. c \notin Pushed /\ Pushed' = Pushed \cup {c}
    BY <1>0, <2>1 DEF MoveCall, Pushed, CallsAt
  <2>3. IsFiniteSet(Pushed') /\ Cardinality(Pushed') = Cardinality(Pushed) + 1
    BY <2>2, FS_AddElement DEF CountRight
  <2> QED
    BY <1>1, <2>3 DEF BeginCall, CountRight
<1>2. ASSUME NEW c \in Downstream, EndCall(c) PROVE CountRight'
  <2>1. PICK to \in {"load", "done"} : MoveCall(c, "invoke", to)
    BY <1>2 DEF EndCall
  <2>2. c \in Pushed /\ Pushed' = Pushed \ {c}
    BY <1>0, <2>1 DEF MoveCall, Pushed, CallsAt
  <2>3. IsFiniteSet(Pushed') /\ Cardinality(Pushed') = Cardinality(Pushed) - 1
    BY <2>2, FS_RemoveElement DEF CountRight
  <2> QED
    BY <1>2, <2>3 DEF EndCall, CountRight
<1>3. ASSUME NEW c \in Downstream, ReadPauseStart(c) \/ StorePauseStart(c)
      PROVE  CountRight'
  <2>1. Pushed' = Pushed
    BY <1>0, <1>3 DEF ReadPauseStart, StorePauseStart, MoveCall, Pushed, CallsAt
  <2> QED
    BY <1>3, <2>1 DEF ReadPauseStart, StorePauseStart, contextVars, CountRight
<1>4. ASSUME NEW c \in Downstream, LoadPauseStart(c) \/ AddPause(c) \/ ClearPauseStart(c)
      PROVE  CountRight'
  <2>1. Pushed' = Pushed
    BY <1>0, <1>4 DEF LoadPauseStart, AddPause, ClearPauseStart, MoveCall, Pushed, CallsAt
  <2> QED
    BY <1>4, <2>1 DEF LoadPauseStart, AddPause, ClearPauseStart, contextVars, CountRight
<1>5. CASE TimeGoesOn \/ Measured \/ UNCHANGED timingVars
  <2>1. UNCHANGED <<call, activeCallCount>>
    BY <1>5 DEF TimeGoesOn, Measured, MeasureRequest, timingVars, contextVars
  <2> QED
    BY <2>1 DEF CountRight, Pushed, CallsAt
<1> QED
  BY <1>1, <1>2, <1>3, <1>4, <1>5
     DEF RequestNext, TimingNext, TimingClientInterceptor, requestVars

\* What the count tells about who is pushed.
LEMMA CountFacts ==
  ASSUME CountRight
  PROVE  /\ activeCallCount = 0 => Pushed = {}
         /\ activeCallCount # 0 => Pushed # {}
         /\ activeCallCount = 1 => \A c, d \in Pushed : c = d
         /\ activeCallCount # 1 => \A c \in Pushed : \E d \in Pushed : d # c
<1>1. IsFiniteSet(Pushed) /\ activeCallCount = Cardinality(Pushed)
  BY DEF CountRight
<1>2. Cardinality(Pushed) = 0 <=> Pushed = {}
  BY <1>1, FS_EmptySet
<1>3. Cardinality(Pushed) = 1 <=> \E x : Pushed = {x}
  BY <1>1, FS_Singleton
<1>4. (\E x : Pushed = {x}) <=> Pushed # {} /\ \A c, d \in Pushed : c = d
  <2>1. ASSUME Pushed # {}, \A c, d \in Pushed : c = d PROVE \E x : Pushed = {x}
    <3>1. PICK c \in Pushed : TRUE
      BY <2>1
    <3>2. Pushed = {c}
      BY <3>1, <2>1
    <3> QED
      BY <3>2
  <2> QED
    BY <2>1, Zenon
<1>5. (activeCallCount = 0 <=> Pushed = {}) /\ (activeCallCount = 1 <=> \E x : Pushed = {x})
  BY <1>1, <1>2, <1>3
<1> QED
  BY <1>4, <1>5, Zenon

LEMMA MeasuredStays ==
  TimingType /\ CountRight /\ MeasuredRight /\ [RequestNext]_requestVars => MeasuredRight'
<1> SUFFICES ASSUME TimingType, CountRight, MeasuredRight, [RequestNext]_requestVars
             PROVE  MeasuredRight'
  OBVIOUS
<1>1. ASSUME NEW c \in Downstream, TimingClientInterceptor(c) PROVE MeasuredRight'
  <2>1. request' = request
    BY <1>1 DEF TimingClientInterceptor, BeginCall, ReadPauseStart, StorePauseStart,
       EndCall, LoadPauseStart, AddPause, ClearPauseStart
  <2>2. request = "running" \/ ~Returned(c)
    BY <1>1 DEF TimingClientInterceptor, BeginCall, ReadPauseStart, StorePauseStart,
       EndCall, LoadPauseStart, AddPause, ClearPauseStart, MoveCall, Returned
  <2> QED
    BY <2>1, <2>2 DEF MeasuredRight
<1>2. CASE TimeGoesOn
  BY <1>2 DEF TimeGoesOn, MeasuredRight
<1>3. CASE Measured
  BY <1>3 DEF Measured, MeasureRequest, MeasuredRight, Returned, contextVars
<1>4. CASE UNCHANGED timingVars
  BY <1>4 DEF timingVars, contextVars, MeasuredRight, Returned
<1> QED
  BY <1>1, <1>2, <1>3, <1>4 DEF RequestNext, TimingNext, requestVars

-----------------------------------------------------------------------------
(***************************************************************************)
(* What each step does to the accounts of an undisturbed request.          *)
(***************************************************************************)
Undisturbed == TimingType /\ CountRight /\ PausesAlone /\ AccountsRight

LEMMA AloneWhenPausing ==
  ASSUME Undisturbed, NEW c \in Downstream, call[c] \in Pausing
  PROVE  \A d \in Downstream : d # c => Returned(d)
BY DEF Undisturbed, PausesAlone

(***************************************************************************)
(* The first call finds nobody in progress; a later one finds a pause that *)
(* is stored.                                                              *)
(***************************************************************************)
LEMMA BeginKeeps ==
  ASSUME Undisturbed, NEW c \in Downstream, BeginCall(c), ~disturbed'
  PROVE  PausesAlone' /\ AccountsRight'
<1>0. /\ call[c] = "idle" /\ call \in [Downstream -> Places]
      /\ \A d \in Downstream : call[d] \notin Pausing
      /\ UNCHANGED <<now, stamp, pauseStartTimeNs, totalPausedTimeNs, inside, engaged>>
  BY DEF BeginCall, MoveCall, BetweenPauses, CallsAt, Pausing, timeHistory, Undisturbed,
     TimingType
<1>1. CASE activeCallCount = 0
  <2>1. Pushed = {}
    BY <1>1, CountFacts DEF Undisturbed
  <2>2. \A d \in Downstream : Returned(d)
    BY <1>0, <2>1 DEF Pushed, CallsAt, Pausing, Places, Returned
  <2>3. Accounted(0)
    BY <2>2 DEF Undisturbed, AccountsRight
  <2>4. call'[c] = "pause" /\ \A d \in Downstream : d # c => call'[d] = call[d]
    BY <1>0, <1>1 DEF BeginCall, MoveCall
  <2>5. PausesAlone'
    BY <2>2, <2>4 DEF PausesAlone, Returned, Pausing
  <2>6. AccountsRight'
    BY <1>0, <2>2, <2>3, <2>4 DEF AccountsRight, Accounted, Returned, Paused
  <2> QED
    BY <2>5, <2>6
<1>2. CASE activeCallCount # 0
  <2>1. Pushed # {}
    BY <1>2, CountFacts DEF Undisturbed
  <2>2. PICK d \in Downstream : call[d] = "invoke"
    BY <1>0, <2>1 DEF Pushed, CallsAt, Pausing
  <2>3. 0 < pauseStartTimeNs /\ Accounted(now - pauseStartTimeNs)
    BY <2>2 DEF Undisturbed, AccountsRight, Paused, PauseStored
  <2>4. call'[c] = "invoke" /\ \A e \in Downstream : e # c => call'[e] = call[e]
    BY <1>0, <1>2 DEF BeginCall, MoveCall
  <2>5. \A e \in Downstream : call'[e] \notin Pausing
    BY <1>0, <2>4 DEF Pausing
  <2>6. PausesAlone'
    BY <2>5 DEF PausesAlone
  <2>7. AccountsRight'
    BY <1>0, <2>3, <2>4, <2>5
       DEF AccountsRight, Accounted, Returned, Paused, PauseStored, Pausing
  <2> QED
    BY <2>6, <2>7
<1> QED
  BY <1>1, <1>2

(***************************************************************************)
(* Opening and closing the pause, while nobody else is in progress.        *)
(***************************************************************************)
LEMMA PausingKeeps ==
  ASSUME Undisturbed, NEW c \in Downstream,
         \/ ReadPauseStart(c) \/ StorePauseStart(c)
         \/ LoadPauseStart(c) \/ AddPause(c) \/ ClearPauseStart(c)
  PROVE  PausesAlone' /\ AccountsRight'
<1>0. /\ call \in [Downstream -> Places] /\ stamp \in [Downstream -> Nat]
      /\ now \in Nat \ {0} /\ pauseStartTimeNs \in Nat /\ pauseStartTimeNs <= now
      /\ totalPausedTimeNs \in Nat /\ inside \in Nat /\ engaged \in Nat
      /\ stamp[c] <= now
      /\ call[c] \in Pausing
  BY DEF ReadPauseStart, StorePauseStart, LoadPauseStart, AddPause, ClearPauseStart,
     MoveCall, Pausing, Undisturbed, TimingType
<1>1. \A d \in Downstream : d # c => Returned(d) /\ call'[d] = call[d]
  BY <1>0, AloneWhenPausing DEF ReadPauseStart, StorePauseStart, LoadPauseStart, AddPause,
     ClearPauseStart, MoveCall
<1>2. UNCHANGED <<now, inside, engaged>>
  BY DEF ReadPauseStart, StorePauseStart, LoadPauseStart, AddPause, ClearPauseStart,
     timeHistory
<1>3. PausesAlone'
  BY <1>1 DEF PausesAlone, Returned, Pausing
<1>4. \A d \in Downstream : d # c => call'[d] \in {"idle", "done"}
  BY <1>1 DEF Returned
<1>5. CASE ReadPauseStart(c)
  <2>1. call[c] = "pause" /\ call'[c] = "store" /\ stamp'[c] = now
        /\ UNCHANGED totalPausedTimeNs
    BY <1>0, <1>5 DEF ReadPauseStart, MoveCall, contextVars
  <2>2. Accounted(0)
    BY <2>1 DEF Undisturbed, AccountsRight
  <2>3. PauseRead(c)'
    BY <1>0, <1>2, <2>1, <2>2 DEF PauseRead, Accounted
  <2> QED
    BY <1>3, <1>4, <2>1, <2>3 DEF AccountsRight, Paused, Returned
<1>6. CASE StorePauseStart(c)
  <2>1. call[c] = "store" /\ call'[c] = "invoke" /\ pauseStartTimeNs' = stamp[c]
        /\ UNCHANGED totalPausedTimeNs
    BY <1>0, <1>6 DEF StorePauseStart, MoveCall
  <2>2. PauseRead(c)
    BY <2>1 DEF Undisturbed, AccountsRight
  <2>3. PauseStored(c)'
    BY <1>0, <1>2, <2>1, <2>2 DEF PauseRead, PauseStored, Accounted
  <2> QED
    BY <1>3, <1>4, <2>1, <2>3 DEF AccountsRight, Paused, Returned
<1>7. CASE LoadPauseStart(c)
  <2>1. /\ call[c] = "load" /\ stamp'[c] = pauseStartTimeNs
        /\ call'[c] = IF pauseStartTimeNs > 0 THEN "add" ELSE "done"
        /\ UNCHANGED <<totalPausedTimeNs, pauseStartTimeNs>>
    BY <1>0, <1>7 DEF LoadPauseStart, MoveCall, contextVars
  <2>2. PauseStored(c)
    BY <2>1 DEF Undisturbed, AccountsRight, Paused
  <2>3. call'[c] = "add"
    BY <1>0, <2>1, <2>2 DEF PauseStored
  <2>4. PauseStored(c)'
    BY <1>2, <2>1, <2>2 DEF PauseStored, Accounted
  <2> QED
    BY <1>3, <1>4, <2>3, <2>4 DEF AccountsRight, Paused, Returned
<1>8. CASE AddPause(c)
  <2>1. call[c] = "add" /\ call'[c] = "clear"
        /\ totalPausedTimeNs' = totalPausedTimeNs + (now - stamp[c])
    BY <1>0, <1>8 DEF AddPause, MoveCall
  <2>2. PauseStored(c) /\ stamp[c] = pauseStartTimeNs
    BY <2>1 DEF Undisturbed, AccountsRight, Paused, PauseStored
  <2>3. Accounted(0)'
    BY <1>0, <1>2, <2>1, <2>2 DEF PauseStored, Accounted
  <2> QED
    BY <1>3, <1>4, <2>1, <2>3 DEF AccountsRight, Paused, Returned
<1>9. CASE ClearPauseStart(c)
  <2>1. call[c] = "clear" /\ call'[c] = "done" /\ UNCHANGED totalPausedTimeNs
    BY <1>0, <1>9 DEF ClearPauseStart, MoveCall
  <2>2. Accounted(0)
    BY <2>1 DEF Undisturbed, AccountsRight
  <2>3. Accounted(0)'
    BY <1>2, <2>1, <2>2 DEF Accounted
  <2> QED
    BY <1>3, <1>4, <2>1, <2>3 DEF AccountsRight, Paused, Returned
<1> QED
  BY <1>5, <1>6, <1>7, <1>8, <1>9

(***************************************************************************)
(* The call that takes the count to 0 is the last in progress; after any   *)
(* other one somebody is still inside, and the pause goes on.              *)
(***************************************************************************)
LEMMA EndKeeps ==
  ASSUME Undisturbed, NEW c \in Downstream, EndCall(c)
  PROVE  PausesAlone' /\ AccountsRight'
<1>0. /\ call \in [Downstream -> Places] /\ call[c] = "invoke" /\ c \in Pushed
      /\ \A d \in Downstream : d # c => call'[d] = call[d]
      /\ UNCHANGED <<now, stamp, pauseStartTimeNs, totalPausedTimeNs, inside, engaged>>
  BY DEF EndCall, MoveCall, timeHistory, Undisturbed, TimingType, Pushed, CallsAt
<1>1. \A d \in Downstream : call[d] \notin Pausing
  BY <1>0 DEF Undisturbed, PausesAlone, Returned, Pausing
<1>2. 0 < pauseStartTimeNs /\ Accounted(now - pauseStartTimeNs)
  BY <1>0 DEF Undisturbed, AccountsRight, PauseStored, Paused
<1>3. CASE LastCall
  <2>1. call'[c] = "load"
    BY <1>0, <1>3 DEF EndCall, MoveCall
  <2>2. \A d \in Downstream : d # c => Returned(d)
    <3>1. \A d \in Pushed : d = c
      BY <1>0, <1>3, CountFacts DEF LastCall, Undisturbed
    <3> QED
      BY <1>0, <1>1, <3>1 DEF Pushed, CallsAt, Pausing, Places, Returned
  <2>3. PausesAlone'
    BY <1>0, <2>1, <2>2 DEF PausesAlone, Returned, Pausing
  <2>4. AccountsRight'
    BY <1>0, <1>2, <2>1, <2>2
       DEF AccountsRight, Accounted, Returned, Paused, PauseStored
  <2> QED
    BY <2>3, <2>4
<1>4. CASE ~LastCall
  <2>1. call'[c] = "done"
    BY <1>0, <1>4 DEF EndCall, MoveCall
  <2>2. PICK d \in Pushed : d # c
    BY <1>0, <1>4, CountFacts DEF LastCall, Undisturbed
  <2>3. d \in Downstream /\ call'[d] = "invoke"
    BY <1>0, <1>1, <2>2 DEF Pushed, CallsAt, Pausing
  <2>4. \A e \in Downstream : call'[e] \notin Pausing
    BY <1>0, <1>1, <2>1 DEF Pausing
  <2>5. PausesAlone'
    BY <2>4 DEF PausesAlone
  <2>6. AccountsRight'
    BY <1>0, <1>2, <2>3, <2>4
       DEF AccountsRight, Accounted, Returned, Paused, PauseStored, Pausing
  <2> QED
    BY <2>5, <2>6
<1> QED
  BY <1>3, <1>4


(***************************************************************************)
(* The clock: time inside an invoker is time paused, and time paused is    *)
(* time with a call in progress.                                           *)
(***************************************************************************)
LEMMA ClockKeeps ==
  ASSUME Undisturbed, TimeGoesOn
  PROVE  PausesAlone' /\ AccountsRight'
<1>0. /\ call \in [Downstream -> Places] /\ stamp \in [Downstream -> Nat]
      /\ now \in Nat \ {0} /\ pauseStartTimeNs \in Nat /\ pauseStartTimeNs <= now
      /\ totalPausedTimeNs \in Nat /\ inside \in Nat /\ engaged \in Nat
      /\ \A c \in Downstream : stamp[c] <= now
      /\ UNCHANGED <<call, stamp, pauseStartTimeNs, totalPausedTimeNs>>
      /\ now' = now + 1
  BY DEF TimeGoesOn, contextVars, Undisturbed, TimingType
<1>1. /\ inside' = inside \/ inside' = inside + 1
      /\ engaged' = engaged \/ engaged' = engaged + 1
      /\ inside' # inside => \E c \in Downstream : call[c] = "invoke"
      /\ (\E c \in Downstream : ~Returned(c)) => engaged' = engaged + 1
      /\ (\A c \in Downstream : Returned(c)) => engaged' = engaged
  BY <1>0 DEF TimeGoesOn, InvokerCalls, CallsAt
<1>2. PausesAlone'
  BY <1>0 DEF Undisturbed, PausesAlone, Returned
<1>3. ASSUME NEW c \in Downstream, call[c] \in Paused PROVE PauseStored(c)'
  <2>1. engaged' = engaged + 1
    BY <1>1, <1>3 DEF Returned, Paused
  <2>2. PauseStored(c)
    BY <1>3 DEF Undisturbed, AccountsRight
  <2> QED
    BY <1>0, <1>1, <2>1, <2>2 DEF PauseStored, Accounted
<1>4. ASSUME NEW c \in Downstream, call[c] \in {"store", "pause", "clear"}
      PROVE  engaged' = engaged + 1 /\ inside' = inside
  <2>1. engaged' = engaged + 1
    BY <1>1, <1>4 DEF Returned
  <2>2. \A d \in Downstream : call[d] # "invoke"
    BY <1>4, AloneWhenPausing DEF Pausing, Returned
  <2> QED
    BY <1>1, <2>1, <2>2
<1>5. ASSUME NEW c \in Downstream, call[c] = "store" PROVE PauseRead(c)'
  <2>1. PauseRead(c)
    BY <1>5 DEF Undisturbed, AccountsRight
  <2> QED
    BY <1>0, <1>4, <1>5, <2>1 DEF PauseRead
<1>6. ASSUME NEW c \in Downstream, call[c] \in {"pause", "clear"} PROVE Accounted(0)'
  <2>1. Accounted(0)
    BY <1>6 DEF Undisturbed, AccountsRight
  <2> QED
    BY <1>0, <1>4, <1>6, <2>1 DEF Accounted
<1>7. ASSUME \A c \in Downstream : Returned(c) PROVE Accounted(0)'
  <2>1. Accounted(0)
    BY <1>7 DEF Undisturbed, AccountsRight
  <2> QED
    BY <1>0, <1>1, <1>7, <2>1 DEF Accounted, Returned
<1>8. AccountsRight'
  BY <1>0, <1>3, <1>5, <1>6, <1>7 DEF AccountsRight, Returned
<1> QED
  BY <1>2, <1>8

LEMMA RestKeeps ==
  ASSUME Undisturbed, Measured \/ UNCHANGED timingVars
  PROVE  PausesAlone' /\ AccountsRight'
<1>1. UNCHANGED <<now, call, stamp, pauseStartTimeNs, totalPausedTimeNs, inside, engaged>>
  BY DEF Measured, MeasureRequest, timingVars, contextVars, timeHistory
<1> QED
  BY <1>1 DEF Undisturbed, PausesAlone, AccountsRight, PauseStored, PauseRead, Accounted,
     Returned

-----------------------------------------------------------------------------
LEMMA TimingAtFirst == RequestInit => TimingInv
<1> SUFFICES ASSUME RequestInit PROVE TimingInv
  OBVIOUS
<1>1. PICK calls : TimingInit(calls)
  BY DEF RequestInit
<1>2. TimingType
  <2>1. call \in [Downstream -> Places]
    BY <1>1 DEF TimingInit, Places
  <2>2. stamp \in [Downstream -> Nat] /\ \A c \in Downstream : stamp[c] <= now
    BY <1>1 DEF TimingInit
  <2>3. request \in {"running", "measured"} /\ disturbed \in BOOLEAN
    BY <1>1 DEF TimingInit
  <2> QED
    BY <1>1, <2>1, <2>2, <2>3 DEF TimingInit, TimingType
<1>3. \A c \in Downstream : Returned(c)
  BY <1>1 DEF TimingInit, Returned
<1>4. CountRight
  <2>1. Pushed = {}
    BY <1>3 DEF Pushed, CallsAt, Returned
  <2> QED
    BY <1>1, <2>1, FS_EmptySet DEF TimingInit, CountRight
<1>5. PausesAlone
  BY <1>3 DEF PausesAlone
<1>6. AccountsRight
  BY <1>1, <1>3 DEF AccountsRight, Accounted, TimingInit, Returned, Paused
<1>7. MeasuredRight
  BY <1>1, <1>3 DEF MeasuredRight, TimingInit
<1> QED
  BY <1>2, <1>4, <1>5, <1>6, <1>7 DEF TimingInv

LEMMA TimingStays == TimingInv /\ [RequestNext]_requestVars => TimingInv'
<1> SUFFICES ASSUME TimingInv, [RequestNext]_requestVars PROVE TimingInv'
  OBVIOUS
<1>1. TimingType' /\ CountRight' /\ MeasuredRight'
  BY TypesStay, CountStays, MeasuredStays DEF TimingInv
<1>2. ASSUME ~disturbed' PROVE PausesAlone' /\ AccountsRight'
  <2>1. ~disturbed
    <3>1. CASE \E c \in Downstream : TimingClientInterceptor(c)
      BY <1>2, <3>1 DEF TimingClientInterceptor, BeginCall, ReadPauseStart,
         StorePauseStart, EndCall, LoadPauseStart, AddPause, ClearPauseStart
    <3>2. CASE TimeGoesOn \/ Measured \/ UNCHANGED timingVars
      BY <1>2, <3>2 DEF TimeGoesOn, Measured, MeasureRequest, timingVars
    <3> QED
      BY <3>1, <3>2 DEF RequestNext, TimingNext, requestVars
  <2>2. Undisturbed
    BY <2>1 DEF TimingInv, Undisturbed
  <2> QED
    BY <1>2, <2>2, BeginKeeps, PausingKeeps, EndKeeps, ClockKeeps, RestKeeps
       DEF RequestNext, TimingNext, TimingClientInterceptor, requestVars
<1> QED
  BY <1>1, <1>2 DEF TimingInv

(***************************************************************************)
(* Unless a call began while another was opening or closing a pause, what  *)
(* a measured request counts as blocked lies between the time its calls    *)
(* spent in their invokers and the time they took altogether               *)
(* (timing_interceptor.go).                                                *)
(***************************************************************************)
THEOREM PausesWithinCalls == RequestSpec => []PausedWithinCalls
<1>1. TimingInv => PausedWithinCalls
  <2> SUFFICES ASSUME TimingInv, request = "measured", ~disturbed
               PROVE  /\ totalPausedTimeNs \in inside .. engaged
                      /\ processingTime \in (now - 1) - engaged .. (now - 1) - inside
    BY DEF PausedWithinCalls
  <2>1. Accounted(0) /\ processingTime = (now - 1) - totalPausedTimeNs
    BY DEF TimingInv, MeasuredRight, AccountsRight
  <2>2. now \in Nat /\ totalPausedTimeNs \in Nat /\ inside \in Nat /\ engaged \in Nat
    BY DEF TimingInv, TimingType
  <2> QED
    BY <2>1, <2>2 DEF Accounted
<1> QED
  BY TimingAtFirst, TimingStays, <1>1, PTL DEF RequestSpec

-----------------------------------------------------------------------------
(***************************************************************************)
(* The totals of the sampler, and with them where every request is.        *)
(***************************************************************************)

\* A sample as it is kept.

Sample == [requests : Int, deltas : [Events -> Int]]

\* A sample is in the making from the reading of the counters until it is
\* appended, and has no window until the receive.
TakingRight ==
  /\ loop \in {"receive", "append"} =>
       \E r \in Sample : taking = <<r>> /\ (loop = "receive" => r.requests = 0)
  /\ loop \notin {"receive", "append"} => taking = <<>>

Sampled == samples \o taking
RequestsRight ==
  measured = Requests(Sampled) + Sum(timingChan) + windowRequests + droppedRequests
DeltasRight ==
  /\ \A e \in Events : (Deltas(Sampled, e) + lost[e]) % CountWord = last_values[e]
  /\ lost[EventCount] = 0

SampledType ==
  /\ measured \in Int /\ windowRequests \in Int /\ droppedRequests \in Int
  /\ timingChan \in Seq(Int) /\ samples \in Seq(Sample)
  /\ counters \in [Events -> [CPUs -> Int]]
  /\ last_values \in [Events -> 0..(CountWord - 1)] /\ lost \in [Events -> 0..(CountWord - 1)]

TotalsInv == SampledType /\ TakingRight /\ RequestsRight /\ DeltasRight

LEMMA SeqEqual ==
  ASSUME NEW s, s \in Seq(Int), NEW t, t \in Seq(Int), Len(s) = Len(t),
         \A i \in 1..Len(s) : s[i] = t[i]
  PROVE  s = t
OBVIOUS

LEMMA SamplesAdded ==
  ASSUME NEW s, s \in Seq(Sample)
  PROVE  /\ [i \in DOMAIN s |-> s[i].requests] \in Seq(Int)
         /\ \A e \in Events : [i \in DOMAIN s |-> s[i].deltas[e]] \in Seq(Int)
<1>1. DOMAIN s = 1..Len(s) /\ Len(s) \in Nat
  OBVIOUS
<1>2. ASSUME NEW i \in 1..Len(s) PROVE s[i].requests \in Int /\ s[i].deltas \in [Events -> Int]
  <2>1. s[i] \in Sample
    OBVIOUS
  <2> QED
    BY <2>1 DEF Sample
<1> QED
  BY <1>1, <1>2

\* A sample that is added adds its requests and its delta.
LEMMA OneMoreSample ==
  ASSUME NEW s, s \in Seq(Sample), NEW r \in Sample
  PROVE  /\ s \o <<r>> = Append(s, r)
         /\ Append(s, r) \in Seq(Sample)
         /\ Requests(Append(s, r)) = Requests(s) + r.requests
         /\ \A e \in Events : Deltas(Append(s, r), e) = (Deltas(s, e) + r.deltas[e]) % CountWord
<1> SUFFICES ASSUME NEW e \in Events
             PROVE  /\ s \o <<r>> = Append(s, r)
                    /\ Append(s, r) \in Seq(Sample)
                    /\ Requests(Append(s, r)) = Requests(s) + r.requests
                    /\ Deltas(Append(s, r), e) = (Deltas(s, e) + r.deltas[e]) % CountWord
  <2>1. 1 \in Events
    BY SamplerAssumption DEF Events
  <2> QED
    BY <2>1
<1> DEFINE a == Append(s, r)
           R(t) == [i \in DOMAIN t |-> t[i].requests]
           D(t) == [i \in DOMAIN t |-> t[i].deltas[e]]
           d == r.deltas[e]
<1>1. s \o <<r>> = a /\ a \in Seq(Sample)
  OBVIOUS
<1>2. r.requests \in Int /\ d \in Int
  BY DEF Sample
<1>3. DOMAIN a = 1..(Len(s) + 1) /\ Len(s) \in Nat /\ a[Len(s) + 1] = r
      /\ DOMAIN s = 1..Len(s) /\ \A i \in 1..Len(s) : a[i] = s[i]
  OBVIOUS
<1>4. R(s) \in Seq(Int) /\ D(s) \in Seq(Int) /\ R(a) \in Seq(Int) /\ D(a) \in Seq(Int)
  BY <1>1, SamplesAdded
<1>5. Len(R(s)) = Len(s) /\ Len(R(a)) = Len(s) + 1 /\ Len(D(s)) = Len(s) /\ Len(D(a)) = Len(s) + 1
  BY <1>3
<1> HIDE DEF a
<1>6. R(a) = Append(R(s), r.requests)
  <2>1. \A i \in 1..(Len(s) + 1) : R(a)[i] = Append(R(s), r.requests)[i]
    BY <1>2, <1>3, <1>4, <1>5
  <2>2. Len(Append(R(s), r.requests)) = Len(s) + 1 /\ Append(R(s), r.requests) \in Seq(Int)
    BY <1>2, <1>4, <1>5
  <2> HIDE DEF R
  <2> QED
    BY <1>4, <1>5, <2>1, <2>2, SeqEqual
<1>7. D(a) = Append(D(s), d)
  <2>1. \A i \in 1..(Len(s) + 1) : D(a)[i] = Append(D(s), d)[i]
    BY <1>2, <1>3, <1>4, <1>5
  <2>2. Len(Append(D(s), d)) = Len(s) + 1 /\ Append(D(s), d) \in Seq(Int)
    BY <1>2, <1>4, <1>5
  <2> HIDE DEF D
  <2> QED
    BY <1>4, <1>5, <2>1, <2>2, SeqEqual
<1>8. Requests(a) = Requests(s) + r.requests
  BY <1>2, <1>4, <1>6, SumAppend DEF Requests
<1>9. Sum(D(a)) = Sum(D(s)) + d /\ Sum(D(s)) \in Int
  BY <1>2, <1>4, <1>7, SumAppend, SumType
<1>10. Deltas(a, e) = Sum(D(a)) % CountWord /\ Deltas(s, e) = Sum(D(s)) % CountWord
  BY DEF Deltas
<1>11. (Sum(D(s)) + d) % CountWord = (Deltas(s, e) + d) % CountWord
  <2> HIDE DEF D
  <2> QED
    BY <1>2, <1>9, <1>10, ModAdds, SamplerAssumption
<1> QED
  BY <1>1, <1>8, <1>9, <1>10, <1>11 DEF a

LEMMA WordSmall ==
  ASSUME NEW W \in Nat \ {0}, NEW x \in 0..(W - 1)
  PROVE  x % W = x
<1>1. x = W * 0 + x
  OBVIOUS
<1> QED
  BY <1>1, ModUnique

\* What was sampled is a sequence of samples.
LEMMA TakenSampled == TotalsInv => Sampled \in Seq(Sample)
<1> SUFFICES ASSUME TotalsInv PROVE Sampled \in Seq(Sample)
  OBVIOUS
<1>1. samples \in Seq(Sample)
  BY DEF TotalsInv, SampledType
<1>2. CASE loop \in {"receive", "append"}
  <2>1. PICK r \in Sample : taking = <<r>>
    BY <1>2 DEF TotalsInv, TakingRight
  <2> QED
    BY <1>1, <2>1, OneMoreSample DEF Sampled
<1>3. CASE loop \notin {"receive", "append"}
  <2>1. taking = <<>>
    BY <1>3 DEF TotalsInv, TakingRight
  <2> QED
    BY <1>1, <2>1 DEF Sampled
<1> QED
  BY <1>2, <1>3

LEMMA NoSamples == Requests(<<>>) = 0 /\ \A e \in Events : Deltas(<<>>, e) = 0
<1> SUFFICES ASSUME NEW e PROVE Requests(<<>>) = 0 /\ Deltas(<<>>, e) = 0
  OBVIOUS
<1>1. [i \in DOMAIN <<>> |-> <<>>[i].requests] = <<>> /\ [i \in DOMAIN <<>> |-> <<>>[i].deltas[e]] = <<>>
  OBVIOUS
<1>2. Requests(<<>>) = 0 /\ Deltas(<<>>, e) = 0 % CountWord
  BY <1>1, SumEmpty DEF Requests, Deltas
<1>3. 0 % CountWord = 0
  BY SamplerAssumption, ModUnique
<1> QED
  BY <1>2, <1>3

\* No sample in the making adds nothing.
LEMMA SampledAs ==
  ASSUME NEW s, s \in Seq(Sample)
  PROVE  /\ s \o <<>> = s
         /\ Requests(s) \in Int /\ \A e \in Events : Deltas(s, e) \in Int
<1>1. s \o <<>> = s
  OBVIOUS
<1>2. Requests(s) \in Int
  BY SamplesAdded, SumType DEF Requests
<1>3. ASSUME NEW e \in Events PROVE Deltas(s, e) \in Int
  <2>1. Sum([i \in DOMAIN s |-> s[i].deltas[e]]) \in Int
    BY SamplesAdded, SumType
  <2> QED
    BY <2>1, SamplerAssumption, DivMod DEF Deltas
<1> QED
  BY <1>1, <1>2, <1>3

LEMMA TotalsInit == RequestInit => TotalsInv
<1> SUFFICES ASSUME RequestInit PROVE TotalsInv
  OBVIOUS
<1> USE SamplerAssumption DEF RequestInit, SamplerInit
<1>1. SampledType
  BY DEF SampledType, NoDeltas
<1>2. TakingRight
  BY DEF TakingRight
<1>3. Sampled = <<>> /\ timingChan = <<>>
  BY DEF Sampled
<1>4. RequestsRight
  BY <1>3, NoSamples, SumEmpty DEF RequestsRight
<1>5. DeltasRight
  <2>1. 0 % CountWord = 0
    BY WordSmall
  <2>2. lost = NoDeltas /\ last_values = NoDeltas /\ EventCount \in Events
    BY DEF Events
  <2> QED
    BY <1>3, <2>1, <2>2, NoSamples DEF DeltasRight, NoDeltas
<1> QED
  BY <1>1, <1>2, <1>4, <1>5 DEF TotalsInv

LEMMA TotalsRequest ==
  ASSUME TotalsInv, AddRequest PROVE TotalsInv'
<1>1. Sampled' = Sampled /\ timingChan' = timingChan /\ last_values' = last_values /\ lost' = lost
  BY DEF AddRequest, loopState, Sampled, perfState
<1>2. SampledType' /\ TakingRight'
  BY DEF TotalsInv, SampledType, TakingRight, AddRequest, loopState, perfState
<1>3. RequestsRight'
  <2>1. Requests(Sampled) \in Int /\ Sum(timingChan) \in Int
    BY TakenSampled, SampledAs, SumType DEF TotalsInv, SampledType
  <2> QED
    BY <1>1, <2>1 DEF TotalsInv, RequestsRight, AddRequest, SampledType
<1> QED
  BY <1>1, <1>2, <1>3 DEF TotalsInv, DeltasRight

\* A window goes into the channel or is counted as dropped.
LEMMA TotalsSend ==
  ASSUME TotalsInv, SendWindow PROVE TotalsInv'
<1>1. Sampled' = Sampled /\ last_values' = last_values /\ lost' = lost /\ measured' = measured
  BY DEF SendWindow, loopState, Sampled, perfState
<1>2. windowRequests \in Int /\ timingChan \in Seq(Int) /\ droppedRequests \in Int /\ measured \in Int
  BY DEF TotalsInv, SampledType
<1>3. /\ windowRequests' \in Int /\ droppedRequests' \in Int /\ timingChan' \in Seq(Int)
      /\ Sum(timingChan') + droppedRequests' + windowRequests' = Sum(timingChan) + droppedRequests + windowRequests
  <2>1. Sum(timingChan) \in Int
    BY <1>2, SumType
  <2>2. windowRequests' = 0
    BY DEF SendWindow
  <2>3. CASE Len(timingChan) < ChannelCapacity
    <3>1. timingChan' = Append(timingChan, windowRequests) /\ droppedRequests' = droppedRequests
      BY <2>3 DEF SendWindow
    <3>2. Sum(timingChan') = Sum(timingChan) + windowRequests
      BY <1>2, <3>1, SumAppend
    <3>3. timingChan' \in Seq(Int)
      BY <1>2, <3>1
    <3> QED
      BY <1>2, <2>1, <2>2, <3>1, <3>2, <3>3
  <2>4. CASE ~(Len(timingChan) < ChannelCapacity)
    <3>1. timingChan' = timingChan /\ droppedRequests' = droppedRequests + windowRequests
      BY <2>4 DEF SendWindow
    <3> QED
      BY <1>2, <2>1, <2>2, <3>1
  <2> QED
    BY <2>3, <2>4
<1>4. SampledType' /\ TakingRight'
  <2>1. samples' = samples /\ taking' = taking /\ loop' = loop /\ counters' = counters
    BY DEF SendWindow, loopState, perfState
  <2> QED
    BY <1>1, <1>2, <1>3, <2>1 DEF TotalsInv, SampledType, TakingRight
<1>5. RequestsRight'
  <2>1. Requests(Sampled) \in Int /\ Sum(timingChan) \in Int /\ Sum(timingChan') \in Int
    BY <1>2, <1>3, TakenSampled, SampledAs, SumType
  <2>2. measured = Requests(Sampled) + Sum(timingChan) + windowRequests + droppedRequests
    BY DEF TotalsInv, RequestsRight
  <2>3. measured = Requests(Sampled) + Sum(timingChan') + windowRequests' + droppedRequests'
    <3>1. PICK a \in Int, b \in Int, c \in Int, e \in Int :
            a = Requests(Sampled) /\ b = Sum(timingChan) /\ c = windowRequests /\ e = droppedRequests
      BY <1>2, <2>1
    <3>2. PICK f \in Int, g \in Int, h \in Int :
            f = Sum(timingChan') /\ g = windowRequests' /\ h = droppedRequests'
      BY <1>3, <2>1
    <3>3. f + h + g = b + e + c
      BY <1>3, <3>1, <3>2
    <3>4. a + b + c + e = a + f + g + h
      BY <3>3
    <3>5. measured = a + b + c + e
      BY <2>2, <3>1
    <3> QED
      BY <3>2, <3>1, <3>4, <3>5
  <2> QED
    BY <1>1, <2>3 DEF RequestsRight
<1> QED
  BY <1>1, <1>4, <1>5 DEF TotalsInv, DeltasRight

LEMMA TotalsCount ==
  ASSUME TotalsInv, NEW e \in Events, NEW p \in CPUs, Count(e, p) PROVE TotalsInv'
<1>1. SampledType'
  <2>1. counters' \in [Events -> [CPUs -> Int]]
    BY DEF Count, TotalsInv, SampledType
  <2> QED
    BY <2>1 DEF Count, TotalsInv, SampledType, aggregatorState, loopState
<1> QED
  BY <1>1 DEF TotalsInv, TakingRight, Sampled, RequestsRight, DeltasRight, Count, aggregatorState, loopState

\* What is read is a number of the word, and the growth is taken in the word.
LEMMA GrowthRight ==
  ASSUME SampledType, NEW F, NEW e \in Events
  PROVE  /\ Total(e, F) \in 0..(CountWord - 1) /\ Delta(e, F) \in Int
         /\ (last_values[e] + Delta(e, F)) % CountWord = Total(e, F)
<1> DEFINE l == last_values[e]
           total == Total(e, F)
<1>1. l \in 0..(CountWord - 1) /\ counters[e] \in [CPUs -> Int]
  BY DEF SampledType
<1>2. total \in 0..(CountWord - 1)
  <2> DEFINE read == [q \in CPUs |-> IF q \in F[e] THEN 0 ELSE counters[e][q]]
  <2>1. read \in Seq(Int)
    <3>1. CPUCount \in Nat /\ CPUs = 1..CPUCount
      BY SamplerAssumption DEF CPUs
    <3> QED
      BY <1>1, <3>1
  <2>2. Sum(read) \in Int
    <3> HIDE DEF read
    <3> QED
      BY <2>1, SumType
  <2>3. total = Sum(read) % CountWord
    BY DEF Total
  <2> HIDE DEF read, total
  <2> QED
    BY <2>2, <2>3, SamplerAssumption, DivMod
<1>3. Delta(e, F) = IF l = 0 THEN total ELSE (total - l) % CountWord
  BY DEF Delta
<1> HIDE DEF l, total
<1>4. total % CountWord = total
  BY <1>2, SamplerAssumption, WordSmall
<1>5. Delta(e, F) \in Int /\ (l + Delta(e, F)) % CountWord = total
  <2>1. CASE l = 0
    BY <1>2, <1>3, <1>4, <2>1
  <2>2. CASE l # 0
    <3>1. total - l \in Int /\ l \in Int /\ (total - l) + l = total
      BY <1>1, <1>2, SamplerAssumption
    <3> DEFINE g == total - l
    <3> HIDE DEF g
    <3>2. g \in Int /\ g + l = total
      BY <3>1 DEF g
    <3>3. g % CountWord \in Int /\ ((g % CountWord) + l) % CountWord = (g + l) % CountWord
      <4>1. CountWord \in Nat \ {0} /\ l \in Int
        BY <3>1, SamplerAssumption
      <4>2. g % CountWord \in Int
        BY <3>2, <4>1, DivMod
      <4> QED
        BY <3>2, <4>1, <4>2, ModAdds
    <3>4. Delta(e, F) = g % CountWord
      BY <1>3, <2>2 DEF g
    <3>5. (g % CountWord) + l = l + (g % CountWord)
      BY <3>1, <3>3
    <3> QED
      BY <1>4, <3>2, <3>3, <3>4, <3>5
  <2> QED
    BY <2>1, <2>2
<1> QED
  BY <1>2, <1>5 DEF l, total

\* Growth that goes into a sample, or that is lost, is in the sum either way.
LEMMA GrowthAccounted ==
  ASSUME NEW W \in Nat \ {0}, NEW s \in Int, NEW x \in Int, NEW g \in Int
  PROVE  /\ (((s + g) % W) + x) % W = (((s + x) % W) + g) % W
         /\ (s + ((x + g) % W)) % W = (((s + x) % W) + g) % W
<1>1. s + g \in Int /\ s + x \in Int /\ x + g \in Int
  OBVIOUS
<1>2. ((s + g) + x) % W = (((s + g) % W) + x) % W
  BY <1>1, ModAdds
<1>3. ((s + x) + g) % W = (((s + x) % W) + g) % W
  BY <1>1, ModAdds
<1>4. ((x + g) + s) % W = (((x + g) % W) + s) % W
  BY <1>1, ModAdds
<1>5. (s + g) + x = (s + x) + g /\ (x + g) + s = (s + x) + g
  OBVIOUS
<1>6. (x + g) % W \in Int
  BY <1>1, DivMod
<1>7. ((x + g) % W) + s = s + ((x + g) % W)
  BY <1>6
<1> QED
  BY <1>2, <1>3, <1>4, <1>5, <1>7

LEMMA TotalsReading ==
  ASSUME TotalsInv, NEW last, StartSample(last) PROVE TotalsInv'
<1>1. /\ samples' = samples /\ timingChan' = timingChan /\ measured' = measured
      /\ windowRequests' = windowRequests /\ droppedRequests' = droppedRequests
      /\ counters' = counters
  BY DEF StartSample, aggregatorState
<1>2. /\ SampledType /\ samples \in Seq(Sample)
      /\ last_values \in [Events -> 0..(CountWord - 1)] /\ lost \in [Events -> 0..(CountWord - 1)]
  BY DEF TotalsInv, SampledType
<1>3. taking = <<>> /\ Sampled = samples
  <2>1. taking = <<>>
    BY DEF StartSample, TotalsInv, TakingRight
  <2> QED
    BY <1>2, <2>1, SampledAs DEF Sampled
<1>4. /\ Requests(samples) \in Int /\ lost[EventCount] = 0
      /\ \A e \in Events : Deltas(samples, e) \in Int
           /\ (Deltas(samples, e) + lost[e]) % CountWord = last_values[e]
  BY <1>2, <1>3, SampledAs DEF TotalsInv, DeltasRight
<1>5. CASE perfHandle # "open"
  BY <1>1, <1>3, <1>5 DEF StartSample, TotalsInv, SampledType, TakingRight, Sampled, RequestsRight, DeltasRight
<1>6. ASSUME perfHandle = "open", NEW F \in [Events -> SUBSET CPUs], ReadPerfCounters(F), loop' = "receive"
      PROVE  TotalsInv'
  <2> DEFINE whole == Reached(F) = Events
             d == IF whole THEN [e \in Events |-> Delta(e, F)] ELSE NoDeltas
             r == [requests |-> 0, deltas |-> d]
  <2>1. /\ taking' = <<r>>
        /\ last_values' = [e \in Events |-> IF e \in Reached(F) THEN Total(e, F) ELSE last_values[e]]
        /\ lost' = [e \in Events |-> IF e \in Reached(F) /\ ~whole THEN (lost[e] + Delta(e, F)) % CountWord
                                     ELSE lost[e]]
    BY <1>6 DEF ReadPerfCounters, NoWindow
  <2> HIDE DEF whole
  <2>2. d \in [Events -> Int]
    BY <1>2, GrowthRight DEF NoDeltas
  <2>3. last_values' \in [Events -> 0..(CountWord - 1)]
    BY <1>2, <2>1, GrowthRight
  <2>4. lost' \in [Events -> 0..(CountWord - 1)]
    <3>1. ASSUME NEW e \in Events PROVE (lost[e] + Delta(e, F)) % CountWord \in 0..(CountWord - 1)
      <4>1. lost[e] + Delta(e, F) \in Int
        <5>1. lost[e] \in Int /\ Delta(e, F) \in Int
          BY <1>2, GrowthRight, SamplerAssumption
        <5> QED
          BY <5>1
      <4> QED
        BY <4>1, SamplerAssumption, DivMod
    <3> QED
      BY <1>2, <2>1, <3>1
  <2>5. whole => \A e \in Events : e \in Reached(F)
    BY DEF whole
  <2>6. EventCount \in Reached(F) => whole
    <3>1. EventCount \in Nat /\ Events = 1..EventCount
      BY SamplerAssumption DEF Events
    <3> QED
      BY <3>1 DEF Reached, whole
  <2>7. r \in Sample /\ r.requests = 0 /\ r.deltas = d
    BY <2>2 DEF Sample
  <2>8. Sampled' = samples \o <<r>>
    BY <1>1, <2>1 DEF Sampled
  <2>9. /\ Requests(Sampled') = Requests(samples) + 0
        /\ \A e \in Events : Deltas(Sampled', e) = (Deltas(samples, e) + d[e]) % CountWord
    <3> HIDE DEF r, d
    <3>1. Requests(samples \o <<r>>) = Requests(samples) + r.requests
      BY <1>2, <2>7, OneMoreSample
    <3>2. \A e \in Events : Deltas(samples \o <<r>>, e) = (Deltas(samples, e) + r.deltas[e]) % CountWord
      BY <1>2, <2>7, OneMoreSample
    <3> QED
      BY <2>7, <2>8, <3>1, <3>2
  <2>10. ASSUME NEW e \in Events PROVE (Deltas(Sampled', e) + lost'[e]) % CountWord = last_values'[e]
    <3> DEFINE s == Deltas(samples, e)
               x == lost[e]
               g == Delta(e, F)
    <3>1. /\ s \in Int /\ x \in Int /\ g \in Int /\ (s + x) % CountWord = last_values[e]
          /\ (last_values[e] + g) % CountWord = Total(e, F)
      BY <1>2, <1>4, GrowthRight, SamplerAssumption
    <3>2. /\ (((s + g) % CountWord) + x) % CountWord = Total(e, F)
          /\ (s + ((x + g) % CountWord)) % CountWord = Total(e, F)
      <4> HIDE DEF s, x, g
      <4> QED
        BY <3>1, GrowthAccounted, SamplerAssumption
    <3>3. Deltas(Sampled', e) = (s + d[e]) % CountWord
      BY <2>9
    <3>4. CASE whole
      <4>1. lost'[e] = x /\ last_values'[e] = Total(e, F) /\ d[e] = g
        BY <2>1, <2>5, <3>4
      <4> HIDE DEF s, x, g, d
      <4> QED
        BY <3>2, <3>3, <4>1
    <3>5. CASE ~whole
      <4>1. d[e] = 0 /\ s + 0 = s
        BY <3>1, <3>5 DEF NoDeltas
      <4>2. s % CountWord = s
        <5>1. Sum([i \in DOMAIN samples |-> samples[i].deltas[e]]) \in Int
          BY <1>2, SamplesAdded, SumType
        <5>2. s \in 0..(CountWord - 1)
          BY <5>1, SamplerAssumption, DivMod DEF Deltas
        <5> HIDE DEF s
        <5> QED
          BY <5>2, SamplerAssumption, WordSmall
      <4>3. Deltas(Sampled', e) = s
        BY <3>3, <4>1, <4>2
      <4>4. CASE e \in Reached(F)
        <5>1. lost'[e] = (x + g) % CountWord /\ last_values'[e] = Total(e, F)
          BY <2>1, <3>5, <4>4
        <5> HIDE DEF s, x, g
        <5> QED
          BY <3>2, <4>3, <5>1
      <4>5. CASE e \notin Reached(F)
        <5>1. lost'[e] = x /\ last_values'[e] = last_values[e]
          BY <2>1, <4>5
        <5> HIDE DEF s, x, g
        <5> QED
          BY <3>1, <4>3, <5>1
      <4> QED
        BY <4>4, <4>5
    <3> QED
      BY <3>4, <3>5
  <2>11. lost'[EventCount] = 0
    <3>1. EventCount \in Events
      BY SamplerAssumption DEF Events
    <3> QED
      BY <1>4, <2>1, <2>6, <3>1
  <2>12. SampledType'
    BY <1>1, <2>3, <2>4 DEF TotalsInv, SampledType
  <2>13. TakingRight'
    BY <1>6, <2>1, <2>7 DEF TakingRight
  <2>14. RequestsRight'
    <3>1. Requests(Sampled') = Requests(Sampled)
      BY <1>3, <1>4, <2>9
    <3> QED
      BY <1>1, <3>1 DEF TotalsInv, RequestsRight
  <2>15. DeltasRight'
    BY <2>10, <2>11 DEF DeltasRight
  <2> QED
    BY <2>12, <2>13, <2>14, <2>15 DEF TotalsInv
<1> QED
  BY <1>5, <1>6 DEF StartSample

\* A window that is received leaves the channel for the sample.
LEMMA TotalsReceive ==
  ASSUME TotalsInv, ReceiveWindow PROVE TotalsInv'
<1>1. /\ samples' = samples /\ measured' = measured /\ loop = "receive" /\ loop' = "append"
      /\ windowRequests' = windowRequests /\ droppedRequests' = droppedRequests
      /\ counters' = counters /\ last_values' = last_values /\ lost' = lost
  BY DEF ReceiveWindow, aggregatorState, perfState
<1>2. PICK r \in Sample : taking = <<r>> /\ r.requests = 0
  BY <1>1 DEF TotalsInv, TakingRight
<1>3. samples \in Seq(Sample) /\ timingChan \in Seq(Int) /\ measured \in Int
      /\ windowRequests \in Int /\ droppedRequests \in Int
  BY DEF TotalsInv, SampledType
<1>4. CASE timingChan = <<>>
  <2>1. taking' = taking /\ timingChan' = timingChan
    BY <1>4 DEF ReceiveWindow, WindowsLeft
  <2>2. TakingRight'
    BY <1>1, <1>2, <2>1 DEF TakingRight
  <2> QED
    BY <1>1, <2>1, <2>2 DEF TotalsInv, SampledType, Sampled, RequestsRight, DeltasRight
<1>5. CASE timingChan # <<>>
  <2> DEFINE q == [r EXCEPT !.requests = Head(timingChan)]
             h == Head(timingChan)
  <2>1. h \in Int /\ Tail(timingChan) \in Seq(Int)
    BY <1>3, <1>5
  <2>2. taking' = <<q>> /\ timingChan' = Tail(timingChan)
    BY <1>2, <1>5 DEF ReceiveWindow, WindowsLeft
  <2> HIDE DEF h
  <2>3. q \in Sample /\ q.requests = h /\ q.deltas = r.deltas
    BY <2>1 DEF Sample, h
  <2> HIDE DEF q
  <2>4. Sampled = samples \o <<r>> /\ Sampled' = samples \o <<q>>
    BY <1>1, <1>2, <2>2 DEF Sampled
  <2>5. /\ Requests(Sampled) = Requests(samples) + 0 /\ Requests(Sampled') = Requests(samples) + h
        /\ \A e \in Events : Deltas(Sampled', e) = Deltas(Sampled, e)
    <3>1. /\ Requests(samples \o <<r>>) = Requests(samples) + r.requests
          /\ Requests(samples \o <<q>>) = Requests(samples) + q.requests
      BY <1>2, <1>3, <2>3, OneMoreSample
    <3>2. \A e \in Events : Deltas(samples \o <<r>>, e) = (Deltas(samples, e) + r.deltas[e]) % CountWord
      BY <1>2, <1>3, OneMoreSample
    <3>3. \A e \in Events : Deltas(samples \o <<q>>, e) = (Deltas(samples, e) + q.deltas[e]) % CountWord
      BY <1>3, <2>3, OneMoreSample
    <3> QED
      BY <1>2, <2>3, <2>4, <3>1, <3>2, <3>3
  <2>6. Sum(timingChan) = h + Sum(Tail(timingChan)) /\ Sum(Tail(timingChan)) \in Int
        /\ Requests(samples) \in Int
    BY <1>3, <1>5, <2>1, SumTail, SumType, SampledAs DEF h
  <2>7. RequestsRight'
    BY <1>1, <1>3, <2>1, <2>2, <2>5, <2>6 DEF TotalsInv, RequestsRight
  <2>8. SampledType'
    BY <1>1, <2>1, <2>2 DEF TotalsInv, SampledType
  <2>9. TakingRight'
    BY <1>1, <2>2, <2>3 DEF TakingRight
  <2> QED
    BY <1>1, <2>5, <2>7, <2>8, <2>9 DEF TotalsInv, DeltasRight
<1> QED
  BY <1>4, <1>5

\* A sample that is appended was counted before.
LEMMA TotalsAppend ==
  ASSUME TotalsInv, AppendSample PROVE TotalsInv'
<1>1. /\ timingChan' = timingChan /\ measured' = measured /\ loop = "append" /\ loop' \in {"over", "select"}
      /\ windowRequests' = windowRequests /\ droppedRequests' = droppedRequests
      /\ counters' = counters /\ last_values' = last_values /\ lost' = lost
      /\ samples' = Sampled /\ taking' = <<>>
  BY DEF AppendSample, aggregatorState, perfState, Sampled
<1>2. Sampled \in Seq(Sample)
  BY TakenSampled
<1>3. Sampled' = Sampled
  BY <1>1, <1>2, SampledAs DEF Sampled
<1>4. TakingRight'
  BY <1>1 DEF TakingRight
<1> QED
  BY <1>1, <1>2, <1>3, <1>4 DEF TotalsInv, SampledType, RequestsRight, DeltasRight

LEMMA TotalsStep == TotalsInv /\ [RequestNext]_requestVars => TotalsInv'
<1> SUFFICES ASSUME TotalsInv, [RequestNext]_requestVars PROVE TotalsInv'
  OBVIOUS
<1> DEFINE Still == UNCHANGED <<measured, windowRequests, droppedRequests, timingChan, counters, last_values, lost,
                                samples, taking, loop>>
<1>1. ASSUME Still PROVE TotalsInv'
  BY <1>1 DEF TotalsInv, SampledType, TakingRight, Sampled, RequestsRight, DeltasRight
<1>2. CASE FlusherStep
  BY <1>1, <1>2 DEF FlusherStep, StartFlush, EndFlush, FlusherLeaves, FlusherStays, aggregatorState, perfState, loopState
<1>3. CASE StopStep
  BY <1>1, <1>3 DEF StopStep, RunTimesOut, CancelRun, CleanUp, SaveRun, StopStays, aggregatorState, loopState
<1>4. CASE SamplingStep
  BY <1>4, TotalsReading, TotalsReceive, TotalsAppend DEF SamplingStep, Tick, LastSample
<1>5. CASE UNCHANGED samplerVars
  BY <1>1, <1>5 DEF samplerVars, aggregatorState, perfState, loopState
<1>6. CASE SamplerNext
  BY <1>2, <1>3, <1>4, <1>6, TotalsRequest, TotalsSend, TotalsCount DEF SamplerNext
<1>7. CASE Measured
  BY <1>7, TotalsRequest DEF Measured
<1> QED
  BY <1>5, <1>6, <1>7 DEF RequestNext, requestVars

\* Every request that was measured is in exactly one place on its way into the
\* file or was counted as dropped, and the deltas of the samples add up to the
\* last reading of each event, less what readings dropped that failed at a later
\* event, for any number of events and processors and any size of the channel.
THEOREM TotalsAlwaysAddUp == RequestSpec => []TotalsAddUp
<1>1. TotalsInv => TotalsAddUp
  BY DEF TotalsInv, RequestsRight, DeltasRight, TotalsAddUp, Sampled
<1> QED
  BY <1>1, TotalsInit, TotalsStep, PTL DEF RequestSpec
=============================================================================
