-------------------------- MODULE ClientPoolProofs --------------------------
(***************************************************************************)
(* Proofs about ClientPool, for any number of threads, any pool sizes and  *)
(* any number of calls.                                                    *)
(***************************************************************************)
EXTENDS ClientPool, FiniteSetTheorems, TLAPS

USE ThreadsAssumption, PoolAssumption, ClientsAssumption

-----------------------------------------------------------------------------
(***************************************************************************)
(* The threads at given places: one step moves one thread, or two when a   *)
(* notification wakes another.                                             *)
(***************************************************************************)
Places == {"idle", "wait", "woken", "late", "connect", "use", "remove", "notify"}

At(labels) == {t \in Threads : pc[t] \in labels}

LEMMA AtFinite ==
  ASSUME NEW labels
  PROVE  IsFiniteSet(At(labels)) /\ Cardinality(At(labels)) \in Nat
<1>1. At(labels) \subseteq Threads
  BY DEF At
<1>2. QED
  BY <1>1, FS_Subset, FS_CardinalityType

LEMMA AtEnter ==
  ASSUME pc \in [Threads -> Places], NEW t \in Threads, NEW labels, NEW b,
         pc' = [pc EXCEPT ![t] = b], pc[t] \notin labels, b \in labels
  PROVE  Cardinality(At(labels)') = Cardinality(At(labels)) + 1
<1>1. At(labels)' = At(labels) \cup {t} /\ t \notin At(labels)
  BY DEF At
<1>2. QED
  BY <1>1, AtFinite, FS_AddElement

LEMMA AtLeave ==
  ASSUME pc \in [Threads -> Places], NEW t \in Threads, NEW labels, NEW b,
         pc' = [pc EXCEPT ![t] = b], pc[t] \in labels, b \notin labels
  PROVE  Cardinality(At(labels)') = Cardinality(At(labels)) - 1
<1>1. At(labels)' = At(labels) \ {t} /\ t \in At(labels)
  BY DEF At
<1>2. QED
  BY <1>1, AtFinite, FS_RemoveElement

LEMMA AtSame ==
  ASSUME pc \in [Threads -> Places], NEW t \in Threads, NEW labels, NEW b,
         pc' = [pc EXCEPT ![t] = b], pc[t] \in labels <=> b \in labels
  PROVE  At(labels)' = At(labels)
BY DEF At

LEMMA AtMember ==
  ASSUME NEW t \in Threads, NEW labels, pc[t] \in labels
  PROVE  Cardinality(At(labels)) > 0
<1>1. At(labels) # {}
  BY DEF At
<1>2. QED
  BY <1>1, AtFinite, FS_EmptySet

\* The threads whose client is counted, and those awake, as such sets.
Counted == {"connect", "use", "remove"}
AwakePlaces == {"woken", "notify"}

LEMMA CountAt == CurrCountsClients <=> curr = Len(pool) + Cardinality(At(Counted))
<1>1. {t \in Threads : pc[t] \in Holding \cup {"remove"}} = At(Counted)
  BY DEF At, Counted, Holding
<1>2. QED
  BY <1>1 DEF CurrCountsClients

LEMMA CountAtNext ==
  CurrCountsClients' <=> curr' = Len(pool') + Cardinality(At(Counted)')
<1>1. {t \in Threads : pc[t] \in Holding \cup {"remove"}}' = At(Counted)'
  BY DEF At, Counted, Holding
<1>2. QED
  BY <1>1 DEF CurrCountsClients

LEMMA PlacesType == TypeOK => pc \in [Threads -> Places]
BY DEF TypeOK, Places, Holding
-----------------------------------------------------------------------------
(***************************************************************************)
(* Types and count together: that Uncount does not take the count below    *)
(* zero needs the count to include the client that it uncounts.            *)
(***************************************************************************)
PoolInv == TypeOK /\ CurrCountsClients

LEMMA PoolInit == Init => PoolInv
<1> SUFFICES ASSUME Init PROVE PoolInv
  OBVIOUS
<1>1. TypeOK
  <2>1. pool \in Seq(Clients) /\ Len(pool) = MinPool
    BY DEF Init
  <2>2. threw \in BOOLEAN
    BY Zenon DEF Init
  <2>3. QED
    BY <2>1, <2>2 DEF Init, TypeOK, Holding
<1>2. At(Counted) = {}
  BY DEF Init, At, Counted
<1>3. Cardinality(At(Counted)) = 0
  BY <1>2, FS_EmptySet
<1>4. Len(pool) = MinPool /\ curr = MinPool
  BY DEF Init
<1>5. QED
  BY <1>1, <1>3, <1>4, CountAt DEF PoolInv

\* The types after a step that moves one thread and leaves it with client c.
LEMMA TypeStep ==
  ASSUME TypeOK, NEW t \in Threads, NEW b \in Places, NEW c \in Clients \cup {None},
         pc' = [pc EXCEPT ![t] = b], client' = [client EXCEPT ![t] = c],
         b \in Holding <=> c # None,
         pool' \in Seq(Clients), curr' \in 0 .. MaxPool,
         calls' \in [Threads -> 0 .. MaxCalls], threw' \in BOOLEAN
  PROVE  TypeOK'
<1>1. pc' \in [Threads -> Places] /\ client' \in [Threads -> Clients \cup {None}]
  BY PlacesType DEF TypeOK
<1>2. ASSUME NEW u \in Threads PROVE pc'[u] \in Holding <=> client'[u] # None
  <2>1. CASE u = t
    BY <2>1 DEF TypeOK
  <2>2. CASE u # t
    BY <2>2 DEF TypeOK
  <2>3. QED
    BY <2>1, <2>2
<1>3. QED
  BY <1>1, <1>2 DEF TypeOK, Places, Holding

\* A thread that finds a client, or room for one, takes it.
LEMMA TakeStep ==
  ASSUME PoolInv, NEW t \in Threads, pc[t] \in {"idle", "woken", "late"},
         calls' \in [Threads -> 0 .. MaxCalls], Available, Take(t)
  PROVE  PoolInv'
<1> USE PlacesType DEF PoolInv
<1>0. pc[t] \notin Counted /\ client[t] = None
  BY DEF TypeOK, Holding, Counted
<1>1. CASE TakeIdle(t)
  <2>1. /\ Head(pool) \in Clients
        /\ Tail(pool) \in Seq(Clients)
        /\ Len(Tail(pool)) = Len(pool) - 1
    BY <1>1 DEF TakeIdle, TypeOK
  <2>2. TypeOK'
    <3>1. /\ "connect" \in Places /\ "connect" \in Holding
          /\ Head(pool) \in Clients \cup {None} /\ Head(pool) # None
      BY <2>1 DEF Places, Holding
    <3>2. /\ pc' = [pc EXCEPT ![t] = "connect"]
          /\ client' = [client EXCEPT ![t] = Head(pool)]
          /\ pool' \in Seq(Clients) /\ curr' \in 0 .. MaxPool /\ threw' \in BOOLEAN
      BY <1>1, <2>1 DEF TakeIdle, TypeOK
    <3>3. QED
      BY <3>1, <3>2, TypeStep
  <2>3. Cardinality(At(Counted)') = Cardinality(At(Counted)) + 1
    BY <1>0, <1>1, AtEnter DEF TakeIdle, Counted
  <2>4. (curr = Len(pool) + Cardinality(At(Counted)))'
    BY <1>1, <2>1, <2>3, CountAt, AtFinite DEF TakeIdle, TypeOK
  <2>5. QED
    BY <2>2, <2>4, CountAtNext
<1>2. CASE Create(t)
  <2>1. curr' = curr + 1 /\ curr < MaxPool
    BY <1>2 DEF Create, Available
  <2>2. TypeOK'
    <3>1. PICK k \in Fresh : client' = [client EXCEPT ![t] = k]
      BY <1>2 DEF Create
    <3>2. /\ k \in Clients \cup {None} /\ k # None
          /\ "connect" \in Places /\ "connect" \in Holding
      BY DEF Fresh, Places, Holding
    <3>3. /\ pc' = [pc EXCEPT ![t] = "connect"]
          /\ pool' \in Seq(Clients) /\ curr' \in 0 .. MaxPool /\ threw' \in BOOLEAN
      BY <1>2, <2>1 DEF Create, TypeOK
    <3>4. QED
      BY <3>1, <3>2, <3>3, TypeStep
  <2>3. Cardinality(At(Counted)') = Cardinality(At(Counted)) + 1
    BY <1>0, <1>2, AtEnter DEF Create, Counted
  <2>4. (curr = Len(pool) + Cardinality(At(Counted)))'
    BY <1>2, <2>3, CountAt, AtFinite DEF Create, TypeOK
  <2>5. QED
    BY <2>2, <2>4, CountAtNext
<1>3. CASE CreateThrows(t)
  <2>1. TypeOK'
    <3>1. client' = [client EXCEPT ![t] = None]
      BY <1>3, <1>0 DEF CreateThrows, TypeOK
    <3>2. "idle" \in Places /\ "idle" \notin Holding
      BY DEF Places, Holding
    <3>3. /\ pc' = [pc EXCEPT ![t] = "idle"]
          /\ pool' \in Seq(Clients) /\ curr' \in 0 .. MaxPool /\ threw' \in BOOLEAN
      BY <1>3 DEF CreateThrows, TypeOK
    <3>4. QED
      BY <3>1, <3>2, <3>3, TypeStep
  <2>2. At(Counted)' = At(Counted)
    BY <1>0, <1>3, AtSame DEF CreateThrows, Counted
  <2>3. QED
    BY <1>3, <2>1, <2>2, CountAt, CountAtNext DEF CreateThrows
<1>4. QED
  BY <1>1, <1>2, <1>3 DEF Take

\* A step that moves a thread between places that hold no client.
LEMMA MoveStep ==
  ASSUME PoolInv, NEW t \in Threads, NEW b \in Places \ Counted,
         pc[t] \notin Counted, pc' = [pc EXCEPT ![t] = b],
         UNCHANGED <<pool, curr, client, threw>>, calls' \in [Threads -> 0 .. MaxCalls]
  PROVE  PoolInv'
<1>1. TypeOK'
  <2>1. client[t] = None /\ b \notin Holding
    BY DEF PoolInv, TypeOK, Counted, Holding
  <2>2. client' = [client EXCEPT ![t] = None]
    BY <2>1 DEF PoolInv, TypeOK
  <2>3. pool' \in Seq(Clients) /\ curr' \in 0 .. MaxPool /\ threw' \in BOOLEAN
    BY DEF PoolInv, TypeOK
  <2>4. QED
    BY <2>1, <2>2, <2>3, TypeStep DEF PoolInv
<1>2. At(Counted)' = At(Counted)
  BY AtSame, PlacesType DEF PoolInv
<1>3. QED
  BY <1>1, <1>2, CountAt, CountAtNext DEF PoolInv

LEMMA PoolStep == PoolInv /\ [Next]_vars => PoolInv'
<1> SUFFICES ASSUME PoolInv, [Next]_vars PROVE PoolInv'
  OBVIOUS
<1> USE PlacesType DEF PoolInv
<1>0. /\ pool \in Seq(Clients) /\ curr \in 0 .. MaxPool /\ Len(pool) \in Nat
      /\ calls \in [Threads -> 0 .. MaxCalls] /\ threw \in BOOLEAN
  BY DEF TypeOK
<1>1. ASSUME NEW t \in Threads, Pop(t) PROVE PoolInv'
  <2>1. pc[t] = "idle" /\ calls[t] < MaxCalls
    BY <1>1 DEF Pop
  <2>2. calls' \in [Threads -> 0 .. MaxCalls]
    BY <1>0, <1>1, <2>1 DEF Pop
  <2>3. CASE Exhausted
    <3>1. pc' = [pc EXCEPT ![t] = "wait"] /\ UNCHANGED <<pool, curr, client, threw>>
      BY <1>1, <2>3 DEF Pop, Wait
    <3>2. "wait" \in Places \ Counted /\ pc[t] \notin Counted
      BY <2>1 DEF Places, Counted
    <3>3. QED
      BY <2>2, <3>1, <3>2, MoveStep
  <2>4. CASE ~Exhausted
    <3>1. Available /\ Take(t)
      BY <1>0, <1>1, <2>4 DEF Pop, Exhausted, Available
    <3>2. QED
      BY <2>1, <2>2, <3>1, TakeStep
  <2>5. QED
    BY <2>3, <2>4
<1>2. ASSUME NEW t \in Threads, Retry(t) \/ LastTry(t) PROVE PoolInv'
  <2>1. pc[t] \in {"woken", "late"} /\ calls' \in [Threads -> 0 .. MaxCalls]
    BY <1>0, <1>2 DEF Retry, LastTry
  <2>2. CASE Available
    BY <1>2, <2>1, <2>2, TakeStep DEF Retry, LastTry
  <2>3. CASE ~Available
    <3>1. PICK b \in {"wait", "idle"} :
             pc' = [pc EXCEPT ![t] = b] /\ UNCHANGED <<pool, curr, client, threw>>
      BY <1>2, <2>3 DEF Retry, LastTry, Wait
    <3>2. b \in Places \ Counted /\ pc[t] \notin Counted
      BY <2>1 DEF Places, Counted
    <3>3. QED
      BY <2>1, <3>1, <3>2, MoveStep
  <2>4. QED
    BY <2>2, <2>3
<1>3. ASSUME NEW t \in Threads, Deadline(t) \/ SpuriousWakeup(t) PROVE PoolInv'
  <2>1. PICK b \in {"late", "woken"} :
           pc' = [pc EXCEPT ![t] = b] /\ UNCHANGED <<pool, curr, client, calls, threw>>
    BY <1>3 DEF Deadline, SpuriousWakeup
  <2>2. b \in Places \ Counted /\ pc[t] \notin Counted
    BY <1>3 DEF Deadline, SpuriousWakeup, Places, Counted
  <2>3. QED
    BY <1>0, <2>1, <2>2, MoveStep
<1>4. ASSUME NEW t \in Threads, Connect(t) PROVE PoolInv'
  <2>1. /\ pc[t] = "connect" /\ pc' = [pc EXCEPT ![t] = "use"]
        /\ UNCHANGED <<pool, curr, client, calls, threw>>
    BY <1>4 DEF Connect
  <2>2. client[t] # None
    BY <2>1 DEF TypeOK, Holding
  <2>3. client' = [client EXCEPT ![t] = client[t]] /\ client[t] \in Clients \cup {None}
    BY <2>1 DEF TypeOK
  <2>4. "use" \in Places /\ "use" \in Holding
    BY DEF Places, Holding
  <2>5. TypeOK'
    BY <1>0, <2>1, <2>2, <2>3, <2>4, TypeStep
  <2>6. At(Counted)' = At(Counted)
    BY <2>1, AtSame DEF Counted
  <2>7. QED
    BY <2>1, <2>5, <2>6, CountAt, CountAtNext
<1>5. ASSUME NEW t \in Threads, Delete(t) PROVE PoolInv'
  <2>1. /\ pc[t] \in Holding /\ pc' = [pc EXCEPT ![t] = "remove"]
        /\ client' = [client EXCEPT ![t] = None]
        /\ UNCHANGED <<pool, curr, calls, threw>>
    BY <1>5 DEF Delete
  <2>2. "remove" \in Places /\ "remove" \notin Holding
    BY DEF Places, Holding
  <2>3. TypeOK'
    BY <1>0, <2>1, <2>2, TypeStep
  <2>4. At(Counted)' = At(Counted)
    BY <2>1, AtSame DEF Counted, Holding
  <2>5. QED
    BY <2>1, <2>3, <2>4, CountAt, CountAtNext
<1>6. ASSUME NEW t \in Threads, Uncount(t) PROVE PoolInv'
  <2>1. /\ pc[t] = "remove" /\ pc' = [pc EXCEPT ![t] = "notify"]
        /\ curr' = curr - 1
        /\ UNCHANGED <<pool, client, calls, threw>>
    BY <1>6 DEF Uncount
  <2>2. "notify" \in Places /\ "notify" \notin Holding /\ pc[t] \notin Holding
    BY <2>1 DEF Places, Holding
  <2>3. client[t] = None
    BY <2>2 DEF TypeOK
  <2>4. client' = [client EXCEPT ![t] = None]
    BY <2>1, <2>3 DEF TypeOK
  <2>5. Cardinality(At(Counted)) > 0
    BY <2>1, AtMember DEF Counted
  <2>6. curr' \in 0 .. MaxPool
    BY <1>0, <2>1, <2>5, CountAt, AtFinite
  <2>7. TypeOK'
    BY <1>0, <2>1, <2>2, <2>4, <2>6, TypeStep
  <2>8. Cardinality(At(Counted)') = Cardinality(At(Counted)) - 1
    BY <2>1, AtLeave DEF Counted
  <2>9. QED
    BY <1>0, <2>1, <2>7, <2>8, CountAt, CountAtNext, AtFinite
<1>7. ASSUME NEW t \in Threads, Push(t) PROVE PoolInv'
  <2>1. /\ pc[t] = "use" /\ pc' = [pc EXCEPT ![t] = "notify"]
        /\ client' = [client EXCEPT ![t] = None]
        /\ pool' = Append(pool, client[t])
        /\ UNCHANGED <<curr, calls, threw>>
    BY <1>7 DEF Push
  <2>2. "notify" \in Places /\ "notify" \notin Holding /\ pc[t] \in Holding
    BY <2>1 DEF Places, Holding
  <2>3. client[t] \in Clients
    BY <2>2 DEF TypeOK
  <2>4. pool' \in Seq(Clients) /\ Len(pool') = Len(pool) + 1
    BY <1>0, <2>1, <2>3
  <2>5. TypeOK'
    BY <1>0, <2>1, <2>2, <2>4, TypeStep
  <2>6. Cardinality(At(Counted)') = Cardinality(At(Counted)) - 1
    BY <2>1, AtLeave DEF Counted
  <2>7. QED
    BY <1>0, <2>1, <2>4, <2>5, <2>6, CountAt, CountAtNext, AtFinite
<1>8. ASSUME NEW t \in Threads, NotifyOne(t) PROVE PoolInv'
  <2> DEFINE pcIdle == [pc EXCEPT ![t] = "idle"]
  <2>1. pc[t] = "notify" /\ UNCHANGED <<pool, curr, client, calls, threw>>
    BY <1>8 DEF NotifyOne
  <2>2. CASE Waiters = {}
    <3>1. pc' = [pc EXCEPT ![t] = "idle"]
      BY <1>8, <2>2 DEF NotifyOne
    <3>2. "idle" \in Places \ Counted /\ pc[t] \notin Counted
      BY <2>1 DEF Places, Counted
    <3>3. QED
      BY <1>0, <2>1, <3>1, <3>2, MoveStep
  <2>3. CASE Waiters # {}
    <3>1. PICK w \in Waiters : pc' = [pc EXCEPT ![t] = "idle", ![w] = "woken"]
      BY <1>8, <2>3 DEF NotifyOne
    <3>2. w \in Threads /\ pc[w] = "wait" /\ w # t
      BY <2>1 DEF Waiters
    <3>3. pc' \in [Threads -> Places]
      BY <3>1, <3>2 DEF Places
    <3>4. \A u \in Threads : pc'[u] \in Holding <=> pc[u] \in Holding
      BY <2>1, <3>1, <3>2 DEF Holding, TypeOK
    <3>5. TypeOK'
      <4>1. \A u \in Threads : pc'[u] \in Holding <=> client'[u] # None
        BY <2>1, <3>4 DEF TypeOK
      <4>2. QED
        BY <2>1, <3>3, <4>1 DEF TypeOK, Places, Holding
    <3>6. At(Counted)' = At(Counted)
      BY <2>1, <3>1, <3>2 DEF At, Counted, TypeOK
    <3>7. QED
      BY <2>1, <3>5, <3>6, CountAt, CountAtNext
  <2>4. QED
    BY <2>2, <2>3
<1>9. CASE UNCHANGED vars
  BY <1>9 DEF vars, TypeOK, CurrCountsClients, Holding
<1>10. QED
  BY <1>1, <1>2, <1>3, <1>4, <1>5, <1>6, <1>7, <1>8, <1>9 DEF Next, Return

(***************************************************************************)
(* The variables keep their types, and at most MaxPool clients are counted *)
(* (ClientPool.h:82-105).                                                  *)
(***************************************************************************)
THEOREM PoolTypeCorrect == Spec => []TypeOK
<1>1. PoolInv => TypeOK
  BY DEF PoolInv
<1>2. QED
  BY <1>1, PoolInit, PoolStep, PTL DEF Spec

(***************************************************************************)
(* Neither a failed connection, a failed call, an expired client nor a     *)
(* constructor that throws makes the count drift (ClientPool.h:99-138).    *)
(***************************************************************************)
THEOREM CountStaysRight == Spec => []CurrCountsClients
<1>1. PoolInv => CurrCountsClients
  BY DEF PoolInv
<1>2. QED
  BY <1>1, PoolInit, PoolStep, PTL DEF Spec

-----------------------------------------------------------------------------
(***************************************************************************)
(* No lost wakeup.  The invariant is inductive once the types are known:   *)
(* a thread goes to sleep only when nothing is free, whoever frees a unit  *)
(* is about to notify, and whoever takes one uses up at most one of those  *)
(* awake.  A constructor that throws would break it: the thread that was   *)
(* notified goes away and leaves the unit it was woken for.                *)
(***************************************************************************)
LEMMA AwakeAt == Awake = At(AwakePlaces)
BY DEF Awake, At, AwakePlaces

LEMMA AwakeAtNext == Awake' = At(AwakePlaces)'
BY DEF Awake, At, AwakePlaces

Free == Len(pool) + (MaxPool - curr)

Balanced == Waiters # {} => Free <= Cardinality(At(AwakePlaces))

LEMMA WakeAt == NoLostWakeup <=> threw \/ Balanced
BY AwakeAt, Zenon DEF NoLostWakeup, Balanced, Free

LEMMA BalancedNext ==
  Balanced' <=> (Waiters' # {} => Free' <= Cardinality(At(AwakePlaces)'))
BY DEF Balanced

LEMMA WakeInit == Init => threw \/ Balanced
BY DEF Init, Balanced, Waiters

\* Taking a client uses one unit and at most one thread that is awake.
LEMMA TakeWake ==
  ASSUME PoolInv, Balanced, NEW t \in Threads,
         pc[t] \in {"idle", "woken", "late"}, TakeIdle(t) \/ Create(t)
  PROVE  Balanced'
<1> USE PlacesType DEF PoolInv
<1>0. pool \in Seq(Clients) /\ curr \in 0 .. MaxPool /\ Len(pool) \in Nat
  BY DEF TypeOK
<1>1. pc' = [pc EXCEPT ![t] = "connect"] /\ threw' = threw
  BY DEF TakeIdle, Create
<1>2. Free' = Free - 1 /\ Free \in Int
  <2>1. CASE TakeIdle(t)
    BY <1>0, <2>1 DEF TakeIdle, Free
  <2>2. CASE Create(t)
    BY <1>0, <2>2 DEF Create, Free
  <2>3. QED
    BY <2>1, <2>2
<1>3. Waiters' = Waiters
  BY <1>1 DEF Waiters, TypeOK
<1>4. Cardinality(At(AwakePlaces)') >= Cardinality(At(AwakePlaces)) - 1
  <2>1. CASE pc[t] = "woken"
    <3>1. pc[t] \in AwakePlaces /\ "connect" \notin AwakePlaces
      BY <2>1 DEF AwakePlaces
    <3>2. Cardinality(At(AwakePlaces)') = Cardinality(At(AwakePlaces)) - 1
      BY <1>1, <3>1, AtLeave
    <3>3. QED
      BY <3>2, AtFinite
  <2>2. CASE pc[t] # "woken"
    <3>1. Cardinality(At(AwakePlaces)') = Cardinality(At(AwakePlaces))
      BY <1>1, <2>2, AtSame DEF AwakePlaces
    <3>2. QED
      BY <3>1, AtFinite
  <2>3. QED
    BY <2>1, <2>2
<1>5. Cardinality(At(AwakePlaces)) \in Nat /\ Cardinality(At(AwakePlaces)') \in Nat
  <2>1. At(AwakePlaces)' \subseteq Threads
    BY DEF At
  <2>2. QED
    BY <2>1, AtFinite, FS_Subset, FS_CardinalityType
<1>6. QED
  BY <1>2, <1>3, <1>4, <1>5, BalancedNext DEF Balanced

\* When the constructor throws the property no longer asks for anything.
LEMMA AnyTakeWake ==
  ASSUME PoolInv, Balanced, NEW t \in Threads,
         pc[t] \in {"idle", "woken", "late"}, Take(t)
  PROVE  threw' \/ Balanced'
<1>1. CASE CreateThrows(t)
  BY <1>1, Zenon DEF CreateThrows
<1>2. CASE TakeIdle(t) \/ Create(t)
  BY <1>2, TakeWake
<1>3. QED
  BY <1>1, <1>2, Zenon DEF Take

\* A thread that goes to sleep leaves nothing free behind.
LEMMA NothingFree ==
  ASSUME PoolInv, ~Available
  PROVE  Free = 0
BY DEF PoolInv, TypeOK, Available, Free

LEMMA SleepWake ==
  ASSUME PoolInv, NEW t \in Threads, ~Available, UNCHANGED <<pool, curr>>
  PROVE  Balanced'
<1>1. Free' = 0
  BY NothingFree DEF Free
<1>2. At(AwakePlaces)' \subseteq Threads
  BY DEF At
<1>3. Cardinality(At(AwakePlaces)') \in Nat
  BY <1>2, FS_Subset, FS_CardinalityType
<1>4. QED
  BY <1>1, <1>3, BalancedNext

LEMMA WakeStep ==
  ASSUME PoolInv, Balanced, [Next]_vars
  PROVE  threw' \/ Balanced'
<1> USE PlacesType DEF PoolInv
<1>0. /\ pool \in Seq(Clients) /\ curr \in 0 .. MaxPool /\ Len(pool) \in Nat
      /\ Free \in Int
  BY DEF TypeOK, Free
<1>1. ASSUME NEW t \in Threads, Pop(t) PROVE threw' \/ Balanced'
  <2>1. CASE Exhausted
    BY <1>0, <1>1, <2>1, SleepWake DEF Pop, Wait, Exhausted, Available
  <2>2. CASE ~Exhausted
    BY <1>1, <2>2, AnyTakeWake DEF Pop
  <2>3. QED
    BY <2>1, <2>2
<1>2. ASSUME NEW t \in Threads, Retry(t) \/ LastTry(t) PROVE threw' \/ Balanced'
  <2>1. CASE Available
    BY <1>2, <2>1, AnyTakeWake DEF Retry, LastTry
  <2>2. CASE ~Available
    BY <1>2, <2>2, SleepWake DEF Retry, LastTry, Wait
  <2>3. QED
    BY <2>1, <2>2
<1>3. ASSUME NEW t \in Threads, Deadline(t) \/ SpuriousWakeup(t) PROVE Balanced'
  <2>1. PICK b \in {"late", "woken"} :
           pc' = [pc EXCEPT ![t] = b] /\ UNCHANGED <<pool, curr>>
    BY <1>3 DEF Deadline, SpuriousWakeup
  <2>2. pc[t] = "wait" /\ Free' = Free
    BY <1>3, <2>1 DEF Deadline, SpuriousWakeup, Free
  <2>3. Waiters # {} /\ pc[t] \notin AwakePlaces
    BY <2>2 DEF Waiters, AwakePlaces
  <2>4. CASE b = "late"
    BY <2>1, <2>2, <2>3, <2>4, AtSame, BalancedNext DEF Balanced, AwakePlaces
  <2>5. CASE b = "woken"
    <3>1. Cardinality(At(AwakePlaces)') = Cardinality(At(AwakePlaces)) + 1
      BY <2>1, <2>3, <2>5, AtEnter DEF AwakePlaces
    <3>2. QED
      BY <1>0, <2>2, <2>3, <3>1, AtFinite, BalancedNext DEF Balanced
  <2>6. QED
    BY <2>4, <2>5
<1>4. ASSUME NEW t \in Threads, Connect(t) \/ Delete(t) PROVE Balanced'
  <2>1. PICK b \in {"use", "remove"} :
           pc' = [pc EXCEPT ![t] = b] /\ UNCHANGED <<pool, curr>>
    BY <1>4 DEF Connect, Delete
  <2>2. pc[t] \in Holding
    BY <1>4 DEF Connect, Delete, Holding
  <2>3. Waiters' = Waiters /\ Free' = Free
    BY <2>1, <2>2 DEF Waiters, Free, Holding, TypeOK
  <2>4. At(AwakePlaces)' = At(AwakePlaces)
    BY <2>1, <2>2, AtSame DEF AwakePlaces, Holding
  <2>5. QED
    BY <2>3, <2>4, BalancedNext DEF Balanced
<1>5. ASSUME NEW t \in Threads, Uncount(t) \/ Push(t) PROVE Balanced'
  <2>1. /\ pc[t] \in {"remove", "use"} /\ pc' = [pc EXCEPT ![t] = "notify"]
        /\ Free' = Free + 1
    <3>1. CASE Uncount(t)
      BY <1>0, <3>1 DEF Uncount, Free
    <3>2. CASE Push(t)
      <4>1. client[t] \in Clients
        BY <3>2 DEF Push, TypeOK, Holding
      <4>2. Len(pool') = Len(pool) + 1
        BY <1>0, <3>2, <4>1 DEF Push
      <4>3. QED
        BY <1>0, <3>2, <4>2 DEF Push, Free
    <3>3. QED
      BY <1>5, <3>1, <3>2
  <2>2. Waiters' = Waiters
    BY <2>1 DEF Waiters, TypeOK
  <2>3. Cardinality(At(AwakePlaces)') = Cardinality(At(AwakePlaces)) + 1
    BY <2>1, AtEnter DEF AwakePlaces
  <2>4. QED
    BY <1>0, <2>1, <2>2, <2>3, AtFinite, BalancedNext DEF Balanced
<1>6. ASSUME NEW t \in Threads, NotifyOne(t) PROVE Balanced'
  <2>1. pc[t] = "notify" /\ UNCHANGED <<pool, curr>> /\ Free' = Free
    BY <1>6 DEF NotifyOne, Free
  <2>2. CASE Waiters = {}
    <3>1. Waiters' = {}
      BY <1>6, <2>2 DEF NotifyOne, Waiters, TypeOK
    <3>2. QED
      BY <3>1 DEF Balanced
  <2>3. CASE Waiters # {}
    <3>1. PICK w \in Waiters : pc' = [pc EXCEPT ![t] = "idle", ![w] = "woken"]
      BY <1>6, <2>3 DEF NotifyOne
    <3>2. w \in Threads /\ pc[w] = "wait" /\ w # t
      BY <2>1 DEF Waiters
    <3>3. /\ At(AwakePlaces)' = (At(AwakePlaces) \ {t}) \cup {w}
          /\ t \in At(AwakePlaces) /\ w \notin At(AwakePlaces)
      <4>1. \A u \in Threads :
              pc'[u] = IF u = w THEN "woken" ELSE IF u = t THEN "idle" ELSE pc[u]
        BY <3>1, <3>2 DEF TypeOK
      <4>2. QED
        BY <2>1, <3>2, <4>1 DEF At, AwakePlaces
    <3>4. /\ Cardinality(At(AwakePlaces) \ {t}) = Cardinality(At(AwakePlaces)) - 1
          /\ IsFiniteSet(At(AwakePlaces) \ {t})
      BY <3>3, AtFinite, FS_RemoveElement
    <3>5. Cardinality(At(AwakePlaces)') = Cardinality(At(AwakePlaces))
      <4>1. w \notin At(AwakePlaces) \ {t}
        BY <3>3
      <4>2. Cardinality((At(AwakePlaces) \ {t}) \cup {w})
              = Cardinality(At(AwakePlaces) \ {t}) + 1
        BY <3>4, <4>1, FS_AddElement
      <4>3. QED
        BY <3>3, <3>4, <4>2, AtFinite
    <3>6. QED
      BY <2>1, <2>3, <3>5, BalancedNext DEF Balanced
  <2>4. QED
    BY <2>2, <2>3
<1>7. CASE UNCHANGED vars
  BY <1>7 DEF vars, Balanced, Waiters, Free, At
<1>8. QED
  BY <1>1, <1>2, <1>3, <1>4, <1>5, <1>6, <1>7 DEF Next, Return

LEMMA ThrewStays == [Next]_vars /\ threw => threw'
<1> SUFFICES ASSUME [Next]_vars, threw PROVE threw'
  OBVIOUS
<1> USE DEF Take, TakeIdle, Create, CreateThrows, Wait
<1>1. ASSUME NEW t \in Threads, Pop(t) \/ Retry(t) \/ LastTry(t) PROVE threw'
  BY <1>1, Zenon DEF Pop, Retry, LastTry
<1>2. ASSUME NEW t \in Threads, Deadline(t) \/ SpuriousWakeup(t) \/ Connect(t)
      PROVE  threw'
  BY <1>2, Zenon DEF Deadline, SpuriousWakeup, Connect
<1>3. ASSUME NEW t \in Threads, Return(t) PROVE threw'
  BY <1>3, Zenon DEF Return, Delete, Uncount, Push, NotifyOne
<1>4. CASE UNCHANGED vars
  BY <1>4, Zenon DEF vars
<1>5. QED
  BY <1>1, <1>2, <1>3, <1>4, Zenon DEF Next

(***************************************************************************)
(* Until a constructor throws, no wakeup is lost (ClientPool.h:82-98,      *)
(* 122-138).                                                               *)
(***************************************************************************)
THEOREM NoWakeupIsLost == Spec => []NoLostWakeup
<1>1. PoolInv /\ (threw \/ Balanced) /\ [Next]_vars => (threw \/ Balanced)'
  BY WakeStep, ThrewStays, Zenon
<1>2. threw \/ Balanced => NoLostWakeup
  BY WakeAt, Zenon
<1>3. QED
  BY <1>1, <1>2, PoolInit, PoolStep, WakeInit, PTL DEF Spec

-----------------------------------------------------------------------------
(***************************************************************************)
(* Ownership, with the threads' places left out: TypeOK ties them to the   *)
(* clients that the threads hold.                                          *)
(***************************************************************************)
Distinct == \A i, j \in 1 .. Len(pool) : pool[i] = pool[j] => i = j
Apart == \A t \in Threads : \A i \in 1 .. Len(pool) : client[t] # pool[i]
Unshared ==
  \A t, u \in Threads : client[t] = client[u] => t = u \/ client[t] = None

LEMMA OwnerAt == TypeOK => (OneOwner <=> Distinct /\ Apart /\ Unshared)
<1> SUFFICES ASSUME TypeOK PROVE OneOwner <=> Distinct /\ Apart /\ Unshared
  OBVIOUS
<1>1. DOMAIN pool = 1 .. Len(pool) /\ \A i \in 1 .. Len(pool) : pool[i] \in Clients
  BY DEF TypeOK
<1>2. Held \cap InPool = {} <=> Apart
  <2>1. ASSUME Apart PROVE Held \cap InPool = {}
    BY <1>1, <2>1 DEF Apart, Held, InPool
  <2>2. ASSUME Held \cap InPool = {}, NEW t \in Threads, NEW i \in 1 .. Len(pool)
        PROVE  client[t] # pool[i]
    <3>1. CASE pc[t] \in Holding
      BY <1>1, <2>2, <3>1 DEF Held, InPool
    <3>2. CASE pc[t] \notin Holding
      BY <1>1, <3>2 DEF TypeOK
    <3>3. QED
      BY <3>1, <3>2
  <2>3. QED
    BY <2>1, <2>2 DEF Apart
<1>3. QED
  BY <1>1, <1>2 DEF OneOwner, Distinct, Unshared

OwnerInv == Distinct /\ Apart /\ Unshared

LEMMA OwnerInit == Init => OwnerInv
<1> SUFFICES ASSUME Init PROVE OwnerInv
  OBVIOUS
<1>1. Len(pool) = MinPool /\ \A i \in 1 .. Len(pool) : pool[i] \in Clients
  BY DEF Init
<1>2. \A t \in Threads : client[t] = None
  BY DEF Init
<1>3. QED
  BY <1>1, <1>2 DEF Init, OwnerInv, Distinct, Apart, Unshared

LEMMA OwnerTake ==
  ASSUME TypeOK, OwnerInv, NEW t \in Threads, Take(t)
  PROVE  OwnerInv'
<1> USE DEF OwnerInv, Distinct, Apart, Unshared
<1>0. /\ pool \in Seq(Clients) /\ Len(pool) \in Nat
      /\ client \in [Threads -> Clients \cup {None}]
  BY DEF TypeOK
<1>1. CASE TakeIdle(t)
  <2>1. /\ client' = [client EXCEPT ![t] = pool[1]]
        /\ Len(pool) > 0 /\ Len(pool') = Len(pool) - 1
        /\ \A i \in 1 .. Len(pool') : pool'[i] = pool[i + 1] /\ i + 1 \in 1 .. Len(pool)
    BY <1>0, <1>1 DEF TakeIdle
  <2>2. 1 \in 1 .. Len(pool)
    BY <1>0, <2>1
  <2>3. Distinct'
    BY <1>0, <2>1
  <2>4. Apart'
    BY <1>0, <2>1, <2>2
  <2>5. Unshared'
    BY <1>0, <2>1, <2>2
  <2>6. QED
    BY <2>3, <2>4, <2>5
<1>2. CASE Create(t)
  <2>1. PICK k \in Fresh : client' = [client EXCEPT ![t] = k]
    BY <1>2 DEF Create
  <2>2. pool' = pool /\ Len(pool) = 0
    BY <1>2 DEF Create
  <2>3. \A u \in Threads : client[u] # k
    <3>1. k \in Clients /\ k \notin Held
      BY DEF Fresh
    <3>2. QED
      BY <3>1 DEF Held, TypeOK
  <2>4. QED
    BY <1>0, <2>1, <2>2, <2>3
<1>3. CASE CreateThrows(t)
  BY <1>3 DEF CreateThrows
<1>4. QED
  BY <1>1, <1>2, <1>3 DEF Take

LEMMA OwnerStep == TypeOK /\ OwnerInv /\ [Next]_vars => OwnerInv'
<1> SUFFICES ASSUME TypeOK, OwnerInv, [Next]_vars PROVE OwnerInv'
  OBVIOUS
<1>0. /\ pool \in Seq(Clients) /\ Len(pool) \in Nat
      /\ client \in [Threads -> Clients \cup {None}]
  BY DEF TypeOK
<1>1. CASE UNCHANGED <<pool, client>>
  BY <1>1 DEF OwnerInv, Distinct, Apart, Unshared
<1>2. ASSUME NEW t \in Threads, Pop(t) \/ Retry(t) \/ LastTry(t) PROVE OwnerInv'
  BY <1>1, <1>2, OwnerTake DEF Pop, Retry, LastTry, Wait
<1>3. ASSUME NEW t \in Threads, Delete(t) PROVE OwnerInv'
  <2>1. pool' = pool /\ client' = [client EXCEPT ![t] = None]
    BY <1>3 DEF Delete
  <2>2. \A i \in 1 .. Len(pool) : pool[i] \in Clients
    BY <1>0
  <2>3. QED
    BY <1>0, <2>1, <2>2 DEF OwnerInv, Distinct, Apart, Unshared
<1>4. ASSUME NEW t \in Threads, Push(t) PROVE OwnerInv'
  <2>1. /\ pool' = Append(pool, client[t]) /\ client' = [client EXCEPT ![t] = None]
        /\ client[t] \in Clients
    BY <1>4 DEF Push, TypeOK, Holding
  <2>2. /\ Len(pool') = Len(pool) + 1
        /\ \A i \in 1 .. Len(pool) : pool'[i] = pool[i] /\ pool[i] \in Clients
        /\ pool'[Len(pool) + 1] = client[t]
    BY <1>0, <2>1
  <2>3. Distinct'
    BY <1>0, <2>2 DEF OwnerInv, Distinct, Apart
  <2>4. Apart'
    <3>1. ASSUME NEW u \in Threads, NEW i \in 1 .. Len(pool) + 1
          PROVE  client'[u] # pool'[i]
      <4>1. CASE i \in 1 .. Len(pool)
        BY <1>0, <2>1, <2>2, <4>1 DEF OwnerInv, Apart
      <4>2. CASE i = Len(pool) + 1
        BY <1>0, <2>1, <2>2, <4>2 DEF OwnerInv, Unshared
      <4>3. QED
        BY <1>0, <4>1, <4>2
    <3>2. QED
      BY <2>2, <3>1 DEF Apart
  <2>5. Unshared'
    BY <1>0, <2>1 DEF OwnerInv, Unshared
  <2>6. QED
    BY <2>3, <2>4, <2>5 DEF OwnerInv
<1>5. ASSUME NEW t \in Threads,
             Deadline(t) \/ SpuriousWakeup(t) \/ Connect(t) \/ Uncount(t) \/ NotifyOne(t)
      PROVE  OwnerInv'
  BY <1>1, <1>5 DEF Deadline, SpuriousWakeup, Connect, Uncount, NotifyOne
<1>6. CASE UNCHANGED vars
  BY <1>1, <1>6 DEF vars
<1>7. QED
  BY <1>2, <1>3, <1>4, <1>5, <1>6 DEF Next, Return

(***************************************************************************)
(* No client is ever shared by two threads, or handed out while it is in   *)
(* the pool (ClientPool.h:99-105, 122-126).                                *)
(***************************************************************************)
THEOREM ClientsAreOwned == Spec => []OneOwner
<1>1. TypeOK /\ OwnerInv => OneOwner
  BY OwnerAt DEF OwnerInv
<1>2. QED
  BY <1>1, PoolTypeCorrect, OwnerInit, OwnerStep, PTL DEF Spec
=============================================================================
