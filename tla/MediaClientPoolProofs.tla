------------------------ MODULE MediaClientPoolProofs ------------------------
(***************************************************************************)
(* No client of the media services' pool is shared, for any number of      *)
(* threads, any size of the pool and any number of calls, until a pop has  *)
(* taken a slot that no push had stored; and none does until two pushes    *)
(* have overlapped.                                                        *)
(*                                                                         *)
(* Races move the end of the deque backwards, below its start even, and    *)
(* what lies past the end may come back between the ends later.  So the    *)
(* invariant speaks of every slot from the start on, beyond the end too.   *)
(* Of a deque whose pushes have not overlapped it says what one expects:   *)
(* every slot between the ends is stored, and the push under way, of which *)
(* there is one at most, has read the end it will move.                    *)
(***************************************************************************)
EXTENDS MediaClientPool, TLAPS

Places == {"idle", "wait", "woken", "late", "connect", "use", "write", "again",
           "store", "notify", "crashed"}

Holding == {"connect", "use", "write"}

MediaType ==
  /\ start \in Nat /\ finish \in Nat
  /\ Slots \subseteq Nat /\ \A p \in Slots : slots[p] \in Clients
  /\ pc \in [Threads -> Places]
  /\ client \in [Threads -> Clients \cup {None}]
  /\ seenEnd \in [Threads -> Nat]
  /\ \A t \in Threads : pc[t] \in Holding => client[t] # None

HeldByOne ==
  \A t, u \in Threads : client[t] = client[u] => t = u \/ client[t] = None

\* No slot from the start on holds what a thread holds, or another slot.
Waiting(p) == p \in Slots /\ p >= start

HeldOrWaiting ==
  \A t \in Threads, p \in Slots : Waiting(p) => slots[p] # client[t]

WaitsOnce ==
  \A p, q \in Slots : Waiting(p) /\ Waiting(q) /\ slots[p] = slots[q] => p = q

Owned == strayed \/ (HeldByOne /\ HeldOrWaiting /\ WaitsOnce)

\* As long as no two pushes have overlapped.
OnePush == \A t, u \in Threads : Pushing(t) /\ Pushing(u) => t = u

AtTheEnd ==
  \A t \in Threads :
    /\ Pushing(t) => seenEnd[t] = finish
    /\ pc[t] \in {"again", "store"} => finish \in Slots

AllStored == start <= finish /\ \A p \in Nat : start <= p /\ p < finish => p \in Slots

Orderly == overlapped \/ (OnePush /\ AtTheEnd /\ AllStored /\ ~strayed)

MediaInv == MediaType /\ Owned /\ Orderly

-----------------------------------------------------------------------------
Taking(t) == Take(t) \/ Create(t)

(***************************************************************************)
(* The steps that take a client, and the others outside push_back, which   *)
(* leave the deque and the clients where they are.                         *)
(***************************************************************************)
TakingStep(t) ==
  /\ Taking(t)
  /\ pc[t] \notin {"write", "again", "store"}
  /\ UNCHANGED <<seenEnd, overlapped>>

OtherStep ==
  /\ UNCHANGED <<pool, client, seenEnd, overlapped, strayed>>
  /\ pc' \in [Threads -> Places]
  /\ \A u \in Threads : \/ pc'[u] = pc[u]
                        \/ pc'[u] \in {"idle", "wait", "woken", "late"}
                        \/ pc[u] = "connect" /\ pc'[u] = "use"

LEMMA StepKinds ==
  ASSUME MediaType, [Next]_vars
  PROVE  \/ OtherStep
         \/ \E t \in Threads :
              \/ TakingStep(t)
              \/ pc[t] \in {"connect", "use"} /\ BeginPush(t)
              \/ WriteSlot(t) \/ ReadAgain(t) \/ StoreEnd(t)
<1> USE DEF Goto, Places, pool, history
<1>1. ASSUME NEW t \in Threads, Pop(t) PROVE OtherStep \/ TakingStep(t)
  <2>1. CASE Wait(t)
    BY <1>1, <2>1 DEF Pop, Wait, OtherStep, MediaType
  <2>2. CASE Take(t) \/ Create(t)
    BY <1>1, <2>2 DEF Pop, TakingStep, Taking
  <2> QED
    BY <1>1, <2>1, <2>2 DEF Pop
<1>2. ASSUME NEW t \in Threads, Retry(t) \/ LastTry(t) PROVE OtherStep \/ TakingStep(t)
  <2>1. CASE Take(t)
    BY <1>2, <2>1 DEF Retry, LastTry, TakingStep, Taking
  <2>2. CASE ~Take(t)
    BY <1>2, <2>2 DEF Retry, LastTry, OtherStep, MediaType
  <2> QED
    BY <2>1, <2>2
<1>3. ASSUME NEW t \in Threads, Deadline(t) \/ SpuriousWakeup(t) \/ Connect(t)
      PROVE  OtherStep
  BY <1>3 DEF Deadline, SpuriousWakeup, Connect, OtherStep, MediaType
<1>4. ASSUME NEW t \in Threads, NotifyOne(t) PROVE OtherStep
  BY <1>4 DEF NotifyOne, Waiters, OtherStep, MediaType
<1>5. ASSUME NEW t \in Threads, ConnectThrows(t) \/ Lock(t)
      PROVE  pc[t] \in {"connect", "use"} /\ BeginPush(t)
  BY <1>5 DEF ConnectThrows, Lock
<1>6. CASE UNCHANGED vars
  BY <1>6 DEF vars, OtherStep, MediaType
<1> QED
  BY <1>1, <1>2, <1>3, <1>4, <1>5, <1>6 DEF Next, Step

-----------------------------------------------------------------------------
LEMMA OtherStepKeeps ==
  ASSUME MediaInv, OtherStep
  PROVE  MediaInv'
<1>1. UNCHANGED <<start, finish, slots, client, seenEnd, overlapped, strayed>>
  BY DEF OtherStep, pool
<1>2. \A t \in Threads :
        /\ pc'[t] \in {"write", "again", "store"} => pc[t] = pc'[t]
        /\ pc'[t] \in Holding => pc[t] \in Holding
  BY DEF OtherStep, Holding
<1>3. MediaType'
  BY <1>1, <1>2 DEF OtherStep, MediaInv, MediaType, Slots
<1>4. Owned'
  BY <1>1 DEF MediaInv, Owned, HeldByOne, HeldOrWaiting, WaitsOnce, Waiting, Slots
<1>5. Orderly'
  BY <1>1, <1>2 DEF MediaInv, Orderly, OnePush, AtTheEnd, AllStored, Pushing, Slots
<1> QED
  BY <1>3, <1>4, <1>5 DEF MediaInv

(***************************************************************************)
(* A client that is taken was the front's, which no slot behind it holds,  *)
(* or is new; or it came from a slot that was not stored.                  *)
(***************************************************************************)
LEMMA TakingTypes ==
  ASSUME MediaType, NEW t \in Threads, TakingStep(t)
  PROVE  /\ UNCHANGED <<slots, finish>> /\ start' \in {start, start + 1}
         /\ MediaType'
         /\ \A u \in Threads : pc'[u] \in {"connect", "crashed", pc[u]}
         /\ pc'[t] \in {"connect", "crashed"}
<1> USE DEF Goto, Places, pool, MediaType, Holding, TakingStep
<1>1. CASE TakeFront(t)
  BY <1>1, PoolAssumption DEF TakeFront, Slots
<1>2. CASE TakeStray(t)
  <2>1. CASE pc' = [u \in Threads |-> "crashed"] /\ UNCHANGED <<start, client>>
    BY <1>2, <2>1 DEF TakeStray, Slots
  <2>2. CASE ~(pc' = [u \in Threads |-> "crashed"] /\ UNCHANGED <<start, client>>)
    <3>1. /\ start' = start + 1 /\ pc' = [pc EXCEPT ![t] = "connect"]
          /\ UNCHANGED <<slots, finish, seenEnd>>
      BY <1>2, <2>2 DEF TakeStray
    <3>2. PICK k \in Known : client' = [client EXCEPT ![t] = k]
      BY <1>2, <2>2 DEF TakeStray
    <3>3. k \in Clients /\ k # None
      BY <3>2 DEF Known
    <3> QED
      BY <3>1, <3>2, <3>3 DEF Slots
  <2> QED
    BY <2>1, <2>2
<1>3. CASE Create(t)
  BY <1>3, PoolAssumption DEF Create, Slots
<1> QED
  BY <1>1, <1>2, <1>3 DEF Taking, Take

LEMMA TakingOwned ==
  ASSUME MediaInv, NEW t \in Threads, TakingStep(t)
  PROVE  Owned'
<1>0. MediaType /\ Owned
  BY DEF MediaInv
<1> USE DEF Slots
<1>1. CASE TakeStray(t)
  BY <1>1 DEF TakeStray, Owned
<1>2. CASE strayed
  BY <1>2 DEF TakingStep, Taking, Take, TakeFront, TakeStray, Create, Owned
<1>3. CASE TakeFront(t) /\ ~strayed
  <2>1. /\ start \in Slots /\ start' = start + 1 /\ start \in Nat /\ UNCHANGED slots
        /\ client' = [client EXCEPT ![t] = slots[start]]
    BY <1>0, <1>3 DEF TakeFront, MediaType
  <2>2. HeldByOne /\ HeldOrWaiting /\ WaitsOnce
    BY <1>0, <1>3 DEF Owned
  <2>3. client'[t] = slots[start] /\ \A u \in Threads \ {t} : client'[u] = client[u]
    BY <1>0, <2>1 DEF MediaType
  <2>4. \A p \in Slots : p \in Nat
    BY <1>0 DEF MediaType
  <2>5. Waiting(start) /\ \A p \in Slots : Waiting(p)' => Waiting(p) /\ p # start
    BY <2>1, <2>4 DEF Waiting
  <2>6. HeldByOne'
    BY <2>1, <2>2, <2>3, <2>5 DEF HeldByOne, HeldOrWaiting
  <2>7. HeldOrWaiting'
    BY <2>1, <2>2, <2>3, <2>5 DEF HeldOrWaiting, WaitsOnce
  <2>8. WaitsOnce'
    BY <2>1, <2>2, <2>5 DEF WaitsOnce
  <2> QED
    BY <2>6, <2>7, <2>8 DEF Owned
<1>4. CASE Create(t) /\ ~strayed
  <2>1. PICK k \in Clients \ Known : client' = [client EXCEPT ![t] = k]
    BY <1>4 DEF Create
  <2>2. UNCHANGED <<start, slots>>
    BY <1>4 DEF Create, pool
  <2>3. client'[t] = k /\ \A u \in Threads \ {t} : client'[u] = client[u]
    BY <1>0, <2>1 DEF MediaType
  <2>4. (\A u \in Threads : client[u] # k) /\ \A p \in Slots : slots[p] # k
    BY <2>1, PoolAssumption DEF Known
  <2>5. HeldByOne /\ HeldOrWaiting /\ WaitsOnce
    BY <1>0, <1>4 DEF Owned
  <2>6. HeldByOne'
    BY <2>3, <2>4, <2>5 DEF HeldByOne
  <2>7. HeldOrWaiting' /\ WaitsOnce'
    BY <2>2, <2>3, <2>4, <2>5 DEF HeldOrWaiting, WaitsOnce, Waiting
  <2> QED
    BY <2>6, <2>7 DEF Owned
<1> QED
  BY <1>1, <1>2, <1>3, <1>4 DEF TakingStep, Taking, Take

\* No slot between the ends of an orderly deque is not stored.
LEMMA TakingOrderly ==
  ASSUME MediaInv, NEW t \in Threads, TakingStep(t)
  PROVE  Orderly'
<1>0. MediaType /\ Orderly /\ UNCHANGED <<overlapped, seenEnd>>
  BY DEF MediaInv, TakingStep
<1> USE DEF Slots
<1>1. CASE overlapped
  BY <1>0, <1>1 DEF Orderly
<1>2. CASE ~overlapped
  <2>1. OnePush /\ AtTheEnd /\ AllStored /\ ~strayed
    BY <1>0, <1>2 DEF Orderly
  <2>2. ~TakeStray(t)
    BY <1>0, <2>1 DEF TakeStray, Empty, AllStored, MediaType
  <2>3. UNCHANGED <<slots, finish, strayed>>
    BY <2>2 DEF TakingStep, Taking, Take, TakeFront, Create, pool
  <2>4. \A u \in Threads : Pushing(u)' => Pushing(u) /\ pc'[u] = pc[u]
    BY <1>0, TakingTypes DEF Pushing
  <2>5. OnePush' /\ AtTheEnd'
    BY <1>0, <2>1, <2>3, <2>4 DEF OnePush, AtTheEnd, Pushing
  <2>6. AllStored'
    <3>1. start' = start \/ (start' = start + 1 /\ start # finish)
      BY <2>2 DEF TakingStep, Taking, Take, TakeFront, Create, pool, Empty
    <3> QED
      BY <1>0, <2>1, <2>3, <3>1 DEF AllStored, MediaType
  <2> QED
    BY <2>1, <2>3, <2>5, <2>6 DEF Orderly
<1> QED
  BY <1>1, <1>2

-----------------------------------------------------------------------------
(***************************************************************************)
(* The steps of push_back.  The slot is written with the client that the   *)
(* thread gives up, wherever the end was when the push read it.            *)
(***************************************************************************)
LEMMA BeginPushKeeps ==
  ASSUME MediaInv, NEW t \in Threads, pc[t] \in {"connect", "use"}, BeginPush(t)
  PROVE  MediaInv'
<1>0. MediaType /\ Owned /\ Orderly
  BY DEF MediaInv
<1>1. /\ UNCHANGED <<start, finish, slots, client, strayed>>
      /\ seenEnd' = [seenEnd EXCEPT ![t] = finish]
      /\ pc' = [pc EXCEPT ![t] = "write"]
      /\ overlapped' = (overlapped \/ \E u \in Threads : Pushing(u))
  BY DEF BeginPush, Goto, pool
<1>2. MediaType'
  BY <1>0, <1>1 DEF MediaType, Places, Holding, Slots
<1>3. Owned'
  BY <1>0, <1>1 DEF Owned, HeldByOne, HeldOrWaiting, WaitsOnce, Waiting, Slots
<1>4. CASE overlapped'
  BY <1>2, <1>3, <1>4 DEF Orderly, MediaInv
<1>5. CASE ~overlapped'
  <2>1. ~overlapped /\ \A u \in Threads : ~Pushing(u)
    BY <1>1, <1>5
  <2>2. AllStored' /\ ~strayed'
    BY <1>0, <1>1, <2>1 DEF Orderly, AllStored, Slots
  <2>3. /\ pc'[t] = "write" /\ seenEnd'[t] = finish'
        /\ \A u \in Threads \ {t} : ~Pushing(u)'
    BY <1>0, <1>1, <2>1 DEF MediaType, Pushing
  <2>4. OnePush' /\ AtTheEnd'
    BY <2>3 DEF OnePush, AtTheEnd, Pushing
  <2> QED
    BY <1>2, <1>3, <2>2, <2>4 DEF Orderly, MediaInv
<1> QED
  BY <1>2, <1>3, <1>4, <1>5 DEF MediaInv

LEMMA WriteSlotKeeps ==
  ASSUME MediaInv, NEW t \in Threads, WriteSlot(t)
  PROVE  MediaInv'
<1>0. MediaType /\ Owned /\ Orderly
  BY DEF MediaInv
<1> DEFINE q == seenEnd[t]
<1>1. /\ UNCHANGED <<start, finish, seenEnd, strayed, overlapped>>
      /\ slots' = [p \in Slots \cup {q} |-> IF p = q THEN client[t] ELSE slots[p]]
      /\ client' = [client EXCEPT ![t] = None]
      /\ pc[t] = "write" /\ pc' = [pc EXCEPT ![t] = "again"]
  BY DEF WriteSlot, Goto, history
<1>2. /\ Slots' = Slots \cup {q} /\ slots'[q] = client[t] /\ q \in Nat
      /\ \A p \in Slots' : p # q => p \in Slots /\ slots'[p] = slots[p]
  BY <1>0, <1>1 DEF Slots, MediaType
<1>3. /\ client[t] \in Clients /\ client[t] # None /\ client'[t] = None
      /\ \A u \in Threads \ {t} : client'[u] = client[u]
  BY <1>0, <1>1 DEF MediaType, Holding
<1>4. MediaType'
  <2>1. Slots' \subseteq Nat /\ \A p \in Slots' : slots'[p] \in Clients
    BY <1>0, <1>2, <1>3 DEF MediaType
  <2>2. pc' \in [Threads -> Places] /\ client' \in [Threads -> Clients \cup {None}]
    BY <1>0, <1>1 DEF MediaType, Places
  <2>3. \A u \in Threads : pc'[u] \in Holding => client'[u] # None
    BY <1>0, <1>1, <1>3 DEF MediaType, Holding
  <2> QED
    BY <1>0, <1>1, <2>1, <2>2, <2>3 DEF MediaType
<1>5. Owned'
  <2>0. \A p \in Slots' : slots'[p] \in Clients
    BY <1>0, <1>2, <1>3 DEF MediaType
  <2>1. CASE strayed
    BY <1>1, <2>1 DEF Owned
  <2>2. CASE ~strayed
    <3>1. HeldByOne /\ HeldOrWaiting /\ WaitsOnce
      BY <1>0, <2>2 DEF Owned
    <3>2. \A p \in Slots' : Waiting(p)' /\ p # q =>
            p \in Slots /\ Waiting(p) /\ slots'[p] = slots[p] /\ slots[p] # client[t]
      BY <1>1, <1>2, <3>1 DEF Waiting, HeldOrWaiting
    <3>3. HeldByOne'
      BY <1>3, <3>1 DEF HeldByOne
    <3>4. HeldOrWaiting'
      <4> SUFFICES ASSUME NEW u \in Threads, NEW p \in Slots', Waiting(p)'
                   PROVE  slots'[p] # client'[u]
        BY DEF HeldOrWaiting
      <4>1. CASE u = t
        BY <1>3, <2>0, <4>1, PoolAssumption
      <4>2. CASE u # t /\ p = q
        BY <1>2, <1>3, <3>1, <4>2 DEF HeldByOne
      <4>3. CASE u # t /\ p # q
        BY <1>3, <3>1, <3>2, <4>3 DEF HeldOrWaiting
      <4> QED
        BY <4>1, <4>2, <4>3
    <3>5. WaitsOnce'
      BY <1>2, <3>1, <3>2 DEF WaitsOnce
    <3> QED
      BY <3>3, <3>4, <3>5 DEF Owned
  <2> QED
    BY <2>1, <2>2
<1>6. Orderly'
  <2>1. CASE overlapped
    BY <1>1, <2>1 DEF Orderly
  <2>2. CASE ~overlapped
    <3>1. OnePush /\ AtTheEnd /\ AllStored /\ ~strayed
      BY <1>0, <2>2 DEF Orderly
    <3>2. q = finish /\ \A u \in Threads \ {t} : ~Pushing(u)
      BY <1>1, <3>1 DEF AtTheEnd, OnePush, Pushing
    <3>3. \A u \in Threads \ {t} : ~Pushing(u)'
      BY <1>0, <1>1, <3>2 DEF MediaType, Pushing
    <3>4. OnePush' /\ AtTheEnd'
      BY <1>1, <1>2, <3>2, <3>3 DEF OnePush, AtTheEnd, Pushing
    <3>5. AllStored'
      BY <1>1, <1>2, <3>1 DEF AllStored
    <3> QED
      BY <1>1, <3>1, <3>4, <3>5 DEF Orderly
  <2> QED
    BY <2>1, <2>2
<1> QED
  BY <1>4, <1>5, <1>6 DEF MediaInv

LEMMA ReadAgainKeeps ==
  ASSUME MediaInv, NEW t \in Threads, ReadAgain(t)
  PROVE  MediaInv'
<1>0. MediaType /\ Owned /\ Orderly
  BY DEF MediaInv
<1>1. PICK end \in {finish, seenEnd[t]} : seenEnd' = [seenEnd EXCEPT ![t] = end]
  BY DEF ReadAgain
<1>2. /\ UNCHANGED <<start, finish, slots, client, strayed, overlapped>>
      /\ pc[t] = "again" /\ pc' = [pc EXCEPT ![t] = "store"]
  BY DEF ReadAgain, Goto, pool, history
<1>3. MediaType'
  BY <1>0, <1>1, <1>2 DEF MediaType, Places, Holding, Slots
<1>4. Owned'
  BY <1>0, <1>2 DEF Owned, HeldByOne, HeldOrWaiting, WaitsOnce, Waiting, Slots
<1>5. Orderly'
  <2>1. CASE overlapped
    BY <1>2, <2>1 DEF Orderly
  <2>2. CASE ~overlapped
    <3>1. OnePush /\ AtTheEnd /\ AllStored /\ ~strayed
      BY <1>0, <2>2 DEF Orderly
    <3>2. seenEnd[t] = finish /\ finish \in Slots
      BY <1>2, <3>1 DEF AtTheEnd, Pushing
    <3>3. \A u \in Threads : /\ seenEnd'[u] = seenEnd[u] \/ seenEnd'[u] = finish
                             /\ Pushing(u)' => Pushing(u)
                             /\ u # t => pc'[u] = pc[u]
      BY <1>0, <1>1, <1>2 DEF MediaType, Pushing
    <3>4. OnePush' /\ AtTheEnd'
      BY <1>2, <3>1, <3>2, <3>3 DEF OnePush, AtTheEnd, Slots
    <3>5. AllStored'
      BY <1>2, <3>1 DEF AllStored, Slots
    <3> QED
      BY <1>2, <3>1, <3>4, <3>5 DEF Orderly
  <2> QED
    BY <2>1, <2>2
<1> QED
  BY <1>3, <1>4, <1>5 DEF MediaInv

LEMMA StoreEndKeeps ==
  ASSUME MediaInv, NEW t \in Threads, StoreEnd(t)
  PROVE  MediaInv'
<1>0. MediaType /\ Owned /\ Orderly
  BY DEF MediaInv
<1>1. /\ UNCHANGED <<start, slots, client, strayed, overlapped>>
      /\ finish' = seenEnd[t] + 1
      /\ seenEnd' = [seenEnd EXCEPT ![t] = 0]
      /\ pc[t] = "store"
      /\ \E place \in {"notify", "idle"} : pc' = [pc EXCEPT ![t] = place]
  BY DEF StoreEnd, Goto, history
<1>2. MediaType'
  BY <1>0, <1>1 DEF MediaType, Places, Holding, Slots
<1>3. Owned'
  BY <1>0, <1>1 DEF Owned, HeldByOne, HeldOrWaiting, WaitsOnce, Waiting, Slots
<1>4. Orderly'
  <2>1. CASE overlapped
    BY <1>1, <2>1 DEF Orderly
  <2>2. CASE ~overlapped
    <3>1. OnePush /\ AtTheEnd /\ AllStored /\ ~strayed
      BY <1>0, <2>2 DEF Orderly
    <3>2. /\ seenEnd[t] = finish /\ finish \in Slots
          /\ \A u \in Threads \ {t} : ~Pushing(u)
      BY <1>1, <3>1 DEF AtTheEnd, OnePush, Pushing
    <3>3. \A u \in Threads : ~Pushing(u)'
      BY <1>0, <1>1, <3>2 DEF MediaType, Pushing
    <3>4. OnePush' /\ AtTheEnd'
      BY <3>3 DEF OnePush, AtTheEnd, Pushing
    <3>5. AllStored'
      BY <1>0, <1>1, <3>1, <3>2 DEF AllStored, MediaType, Slots
    <3> QED
      BY <1>1, <3>1, <3>4, <3>5 DEF Orderly
  <2> QED
    BY <2>1, <2>2
<1> QED
  BY <1>2, <1>3, <1>4 DEF MediaInv

-----------------------------------------------------------------------------
LEMMA MediaAtFirst == Init => MediaInv
<1> SUFFICES ASSUME Init PROVE MediaInv
  OBVIOUS
<1>1. Slots = {}
  BY DEF Init, Slots
<1>2. MediaType
  BY <1>1 DEF Init, MediaType, Places, Holding
<1>3. Owned
  BY <1>1 DEF Init, Owned, HeldByOne, HeldOrWaiting, WaitsOnce
<1>4. Orderly
  BY DEF Init, Orderly, OnePush, AtTheEnd, AllStored, Pushing
<1> QED
  BY <1>2, <1>3, <1>4 DEF MediaInv

LEMMA MediaInvariant == Spec => []MediaInv
<1>1. MediaInv /\ [Next]_vars => MediaInv'
  <2> SUFFICES ASSUME MediaInv, [Next]_vars PROVE MediaInv'
    OBVIOUS
  <2>1. ASSUME NEW t \in Threads, TakingStep(t) PROVE MediaInv'
    BY <2>1, TakingTypes, TakingOwned, TakingOrderly DEF MediaInv
  <2> QED
    BY <2>1, StepKinds, OtherStepKeeps, BeginPushKeeps, WriteSlotKeeps, ReadAgainKeeps,
       StoreEndKeeps DEF MediaInv
<1> QED
  BY MediaAtFirst, <1>1, PTL DEF Spec

(***************************************************************************)
(* However the pushes race, no client is held by two threads, or by one    *)
(* while it waits in the pool, before a pop takes a slot nobody stored,    *)
(* and none does before two pushes overlap (ClientPool.h:100-103, 113).    *)
(***************************************************************************)
THEOREM ClientsNeverShared == Spec => []NeverShared
<1>1. MediaInv => NeverShared
  <2> SUFFICES ASSUME MediaInv PROVE NeverShared
    OBVIOUS
  <2>1. strayed => overlapped
    BY DEF MediaInv, Orderly
  <2>2. \A p \in start .. finish - 1 : p >= start
    OBVIOUS
  <2>3. strayed \/ Disjoint
    BY <2>2 DEF MediaInv, Owned, Disjoint, HeldByOne, HeldOrWaiting, Waiting
  <2> QED
    BY <2>1, <2>3 DEF NeverShared
<1> QED
  BY MediaInvariant, <1>1, PTL

=============================================================================
