-------------------------- MODULE MediaClientPool ---------------------------
(***************************************************************************)
(* The pool of thrift clients of the media services                        *)
(* (mediaMicroservices/src/ClientPool.h).  It differs from the social      *)
(* network's in three ways: a waiter waits for an idle client only, a      *)
(* failed call gives its client back all the same, and a failed connection *)
(* pushes the client back without the mutex and without a notification.    *)
(*                                                                         *)
(* Because of that last push the deque is modelled by its two ends and the *)
(* slots of its memory, and a push by its reads and writes: it reads the   *)
(* end, writes the slot there, reads the end again unless the compiler     *)
(* kept it, and stores the end one further.  Push does so under the mutex, *)
(* a failed connection without it.  A pop may then reach a slot where no   *)
(* client was stored; the memory there may have served the deque before,   *)
(* and hold any client it ever held.                                       *)
(*                                                                         *)
(* Remove has no caller among the media services and is left out, and so   *)
(* is the change to the deque's next block of 64 slots.                    *)
(***************************************************************************)
EXTENDS Integers

CONSTANTS
  Threads,        \* the threads of the server's handler
  Clients,        \* the clients that may be created
  MaxPool,        \* max_pool_size; the services create their pools empty
  MaxCalls,       \* bound: calls of Pop that one thread makes
  None            \* no client, no owner of the mutex

ASSUME PoolAssumption == /\ MaxPool \in Nat /\ MaxCalls \in Nat
                         /\ None \notin Clients \cup Threads

VARIABLES
  start, finish,          \* _pool: the positions of its ends
  slots,                  \* _pool: the clients at the positions stored so far
  curr,                   \* _curr_pool_size
  mutex,                  \* the thread inside Push's critical section
  pc,                     \* where a thread is
  client,                 \* the client a thread holds
  seenEnd,                \* the end of the deque that a push has read
  calls,                  \* history: calls of Pop a thread has made
  refused,                \* history: a connection has failed
  overlapped,             \* history: a push has begun during another
  strayed                 \* history: a pop took a slot nobody stored

pool == <<start, finish, slots>>
history == <<calls, refused, overlapped, strayed>>
vars == <<pool, curr, mutex, pc, client, seenEnd, history>>

Slots == DOMAIN slots

Init ==
  /\ start = 0 /\ finish = 0
  /\ slots = [p \in {} |-> None]
  /\ curr = 0
  /\ mutex = None
  /\ pc = [t \in Threads |-> "idle"]
  /\ client = [t \in Threads |-> None]
  /\ seenEnd = [t \in Threads |-> 0]
  /\ calls = [t \in Threads |-> 0]
  /\ refused = FALSE /\ overlapped = FALSE /\ strayed = FALSE

Goto(t, place) == pc' = [pc EXCEPT ![t] = place]

-----------------------------------------------------------------------------
(* Pop *)
Empty == start = finish

\* Mutant: the client stays in the pool.
TakeFrontKept(t) ==
  /\ ~Empty /\ start \in Slots
  /\ client' = [client EXCEPT ![t] = slots[start]]
  /\ Goto(t, "connect")
  /\ UNCHANGED <<pool, curr, strayed>>

TakeFront(t) ==
  /\ ~Empty /\ start \in Slots
  /\ client' = [client EXCEPT ![t] = slots[start]]
  /\ start' = start + 1
  /\ Goto(t, "connect")
  /\ UNCHANGED <<finish, slots, curr, strayed>>

\* The clients made so far that are not lost.
Known == ({slots[p] : p \in Slots} \cup {client[u] : u \in Threads}) \ {None}

\* The front is a slot where no client was stored: it holds one from before,
\* or no client at all, and Connect crashes.
TakeStray(t) ==
  /\ ~Empty /\ start \notin Slots
  /\ strayed' = TRUE
  /\ \/ /\ pc' = [u \in Threads |-> "crashed"]
        /\ UNCHANGED <<start, client>>
     \/ /\ \E k \in Known : client' = [client EXCEPT ![t] = k]
        /\ start' = start + 1
        /\ Goto(t, "connect")
  /\ UNCHANGED <<finish, slots, curr>>

\* No client is ever deleted: a new one has a new address.
Create(t) ==
  /\ Empty /\ curr < MaxPool
  /\ \E k \in Clients \ Known : client' = [client EXCEPT ![t] = k]
  /\ curr' = curr + 1
  /\ Goto(t, "connect")
  /\ UNCHANGED <<pool, strayed>>

Wait(t) ==
  /\ Empty /\ curr >= MaxPool
  /\ Goto(t, "wait")
  /\ UNCHANGED <<pool, curr, client, strayed>>

Take(t) == TakeFront(t) \/ TakeStray(t)

Pop(t) ==
  /\ mutex = None /\ pc[t] = "idle" /\ calls[t] < MaxCalls
  /\ calls' = [calls EXCEPT ![t] = @ + 1]
  /\ Take(t) \/ Create(t) \/ Wait(t)
  /\ UNCHANGED <<mutex, seenEnd, refused, overlapped>>

\* wait_until returns before its deadline only if there is an idle client.
Retry(t) ==
  /\ mutex = None /\ pc[t] = "woken"
  /\ \/ Take(t)
     \/ Empty /\ Goto(t, "wait") /\ UNCHANGED <<pool, curr, client, strayed>>
  /\ UNCHANGED <<mutex, seenEnd, calls, refused, overlapped>>

LastTry(t) ==
  /\ mutex = None /\ pc[t] = "late"
  /\ \/ Take(t)
     \/ Empty /\ Goto(t, "idle") /\ UNCHANGED <<pool, curr, client, strayed>>
  /\ UNCHANGED <<mutex, seenEnd, calls, refused, overlapped>>

Deadline(t) ==
  /\ pc[t] = "wait"
  /\ Goto(t, "late")
  /\ UNCHANGED <<pool, curr, mutex, client, seenEnd, history>>

SpuriousWakeup(t) ==
  /\ pc[t] = "wait"
  /\ Goto(t, "woken")
  /\ UNCHANGED <<pool, curr, mutex, client, seenEnd, history>>

Connect(t) ==
  /\ pc[t] = "connect"
  /\ Goto(t, "use")
  /\ UNCHANGED <<pool, curr, mutex, client, seenEnd, history>>

-----------------------------------------------------------------------------
(* push_back, by the thread that holds the mutex or by one that does not *)
Pushing(t) == pc[t] \in {"write", "again", "store"}

\* It reads where the end is.
BeginPush(t) ==
  /\ seenEnd' = [seenEnd EXCEPT ![t] = finish]
  /\ overlapped' = (overlapped \/ \E u \in Threads : Pushing(u))
  /\ Goto(t, "write")
  /\ UNCHANGED <<pool, curr, client, calls, strayed>>

\* After Connect threw; the exception follows the push.
ConnectThrows(t) ==
  /\ pc[t] = "connect"
  /\ refused' = TRUE
  /\ BeginPush(t)
  /\ UNCHANGED mutex

\* Push, whether the call on the client succeeded or not.
Lock(t) ==
  /\ pc[t] = "use" /\ mutex = None
  /\ mutex' = t
  /\ BeginPush(t)
  /\ UNCHANGED refused

WriteSlot(t) ==
  /\ pc[t] = "write"
  /\ slots' = [p \in Slots \cup {seenEnd[t]} |->
                 IF p = seenEnd[t] THEN client[t] ELSE slots[p]]
  /\ client' = [client EXCEPT ![t] = None]
  /\ Goto(t, "again")
  /\ UNCHANGED <<start, finish, curr, mutex, seenEnd, history>>

\* The increment of the end reads it again, unless it is still in a register.
ReadAgain(t) ==
  /\ pc[t] = "again"
  /\ \E end \in {finish, seenEnd[t]} : seenEnd' = [seenEnd EXCEPT ![t] = end]
  /\ Goto(t, "store")
  /\ UNCHANGED <<pool, curr, mutex, client, history>>

\* Mutant: nobody is told.
StoreEndSilent(t) ==
  /\ pc[t] = "store"
  /\ finish' = seenEnd[t] + 1
  /\ mutex' = IF mutex = t THEN None ELSE mutex
  /\ seenEnd' = [seenEnd EXCEPT ![t] = 0]
  /\ Goto(t, "idle")
  /\ UNCHANGED <<start, slots, curr, client, history>>

\* Push unlocks and notifies, a failed connection does neither.
StoreEnd(t) ==
  /\ pc[t] = "store"
  /\ finish' = seenEnd[t] + 1
  /\ IF mutex = t THEN mutex' = None /\ Goto(t, "notify")
                  ELSE UNCHANGED mutex /\ Goto(t, "idle")
  /\ seenEnd' = [seenEnd EXCEPT ![t] = 0]
  /\ UNCHANGED <<start, slots, curr, client, history>>

Waiters == {t \in Threads : pc[t] = "wait"}

NotifyOne(t) ==
  /\ pc[t] = "notify"
  /\ \/ Waiters = {} /\ Goto(t, "idle")
     \/ \E w \in Waiters : pc' = [pc EXCEPT ![t] = "idle", ![w] = "woken"]
  /\ UNCHANGED <<pool, curr, mutex, client, seenEnd, history>>

Step(t) ==
  \/ Retry(t) \/ LastTry(t)
  \/ Connect(t) \/ ConnectThrows(t) \/ Lock(t)
  \/ WriteSlot(t) \/ ReadAgain(t) \/ StoreEnd(t) \/ NotifyOne(t)

Next ==
  \E t \in Threads : Pop(t) \/ Deadline(t) \/ SpuriousWakeup(t) \/ Step(t)

Spec == Init /\ [][Next]_vars

\* A thread that can run does, and the mutex is not withheld from it for
\* ever; deadlines are not assumed.
FairSpec == Spec /\ \A t \in Threads : WF_vars(Step(t))

-----------------------------------------------------------------------------
(***************************************************************************)
(* Races of the unlocked push lose clients and move the end of the deque   *)
(* backwards, but a client comes to be in two threads' hands, or in one's  *)
(* while it waits in the pool, only when a pop has taken a slot that no    *)
(* push had stored; and no pop does before two pushes have overlapped      *)
(* (ClientPool.h:100-103, 113).                                            *)
(***************************************************************************)
Disjoint ==
  /\ \A t, u \in Threads : client[t] = client[u] => t = u \/ client[t] = None
  /\ \A t \in Threads : \A p \in Slots \cap (start .. finish - 1) :
       slots[p] # client[t]

NeverShared == (strayed \/ Disjoint) /\ (strayed => overlapped)

(***************************************************************************)
(* A thread that waits gets a client, or its deadline passes, or some      *)
(* connection fails, since calls end (ClientPool.h:76-103).                *)
(***************************************************************************)
WaiterServed ==
  \A t \in Threads : pc[t] = "wait" ~> pc[t] \in {"connect", "late"} \/ refused
=============================================================================
