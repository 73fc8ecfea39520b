----------------------------- MODULE ClientPool -----------------------------
(***************************************************************************)
(* The pool of thrift clients of the social network's services             *)
(* (socialNetwork/src/ClientPool.h): a mutex, a condition variable, a list *)
(* of idle clients and a count of the clients that exist.  A thread pops a *)
(* client, connects it, makes its call, and then either pushes the client  *)
(* back or removes it.                                                     *)
(*                                                                         *)
(* A critical section is one action: nothing in it blocks but the wait of  *)
(* the condition variable, which releases the mutex.  The deletion of a    *)
(* client and the notification are outside it and are steps of their own.  *)
(***************************************************************************)
EXTENDS Integers, Sequences, FiniteSets

CONSTANTS
  Threads,        \* the threads of the server's handler
  Clients,        \* the addresses a client can have on the heap
  MinPool,        \* min_pool_size
  MaxPool,        \* max_pool_size
  MaxCalls,       \* bound: calls of Pop that one thread makes
  None            \* no client

ASSUME ThreadsAssumption == IsFiniteSet(Threads)
ASSUME PoolAssumption == /\ MinPool \in Nat /\ MaxPool \in Nat
                         /\ MinPool <= MaxPool
                         /\ MaxCalls \in Nat
ASSUME ClientsAssumption == None \notin Clients

VARIABLES
  pool,           \* _pool, the idle clients
  curr,           \* _curr_pool_size
  pc,             \* where a thread is
  client,         \* the client a thread holds
  calls,          \* history: calls of Pop a thread has made
  threw           \* history: the constructor of a client has thrown

vars == <<pool, curr, pc, client, calls, threw>>

Holding == {"connect", "use"}
Held == {client[t] : t \in {u \in Threads : pc[u] \in Holding}}
InPool == {pool[i] : i \in DOMAIN pool}
Fresh == Clients \ (Held \cup InPool)

Init ==
  /\ pool \in [1 .. MinPool -> Clients]
  /\ \A i, j \in 1 .. MinPool : pool[i] = pool[j] => i = j
  /\ curr = MinPool
  /\ pc = [t \in Threads |-> "idle"]
  /\ client = [t \in Threads |-> None]
  /\ calls = [t \in Threads |-> 0]
  /\ threw = FALSE

-----------------------------------------------------------------------------
(* Pop.  The loop's condition and the wait's predicate are not each        *)
(* other's negation: they differ once more clients exist than MaxPool.     *)
Exhausted == pool = << >> /\ curr = MaxPool
Available == pool # << >> \/ curr < MaxPool

\* Mutant: the client stays in the pool.
TakeIdleKept(t) ==
  /\ pool # << >>
  /\ client' = [client EXCEPT ![t] = Head(pool)]
  /\ pc' = [pc EXCEPT ![t] = "connect"]
  /\ UNCHANGED <<pool, curr, threw>>

TakeIdle(t) ==
  /\ pool # << >>
  /\ client' = [client EXCEPT ![t] = Head(pool)]
  /\ pool' = Tail(pool)
  /\ pc' = [pc EXCEPT ![t] = "connect"]
  /\ UNCHANGED <<curr, threw>>

Create(t) ==
  /\ pool = << >>
  /\ \E k \in Fresh : client' = [client EXCEPT ![t] = k]
  /\ curr' = curr + 1
  /\ pc' = [pc EXCEPT ![t] = "connect"]
  /\ UNCHANGED <<pool, threw>>

\* The constructor throws (it reads the certificates): the lock is released.
CreateThrows(t) ==
  /\ pool = << >>
  /\ threw' = TRUE
  /\ pc' = [pc EXCEPT ![t] = "idle"]
  /\ UNCHANGED <<pool, curr, client>>

Take(t) == TakeIdle(t) \/ Create(t) \/ CreateThrows(t)

Wait(t) ==
  /\ pc' = [pc EXCEPT ![t] = "wait"]
  /\ UNCHANGED <<pool, curr, client, threw>>

Pop(t) ==
  /\ pc[t] = "idle" /\ calls[t] < MaxCalls
  /\ calls' = [calls EXCEPT ![t] = @ + 1]
  /\ IF Exhausted THEN Wait(t) ELSE Take(t)

\* Notified or not, wait_until returns only if its predicate holds.
Retry(t) ==
  /\ pc[t] = "woken"
  /\ IF Available THEN Take(t) ELSE Wait(t)
  /\ UNCHANGED calls

\* After its deadline it evaluates the predicate once more.
LastTry(t) ==
  /\ pc[t] = "late"
  /\ \/ Available /\ Take(t)
     \/ /\ ~Available
        /\ pc' = [pc EXCEPT ![t] = "idle"]
        /\ UNCHANGED <<pool, curr, client, threw>>
  /\ UNCHANGED calls

Deadline(t) ==
  /\ pc[t] = "wait"
  /\ pc' = [pc EXCEPT ![t] = "late"]
  /\ UNCHANGED <<pool, curr, client, calls, threw>>

SpuriousWakeup(t) ==
  /\ pc[t] = "wait"
  /\ pc' = [pc EXCEPT ![t] = "woken"]
  /\ UNCHANGED <<pool, curr, client, calls, threw>>

Connect(t) ==
  /\ pc[t] = "connect"
  /\ pc' = [pc EXCEPT ![t] = "use"]
  /\ UNCHANGED <<pool, curr, client, calls, threw>>

-----------------------------------------------------------------------------
(* Remove: after a failed connection, after a failed call, or because      *)
(* Keepalive finds the client too old.                                     *)
Delete(t) ==
  /\ pc[t] \in Holding
  /\ client' = [client EXCEPT ![t] = None]
  /\ pc' = [pc EXCEPT ![t] = "remove"]
  /\ UNCHANGED <<pool, curr, calls, threw>>

\* Mutants: the client stays counted; nobody is told.
UncountForgotten(t) ==
  /\ pc[t] = "remove"
  /\ pc' = [pc EXCEPT ![t] = "notify"]
  /\ UNCHANGED <<pool, curr, client, calls, threw>>

UncountSilent(t) ==
  /\ pc[t] = "remove"
  /\ curr' = curr - 1
  /\ pc' = [pc EXCEPT ![t] = "idle"]
  /\ UNCHANGED <<pool, client, calls, threw>>

Uncount(t) ==
  /\ pc[t] = "remove"
  /\ curr' = curr - 1
  /\ pc' = [pc EXCEPT ![t] = "notify"]
  /\ UNCHANGED <<pool, client, calls, threw>>

\* Mutant: nobody is told.
PushSilent(t) ==
  /\ pc[t] = "use"
  /\ pool' = Append(pool, client[t])
  /\ client' = [client EXCEPT ![t] = None]
  /\ pc' = [pc EXCEPT ![t] = "idle"]
  /\ UNCHANGED <<curr, calls, threw>>

\* Keepalive of a client that is young enough.
Push(t) ==
  /\ pc[t] = "use"
  /\ pool' = Append(pool, client[t])
  /\ client' = [client EXCEPT ![t] = None]
  /\ pc' = [pc EXCEPT ![t] = "notify"]
  /\ UNCHANGED <<curr, calls, threw>>

Waiters == {t \in Threads : pc[t] = "wait"}

NotifyOne(t) ==
  /\ pc[t] = "notify"
  /\ \/ /\ Waiters = {}
        /\ pc' = [pc EXCEPT ![t] = "idle"]
     \/ \E w \in Waiters : pc' = [pc EXCEPT ![t] = "idle", ![w] = "woken"]
  /\ UNCHANGED <<pool, curr, client, calls, threw>>

Return(t) == Delete(t) \/ Uncount(t) \/ Push(t) \/ NotifyOne(t)

Next ==
  \E t \in Threads :
     \/ Pop(t) \/ Retry(t) \/ LastTry(t) \/ Deadline(t) \/ SpuriousWakeup(t)
     \/ Connect(t)
     \/ Return(t)

Spec == Init /\ [][Next]_vars

\* A thread that can run does, and a call on a client ends.  Deadlines are
\* not assumed: no waiter should depend on its own.
Fairness ==
  \A t \in Threads :
     WF_vars(Retry(t)) /\ WF_vars(LastTry(t)) /\ WF_vars(Connect(t))
       /\ WF_vars(Return(t))

FairSpec == Spec /\ Fairness

-----------------------------------------------------------------------------
(***************************************************************************)
(* Every variable has its type, and the pool never counts more clients     *)
(* than its maximum (the loop of ClientPool.h:82, the growth of 104).      *)
(***************************************************************************)
TypeOK ==
  /\ pool \in Seq(Clients)
  /\ curr \in 0 .. MaxPool
  /\ pc \in [Threads -> Holding \cup
                {"idle", "wait", "woken", "late", "remove", "notify"}]
  /\ client \in [Threads -> Clients \cup {None}]
  /\ calls \in [Threads -> 0 .. MaxCalls]
  /\ threw \in BOOLEAN
  /\ \A t \in Threads : pc[t] \in Holding <=> client[t] # None

(***************************************************************************)
(* The count is right at every step of every thread: it is the idle        *)
(* clients, those in use and those deleted but not yet uncounted           *)
(* (_curr_pool_size, changed in Pop at ClientPool.h:104 and in Remove at   *)
(* 135).  A unit that leaked would shrink the pool for ever.               *)
(***************************************************************************)
CurrCountsClients ==
  curr = Len(pool)
           + Cardinality({t \in Threads : pc[t] \in Holding \cup {"remove"}})

(***************************************************************************)
(* A client has one owner: it is in the pool once or held by one thread,   *)
(* so that no two threads ever write requests to one socket                *)
(* (ClientPool.h:99-101, 122-126).                                         *)
(***************************************************************************)
OneOwner ==
  /\ \A i, j \in DOMAIN pool : pool[i] = pool[j] => i = j
  /\ Held \cap InPool = {}
  /\ \A t, u \in Threads : client[t] = client[u] => t = u \/ client[t] = None

(***************************************************************************)
(* Until a constructor throws, no wakeup is lost: while threads wait,      *)
(* every client that is idle or may be created is matched by a thread that *)
(* is awake to take it or is about to notify.  It is why one notify_one    *)
(* per Push and one per Remove (ClientPool.h:127, 137), after the unlock,  *)
(* are enough.                                                             *)
(***************************************************************************)
Awake == {t \in Threads : pc[t] \in {"woken", "notify"}}

NoLostWakeup ==
  ~threw /\ Waiters # {} => Len(pool) + (MaxPool - curr) <= Cardinality(Awake)

(***************************************************************************)
(* A thread that waits gets a client, or its deadline passes, or a         *)
(* constructor throws: since calls end, nobody is left asleep beside a     *)
(* free client (ClientPool.h:82-105).                                      *)
(***************************************************************************)
WaiterServed ==
  \A t \in Threads : pc[t] = "wait" ~> pc[t] \in {"connect", "late"} \/ threw
=============================================================================
