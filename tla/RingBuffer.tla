----------------------------- MODULE RingBuffer -----------------------------
(***************************************************************************)
(* The lock-free ring buffer of hotelReservation's timing interceptor      *)
(* (hotelReservation/interceptor/ringbuffer.go), one action per access to  *)
(* shared memory.  TryPush runs in the goroutines Producers, one call      *)
(* each: a gRPC request reports its timing once, and the datum it reports  *)
(* is identified with it.  PopAll runs in the goroutines Consumers.  The   *)
(* code's comments ask for a single consumer; who really calls PopAll is   *)
(* the matter of TimingAggregator.                                         *)
(*                                                                         *)
(* head, tail and the statistics are Go atomics (sequentially consistent). *)
(* The slots are plain memory: a slot read while a producer is storing     *)
(* into it may return anything the two stores can make of it.              *)
(***************************************************************************)
EXTENDS Integers, Sequences, FiniteSets

CONSTANTS Producers,    \* goroutines that call TryPush, once each
          Consumers,    \* goroutines that call PopAll
          Size,         \* rb.size, a power of two
          Word,         \* 2^64, the modulus of uint64 arithmetic
          MaxRetries,   \* TryPush's maxRetries, 100 in the code
          Zero,         \* the zero TimingData a slot is made with
          Torn          \* a TimingData assembled from two different stores

ASSUME SizeAssumption == Size \in Nat \ {0}
\* NewLockFreeRingBuffer panics otherwise: & mask is % for such a size.
ASSUME PowerOfTwoAssumption == \E k \in 0 .. Size : Size = 2 ^ k
\* Fewer than 2^64 requests in the life of a process.
ASSUME WordAssumption ==
  /\ IsFiniteSet(Producers)
  /\ Word \in Nat
  /\ Cardinality(Producers) + 2 * Size < Word
ASSUME RetryAssumption == MaxRetries \in Nat \ {0}
ASSUME DataAssumption == Zero \notin Producers /\ Torn \notin Producers

VARIABLES
  head,        \* next write position
  tail,        \* next read position
  buffer,      \* the slots
  dropped,     \* droppedCount
  pushed,      \* totalPushed
  pc,          \* where each producer is in TryPush
  seenHead,    \* its currentHead (currentTail dies with the check that loads it)
  retry,       \* its loop counter
  cpc,         \* where each consumer is in PopAll
  from,        \* its currentTail
  available,   \* its available, after the cap to the batch size
  result,      \* its result slice
  early        \* history: positions read while their owner had yet to store

sharedVars == <<head, tail, buffer, dropped, pushed>>
producerVars == <<pc, seenHead, retry>>
consumerVars == <<cpc, from, available, result, early>>
ringVars == <<sharedVars, producerVars, consumerVars>>

Data == Producers \cup {Zero, Torn}
Slots == 0 .. Size - 1

\* uint64 arithmetic: a negative difference wraps to a huge number.
U64(x) == x % Word

\* position & mask
SlotOf(position) == position % Size

RingInit ==
  /\ head = 0
  /\ tail = 0
  /\ buffer = [s \in Slots |-> Zero]
  /\ dropped = 0
  /\ pushed = 0
  /\ pc = [p \in Producers |-> "idle"]
  /\ seenHead = [p \in Producers |-> 0]
  /\ retry = [p \in Producers |-> 0]
  /\ cpc = [c \in Consumers |-> "idle"]
  /\ from = [c \in Consumers |-> 0]
  /\ available = [c \in Consumers |-> 0]
  /\ result = [c \in Consumers |-> << >>]
  /\ early = {}

-----------------------------------------------------------------------------
(***************************************************************************)
(* TryPush                                                                 *)
(***************************************************************************)

Goto(p, label) == pc' = [pc EXCEPT ![p] = label]

\* currentHead := head.Load()
ReadHead(p) ==
  /\ seenHead' = [seenHead EXCEPT ![p] = head]
  /\ Goto(p, "loadTail")
  /\ UNCHANGED <<sharedVars, retry, consumerVars>>

CallTryPush(p) == pc[p] = "idle" /\ ReadHead(p)

LoadHead(p) == pc[p] = "loadHead" /\ ReadHead(p)

\* The full check: size - (currentHead - currentTail) <= 1, in uint64.
NoRoom(h, t) == U64(Size - U64(h - t)) <= 1

LoadTail(p) ==
  /\ pc[p] = "loadTail"
  /\ Goto(p, IF NoRoom(seenHead[p], tail) THEN "drop" ELSE "cas")
  /\ UNCHANGED <<sharedVars, seenHead, retry, consumerVars>>

\* Mutant: a plain store of head instead of the compare-and-swap.
ClaimUnchecked(p) ==
  /\ pc[p] = "cas"
  /\ head' = seenHead[p] + 1
  /\ Goto(p, "write")
  /\ UNCHANGED <<tail, buffer, dropped, pushed, seenHead, retry, consumerVars>>

\* The compare-and-swap takes the slot ...
Claim(p) ==
  /\ pc[p] = "cas"
  /\ head = seenHead[p]
  /\ head' = seenHead[p] + 1
  /\ Goto(p, "write")
  /\ UNCHANGED <<tail, buffer, dropped, pushed, seenHead, retry, consumerVars>>

\* Where a lost race leads.
AfterLostRace(n) == IF n < MaxRetries THEN "loadHead" ELSE "drop"

\* Mutant: tries again with the head it loaded before, and counts no retry.
LoseRaceSpins(p) ==
  /\ pc[p] = "cas"
  /\ head # seenHead[p]
  /\ Goto(p, "cas")
  /\ UNCHANGED <<sharedVars, seenHead, retry, consumerVars>>

\* ... or fails because another producer took it.
LoseRace(p) ==
  /\ pc[p] = "cas"
  /\ head # seenHead[p]
  /\ retry' = [retry EXCEPT ![p] = @ + 1]
  /\ Goto(p, AfterLostRace(retry[p] + 1))
  /\ UNCHANGED <<sharedVars, seenHead, consumerVars>>

\* The producers storing into slot s now, each between its successful
\* compare-and-swap and the end of its store.
Writers(s) == {p \in Producers : pc[p] = "write" /\ SlotOf(seenHead[p]) = s}

\* buffer[idx] = data; two overlapping stores may leave a mixture.
WriteSlot(p) ==
  /\ pc[p] = "write"
  /\ LET s == SlotOf(seenHead[p])
     IN \E d \in {p} \cup (IF Writers(s) = {p} THEN {} ELSE {Torn}) :
          buffer' = [buffer EXCEPT ![s] = d]
  /\ Goto(p, "count")
  /\ UNCHANGED <<head, tail, dropped, pushed, seenHead, retry, consumerVars>>

CountPush(p) ==
  /\ pc[p] = "count"
  /\ pushed' = pushed + 1
  /\ Goto(p, "pushed")
  /\ UNCHANGED <<head, tail, buffer, dropped, seenHead, retry, consumerVars>>

\* Mutant: the full check returns without counting the drop.
CountDropForgotten(p) ==
  /\ pc[p] = "drop"
  /\ Goto(p, "dropped")
  /\ UNCHANGED <<sharedVars, seenHead, retry, consumerVars>>

CountDrop(p) ==
  /\ pc[p] = "drop"
  /\ dropped' = dropped + 1
  /\ Goto(p, "dropped")
  /\ UNCHANGED <<head, tail, buffer, pushed, seenHead, retry, consumerVars>>

PushStep(p) ==
  \/ LoadHead(p) \/ LoadTail(p) \/ Claim(p) \/ LoseRace(p)
  \/ WriteSlot(p) \/ CountPush(p) \/ CountDrop(p)

-----------------------------------------------------------------------------
(***************************************************************************)
(* PopAll                                                                  *)
(***************************************************************************)

CGoto(c, label) == cpc' = [cpc EXCEPT ![c] = label]

\* The call starts with currentTail := tail.Load().
CallPopAll(c) ==
  /\ cpc[c] = "idle"
  /\ from' = [from EXCEPT ![c] = tail]
  /\ CGoto(c, "loadHead")
  /\ UNCHANGED <<sharedVars, producerVars, available, result, early>>

\* available = min(currentHead - currentTail, size)
BatchSize(h, t) == IF U64(h - t) > Size THEN Size ELSE U64(h - t)

PopLoadHead(c) ==
  /\ cpc[c] = "loadHead"
  /\ available' = [available EXCEPT ![c] = BatchSize(head, from[c])]
  /\ CGoto(c, IF BatchSize(head, from[c]) = 0 THEN "return" ELSE "copy")
  /\ UNCHANGED <<sharedVars, producerVars, from, result, early>>

\* The producer that claimed a position, while it has yet to store there.
Owner(position) == {p \in Producers : pc[p] = "write" /\ seenHead[p] = position}

\* result = append(result, buffer[idx]); the slot may be under a store.
CopySlot(c) ==
  /\ cpc[c] = "copy"
  /\ LET position == from[c] + Len(result[c])
         s == SlotOf(position)
     IN /\ \E d \in {buffer[s]} \cup (IF Writers(s) = {} THEN {} ELSE {Torn}) :
             result' = [result EXCEPT ![c] = Append(@, d)]
        /\ early' = IF Owner(position) = {} THEN early ELSE early \cup {position}
  /\ CGoto(c, IF Len(result[c]) + 1 = available[c] THEN "store" ELSE "copy")
  /\ UNCHANGED <<sharedVars, producerVars, from, available>>

\* Mutants: the last slot does not count as read; the slot is stored instead
\* of the position.
EndOfBatchShort(c) == from[c] + available[c] - 1
EndOfBatchSlot(c) == SlotOf(from[c] + available[c])

EndOfBatch(c) == from[c] + available[c]

StoreTail(c) ==
  /\ cpc[c] = "store"
  /\ tail' = EndOfBatch(c)
  /\ CGoto(c, "return")
  /\ UNCHANGED <<head, buffer, dropped, pushed, producerVars, from, available,
                 result, early>>

PopStep(c) == PopLoadHead(c) \/ CopySlot(c) \/ StoreTail(c)

\* The caller takes the slice that PopAll returned; the locals die.
ReturnPopAll(c) ==
  /\ cpc[c] = "return"
  /\ CGoto(c, "idle")
  /\ from' = [from EXCEPT ![c] = 0]
  /\ available' = [available EXCEPT ![c] = 0]
  /\ result' = [result EXCEPT ![c] = << >>]
  /\ UNCHANGED <<sharedVars, producerVars, early>>

-----------------------------------------------------------------------------
Claimed == {p \in Producers : pc[p] \in {"write", "count", "pushed"}}

(***************************************************************************)
(* The compare-and-swap hands every position to one producer: no two       *)
(* successful calls hold the same position, and the positions handed out   *)
(* are exactly those below head (ringbuffer.go:92-96).                     *)
(***************************************************************************)
PositionsOwnedOnce ==
  /\ \A p, q \in Claimed : seenHead[p] = seenHead[q] => p = q
  /\ {seenHead[p] : p \in Claimed} = 0 .. head - 1

(***************************************************************************)
(* totalPushed and droppedCount count every finished call once, and head   *)
(* is ahead of totalPushed by the calls between the compare-and-swap and   *)
(* the counter (ringbuffer.go:79, 93-98, 107).                             *)
(***************************************************************************)
CallsAccounted ==
  /\ head = pushed + Cardinality({p \in Producers : pc[p] \in {"write", "count"}})
  /\ pushed = Cardinality({p \in Producers : pc[p] = "pushed"})
  /\ dropped = Cardinality({p \in Producers : pc[p] = "dropped"})

(***************************************************************************)
(* Whoever consumes, the read position never overtakes the write position, *)
(* because PopAll loads tail before head (ringbuffer.go:137-138, 160).     *)
(***************************************************************************)
TailBehindHead ==
  /\ tail <= head
  /\ \A c \in Consumers : cpc[c] \in {"copy", "store"} =>
                            from[c] + available[c] <= head

(***************************************************************************)
(* TryPush is wait-free: every call returns, whatever the others do        *)
(* (ringbuffer.go:65-67, "prevent infinite retry loops").                  *)
(***************************************************************************)
EveryPushReturns ==
  \A p \in Producers : pc[p] # "idle" ~> pc[p] \in {"pushed", "dropped"}
=============================================================================
