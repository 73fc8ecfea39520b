------------------------- MODULE RingBufferContract -------------------------
(***************************************************************************)
(* The ring buffer on its own, used by anybody: every producer may call    *)
(* TryPush once, every consumer may call PopAll at any time, and what the  *)
(* calls of PopAll return is appended to delivered.  With one consumer it  *)
(* is the use the comments of ringbuffer.go prescribe (lines 9, 134-135).  *)
(***************************************************************************)
EXTENDS RingBuffer

VARIABLE delivered      \* history: the concatenation of PopAll's results

vars == <<ringVars, delivered>>

Init == RingInit /\ delivered = << >>

Deliver(c) ==
  /\ ReturnPopAll(c)
  /\ delivered' = delivered \o result[c]

Next ==
  \/ \E p \in Producers : (CallTryPush(p) \/ PushStep(p)) /\ UNCHANGED delivered
  \/ \E c \in Consumers : (CallPopAll(c) \/ PopStep(c)) /\ UNCHANGED delivered
  \/ \E c \in Consumers : Deliver(c)

Spec == Init /\ [][Next]_vars

-----------------------------------------------------------------------------
(***************************************************************************)
(* Every variable has its type (the shapes of ringbuffer.go:11-30 and of   *)
(* the locals of TryPush and PopAll), and only a call that is dropped used *)
(* up its retries.                                                         *)
(***************************************************************************)
TypeOK ==
  /\ head \in Nat /\ tail \in Nat /\ dropped \in Nat /\ pushed \in Nat
  /\ buffer \in [Slots -> Data]
  /\ pc \in [Producers -> {"idle", "loadHead", "loadTail", "cas", "write",
                           "count", "drop", "pushed", "dropped"}]
  /\ seenHead \in [Producers -> Nat]
  /\ retry \in [Producers -> 0 .. MaxRetries]
  /\ \A p \in Producers : pc[p] \notin {"drop", "dropped"} => retry[p] < MaxRetries
  /\ cpc \in [Consumers -> {"idle", "loadHead", "copy", "store", "return"}]
  /\ from \in [Consumers -> Nat]
  /\ available \in [Consumers -> Nat]
  /\ result \in [Consumers -> Seq(Data)]
  /\ early \in SUBSET Nat
  /\ delivered \in Seq(Data)

(***************************************************************************)
(* With one consumer, one slot stays empty (the comment at                 *)
(* ringbuffer.go:73), although the full check uses a tail that may be      *)
(* stale by the time of the compare-and-swap.                              *)
(***************************************************************************)
OneSlotEmpty == head - tail < Size

(***************************************************************************)
(* With one consumer, and as long as no slot was read before its owner     *)
(* stored into it, PopAll delivers the data in the order in which the      *)
(* positions were claimed, each datum once and none torn                   *)
(* (ringbuffer.go:94-98, 153-160).                                         *)
(***************************************************************************)
InOrderOnce ==
  early = {} =>
    \A i \in DOMAIN delivered :
       /\ delivered[i] \in Claimed
       /\ seenHead[delivered[i]] = i - 1

(***************************************************************************)
(* With one consumer, the read position only moves forward                 *)
(* (ringbuffer.go:159-160).                                                *)
(***************************************************************************)
TailOnlyAdvances == [][tail' >= tail]_vars

(***************************************************************************)
(* The ring as a bounded channel.  A position counts as accepted at the    *)
(* compare-and-swap and as taken when tail moves past it; a report is      *)
(* refused at the load or the race that sends the call to the drop.        *)
(***************************************************************************)
Outcome ==
  [p \in Producers |->
     IF p \in Claimed THEN "accepted"
     ELSE IF pc[p] \in {"drop", "dropped"} THEN "refused"
     ELSE "pending"]

Abstract == INSTANCE BoundedChannel
              WITH accepted <- head, taken <- tail, outcome <- Outcome,
                   Capacity <- Size - 1

(***************************************************************************)
(* With one consumer, the ring buffer implements the bounded channel of    *)
(* Size - 1 reports: nothing is accepted beyond the capacity, a refusal    *)
(* happens only when the buffer is really full or after MaxRetries lost    *)
(* races, and only accepted reports are taken (ringbuffer.go:64-163).      *)
(***************************************************************************)
ImplementsChannel == Abstract!Spec
=============================================================================
