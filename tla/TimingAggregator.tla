-------------------------- MODULE TimingAggregator --------------------------
(***************************************************************************)
(* RingBufferTimingAggregator                                              *)
(* (hotelReservation/interceptor/timing_interceptor_ringbuffer.go): the    *)
(* ring buffer with everybody who uses it.  A request goroutine pushes its *)
(* datum (AddTimingData) and, when the push failed or the ring is filled   *)
(* to the threshold, starts a goroutine that drains the ring.  The flush   *)
(* loop drains the ring at the end of every window and sends the window's  *)
(* statistics to the sampler.  Stop cancels the loop and waits for it, but *)
(* not for the drains.                                                     *)
(*                                                                         *)
(* The drain started by request r is the consumer r.  The intermediate     *)
(* buffer and the statistics are kept as numbers of data: RequestCount is  *)
(* the only statistic a property is about.  Each critical section of       *)
(* windowDataMu is one step.                                               *)
(***************************************************************************)
EXTENDS RingBuffer, FiniteSetsExt

CONSTANTS FlushLoop,        \* the goroutine of windowedFlushLoop
          FlushThreshold,   \* rb.flushThreshold
          ChannelCapacity   \* capacity of windowStatsChannel, 100 in the code

ASSUME ConsumersAssumption ==
  /\ FlushLoop \notin Producers
  /\ Consumers = Producers \cup {FlushLoop}
ASSUME ThresholdAssumption == FlushThreshold \in 0 .. Size
ASSUME ChannelAssumption == ChannelCapacity \in Nat \ {0}

VARIABLES
  rpc,          \* where each request is in AddTimingData
  flushHead,    \* the head each request's ShouldFlush loaded
  spawned,      \* drains started and not yet running
  windowData,   \* length of the intermediate buffer
  fpc,          \* where the flush loop is
  snapshot,     \* length of the flush loop's copy of the window
  channel,      \* windowStatsChannel: the RequestCounts in it
  cancelled,    \* Stop has cancelled the context
  reported      \* history: sum of the RequestCounts computed so far

requestVars == <<rpc, flushHead>>
loopVars == <<fpc, snapshot, channel, reported>>
aggregatorVars == <<requestVars, spawned, windowData, loopVars, cancelled>>
vars == <<ringVars, aggregatorVars>>

Init ==
  /\ RingInit
  /\ rpc = [r \in Producers |-> "push"]
  /\ flushHead = [r \in Producers |-> 0]
  /\ spawned = {}
  /\ windowData = 0
  /\ fpc = "select"
  /\ snapshot = 0
  /\ channel = << >>
  /\ cancelled = FALSE
  /\ reported = 0

-----------------------------------------------------------------------------
(***************************************************************************)
(* AddTimingData                                                           *)
(***************************************************************************)

Push(r) ==
  /\ CallTryPush(r) \/ PushStep(r)
  /\ UNCHANGED aggregatorVars

RGoto(r, label) == rpc' = [rpc EXCEPT ![r] = label]

\* !success: the drain is started without asking ShouldFlush.
SpawnAfterDrop(r) ==
  /\ rpc[r] = "push" /\ pc[r] = "dropped"
  /\ spawned' = spawned \cup {r}
  /\ RGoto(r, "done")
  /\ UNCHANGED <<ringVars, flushHead, windowData, loopVars, cancelled>>

\* Available loads head, then tail.
ShouldFlushHead(r) ==
  /\ rpc[r] = "push" /\ pc[r] = "pushed"
  /\ flushHead' = [flushHead EXCEPT ![r] = head]
  /\ RGoto(r, "flushTail")
  /\ UNCHANGED <<ringVars, spawned, windowData, loopVars, cancelled>>

ShouldFlushTail(r) ==
  /\ rpc[r] = "flushTail"
  /\ spawned' = IF U64(flushHead[r] - tail) >= FlushThreshold
                  THEN spawned \cup {r} ELSE spawned
  /\ flushHead' = [flushHead EXCEPT ![r] = 0]
  /\ RGoto(r, "done")
  /\ UNCHANGED <<ringVars, windowData, loopVars, cancelled>>

AddTimingData(r) ==
  Push(r) \/ SpawnAfterDrop(r) \/ ShouldFlushHead(r) \/ ShouldFlushTail(r)

-----------------------------------------------------------------------------
(***************************************************************************)
(* drainToIntermediateBuffer, in the goroutine that request r started      *)
(***************************************************************************)

StartDrain(r) ==
  /\ r \in spawned
  /\ spawned' = spawned \ {r}
  /\ CallPopAll(r)
  /\ UNCHANGED <<requestVars, windowData, loopVars, cancelled>>

DrainPops(r) == PopStep(r) /\ UNCHANGED aggregatorVars

AppendDrained(r) ==
  /\ ReturnPopAll(r)
  /\ windowData' = windowData + Len(result[r])
  /\ UNCHANGED <<requestVars, spawned, loopVars, cancelled>>

Drain(r) == StartDrain(r) \/ DrainPops(r) \/ AppendDrained(r)

-----------------------------------------------------------------------------
(***************************************************************************)
(* windowedFlushLoop and flushWindow                                       *)
(***************************************************************************)

StartFlush(label) ==
  /\ fpc = "select"
  /\ CallPopAll(FlushLoop)
  /\ fpc' = label
  /\ UNCHANGED <<requestVars, spawned, windowData, snapshot, channel,
                 cancelled, reported>>

\* The window ends.  The select may choose the ticker even after Stop.
Tick == StartFlush("flush")

\* The context is done: one last flush.
FinalFlush == cancelled /\ StartFlush("finalFlush")

FlushPops == PopStep(FlushLoop) /\ UNCHANGED aggregatorVars

\* Mutant: what is left in the ring is popped and forgotten.
WindowForgetsRing == windowData

Window == windowData + Len(result[FlushLoop])

\* Under the lock: append what was popped, copy the window, clear it.
CloseWindow ==
  /\ ReturnPopAll(FlushLoop)
  /\ snapshot' = Window
  /\ windowData' = 0
  /\ fpc' = IF fpc = "flush" THEN "send" ELSE "finalSend"
  /\ UNCHANGED <<requestVars, spawned, channel, cancelled, reported>>

\* Mutant: the final flush does not return.
AfterSendLoops == "select"

AfterSend == IF fpc = "send" THEN "select" ELSE "stopped"

\* The statistics of the window, an empty one included, are sent without
\* blocking: when the channel is full they are dropped.
SendWindow ==
  /\ fpc \in {"send", "finalSend"}
  /\ reported' = reported + snapshot
  /\ IF Len(channel) < ChannelCapacity
       THEN channel' = Append(channel, snapshot)
       ELSE UNCHANGED channel
  /\ snapshot' = 0
  /\ fpc' = AfterSend
  /\ UNCHANGED <<ringVars, requestVars, spawned, windowData, cancelled>>

FlushStep == FlushPops \/ CloseWindow \/ SendWindow

\* Stop: cancel, then wait until the loop has returned.
Stop ==
  /\ ~cancelled
  /\ cancelled' = TRUE
  /\ UNCHANGED <<ringVars, requestVars, spawned, windowData, loopVars>>

\* The sampler takes one window's statistics out of the channel.
Receive ==
  /\ channel # << >>
  /\ channel' = Tail(channel)
  /\ UNCHANGED <<ringVars, requestVars, spawned, windowData, fpc, snapshot,
                 cancelled, reported>>

Next ==
  \/ \E r \in Producers : AddTimingData(r) \/ Drain(r)
  \/ Tick \/ FinalFlush \/ FlushStep \/ Stop \/ Receive

Spec == Init /\ [][Next]_vars

(***************************************************************************)
(* The scheduler runs started goroutines; the ticker keeps ticking; and a  *)
(* select with two ready cases chooses at random, so that neither the      *)
(* ticker nor the cancelled context is passed over for ever.               *)
(***************************************************************************)
FairSpec ==
  /\ Spec
  /\ \A r \in Producers :
       /\ WF_vars(PushStep(r) /\ UNCHANGED aggregatorVars)
       /\ WF_vars(Drain(r))
  /\ WF_vars(FlushStep)
  /\ SF_vars(Tick)
  /\ SF_vars(FinalFlush)

-----------------------------------------------------------------------------
(***************************************************************************)
(* While the service runs, what was pushed is reported: the drains and the *)
(* flush loop cannot keep a position in the ring for ever                  *)
(* (timing_interceptor_ringbuffer.go:149-190).                             *)
(***************************************************************************)
PushedIsReported ==
  [](~cancelled) =>
    \A n \in 1 .. Cardinality(Producers) : pushed >= n ~> reported >= n

(***************************************************************************)
(* Stop returns: the flush loop ends once the context is cancelled         *)
(* (timing_interceptor_ringbuffer.go:161-164, 255-257).                    *)
(***************************************************************************)
StopReturns == cancelled ~> fpc = "stopped"

(***************************************************************************)
(* RequestCount counts "requests in one window interval"                   *)
(* (timing_interceptor.go:36): the windows together never report more      *)
(* requests than there were.                                               *)
(***************************************************************************)
NoRequestCountedTwice == reported <= head
=============================================================================
