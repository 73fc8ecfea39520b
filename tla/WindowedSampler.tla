--------------------------- MODULE WindowedSampler ---------------------------
(***************************************************************************)
(* windowedSampler (hotelReservation/services/perf/windowed_sampler.go)    *)
(* with the counters it reads (perf_api_windowed.c).  The sampling loop    *)
(* takes a sample at every tick and a last one when the context is done: a *)
(* reading of the counters, one window of the aggregator if one is waiting *)
(* in the channel.  A streamed run has a second goroutine that writes all  *)
(* samples to a file now and then.  StopRun cancels the context, waits for *)
(* both, releases the counters and writes the file.                        *)
(*                                                                         *)
(* The aggregator (TimingAggregator models it) is here its windows: the    *)
(* requests of the current one, and the send that drops a window when the  *)
(* channel is full.  Several events are counted, each on several          *)
(* processors, and one reading may fail after some events were brought up  *)
(* to date; the file is its number of samples.  A tick or a flush may fall at any time, as   *)
(* the tickers drop what their loops are too late for.                     *)
(***************************************************************************)
EXTENDS Integers, Sequences, FiniteSets

CONSTANTS CPUCount,         \* how many processors are counted
          EventCount,       \* how many events, 3 by default
          ChannelCapacity,  \* of the channel of windows, 100 in the code
          CountWord         \* 2^64: counters and deltas are uint64_t

ASSUME SamplerAssumption ==
  /\ CPUCount \in Nat \ {0}
  /\ EventCount \in Nat \ {0}
  /\ ChannelCapacity \in Nat \ {0}
  /\ CountWord \in Nat \ {0}

VARIABLES
  limits,        \* bounds: requests, windows, counts, ticks, flushes, failures;
                 \* and whether the run is streamed
  measured, windowRequests, windows,   \* requests and windows of the aggregator
  timingChan, droppedRequests,         \* the channel, and what it had no room for
  counters,                            \* of each event on each processor
  last_values,                         \* their sums, as the handle keeps them
  lost,                                \* history: growth of an event that no
                                       \* sample got as a later event failed
  samples, taking,                     \* ws.samples, the sample in the making
  loop, final,                         \* samplingLoop: where, and in the last
  flusher,                             \* periodicFlushLoop
  mu,                                  \* who holds ws.mu: "none" if nobody does
  ctxDone, stopRun,                    \* the context, and where StopRun is
  perfHandle,                          \* "open", or "nil" once cleaned up
  file,                                \* samples in the file; Partial if cut short
  flushes, failures                    \* counts, for the bounds

aggregatorState == <<measured, windowRequests, windows, droppedRequests>>
perfState == <<counters, last_values, lost, perfHandle>>
loopState == <<samples, taking, loop, final>>
fileState == <<file, flushes, failures>>
samplerVars == <<limits, aggregatorState, timingChan, perfState, loopState,
                 flusher, mu, ctxDone, stopRun, fileState>>

Partial == -1
NoWindow == 0      \* an empty window and no window both count 0 requests

CPUs == 1..CPUCount
Events == 1..EventCount

Sum(s) ==
  LET total[i \in 0..Len(s)] == IF i = 0 THEN 0 ELSE total[i - 1] + s[i]
  IN  total[Len(s)]
Requests(s) == Sum([i \in DOMAIN s |-> s[i].requests])
Deltas(s, e) == Sum([i \in DOMAIN s |-> s[i].deltas[e]]) % CountWord

\* The deltas of a reading that failed, and the values before the first.
NoDeltas == [e \in Events |-> 0]

\* StartRun
SamplerInit ==
  /\ measured = 0 /\ windowRequests = 0 /\ windows = 0
  /\ timingChan = << >> /\ droppedRequests = 0
  /\ counters = [e \in Events |-> [p \in CPUs |-> 0]]
  /\ last_values = NoDeltas /\ lost = NoDeltas
  /\ samples = << >> /\ taking = << >>
  /\ loop = "select" /\ final = FALSE
  /\ flusher = IF limits.stream THEN "select" ELSE "over"
  /\ mu = "none" /\ ctxDone = FALSE /\ stopRun = "idle"
  /\ perfHandle = "open"
  /\ file = 0 /\ flushes = 0 /\ failures = 0

-----------------------------------------------------------------------------
(***************************************************************************)
(* The aggregator: a request is added to the window, and the window is     *)
(* sent when it ends, without waiting.                                     *)
(***************************************************************************)
AddRequest ==
  /\ measured < limits.requests
  /\ measured' = measured + 1
  /\ windowRequests' = windowRequests + 1
  /\ UNCHANGED <<limits, windows, droppedRequests, timingChan, perfState,
                 loopState, flusher, mu, ctxDone, stopRun, fileState>>

SendWindow ==
  /\ windows < limits.windows
  /\ windows' = windows + 1
  /\ windowRequests' = 0
  /\ IF Len(timingChan) < ChannelCapacity
       THEN /\ timingChan' = Append(timingChan, windowRequests)
            /\ UNCHANGED droppedRequests
       ELSE /\ droppedRequests' = droppedRequests + windowRequests
            /\ UNCHANGED timingChan
  /\ UNCHANGED <<limits, measured, perfState, loopState, flusher, mu, ctxDone,
                 stopRun, fileState>>

\* A processor's counter moves on while the events are open.
Count(e, p) ==
  /\ perfHandle = "open" /\ counters[e][p] < limits.counts
  /\ counters' = [counters EXCEPT ![e][p] = @ + 1]
  /\ UNCHANGED <<limits, aggregatorState, timingChan, last_values, lost,
                 perfHandle, loopState, flusher, mu, ctxDone, stopRun,
                 fileState>>

-----------------------------------------------------------------------------
(***************************************************************************)
(* samplingLoop and takeSample                                             *)
(***************************************************************************)

\* What is added up for an event where the processors in F[e] give no value,
\* and its growth since the sum that the handle keeps.
Total(e, F) == Sum([p \in CPUs |-> IF p \in F[e] THEN 0 ELSE counters[e][p]])
                 % CountWord
Delta(e, F) == IF last_values[e] = 0 THEN Total(e, F)
               ELSE (Total(e, F) - last_values[e]) % CountWord

\* The events are read in order, up to one that no processor gives a value of.
Reached(F) == {e \in Events : \A earlier \in 1..e : F[earlier] # CPUs}

\* perf_window_sample keeps the new sum of every event it reaches; if it does
\* not reach them all it fails, and readPerfCounters drops what it had.
ReadPerfCounters(F) ==
  LET failed == Sum([e \in Events |-> Cardinality(F[e])])
      whole == Reached(F) = Events
  IN  /\ failures + failed <= limits.failures
      /\ failures' = failures + failed
      /\ last_values' = [e \in Events |-> IF e \in Reached(F) THEN Total(e, F)
                                         ELSE last_values[e]]
      /\ taking' = <<[requests |-> NoWindow,
                      deltas |-> IF whole THEN [e \in Events |-> Delta(e, F)]
                                 ELSE NoDeltas]>>
      /\ lost' = [e \in Events |-> IF e \in Reached(F) /\ ~whole
                                  THEN (lost[e] + Delta(e, F)) % CountWord
                                  ELSE lost[e]]

\* The handle is dereferenced: once it is nil the process is gone.
StartSample(last) ==
  /\ loop = "select"
  /\ final' = last
  /\ IF perfHandle = "open"
       THEN loop' = "receive" /\ \E F \in [Events -> SUBSET CPUs] : ReadPerfCounters(F)
       ELSE /\ loop' = "panic"
            /\ UNCHANGED <<taking, last_values, lost, failures>>
  /\ UNCHANGED <<limits, aggregatorState, timingChan, counters, perfHandle,
                 samples, flusher, mu, ctxDone, stopRun, file, flushes>>

Tick == Len(samples) < limits.ticks /\ StartSample(FALSE)
LastSample == ctxDone /\ StartSample(TRUE)

\* Mutant: the window is looked at and left in the channel.
WindowsLeftKept == timingChan

\* What the receive leaves in the channel.
WindowsLeft == IF timingChan = << >> THEN timingChan ELSE Tail(timingChan)

\* One window, if there is one: the receive does not wait.
ReceiveWindow ==
  /\ loop = "receive"
  /\ loop' = "append"
  /\ taking' = IF timingChan = << >> THEN taking
               ELSE <<[taking[1] EXCEPT !.requests = Head(timingChan)]>>
  /\ timingChan' = WindowsLeft
  /\ UNCHANGED <<limits, aggregatorState, perfState, samples, final, flusher,
                 mu, ctxDone, stopRun, fileState>>

AppendSample ==
  /\ loop = "append" /\ mu = "none"
  /\ samples' = samples \o taking
  /\ taking' = << >>
  /\ loop' = IF final THEN "over" ELSE "select"
  /\ UNCHANGED <<limits, aggregatorState, timingChan, perfState, final,
                 flusher, mu, ctxDone, stopRun, fileState>>

-----------------------------------------------------------------------------
(***************************************************************************)
(* writeRunData creates the file, which empties it, and encodes the run    *)
(* into it.  Creating it may fail, and so may the encoding.                *)
(***************************************************************************)
CreateFile == file' = Partial /\ UNCHANGED failures
WriteFile == file' = Len(samples) /\ UNCHANGED failures
WriteFails ==
  /\ failures < limits.failures
  /\ failures' = failures + 1
  /\ UNCHANGED file

(***************************************************************************)
(* periodicFlushLoop: the mutex is held while the file is written.         *)
(***************************************************************************)
FlusherStays == <<limits, aggregatorState, timingChan, perfState, loopState,
                  ctxDone, stopRun>>

StartFlush ==
  /\ flusher = "select" /\ mu = "none"
  /\ flushes < limits.flushes
  /\ flushes' = flushes + 1
  /\ \/ samples = << >> /\ UNCHANGED <<flusher, mu, file, failures>>
     \/ samples # << >> /\ CreateFile /\ flusher' = "write" /\ mu' = "flusher"
     \/ samples # << >> /\ WriteFails /\ UNCHANGED <<flusher, mu>>
  /\ UNCHANGED FlusherStays

EndFlush ==
  /\ flusher = "write"
  /\ WriteFile \/ WriteFails
  /\ flusher' = "select"
  /\ mu' = "none"
  /\ UNCHANGED <<FlusherStays, flushes>>

FlusherLeaves ==
  /\ flusher = "select" /\ ctxDone
  /\ flusher' = "over"
  /\ UNCHANGED <<FlusherStays, mu, fileState>>

-----------------------------------------------------------------------------
(***************************************************************************)
(* StopRun                                                                 *)
(***************************************************************************)
StopStays == <<limits, aggregatorState, timingChan, counters, last_values, lost,
               loopState, flusher>>

\* The run's duration is over.
RunTimesOut ==
  /\ ~ctxDone
  /\ ctxDone' = TRUE
  /\ UNCHANGED <<StopStays, perfHandle, mu, stopRun, fileState>>

CancelRun ==
  /\ stopRun = "idle"
  /\ stopRun' = "wait"
  /\ ctxDone' = TRUE
  /\ UNCHANGED <<StopStays, perfHandle, mu, fileState>>

\* Mutant: StopRun waits for the flush loop only.
LoopsEndedOne == flusher = "over"

\* ws.wg.Wait()
LoopsEnded == loop = "over" /\ flusher = "over"

CleanUp ==
  /\ stopRun = "wait" /\ LoopsEnded /\ mu = "none"
  /\ perfHandle' = "nil"
  /\ \/ CreateFile /\ stopRun' = "write" /\ mu' = "stopRun"
     \/ WriteFails /\ stopRun' = "failed" /\ UNCHANGED mu
  /\ UNCHANGED <<StopStays, ctxDone, flushes>>

SaveRun ==
  /\ stopRun = "write"
  /\ \/ WriteFile /\ stopRun' = "saved"
     \/ WriteFails /\ stopRun' = "failed"
  /\ mu' = "none"
  /\ UNCHANGED <<StopStays, perfHandle, ctxDone, flushes>>

-----------------------------------------------------------------------------
SamplingStep == Tick \/ LastSample \/ ReceiveWindow \/ AppendSample
FlusherStep == StartFlush \/ EndFlush \/ FlusherLeaves
StopStep == RunTimesOut \/ CancelRun \/ CleanUp \/ SaveRun

SamplerNext ==
  \/ AddRequest \/ SendWindow \/ \E e \in Events, p \in CPUs : Count(e, p)
  \/ SamplingStep \/ FlusherStep \/ StopStep

\* The scheduler runs every goroutine; a select whose context is done takes
\* that branch sooner or later, and a mutex is not withheld for ever.
SamplerFairness ==
  /\ SF_samplerVars(LastSample)
  /\ WF_samplerVars(ReceiveWindow)
  /\ SF_samplerVars(AppendSample)
  /\ WF_samplerVars(EndFlush)
  /\ SF_samplerVars(FlusherLeaves)
  /\ WF_samplerVars(CleanUp)
  /\ WF_samplerVars(SaveRun)

-----------------------------------------------------------------------------
(***************************************************************************)
(* calculateAggregates adds the samples up.  Every request that was        *)
(* measured is in one sample, or in the window, the channel or the sample  *)
(* on its way there, or in a window the channel had no room for.  The      *)
(* deltas of an event add up to its last reading, whichever processors     *)
(* could not be read for it or before it, and as uint64 when they wrap,    *)
(* less exactly what was dropped when an event after it in the list could  *)
(* not be read at all (its last_values had moved on by then); the last     *)
(* event of the list never loses any.                                      *)
(***************************************************************************)
TotalsAddUp ==
  LET sampled == samples \o taking
  IN  /\ measured = Requests(sampled) + Sum(timingChan) + windowRequests
                    + droppedRequests
      /\ \A e \in Events :
           (Deltas(sampled, e) + lost[e]) % CountWord = last_values[e]
      /\ lost[EventCount] = 0

(***************************************************************************)
(* StopRun ends, whatever the loops are doing when it is called, and       *)
(* unless writing failed the file then holds every sample of the run.      *)
(***************************************************************************)
StopRunEnds ==
  stopRun = "wait" ~>
    \/ stopRun = "saved" /\ file = Len(samples) /\ loop = "over"
    \/ stopRun = "failed"
=============================================================================
