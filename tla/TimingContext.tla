---------------------------- MODULE TimingContext ----------------------------
(***************************************************************************)
(* The timing context of one request                                       *)
(* (hotelReservation/interceptor/timing_interceptor.go).  The server       *)
(* interceptor starts the request's clock and hands its handler a context; *)
(* the client interceptor stops the clock while a downstream call is out.  *)
(* The calls in progress are counted: the call that takes the count from 0 *)
(* to 1 stores when the pause began, the one that takes it back to 0 adds  *)
(* the pause and clears its start.  Each atomic instruction and each       *)
(* reading of the time is one step, and time passes between any two.       *)
(*                                                                         *)
(* The search service, the one that is timed, makes its two calls one      *)
(* after the other; the interceptors allow calls that overlap, and so does *)
(* this module.  disturbed records that a call began while another was opening *)
(* or closing a pause, which only overlapping calls can do.                *)
(***************************************************************************)
EXTENDS Naturals, FiniteSets

CONSTANTS Downstream,   \* the calls that the handler makes
          MaxTime       \* bound on the clock

ASSUME TimeAssumption == MaxTime \in Nat \ {0}

VARIABLES
  now,                \* the clock, which starts at 1: 0 means "not blocking"
  request,            \* "running" or "measured"
  call,               \* where each call is
  stamp,              \* the time or the pause start each call holds
  activeCallCount, pauseStartTimeNs, totalPausedTimeNs,   \* timingContext
  processingTime,     \* timingData.ProcessingTime, when measured
  inside,             \* history: time with some call in its invoker
  engaged,            \* history: time with some call begun and not returned
  disturbed           \* history: a call began while a pause was opened or closed

contextVars == <<activeCallCount, pauseStartTimeNs, totalPausedTimeNs>>
timeHistory == <<inside, engaged>>
timingVars == <<now, request, call, stamp, contextVars, processingTime,
                timeHistory, disturbed>>

\* A handler that will make these calls; one without any is over at once.
TimingInit(calls) ==
  /\ now = 1
  /\ request = IF calls = {} THEN "measured" ELSE "running"
  /\ call = [c \in Downstream |-> IF c \in calls THEN "idle" ELSE "done"]
  /\ stamp = [c \in Downstream |-> 0]
  /\ activeCallCount = 0
  /\ pauseStartTimeNs = 0
  /\ totalPausedTimeNs = 0
  /\ processingTime = 0
  /\ inside = 0
  /\ engaged = 0
  /\ disturbed = FALSE

CallsAt(places) == {c \in Downstream : call[c] \in places}
InvokerCalls == CallsAt({"invoke"})
Returned(c) == call[c] \in {"idle", "done"}
BetweenPauses == CallsAt({"pause", "store", "load", "add", "clear"}) # {}

MoveCall(c, from, to) == call[c] = from /\ call' = [call EXCEPT ![c] = to]

-----------------------------------------------------------------------------
(***************************************************************************)
(* TimingClientInterceptor                                                 *)
(***************************************************************************)

\* Push onto the stack of calls.
BeginCall(c) ==
  /\ request = "running"
  /\ MoveCall(c, "idle", IF activeCallCount = 0 THEN "pause" ELSE "invoke")
  /\ activeCallCount' = activeCallCount + 1
  /\ disturbed' = (disturbed \/ BetweenPauses)
  /\ UNCHANGED <<now, request, stamp, pauseStartTimeNs, totalPausedTimeNs,
                 processingTime, timeHistory>>

\* The first call reads the time and then stores it.
ReadPauseStart(c) ==
  /\ MoveCall(c, "pause", "store")
  /\ stamp' = [stamp EXCEPT ![c] = now]
  /\ UNCHANGED <<now, request, contextVars, processingTime, timeHistory,
                 disturbed>>

StorePauseStart(c) ==
  /\ MoveCall(c, "store", "invoke")
  /\ pauseStartTimeNs' = stamp[c]
  /\ stamp' = [stamp EXCEPT ![c] = 0]
  /\ UNCHANGED <<now, request, activeCallCount, totalPausedTimeNs,
                 processingTime, timeHistory, disturbed>>

\* Mutant: whoever returns ends the pause.
LastCallAny == TRUE

\* newCount == 0
LastCall == activeCallCount = 1

\* The invoker has returned, with an answer or an error: pop.
EndCall(c) ==
  /\ MoveCall(c, "invoke", IF LastCall THEN "load" ELSE "done")
  /\ activeCallCount' = activeCallCount - 1
  /\ UNCHANGED <<now, request, stamp, pauseStartTimeNs, totalPausedTimeNs,
                 processingTime, timeHistory, disturbed>>

\* The last call loads the start; a pause that has none is not added.
LoadPauseStart(c) ==
  /\ MoveCall(c, "load", IF pauseStartTimeNs > 0 THEN "add" ELSE "done")
  /\ stamp' = [stamp EXCEPT ![c] = pauseStartTimeNs]
  /\ UNCHANGED <<now, request, contextVars, processingTime, timeHistory,
                 disturbed>>

AddPause(c) ==
  /\ MoveCall(c, "add", "clear")
  /\ totalPausedTimeNs' = totalPausedTimeNs + (now - stamp[c])
  /\ UNCHANGED <<now, request, stamp, activeCallCount, pauseStartTimeNs,
                 processingTime, timeHistory, disturbed>>

ClearPauseStart(c) ==
  /\ MoveCall(c, "clear", "done")
  /\ pauseStartTimeNs' = 0
  /\ stamp' = [stamp EXCEPT ![c] = 0]
  /\ UNCHANGED <<now, request, activeCallCount, totalPausedTimeNs,
                 processingTime, timeHistory, disturbed>>

TimingClientInterceptor(c) ==
  \/ BeginCall(c) \/ ReadPauseStart(c) \/ StorePauseStart(c)
  \/ EndCall(c) \/ LoadPauseStart(c) \/ AddPause(c) \/ ClearPauseStart(c)

-----------------------------------------------------------------------------
(***************************************************************************)
(* TimingServerInterceptorWithAggregator: when the handler has returned,   *)
(* and with it every call it waited for, the times are taken and the datum *)
(* goes to the aggregator.                                                 *)
(***************************************************************************)
MeasureRequest ==
  /\ request = "running"
  /\ \A c \in Downstream : Returned(c)
  /\ request' = "measured"
  /\ processingTime' = (now - 1) - totalPausedTimeNs
  /\ UNCHANGED <<now, call, stamp, contextVars, timeHistory, disturbed>>

TimeGoesOn ==
  /\ request = "running" /\ now < MaxTime
  /\ now' = now + 1
  /\ inside' = inside + (IF InvokerCalls # {} THEN 1 ELSE 0)
  /\ engaged' = engaged
                + (IF \E c \in Downstream : ~Returned(c) THEN 1 ELSE 0)
  /\ UNCHANGED <<request, call, stamp, contextVars, processingTime, disturbed>>

TimingNext ==
  TimeGoesOn \/ \E c \in Downstream : TimingClientInterceptor(c)

-----------------------------------------------------------------------------
(***************************************************************************)
(* Unless a call began while another was opening or closing a pause, what  *)
(* a measured request counts as blocked is no less than the time its calls *)
(* spent in their invokers and no more than the time they took altogether, *)
(* so that its processing time is neither negative nor inflated.           *)
(***************************************************************************)
PausedWithinCalls ==
  request = "measured" /\ ~disturbed =>
    /\ totalPausedTimeNs \in inside .. engaged
    /\ processingTime \in (now - 1) - engaged .. (now - 1) - inside
=============================================================================
