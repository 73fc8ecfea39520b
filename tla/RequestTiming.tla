---------------------------- MODULE RequestTiming ----------------------------
(***************************************************************************)
(* The performance measurements of the search service: the timing context  *)
(* of a request, whose datum goes to the aggregator when it is measured,   *)
(* and the sampler that pairs the aggregator's windows with the processor  *)
(* counters.  Other requests are counted without following their calls.    *)
(***************************************************************************)
EXTENDS TimingContext, WindowedSampler

CONSTANTS Instances   \* the limits and the downstream calls to start from

requestVars == <<timingVars, samplerVars>>

RequestInit ==
  \E instance \in Instances :
    /\ limits = instance.limits
    /\ TimingInit(instance.calls)
    /\ SamplerInit

\* The server interceptor takes the times and calls AddTimingData.
Measured == MeasureRequest /\ AddRequest

RequestNext ==
  \/ TimingNext /\ UNCHANGED samplerVars
  \/ Measured
  \/ SamplerNext /\ UNCHANGED timingVars

RequestSpec == RequestInit /\ [][RequestNext]_requestVars /\ SamplerFairness
=============================================================================
