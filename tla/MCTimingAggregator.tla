------------------------- MODULE MCTimingAggregator -------------------------
(* TimingAggregator on small instances.                                    *)
EXTENDS TimingAggregator, TLC

CONSTANTS r1, r2, r3

TwoRequests == {r1, r2}
ThreeRequests == {r1, r2, r3}
TwoAndLoop == TwoRequests \cup {FlushLoop}
ThreeAndLoop == ThreeRequests \cup {FlushLoop}

Symmetric == Permutations(Producers)

(* No step and no property depends on what the slots and the channel hold, *)
(* nor on the locals of a call that is over: states are told apart without *)
(* them.                                                                   *)
WithoutData ==
  <<head, tail, dropped, pushed, pc,
    [r \in Producers |-> IF pc[r] = "dropped" THEN <<>>
                         ELSE <<seenHead[r], retry[r]>>],
    cpc, from, available, [c \in Consumers |-> Len(result[c])],
    requestVars, spawned, windowData, fpc, snapshot, Len(channel), reported,
    cancelled>>
=============================================================================
