---------------------------- MODULE MCRingBuffer ----------------------------
(* RingBufferContract on small instances.                                  *)
EXTENDS RingBufferContract, TLC

Symmetric == Permutations(Producers)

(* The locals of a call of TryPush that no later step reads are left out:  *)
(* the retries of a call that has its position, and all of one dropped.    *)
LiveLocals ==
  [p \in Producers |->
     CASE pc[p] \in {"idle", "drop", "dropped"} -> <<>>
       [] pc[p] \in {"write", "count", "pushed"} -> <<seenHead[p]>>
       [] OTHER -> <<seenHead[p], retry[p]>>]

WithoutDeadLocals == <<sharedVars, pc, LiveLocals, consumerVars, delivered>>
=============================================================================
