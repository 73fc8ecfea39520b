--------------------------- MODULE BoundedChannel ---------------------------
(***************************************************************************)
(* What the lock-free ring buffer of the timing interceptor promises to    *)
(* the request goroutines that report to it: a bounded channel.  Every     *)
(* report is accepted or refused exactly once; it is refused only while    *)
(* the channel is full, or after the reporter lost MaxRetries races, and   *)
(* the reader only ever takes what was accepted, in order.  Only counts    *)
(* are kept: how many reports were accepted and how many of them were      *)
(* taken.  RingBuffer!Abstract shows that the code implements it when, as  *)
(* its comments ask, one goroutine consumes.                               *)
(***************************************************************************)
EXTENDS Integers

CONSTANTS Producers,    \* the goroutines that report
          Capacity,     \* reports the channel holds
          MaxRetries    \* races a reporter may lose

VARIABLES accepted,     \* number of reports accepted so far
          taken,        \* number of them the reader has taken
          outcome       \* "pending", "accepted" or "refused", by reporter

chanVars == <<accepted, taken, outcome>>

Full == accepted - taken >= Capacity

Init ==
  /\ accepted = 0
  /\ taken = 0
  /\ outcome = [p \in Producers |-> "pending"]

Accept(p) ==
  /\ outcome[p] = "pending"
  /\ ~Full
  /\ accepted' = accepted + 1
  /\ outcome' = [outcome EXCEPT ![p] = "accepted"]
  /\ UNCHANGED taken

Refuse(p) ==
  /\ outcome[p] = "pending"
  /\ Full \/ accepted >= MaxRetries
  /\ outcome' = [outcome EXCEPT ![p] = "refused"]
  /\ UNCHANGED <<accepted, taken>>

Take ==
  /\ taken < accepted
  /\ taken' \in (taken + 1) .. accepted
  /\ UNCHANGED <<accepted, outcome>>

Next ==
  \/ \E p \in Producers : Accept(p) \/ Refuse(p)
  \/ Take

Spec == Init /\ [][Next]_chanVars
=============================================================================
