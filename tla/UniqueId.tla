------------------------------- MODULE UniqueId -------------------------------
(***************************************************************************)
(* How a process makes ids                                                 *)
(* (socialNetwork/src/UniqueIdService/UniqueIdHandler.h; the same code     *)
(* makes user ids in src/UserService/UserHandler.h and review ids in       *)
(* mediaMicroservices/src/UniqueIdService/UniqueIdHandler.h): the time in  *)
(* milliseconds followed by the last three hexadecimal digits of a counter *)
(* that starts again every millisecond, both taken under a mutex.  A       *)
(* process that finds the clock behind its last id exits; the deployment   *)
(* files start it again ("restart: always") with nothing remembered.       *)
(*                                                                         *)
(* The machine id in front of every id is the same for every process of    *)
(* one network address and is left out.                                    *)
(***************************************************************************)
EXTENDS Services

CONSTANTS
  Span,             \* the values that fit in the counter's digits: 4096
  MaxClock,         \* bound: milliseconds that pass
  MaxSetBacks       \* bound: how often the clock of the machine is set back

ASSUME UniqueIdAssumption == Span \in Nat \ {0} /\ MaxClock \in Nat /\ MaxSetBacks \in Nat

VARIABLES
  clock,            \* the clock of the machine
  lastStamp,        \* current_timestamp, -1 in a new process
  counter,          \* the next value of the counter
  idCall,           \* where a call is, its time and its place in it
  setBacks          \* history: how often the clock was set back

idVars == <<clock, lastStamp, counter, idCall, setBacks>>

NoId == [at |-> "idle", stamp |-> 0, place |-> 0]

IdInit ==
  /\ clock = 0 /\ lastStamp = -1 /\ counter = 0
  /\ idCall = [c \in Calls |-> NoId]
  /\ setBacks = 0

\* A call holds _thread_lock while it is at "locked".
\* Mutant: the clock is read before the lock is taken.
ReadClockUnlocked(c) ==
  /\ idCall[c].at = "idle"
  /\ idCall' = [idCall EXCEPT ![c].at = "locked", ![c].stamp = clock]
  /\ UNCHANGED <<clock, lastStamp, counter, setBacks>>

ReadClock(c) ==
  /\ idCall[c].at = "idle"
  /\ \A d \in Calls : idCall[d].at /= "locked"
  /\ idCall' = [idCall EXCEPT ![c].at = "locked", ![c].stamp = clock]
  /\ UNCHANGED <<clock, lastStamp, counter, setBacks>>

\* GetCounter, the end of the critical section, and the digits of the id.
GetCounter(c) ==
  LET stamp == idCall[c].stamp
      count == IF lastStamp = stamp THEN counter ELSE 0
  IN /\ idCall[c].at = "locked" /\ lastStamp <= stamp
     /\ lastStamp' = stamp
     /\ counter' = count + 1
     /\ idCall' = [idCall EXCEPT ![c].at = "done", ![c].place = count % Span]
     /\ UNCHANGED <<clock, setBacks>>

\* Every call of the process ends with it.
ExitAndRestart(c) ==
  /\ idCall[c].at = "locked" /\ lastStamp > idCall[c].stamp
  /\ lastStamp' = -1 /\ counter' = 0
  /\ idCall' = [d \in Calls |-> IF idCall[d].at = "locked"
                                THEN [NoId EXCEPT !.at = "lost"] ELSE idCall[d]]
  /\ UNCHANGED <<clock, setBacks>>

TimePasses ==
  /\ clock < MaxClock
  /\ clock' = clock + 1
  /\ UNCHANGED <<lastStamp, counter, idCall, setBacks>>

ClockIsSetBack ==
  /\ clock > 0 /\ setBacks < MaxSetBacks
  /\ clock' = clock - 1
  /\ setBacks' = setBacks + 1
  /\ UNCHANGED <<lastStamp, counter, idCall>>

Id(c) == idCall[c].stamp * Span + idCall[c].place
WithId == {c \in Calls : idCall[c].at = "done"}

IdNext ==
  \/ \E c \in Calls : ReadClock(c) \/ GetCounter(c) \/ ExitAndRestart(c)
  \/ TimePasses \/ ClockIsSetBack

IdSpec == IdInit /\ [][IdNext]_idVars

-----------------------------------------------------------------------------
IdTypeOK ==
  /\ clock \in Nat /\ lastStamp \in Nat \cup {-1} /\ counter \in Nat
  /\ idCall \in [Calls -> [at : {"idle", "locked", "done", "lost"},
                           stamp : Nat, place : 0..(Span - 1)]]
  /\ setBacks \in Nat

\* No two calls get the same id, however they interleave and whatever the
\* clock does between them, as long as one millisecond sees no more calls
\* than the counter has values and nobody sets the clock back: the process
\* that exits then protects its own ids, but the one started in its place
\* remembers none of them.
IdsDistinct ==
  setBacks = 0 =>
    \A c, d \in WithId :
      c /= d /\ Id(c) = Id(d) =>
        Cardinality({e \in WithId : idCall[e].stamp = idCall[c].stamp}) > Span
=============================================================================
