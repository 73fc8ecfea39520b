------------------------------- MODULE Services -------------------------------
(***************************************************************************)
(* What the services of the social network share: the users, the calls and *)
(* the faults of a behaviour.  A call is a request of a client; the        *)
(* services it passes through work on it one after the other, except where *)
(* a handler starts tasks of its own.  A command to a store may fail; some *)
(* handlers do not ask a MongoDB cursor that gives no document whether it  *)
(* met an error, and go on with what they have.  A Redis server may        *)
(* restart empty: no deployment file of the repository gives the Redis     *)
(* servers a disk.                                                         *)
(***************************************************************************)
EXTENDS Integers, FiniteSets

CONSTANTS
  Users,            \* the user ids
  Calls,            \* the calls of a behaviour
  MaxFailures,      \* bound: commands that fail
  MayRestart        \* the Redis servers that may restart

Servers == {"social-graph-redis", "user-timeline-redis", "home-timeline-redis"}

ASSUME ServicesAssumption ==
  /\ Users /= {} /\ IsFiniteSet(Calls)
  /\ MaxFailures \in Nat /\ MayRestart \subseteq Servers

VARIABLES
  failures,         \* history: how many commands have failed
  faulted,          \* history: the calls a command of which failed
  restarted,        \* history: the servers that have restarted
  misled            \* history: the calls that took the error of a cursor for no document

faults == <<failures, faulted, restarted, misled>>

NoFaultsYet == failures = 0 /\ faulted = {} /\ restarted = {} /\ misled = {}

CommandFails(c) ==
  /\ failures < MaxFailures
  /\ failures' = failures + 1
  /\ faulted' = faulted \cup {c}
  /\ UNCHANGED <<restarted, misled>>

\* A find fails, and the handler does not notice.
CursorFails(c) ==
  /\ failures < MaxFailures
  /\ failures' = failures + 1
  /\ faulted' = faulted \cup {c}
  /\ misled' = misled \cup {c}
  /\ UNCHANGED restarted

ServerRestarts(server) ==
  /\ server \in MayRestart
  /\ restarted' = restarted \cup {server}
  /\ UNCHANGED <<failures, faulted, misled>>

FaultsTypeOK ==
  /\ failures \in Nat
  /\ faulted \subseteq Calls /\ misled \subseteq Calls /\ restarted \subseteq Servers
=============================================================================
