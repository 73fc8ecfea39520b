---------------------------- MODULE ComposeReview ----------------------------
(***************************************************************************)
(* How the media services compose one review                               *)
(* (mediaMicroservices/src/ComposeReviewService/ComposeReviewHandler.h).   *)
(* The five components of a request arrive in separate calls, on any       *)
(* thread; each call adds its component and increments a counter, both in  *)
(* memcached, and the call whose increment reaches five reads the five     *)
(* components back and stores the review in three services.                *)
(*                                                                         *)
(* The module follows one request.  memcached executes one command at a    *)
(* time; an item may be gone before the request is over, because           *)
(* MMC_EXP_TIME has passed, because memcached needed the room or because   *)
(* it was restarted.                                                       *)
(***************************************************************************)
EXTENDS Integers, FiniteSets

CONSTANTS
  Components,     \* of {"unique_id", "movie_id", "user_id", "text", "rating"}
  Uploads,        \* the calls that may arrive, some for the same component
  Of,             \* Of[u] is the component that call u uploads
  MaxFaults       \* bound: calls and answers that go wrong, and lost items

ASSUME ComponentsAssumption == IsFiniteSet(Components) /\ "counter" \notin Components
ASSUME UploadsAssumption == IsFiniteSet(Uploads) /\ Of \in [Uploads -> Components]
ASSUME FaultsAssumption == MaxFaults \in Nat

VARIABLES
  items,          \* the keys in memcached
  counter,        \* the value of the item "counter"
  pc,             \* where a call is
  fetched,        \* how many components a composing call got back
  unsent,         \* the stores a composing call has yet to hear from
  kept,           \* whose review each store holds
  guessed,        \* history: the calls that guessed five
  failures, lost  \* history: how much has failed and been lost

vars == <<items, counter, pc, fetched, unsent, kept, guessed, failures, lost>>
faults == <<failures, lost>>

Stores == {"review", "user_review", "movie_review"}
Needed == Cardinality(Components)       \* NUM_COMPONENTS
Stored == items \ {"counter"}

Init ==
  /\ items = {}
  /\ counter = 0
  /\ pc = [u \in Uploads |-> "idle"]
  /\ fetched = [u \in Uploads |-> "none"]
  /\ unsent = [u \in Uploads |-> {}]
  /\ kept = [s \in Stores |-> {}]
  /\ guessed = {}
  /\ failures = 0 /\ lost = 0

Goto(u, place) == pc' = [pc EXCEPT ![u] = place]

-----------------------------------------------------------------------------
(* The steps of an upload, the same for every component. *)

\* Mutant: memcached_set instead of memcached_add.
AddCounterAgain(u) ==
  /\ pc[u] = "idle"
  /\ items' = items \cup {"counter"} /\ counter' = 0
  /\ Goto(u, "add")
  /\ UNCHANGED <<fetched, unsent, kept, guessed, faults>>

\* memcached_add of the counter, "0" if it is not there.
AddCounter(u) ==
  /\ pc[u] = "idle"
  /\ items' = items \cup {"counter"}
  /\ counter' = IF "counter" \in items THEN counter ELSE 0
  /\ Goto(u, "add")
  /\ UNCHANGED <<fetched, unsent, kept, guessed, faults>>

\* memcached_add of the component; if it is there, the counter is only read.
AddComponent(u) ==
  /\ pc[u] = "add"
  /\ Goto(u, IF Of[u] \in items THEN "get" ELSE "increment")
  /\ items' = items \cup {Of[u]}
  /\ UNCHANGED <<counter, fetched, unsent, kept, guessed, faults>>

\* Mutant: the last but one composes.
AfterCountEarly(n) == IF n >= Needed - 1 THEN "mget" ELSE "done"

\* if (counter_value == NUM_COMPONENTS) _ComposeAndUpload(...)
AfterCount(n) == IF n = Needed THEN "mget" ELSE "done"

Increment(u) ==
  /\ pc[u] = "increment" /\ "counter" \in items
  /\ counter' = counter + 1
  /\ Goto(u, AfterCount(counter + 1))
  /\ UNCHANGED <<items, fetched, unsent, kept, guessed, faults>>

Failure == failures + lost < MaxFaults /\ failures' = failures + 1

\* The return code of the increment is not looked at.  If the command fails,
\* whether memcached carried it out or not, or the counter is gone,
\* counter_value is whatever was on the stack, by bad luck five.
IncrementLost(u) ==
  /\ pc[u] = "increment"
  /\ Failure \/ ("counter" \notin items /\ UNCHANGED failures)
  /\ counter' = counter \/ ("counter" \in items /\ counter' = counter + 1)
  /\ \/ Goto(u, "done") /\ UNCHANGED guessed
     \/ Goto(u, AfterCount(Needed)) /\ guessed' = guessed \cup {u}
  /\ UNCHANGED <<items, fetched, unsent, kept, lost>>

\* memcached_get of the counter; without the item the call throws.
GetCounter(u) ==
  /\ pc[u] = "get"
  /\ Goto(u, IF "counter" \in items THEN AfterCount(counter) ELSE "failed")
  /\ UNCHANGED <<items, counter, fetched, unsent, kept, guessed, faults>>

UploadStep(u) ==
  \/ AddCounter(u) \/ AddComponent(u)
  \/ Increment(u) \/ IncrementLost(u) \/ GetCounter(u)

\* UploadMovieId, UploadUserId, UploadUniqueId, UploadText, UploadRating
Upload(component) == \E u \in Uploads : Of[u] = component /\ UploadStep(u)

-----------------------------------------------------------------------------
(* _ComposeAndUpload *)

Compose(u, got) ==
  /\ pc[u] = "mget"
  /\ fetched' = [fetched EXCEPT ![u] = got]
  /\ unsent' = [unsent EXCEPT ![u] = Stores]
  /\ Goto(u, "store")
  /\ UNCHANGED <<items, counter, kept, guessed, lost>>

\* memcached_mget: keys that are not there are not an error.
Fetch(u) ==
  /\ UNCHANGED failures
  /\ Compose(u, IF Stored = Components THEN "all" ELSE "some")

\* An error before the last component is fetched is taken for the end.
FetchCut(u) == Failure /\ Compose(u, "cut")

\* The futures are waited for, all of them; one that threw throws again.
AfterStore(u, left) ==
  IF left # {} THEN "store"
  ELSE IF \A s \in Stores : u \in kept'[s] THEN "done" ELSE "failed"

\* One of the three asynchronous calls ends, by itself or by an exception.
Answer(u, s, keptBy) ==
  /\ pc[u] = "store" /\ s \in unsent[u]
  /\ kept' = [kept EXCEPT ![s] = @ \cup keptBy]
  /\ unsent' = [unsent EXCEPT ![u] = @ \ {s}]
  /\ Goto(u, AfterStore(u, unsent[u] \ {s}))
  /\ UNCHANGED <<items, counter, fetched, guessed, lost>>

Store(u) == UNCHANGED failures /\ \E s \in Stores : Answer(u, s, {u})

ComposeAndUpload(u) == Fetch(u) \/ Store(u)

-----------------------------------------------------------------------------
StoreFails(u) == Failure /\ \E s \in Stores : Answer(u, s, {})

\* An exception, or a crash of the service, ends the call where it is.
Fail(u) ==
  /\ Failure
  /\ pc[u] \notin {"idle", "done", "failed"}
  /\ Goto(u, "failed")
  /\ UNCHANGED <<items, counter, fetched, unsent, kept, guessed, lost>>

CallStep(u) == ComposeAndUpload(u) \/ FetchCut(u) \/ StoreFails(u) \/ Fail(u)

\* memcached loses an item.
Lose ==
  /\ failures + lost < MaxFaults /\ lost' = lost + 1
  /\ \E k \in items : items' = items \ {k}
  /\ UNCHANGED <<counter, pc, fetched, unsent, kept, guessed, failures>>

Next == (\E c \in Components : Upload(c)) \/ (\E u \in Uploads : CallStep(u)) \/ Lose

Spec == Init /\ [][Next]_vars

Started == {u \in Uploads : pc[u] # "idle"}

\* Of the calls that have started some one goes on; nobody has to call.  It
\* is all that is needed, since a call takes a few steps and never waits.
FairSpec ==
  /\ Spec
  /\ WF_vars(\E u \in Started : UploadStep(u) \/ ComposeAndUpload(u))

-----------------------------------------------------------------------------
Composers == {u \in Uploads : pc[u] \in {"mget", "store"} \/ fetched[u] # "none"}

(***************************************************************************)
(* Every variable has its type; a composing call waits for all three       *)
(* stores before it returns (ComposeReviewHandler.h:244-249).              *)
(***************************************************************************)
TypeOK ==
  /\ items \subseteq Components \cup {"counter"}
  /\ counter \in Nat
  /\ pc \in [Uploads -> {"idle", "add", "increment", "get", "mget", "store",
                         "done", "failed"}]
  /\ fetched \in [Uploads -> {"none", "cut", "some", "all"}]
  /\ unsent \in [Uploads -> SUBSET Stores]
  /\ kept \in [Stores -> SUBSET Uploads] /\ guessed \subseteq Uploads
  /\ failures \in 0 .. MaxFaults /\ lost \in 0 .. MaxFaults
  /\ \A u \in Uploads : pc[u] = "done" => unsent[u] = {}

(***************************************************************************)
(* Until memcached loses an item, the counter never runs ahead of the      *)
(* components, whatever arrives twice and wherever calls fail: an upload   *)
(* adds before it increments, and adds once (lines 275-279, 297-303), so   *)
(* that five means that all five are there.                                *)
(***************************************************************************)
CounterNeverAhead ==
  lost = 0 =>
    counter + Cardinality({u \in Uploads : pc[u] = "increment"})
      <= Cardinality(Stored)

(***************************************************************************)
(* Until memcached loses an item, a call composes the review of all its    *)
(* components ("Compose a review from the components obtained from         *)
(* memcached", line 101), unless its own fetch was cut or its own          *)
(* increment was not answered and left it a five: whatever goes wrong in   *)
(* the other calls, a five from memcached means that all five are there.   *)
(***************************************************************************)
ComposesWhole ==
  lost = 0 => \A u \in Uploads \ guessed : pc[u] = "store" => fetched[u] # "some"

(***************************************************************************)
(* One call composes the review ("If this thread is the last one uploading *)
(* the review components, it is in charge of compose the request", lines   *)
(* 354-356) while every component has arrived once and no item is lost: of *)
(* two increments only one answers five (lines 334-359).  A call whose     *)
(* increment was not answered and left it a five is not counted.           *)
(***************************************************************************)
ComposedOnce ==
  lost = 0 /\ (\A u, v \in Started : Of[u] = Of[v] => u = v)
    => \A u, v \in Composers \ guessed : u = v

(***************************************************************************)
(* Once the uploads of all components have started, the review reaches     *)
(* every store, unless something fails or is lost (lines 170-249,          *)
(* 357-359).                                                               *)
(***************************************************************************)
ReviewReachesStores ==
  (\A c \in Components : \E u \in Started : Of[u] = c)
    ~> \/ \A s \in Stores : kept[s] # {}
       \/ failures > 0 \/ lost > 0
==============================================================================
