------------------------------ MODULE DaprStore ------------------------------
(***************************************************************************)
(* What the services of the Dapr applications (daprApps_v1) share: state   *)
(* stores, and handlers that send their commands one after the other and   *)
(* return the first error.  A read-modify-write saves with the etag it     *)
(* read and is tried again when the item has another etag by then          *)
(* (UpdateStoreSlice of common/util, and the same loop written out in the  *)
(* handlers of post, timeline-update, user-rating and video-info).         *)
(*                                                                         *)
(* The stores are Redis servers behind sidecars: the etag of an item is    *)
(* the number of times it was written, a save is refused when the item has *)
(* another etag than the command, and an item that is not there accepts    *)
(* any.  A command that fails may have been carried out.  Comments, texts  *)
(* and images are data; the means of a rating are kept as their totals.    *)
(***************************************************************************)
EXTENDS Integers, SequencesExt

CONSTANTS
  Procs,            \* the handlers and workers
  MaxTry,           \* attempts at one update (MAX_TRY)
  MaxTimelineLen,   \* longest timeline, 0 for no limit (MAX_TIMELINE_LEN)
  PostTime          \* the time in the id of a post

ASSUME DaprStoreAssumption ==
  MaxTry \in Nat \ {0} /\ MaxTimelineLen \in Nat

VARIABLES
  items,            \* the stored items, by key
  procs,            \* what each process has still to do and has found
  faults            \* bound: how many commands may still fail

storeVars == <<items, procs, faults>>

-----------------------------------------------------------------------------
(* Keys, items and commands. *)

\* What a handler starts from when the store has no value for the key.
Empty(key) ==
  CASE key[1] = "meta of post" -> {}
    [] key[1] = "rate" -> [num |-> 0, total |-> 0]
    [] key[1] = "views" -> 0
    [] OTHER -> <<>>

Item(key) ==
  IF key \in DOMAIN items THEN items[key] ELSE [etag |-> 0, value |-> Empty(key)]
With(f, x, y) == [z \in DOMAIN f \cup {x} |-> IF z = x THEN y ELSE f[z]]
Put(key, value) ==
  items' = With(items, key, [etag |-> Item(key).etag + 1, value |-> value])
Erase(key) == items' = [k \in DOMAIN items \ {key} |-> items[k]]

\* Mutant: last write wins.
AcceptsAll(key, etag) == TRUE
Accepts(key, etag) == key \in DOMAIN items => items[key].etag = etag

NoEdit == [kind |-> "none", val |-> "none", score |-> 0]
Edit(key, kind, val) ==
  [do |-> "edit", key |-> key, edit |-> [NoEdit EXCEPT !.kind = kind, !.val = val]]
Rate(key, kind, video, score) ==
  [do |-> "edit", key |-> key, edit |-> [kind |-> kind, val |-> video, score |-> score]]
Save(key, value) == [do |-> "store", key |-> key, value |-> value]
Store(key) == Save(key, "stored")
Delete(key) == [do |-> "delete", key |-> key]
Get(key) == [do |-> "get", key |-> key]
Need(key) == [do |-> "need", key |-> key]
Publish(event) == [do |-> "publish", event |-> event]

NoRating == [exist |-> FALSE, score |-> 0]
Idle == [todo |-> <<>>, at |-> "next", seen |-> [etag |-> 0, value |-> <<>>], tries |-> 0,
         found |-> NoRating, page |-> <<>>, ok |-> TRUE]

StoreInit(stored, n) == items = stored /\ procs = [p \in Procs |-> Idle] /\ faults = n

Runs(p) == procs[p].todo /= <<>>
Command(p) == Head(procs[p].todo)
Turn(p, do) == Runs(p) /\ Command(p).do = do
Begin(p, commands) == procs' = [procs EXCEPT ![p] = [Idle EXCEPT !.todo = commands]]
Proceed(p) ==
  procs' = [procs EXCEPT ![p] = [Idle EXCEPT !.todo = Tail(procs[p].todo),
                                             !.found = procs[p].found]]
Fail(p) == procs' = [procs EXCEPT ![p] = [Idle EXCEPT !.ok = FALSE]]

-----------------------------------------------------------------------------
(* The updates. *)

\* UpdateStoreSlice and the workers stop one attempt earlier than the loops
\* of the other handlers.
Slices == {"add", "remove", "post"}
Tries(edit) == IF edit.kind \in Slices THEN MaxTry - 1 ELSE MaxTry

\* An element that is there is not added again, and one that is not there
\* needs no removal.
Needless(edit, value) ==
  /\ edit.kind \in Slices
  /\ (edit.kind = "remove") = (edit.val \notin ToSet(value))

\* IsValInSlice: where an element is first found.
Place(x, list) ==
  {i \in DOMAIN list : list[i] = x /\ \A j \in DOMAIN list : list[j] = x => i <= j}

\* A timeline is sorted before it is cut, but only now and then, and posts of
\* one time in any order.
ByTime(list) ==
  {sorted \in {[i \in DOMAIN list |-> list[turn[i]]] : turn \in Bijection(DOMAIN list, DOMAIN list)} :
     \A i, j \in DOMAIN list : i < j => PostTime[sorted[i]] <= PostTime[sorted[j]]}
Cut(list) ==
  IF MaxTimelineLen > 0 /\ Len(list) > MaxTimelineLen
  THEN SubSeq(list, Len(list) - MaxTimelineLen + 1, Len(list)) ELSE list

\* The rating of the user that a new one replaces is looked up under the id
\* of the user, which is no video's.
Replaced(key, ratings) ==
  IF key[2] \in DOMAIN ratings THEN [exist |-> TRUE, score |-> ratings[key[2]]] ELSE NoRating

Score(rating, score, replaced) ==
  [num |-> rating.num + (IF replaced.exist THEN 0 ELSE 1),
   total |-> rating.total + score - (IF replaced.exist THEN replaced.score ELSE 0)]

\* What an update may save.
Results(p) ==
  LET edit == Command(p).edit
      value == procs[p].seen.value
  IN CASE edit.kind \in {"add", "append"} -> {Append(value, edit.val)}
       [] edit.kind = "remove" -> {RemoveAt(value, i) : i \in Place(edit.val, value)}
       [] edit.kind = "post" ->
            LET list == Append(value, edit.val)
            IN {Cut(l) : l \in {list} \cup ByTime(list)}
       [] edit.kind = "meta" -> {value \cup {edit.val}}
       [] edit.kind = "rating" -> {With(value, edit.val, edit.score)}
       [] edit.kind = "score" -> {Score(value, edit.score, procs[p].found)}
       [] edit.kind = "view" -> {value + 1}

\* A changed rating of a video nobody has rated is an error.
Hopeless(p) ==
  \/ procs[p].tries = Tries(Command(p).edit)
  \/ /\ Command(p).edit.kind = "score" /\ procs[p].found.exist
     /\ Item(Command(p).key).value.num = 0

GetState(p) ==
  LET item == Item(Command(p).key)
  IN /\ Turn(p, "edit") /\ procs[p].at = "next" /\ ~Hopeless(p)
     /\ IF Needless(Command(p).edit, item.value) THEN Proceed(p)
        ELSE procs' = [procs EXCEPT ![p].at = "save", ![p].seen = item,
                 ![p].found = IF Command(p).edit.kind = "rating"
                              THEN Replaced(Command(p).key, item.value) ELSE @]
     /\ UNCHANGED <<items, faults>>

GiveUp(p) ==
  /\ Turn(p, "edit") /\ procs[p].at = "next" /\ Hopeless(p)
  /\ Fail(p)
  /\ UNCHANGED <<items, faults>>

Saves(p) ==
  /\ Turn(p, "edit") /\ procs[p].at = "save"
  /\ Accepts(Command(p).key, procs[p].seen.etag)
  /\ \E value \in Results(p) : Put(Command(p).key, value)

SaveBulkState(p) == Saves(p) /\ Proceed(p) /\ UNCHANGED faults

EtagMismatch(p) ==
  /\ Turn(p, "edit") /\ procs[p].at = "save"
  /\ ~Accepts(Command(p).key, procs[p].seen.etag)
  /\ procs' = [procs EXCEPT ![p].at = "next", ![p].tries = @ + 1]
  /\ UNCHANGED <<items, faults>>

\* Whole items are written and deleted whatever the store has.
Writes(p) == \/ Turn(p, "store") /\ Put(Command(p).key, Command(p).value)
             \/ Turn(p, "delete") /\ Erase(Command(p).key)

WriteState(p) == Writes(p) /\ Proceed(p) /\ UNCHANGED faults

ReadState(p) == Turn(p, "get") /\ Proceed(p) /\ UNCHANGED <<items, faults>>

\* A handler that needs an item which is not there returns without an error.
ReadNeeded(p) ==
  /\ Turn(p, "need")
  /\ IF Command(p).key \in DOMAIN items THEN Proceed(p) ELSE Begin(p, <<>>)
  /\ UNCHANGED <<items, faults>>

\* A command that fails ends the handler with an error; what becomes of an
\* event that is published is up to the broker.
OneFault == faults > 0 /\ faults' = faults - 1
CommandFails(p) ==
  /\ OneFault /\ Runs(p) /\ Command(p).do /= "publish"
  /\ Fail(p)
  /\ Saves(p) \/ Writes(p) \/ UNCHANGED items

StoreStep(p) == \/ GetState(p) \/ GiveUp(p) \/ SaveBulkState(p) \/ EtagMismatch(p)
                \/ WriteState(p) \/ ReadState(p) \/ ReadNeeded(p) \/ CommandFails(p)
=============================================================================
