----------------------------- MODULE DaprProofs -----------------------------
(***************************************************************************)
(* Proofs about the Dapr applications.                                     *)
(*                                                                         *)
(* What a list, an event or a reader names is stored, unless it is a post  *)
(* that is being deleted.  Each process is seen as the list of the         *)
(* commands it has still to send.  Its commands need only what is stored   *)
(* already or what an earlier one of them stores, and this is true of      *)
(* every suffix of them; what is stored stays, but for the items of the    *)
(* posts somebody asked to delete; so the elements that an update adds to  *)
(* a list, and the events that are published, name what is stored at that  *)
(* time and from then on (NeedsInv).                                       *)
(*                                                                         *)
(* Edits are kept.  What an update has read is the item, if the item has   *)
(* not been written since, so that a save loses nothing; an element leaves *)
(* a list by a request to the contrary only, and a counter counts those    *)
(* who are done (CallsInv).  What the handler of an event has found is     *)
(* stored (FindingsInv).  A request to the pipeline, and each frame of it, *)
(* is in a queue, with a worker, given up or left without marks, or marked *)
(* (FramesInv).                                                            *)
(*                                                                         *)
(* Timelines are served.  Only the workers edit them, each for a handler   *)
(* that waits for it, so what a worker has put there stays until its post  *)
(* is deleted or the timeline is cut; and once a removal that ran alone is *)
(* under way no event adds its post again (TimelinesInv).                  *)
(***************************************************************************)
EXTENDS DaprApps, FiniteSetTheorems, SequenceTheorems, TLAPS

-----------------------------------------------------------------------------
(* Lists. *)

IsList(s) == s \in Seq(ToSet(s))

LEMMA ListFacts ==
  ASSUME NEW s, IsList(s)
  PROVE  /\ Len(s) \in Nat /\ DOMAIN s = 1..Len(s)
         /\ \A i \in 1..Len(s) : s[i] \in ToSet(s)
         /\ \A x \in ToSet(s) : \E i \in 1..Len(s) : s[i] = x
         /\ s = <<>> <=> Len(s) = 0
         /\ s # <<>> => Head(s) = s[1]
BY DEF IsList, ToSet

LEMMA SeqIsList ==
  ASSUME NEW S, NEW s \in Seq(S)
  PROVE  IsList(s) /\ ToSet(s) \subseteq S
<1>1. Len(s) \in Nat /\ DOMAIN s = 1..Len(s) /\ \A i \in 1..Len(s) : s[i] \in S
  OBVIOUS
<1>2. s \in [1..Len(s) -> ToSet(s)]
  <2>1. s = [i \in 1..Len(s) |-> s[i]]
    OBVIOUS
  <2> QED
    BY <1>1, <2>1 DEF ToSet
<1>3. s \in Seq(ToSet(s))
  BY <1>1, <1>2, SeqDef
<1> QED
  BY <1>1, <1>3 DEF IsList, ToSet

LEMMA ListTail ==
  ASSUME NEW s, IsList(s), s # <<>>
  PROVE  /\ IsList(Tail(s)) /\ Len(Tail(s)) = Len(s) - 1
         /\ \A i \in 1..Len(Tail(s)) : Tail(s)[i] = s[i + 1]
<1>1. Tail(s) \in Seq(ToSet(s)) /\ Len(Tail(s)) = Len(s) - 1
      /\ \A i \in 1..Len(Tail(s)) : Tail(s)[i] = s[i + 1]
  BY DEF IsList
<1> QED
  BY <1>1, SeqIsList

LEMMA ListAppend ==
  ASSUME NEW s, IsList(s), NEW x
  PROVE  /\ IsList(Append(s, x)) /\ ToSet(Append(s, x)) = ToSet(s) \cup {x}
         /\ Len(Append(s, x)) = Len(s) + 1
         /\ \A i \in 1..Len(s) : Append(s, x)[i] = s[i]
         /\ Append(s, x)[Len(s) + 1] = x
<1>1. s \in Seq(ToSet(s) \cup {x}) /\ Len(s) \in Nat
  <2>1. s \in Seq(ToSet(s))
    BY DEF IsList
  <2> QED
    BY <2>1, SeqMonotonic
<1>2. Append(s, x) \in Seq(ToSet(s) \cup {x}) /\ Len(Append(s, x)) = Len(s) + 1
      /\ Append(s, x)[Len(s) + 1] = x /\ \A i \in 1..Len(s) : Append(s, x)[i] = s[i]
  BY <1>1
<1>3. DOMAIN Append(s, x) = 1..(Len(s) + 1) /\ DOMAIN s = 1..Len(s)
  BY <1>1, <1>2
<1>4. ToSet(s) \subseteq ToSet(Append(s, x)) /\ x \in ToSet(Append(s, x))
  BY <1>1, <1>2, <1>3 DEF ToSet
<1> QED
  BY <1>1, <1>2, <1>4, SeqIsList

LEMMA SubList ==
  ASSUME NEW s, IsList(s), NEW m \in Nat, NEW n \in Nat, 1 <= m, n <= Len(s)
  PROVE  /\ IsList(SubSeq(s, m, n)) /\ ToSet(SubSeq(s, m, n)) \subseteq ToSet(s)
         /\ Len(SubSeq(s, m, n)) = IF m <= n + 1 THEN n - m + 1 ELSE 0
         /\ \A i \in 1..Len(SubSeq(s, m, n)) : SubSeq(s, m, n)[i] = s[m + i - 1]
<1>1. s \in Seq(ToSet(s)) /\ Len(s) \in Nat
  BY DEF IsList
<1>2. SubSeq(s, m, n) \in Seq(ToSet(s))
  BY <1>1
<1>3. /\ Len(SubSeq(s, m, n)) = IF m <= n + 1 THEN n - m + 1 ELSE 0
      /\ \A i \in 1..Len(SubSeq(s, m, n)) : SubSeq(s, m, n)[i] = s[m + i - 1]
  BY <1>1
<1> QED
  BY <1>2, <1>3, SeqIsList

LEMMA ListConcat ==
  ASSUME NEW s, IsList(s), NEW t, IsList(t)
  PROVE  /\ IsList(s \o t) /\ Len(s \o t) = Len(s) + Len(t)
         /\ ToSet(s \o t) = ToSet(s) \cup ToSet(t)
         /\ \A i \in 1..Len(s) : (s \o t)[i] = s[i]
         /\ \A i \in 1..Len(t) : (s \o t)[Len(s) + i] = t[i]
<1>1. s \in Seq(ToSet(s) \cup ToSet(t)) /\ t \in Seq(ToSet(s) \cup ToSet(t))
  <2>1. s \in Seq(ToSet(s)) /\ t \in Seq(ToSet(t))
    BY DEF IsList
  <2> QED
    BY <2>1, SeqMonotonic
<1>2. /\ s \o t \in Seq(ToSet(s) \cup ToSet(t)) /\ Len(s \o t) = Len(s) + Len(t)
      /\ \A i \in 1..Len(s) : (s \o t)[i] = s[i]
      /\ \A i \in 1..Len(t) : (s \o t)[Len(s) + i] = t[i]
  BY <1>1
<1>3. /\ DOMAIN (s \o t) = 1..(Len(s) + Len(t)) /\ DOMAIN s = 1..Len(s) /\ DOMAIN t = 1..Len(t)
      /\ Len(s) \in Nat /\ Len(t) \in Nat
  BY <1>1, <1>2
<1>4. ASSUME NEW x \in ToSet(s) PROVE x \in ToSet(s \o t)
  <2>1. PICK i \in 1..Len(s) : s[i] = x
    BY <1>3 DEF ToSet
  <2>2. i \in 1..(Len(s) + Len(t)) /\ (s \o t)[i] = x
    BY <1>2, <1>3, <2>1
  <2> QED
    BY <1>3, <2>2 DEF ToSet
<1>5. ASSUME NEW x \in ToSet(t) PROVE x \in ToSet(s \o t)
  <2>1. PICK i \in 1..Len(t) : t[i] = x
    BY <1>3 DEF ToSet
  <2>2. Len(s) + i \in 1..(Len(s) + Len(t)) /\ (s \o t)[Len(s) + i] = x
    BY <1>2, <1>3, <2>1
  <2> QED
    BY <1>3, <2>2 DEF ToSet
<1>6. IsList(s \o t) /\ ToSet(s \o t) \subseteq ToSet(s) \cup ToSet(t)
  BY <1>2, SeqIsList
<1> QED
  BY <1>2, <1>4, <1>5, <1>6

-----------------------------------------------------------------------------
(* The steps of the handlers and workers. *)

\* A process is a record; what it has still to do is a list of commands, and
\* it saves only what an edit has read.
ProcFields == {"todo", "at", "seen", "tries", "found", "page", "ok"}
ProcsShaped ==
  /\ procs = [p \in Procs |-> procs[p]]
  /\ \A p \in Procs :
       /\ DOMAIN procs[p] = ProcFields
       /\ IsList(procs[p].todo) /\ procs[p].at \in {"next", "save"}
       /\ procs[p].at = "save" => Runs(p) /\ Command(p).do = "edit"

ItemsShaped ==
  \A key \in DOMAIN items :
    /\ items[key] = [etag |-> items[key].etag, value |-> items[key].value]
    /\ items[key].etag \in Nat \ {0}

OthersStay(p) == \A q \in Procs \ {p} : procs'[q] = procs[q]

\* What a process that runs may do next.
Reached(p, todo, page, ok) ==
  /\ procs'[p].todo = todo /\ procs'[p].at = "next" /\ procs'[p].page = page /\ procs'[p].ok = ok
Goes(p) == Reached(p, Tail(procs[p].todo), <<>>, TRUE)

HasRead(p) ==
  /\ Command(p).do = "edit" /\ ~Needless(Command(p).edit, Item(Command(p).key).value)
  /\ procs'[p].todo = procs[p].todo /\ procs'[p].page = procs[p].page
  /\ procs'[p].ok = procs[p].ok /\ procs'[p].at = "save"
  /\ procs'[p].seen = Item(Command(p).key)
  /\ UNCHANGED items
HasSkipped(p) ==
  /\ Command(p).do = "edit" /\ Needless(Command(p).edit, Item(Command(p).key).value)
  /\ Goes(p) /\ UNCHANGED items
HasSaved(p) == Saves(p) /\ Goes(p)
TriesAgain(p) ==
  /\ procs'[p].todo = procs[p].todo /\ procs'[p].at = "next" /\ procs'[p].page = procs[p].page
  /\ procs'[p].ok = procs[p].ok
  /\ UNCHANGED items
HasWritten(p) == Writes(p) /\ Goes(p)
HasPassed(p) ==
  /\ Command(p).do \in {"get", "need", "publish", "posts"}
  /\ Command(p).do = "need" => Command(p).key \in DOMAIN items
  /\ Goes(p) /\ UNCHANGED items
HasTurned(p) ==
  /\ Command(p).do = "page"
  /\ \E page : /\ ToSet(page) \subseteq ToSet(Item(Command(p).key).value)
               /\ Reached(p, IF page = <<>> THEN <<>> ELSE Tail(procs[p].todo), page, TRUE)
  /\ UNCHANGED items
HasStopped(p) ==
  /\ \E ok \in BOOLEAN :
       /\ Reached(p, <<>>, <<>>, ok)
       /\ ok => Command(p).do = "need" /\ Command(p).key \notin DOMAIN items
  /\ Saves(p) \/ Writes(p) \/ UNCHANGED items

Advances(p) ==
  /\ p \in Procs /\ Runs(p) /\ OthersStay(p) /\ ProcsShaped'
  /\ \/ HasRead(p) \/ HasSkipped(p) \/ HasSaved(p) \/ TriesAgain(p) \/ HasWritten(p)
     \/ HasPassed(p) \/ HasTurned(p) \/ HasStopped(p)

Begins(p, commands) ==
  /\ p \in Procs /\ OthersStay(p) /\ ProcsShaped'
  /\ Reached(p, commands, <<>>, TRUE) /\ UNCHANGED items

LEMMA ProcsFacts ==
  ASSUME ProcsShaped, NEW p \in Procs
  PROVE  /\ IsList(procs[p].todo) /\ procs[p].at \in {"next", "save"}
         /\ procs[p].at = "save" => Runs(p) /\ Command(p).do = "edit"
         /\ Runs(p) => /\ Len(procs[p].todo) \in Nat \ {0}
                       /\ Command(p) = procs[p].todo[1]
                       /\ IsList(Tail(procs[p].todo))
<1>1. /\ IsList(procs[p].todo) /\ procs[p].at \in {"next", "save"}
      /\ procs[p].at = "save" => Runs(p) /\ Command(p).do = "edit"
  BY DEF ProcsShaped
<1>2. ASSUME Runs(p) PROVE /\ Len(procs[p].todo) \in Nat \ {0}
                           /\ Command(p) = procs[p].todo[1]
                           /\ IsList(Tail(procs[p].todo))
  <2>1. procs[p].todo # <<>>
    BY <1>2 DEF Runs
  <2> QED
    BY <1>1, <2>1, ListFacts, ListTail DEF Command
<1> QED
  BY <1>1, <1>2

LEMMA ProcChanges ==
  ASSUME ProcsShaped, NEW p \in Procs, NEW new, procs' = [procs EXCEPT ![p] = new],
         DOMAIN new = ProcFields, IsList(new.todo), new.at \in {"next", "save"},
         new.at = "save" => new.todo # <<>> /\ Head(new.todo).do = "edit"
  PROVE  ProcsShaped' /\ OthersStay(p) /\ procs'[p] = new
<1>1. DOMAIN procs = Procs
  BY DEF ProcsShaped
<1>2. /\ procs'[p] = new /\ procs' = [q \in Procs |-> procs'[q]]
      /\ \A q \in Procs \ {p} : procs'[q] = procs[q]
  BY <1>1
<1>3. ASSUME NEW q \in Procs
      PROVE  /\ DOMAIN procs'[q] = ProcFields
             /\ IsList(procs'[q].todo) /\ procs'[q].at \in {"next", "save"}
             /\ procs'[q].at = "save" => procs'[q].todo # <<>> /\ Head(procs'[q].todo).do = "edit"
  <2>1. CASE q = p
    BY <2>1, <1>2
  <2>2. CASE q # p
    BY <2>2, <1>2 DEF ProcsShaped, Runs, Command
  <2> QED
    BY <2>1, <2>2
<1>4. ProcsShaped'
  BY <1>2, <1>3 DEF ProcsShaped, Runs, Command
<1> QED
  BY <1>2, <1>4 DEF OthersStay

LEMMA EmptyList == IsList(<<>>) /\ Len(<<>>) = 0 /\ ToSet(<<>>) = {}
<1>1. ToSet(<<>>) = {}
  BY DEF ToSet
<1>2. <<>> \in Seq({})
  OBVIOUS
<1> QED
  BY <1>1, <1>2 DEF IsList

LEMMA BeginFacts ==
  ASSUME ProcsShaped, NEW p \in Procs, NEW commands, IsList(commands), Begin(p, commands)
  PROVE  ProcsShaped' /\ OthersStay(p) /\ Reached(p, commands, <<>>, TRUE)
<1> DEFINE new == [Idle EXCEPT !.todo = commands]
<1>1. /\ DOMAIN new = ProcFields /\ new.todo = commands /\ new.at = "next"
      /\ new.page = <<>> /\ new.ok = TRUE
  BY DEF Idle, ProcFields
<1>2. procs' = [procs EXCEPT ![p] = new]
  BY DEF Begin
<1> HIDE DEF new
<1>3. ProcsShaped' /\ OthersStay(p) /\ procs'[p] = new
  BY <1>1, <1>2, ProcChanges
<1> QED
  BY <1>1, <1>3 DEF Reached

LEMMA FailFacts ==
  ASSUME ProcsShaped, NEW p \in Procs, Fail(p)
  PROVE  ProcsShaped' /\ OthersStay(p) /\ Reached(p, <<>>, <<>>, FALSE)
<1> DEFINE new == [Idle EXCEPT !.ok = FALSE]
<1>1. /\ DOMAIN new = ProcFields /\ new.todo = <<>> /\ new.at = "next"
      /\ new.page = <<>> /\ new.ok = FALSE
  BY DEF Idle, ProcFields
<1>2. procs' = [procs EXCEPT ![p] = new]
  BY DEF Fail
<1> HIDE DEF new
<1>3. ProcsShaped' /\ OthersStay(p) /\ procs'[p] = new
  BY <1>1, <1>2, ProcChanges, EmptyList
<1> QED
  BY <1>1, <1>3 DEF Reached

LEMMA ProceedFacts ==
  ASSUME ProcsShaped, NEW p \in Procs, Runs(p), Proceed(p)
  PROVE  ProcsShaped' /\ OthersStay(p) /\ Goes(p)
<1> DEFINE new == [Idle EXCEPT !.todo = Tail(procs[p].todo), !.found = procs[p].found]
<1>1. /\ DOMAIN new = ProcFields /\ new.todo = Tail(procs[p].todo) /\ new.at = "next"
      /\ new.page = <<>> /\ new.ok = TRUE
  BY DEF Idle, ProcFields
<1>2. procs' = [procs EXCEPT ![p] = new]
  BY DEF Proceed
<1>3. IsList(Tail(procs[p].todo))
  BY ProcsFacts
<1> HIDE DEF new
<1>4. ProcsShaped' /\ OthersStay(p) /\ procs'[p] = new
  BY <1>1, <1>2, <1>3, ProcChanges
<1> QED
  BY <1>1, <1>4 DEF Reached, Goes

\* The place, what was seen, the attempts and the rating found.
LEMMA StaysFacts ==
  ASSUME ProcsShaped, NEW p \in Procs, Runs(p), NEW at \in {"next", "save"}, NEW seen, NEW tries,
         NEW found, at = "save" => Command(p).do = "edit",
         procs' = [procs EXCEPT ![p].at = at, ![p].seen = seen, ![p].tries = tries,
                                ![p].found = found]
  PROVE  /\ ProcsShaped' /\ OthersStay(p)
         /\ procs'[p].todo = procs[p].todo /\ procs'[p].at = at /\ procs'[p].seen = seen
         /\ procs'[p].page = procs[p].page /\ procs'[p].ok = procs[p].ok
<1> DEFINE new ==
      [procs[p] EXCEPT !.at = at, !.seen = seen, !.tries = tries, !.found = found]
<1>1. DOMAIN procs = Procs /\ DOMAIN procs[p] = ProcFields
  BY DEF ProcsShaped
<1>2. /\ DOMAIN new = ProcFields /\ new.todo = procs[p].todo /\ new.at = at /\ new.seen = seen
      /\ new.page = procs[p].page /\ new.ok = procs[p].ok
  BY <1>1 DEF ProcFields
<1>3. procs' = [procs EXCEPT ![p] = new]
  BY <1>1
<1>4. IsList(procs[p].todo) /\ procs[p].todo # <<>> /\ Command(p) = Head(procs[p].todo)
  BY ProcsFacts DEF Runs, Command
<1>5. /\ IsList(new.todo) /\ new.at \in {"next", "save"}
      /\ new.at = "save" => new.todo # <<>> /\ Head(new.todo).do = "edit"
  <2> HIDE DEF new
  <2> QED
    BY <1>2, <1>4
<1> HIDE DEF new
<1>6. ProcsShaped' /\ OthersStay(p) /\ procs'[p] = new
  BY <1>2, <1>3, <1>5, ProcChanges
<1> QED
  BY <1>2, <1>6

-----------------------------------------------------------------------------
LEMMA StoreStepAdvances ==
  ASSUME ProcsShaped, NEW p \in Procs, StoreStep(p)
  PROVE  Advances(p)
<1>1. CASE GetState(p)
  <2>1. Runs(p) /\ Command(p).do = "edit" /\ UNCHANGED items
    BY <1>1 DEF GetState, Turn
  <2>2. CASE Needless(Command(p).edit, Item(Command(p).key).value)
    <3>1. Proceed(p)
      BY <1>1, <2>2 DEF GetState
    <3> QED
      BY <2>1, <2>2, <3>1, ProceedFacts DEF Advances, HasSkipped
  <2>3. CASE ~Needless(Command(p).edit, Item(Command(p).key).value)
    <3>1. \E found : procs' = [procs EXCEPT ![p].at = "save", ![p].seen = Item(Command(p).key),
                                           ![p].found = found]
      <4>1. CASE Command(p).edit.kind = "rating"
        BY <1>1, <2>3, <4>1 DEF GetState
      <4>2. CASE Command(p).edit.kind # "rating"
        BY <1>1, <2>3, <4>2 DEF GetState
      <4> QED
        BY <4>1, <4>2
    <3>2. PICK found : procs' = [procs EXCEPT ![p].at = "save", ![p].seen = Item(Command(p).key),
                                           ![p].found = found]
      BY <3>1
    <3>3. procs' = [procs EXCEPT ![p].at = "save", ![p].seen = Item(Command(p).key),
                      ![p].tries = procs[p].tries, ![p].found = found]
      BY <3>2 DEF ProcsShaped
    <3>4. /\ ProcsShaped' /\ OthersStay(p)
          /\ procs'[p].todo = procs[p].todo /\ procs'[p].at = "save"
          /\ procs'[p].seen = Item(Command(p).key)
          /\ procs'[p].page = procs[p].page /\ procs'[p].ok = procs[p].ok
      BY <2>1, <3>3, StaysFacts
    <3> QED
      BY <2>1, <2>3, <3>4 DEF Advances, HasRead
  <2> QED
    BY <2>2, <2>3
<1>2. CASE GiveUp(p)
  <2>1. Runs(p) /\ Command(p).do = "edit" /\ UNCHANGED items /\ Fail(p)
    BY <1>2 DEF GiveUp, Turn
  <2> QED
    BY <2>1, FailFacts DEF Advances, HasStopped
<1>3. CASE SaveBulkState(p)
  <2>1. Runs(p) /\ Saves(p) /\ Proceed(p)
    BY <1>3 DEF SaveBulkState, Saves, Turn
  <2> QED
    BY <2>1, ProceedFacts DEF Advances, HasSaved
<1>4. CASE EtagMismatch(p)
  <2>1. Runs(p) /\ UNCHANGED items
        /\ procs' = [procs EXCEPT ![p].at = "next", ![p].tries = @ + 1]
    BY <1>4 DEF EtagMismatch, Turn
  <2> DEFINE new == [procs[p] EXCEPT !.at = "next", !.tries = @ + 1]
  <2>2. DOMAIN procs = Procs /\ DOMAIN procs[p] = ProcFields
    BY DEF ProcsShaped
  <2>3. /\ procs' = [procs EXCEPT ![p] = new] /\ DOMAIN new = ProcFields
        /\ new.todo = procs[p].todo /\ new.at = "next" /\ new.page = procs[p].page
        /\ new.ok = procs[p].ok
    BY <2>1, <2>2 DEF ProcFields
  <2>4. IsList(procs[p].todo)
    BY ProcsFacts
  <2> HIDE DEF new
  <2>5. ProcsShaped' /\ OthersStay(p) /\ procs'[p] = new
    BY <2>3, <2>4, ProcChanges
  <2> QED
    BY <2>1, <2>3, <2>5 DEF Advances, TriesAgain
<1>5. CASE WriteState(p)
  <2>1. Runs(p) /\ Writes(p) /\ Proceed(p)
    BY <1>5 DEF WriteState, Writes, Turn
  <2> QED
    BY <2>1, ProceedFacts DEF Advances, HasWritten
<1>6. CASE ReadState(p)
  <2>1. Runs(p) /\ Command(p).do = "get" /\ Proceed(p) /\ UNCHANGED items
    BY <1>6 DEF ReadState, Turn
  <2> QED
    BY <2>1, ProceedFacts DEF Advances, HasPassed
<1>7. CASE ReadNeeded(p)
  <2>1. Runs(p) /\ Command(p).do = "need" /\ UNCHANGED items
    BY <1>7 DEF ReadNeeded, Turn
  <2>2. CASE Command(p).key \in DOMAIN items
    <3>1. Proceed(p)
      BY <1>7, <2>2 DEF ReadNeeded
    <3> QED
      BY <2>1, <2>2, <3>1, ProceedFacts DEF Advances, HasPassed
  <2>3. CASE Command(p).key \notin DOMAIN items
    <3>1. Begin(p, <<>>)
      BY <1>7, <2>3 DEF ReadNeeded
    <3>2. ProcsShaped' /\ OthersStay(p) /\ Reached(p, <<>>, <<>>, TRUE)
      BY <3>1, EmptyList, BeginFacts
    <3> QED
      BY <2>1, <2>3, <3>2 DEF Advances, HasStopped
  <2> QED
    BY <2>2, <2>3
<1>8. CASE CommandFails(p)
  <2>1. Runs(p) /\ Fail(p) /\ (Saves(p) \/ Writes(p) \/ UNCHANGED items)
    BY <1>8 DEF CommandFails
  <2> QED
    BY <2>1, FailFacts DEF Advances, HasStopped
<1> QED
  BY <1>1, <1>2, <1>3, <1>4, <1>5, <1>6, <1>7, <1>8 DEF StoreStep

LEMMA PublishingAdvances ==
  ASSUME ProcsShaped, NEW p \in Procs, PublishEvent(p) \/ PublishFails(p)
  PROVE  Advances(p) /\ Command(p).do = "publish"
<1>1. CASE PublishEvent(p)
  <2>1. Runs(p) /\ Command(p).do = "publish" /\ Proceed(p) /\ UNCHANGED items
    BY <1>1 DEF PublishEvent, Turn
  <2> QED
    BY <2>1, ProceedFacts DEF Advances, HasPassed
<1>2. CASE PublishFails(p)
  <2>1. Runs(p) /\ Command(p).do = "publish" /\ Fail(p) /\ UNCHANGED items
    BY <1>2 DEF PublishFails, Turn
  <2> QED
    BY <2>1, FailFacts DEF Advances, HasStopped
<1> QED
  BY <1>1, <1>2

LEMMA ReadPostsAdvances ==
  ASSUME ProcsShaped, NEW p \in Procs, ReadPosts(p)
  PROVE  Advances(p) /\ Command(p).do = "posts"
<1>1. Runs(p) /\ Command(p).do = "posts" /\ Proceed(p) /\ UNCHANGED items
  BY DEF ReadPosts, Turn
<1> QED
  BY <1>1, ProceedFacts DEF Advances, HasPassed

LEMMA ReadFailsAdvances ==
  ASSUME ProcsShaped, NEW p \in Procs, ReadFails(p)
  PROVE  Advances(p) /\ Command(p).do = "get"
<1>1. Runs(p) /\ Command(p).do = "get" /\ UNCHANGED items
  BY DEF ReadFails, Turn
<1>2. CASE procs' = [procs EXCEPT ![p].tries = @ + 1]
  <2>1. procs[p].at = "next"
    BY <1>1, ProcsFacts
  <2>2. procs' = [procs EXCEPT ![p].at = "next", ![p].seen = procs[p].seen,
                    ![p].tries = procs[p].tries + 1, ![p].found = procs[p].found]
    BY <1>2, <2>1 DEF ProcsShaped
  <2>3. /\ ProcsShaped' /\ OthersStay(p)
        /\ procs'[p].todo = procs[p].todo /\ procs'[p].at = "next"
        /\ procs'[p].page = procs[p].page /\ procs'[p].ok = procs[p].ok
    BY <1>1, <2>2, StaysFacts
  <2> QED
    BY <1>1, <2>3 DEF Advances, TriesAgain
<1>3. CASE Fail(p)
  BY <1>1, <1>3, FailFacts DEF Advances, HasStopped
<1> QED
  BY <1>2, <1>3 DEF ReadFails

LEMMA WorkerDiesAdvances ==
  ASSUME ProcsShaped, NEW p \in Procs, WorkerDies(p)
  PROVE  Advances(p) /\ Command(p).do \in {"store", "publish"} /\ HasStopped(p)
<1>1. /\ Runs(p) /\ Command(p).do \in {"store", "publish"} /\ Fail(p)
      /\ Writes(p) \/ UNCHANGED items
  BY DEF WorkerDies, Turn
<1> QED
  BY <1>1, FailFacts DEF Advances, HasStopped

-----------------------------------------------------------------------------
(* What the handlers and workers are there to do. *)

Timelines == {"user timeline", "home timeline"}
Wholes == {"content", "images", "video", "meta of video", "scaled", "thumbnail", "frame"}
ItemsOf(post) == {Content(post), Meta(post), Comments(post), Upvotes(post)}

EventRight(e) ==
  e.kind \in Stages => e.user \in Priorities /\ (e.kind # "face" => e.about \in DOMAIN FramesOf)

\* Each kind of item has its own edits.
EditRight(kind, key) ==
  \/ kind \in {"add", "remove"} /\ key[1] \in {"follows", "followers"}
  \/ kind = "add" /\ key[1] \in {"upvotes", "date"}
  \/ kind = "append" /\ key[1] = "comments"
  \/ kind \in {"post", "remove"} /\ key[1] \in Timelines
  \/ kind = "meta" /\ key[1] = "meta of post"
  \/ kind = "rating" /\ key[1] = "ratings"
  \/ kind = "score" /\ key[1] = "rate"
  \/ kind = "view" /\ key[1] = "views"

CommandRight(command) ==
  \/ command.do = "edit" /\ EditRight(command.edit.kind, command.key)
  \/ command.do = "store" /\ command.key[1] \in Wholes
  \/ command.do = "delete" /\ \E post \in Posts : command.key \in ItemsOf(post)
  \/ command.do = "publish" /\ EventRight(command.event)
  \/ command.do = "page" /\ command.key[1] \in Timelines /\ command.posts \in Nat
  \/ command.do \in {"get", "need", "posts"}

AllRight(commands) == \A i \in 1..Len(commands) : CommandRight(commands[i])

\* What must be stored before a command is sent.
EventNeeds(e) ==
  CASE e.kind = "add" -> {Content(e.about)}
    [] e.kind \in {"scale", "thumbnail"} -> {Data(e.about)}
    [] e.kind = "face" -> {Frame(e.about)}
    [] OTHER -> {}
ElementNeeds(key, x) ==
  CASE key[1] \in Timelines -> {Content(x)}
    [] key[1] = "date" -> {Data(x), VideoMeta(x)}
    [] OTHER -> {}
Needs(command) ==
  CASE command.do = "publish" -> EventNeeds(command.event)
    [] command.do = "edit" /\ command.edit.kind # "remove" ->
         ElementNeeds(command.key, command.edit.val)
    [] OTHER -> {}

StoredBefore(commands, i, key) ==
  \E j \in 1..(i - 1) : commands[j].do = "store" /\ commands[j].key = key
InOrder(commands) ==
  \A i \in 1..Len(commands) : \A key \in Needs(commands[i]) : StoredBefore(commands, i, key)

Deletes(commands, post) == \E i \in 1..Len(commands) : commands[i] = Delete(Content(post))

RequestRight(request) ==
  /\ IsList(request) /\ AllRight(request) /\ InOrder(request)
  /\ \A i \in 1..Len(request), post \in Posts :
       request[i].do = "delete" /\ request[i].key \in ItemsOf(post) => Deletes(request, post)

LEMMA OneCommand ==
  ASSUME NEW a, CommandRight(a), Needs(a) = {}, a.do # "delete"
  PROVE  RequestRight(<<a>>)
<1> DEFINE r == <<a>>
<1>1. r \in Seq({a}) /\ Len(r) = 1 /\ r[1] = a
  OBVIOUS
<1> HIDE DEF r
<1>2. IsList(r) /\ \A i \in 1..Len(r) : r[i] = a
  BY <1>1, SeqIsList
<1> QED
  BY <1>1, <1>2 DEF RequestRight, AllRight, InOrder, r

LEMMA TwoCommands ==
  ASSUME NEW a, CommandRight(a), Needs(a) = {}, a.do # "delete",
         NEW b, CommandRight(b), Needs(b) = {}, b.do # "delete"
  PROVE  RequestRight(<<a, b>>)
<1> DEFINE r == <<a, b>>
<1>1. r \in Seq({a, b}) /\ Len(r) = 2 /\ r[1] = a /\ r[2] = b
  OBVIOUS
<1> HIDE DEF r
<1>2. IsList(r) /\ \A i \in 1..Len(r) : i \in {1, 2}
  BY <1>1, SeqIsList
<1> QED
  BY <1>1, <1>2 DEF RequestRight, AllRight, InOrder, r

LEMMA FollowRight ==
  ASSUME NEW u, NEW v
  PROVE  RequestRight(FollowUser(u, v)) /\ RequestRight(UnfollowUser(u, v))
<1>1. ASSUME NEW kind \in {"add", "remove"}, NEW key, key[1] \in {"follows", "followers"}, NEW val,
             NEW edit, edit = Edit(key, kind, val)
      PROVE  CommandRight(edit) /\ Needs(edit) = {} /\ edit.do # "delete"
  <2>1. edit.do = "edit" /\ edit.key = key /\ edit.edit.kind = kind
    BY <1>1 DEF Edit, NoEdit
  <2> QED
    BY <1>1, <2>1 DEF CommandRight, EditRight, Needs, ElementNeeds, Timelines
<1>2. /\ Follows(u)[1] = "follows" /\ Followers(v)[1] = "followers"
  BY DEF Follows, Followers
<1> QED
  BY <1>1, <1>2, TwoCommands DEF FollowUser, UnfollowUser

LEMMA OneEdits ==
  ASSUME NEW post, NEW x
  PROVE  RequestRight(Comment(post, x)) /\ RequestRight(Upvote(post, x))
         /\ RequestRight(CountView(x))
<1>1. ASSUME NEW key, NEW kind, EditRight(kind, key), ElementNeeds(key, x) = {}
      PROVE  RequestRight(<<Edit(key, kind, x)>>)
  <2> DEFINE edit == Edit(key, kind, x)
  <2>1. edit.do = "edit" /\ edit.key = key /\ edit.edit.kind = kind /\ edit.edit.val = x
    BY DEF Edit, NoEdit
  <2> HIDE DEF edit
  <2>2. CommandRight(edit) /\ Needs(edit) = {} /\ edit.do # "delete"
    BY <1>1, <2>1 DEF CommandRight, Needs
  <2> QED
    BY <2>2, OneCommand DEF edit
<1>2. /\ Comments(post)[1] = "comments" /\ Upvotes(post)[1] = "upvotes" /\ Views(x)[1] = "views"
  BY DEF Comments, Upvotes, Views
<1> QED
  BY <1>1, <1>2 DEF Comment, Upvote, CountView, EditRight, ElementNeeds, Timelines

LEMMA OneList == ASSUME NEW a PROVE IsList(<<a>>) /\ Len(<<a>>) = 1 /\ <<a>>[1] = a
<1>1. <<a>> \in Seq({a}) /\ Len(<<a>>) = 1 /\ <<a>>[1] = a
  OBVIOUS
<1> QED
  BY <1>1, SeqIsList

LEMMA ListsEqual ==
  ASSUME NEW s, NEW t, IsList(s), IsList(t), Len(s) = Len(t),
         \A i \in 1..Len(s) : s[i] = t[i]
  PROVE  s = t
<1>1. s \in Seq(ToSet(s)) /\ t \in Seq(ToSet(t))
  BY DEF IsList
<1> QED
  BY <1>1, SeqEqual

LEMMA Joined ==
  ASSUME NEW s, IsList(s), NEW a
  PROVE  s \o <<a>> = Append(s, a)
<1>1. s \in Seq(ToSet(s) \cup {a})
  <2>1. s \in Seq(ToSet(s))
    BY DEF IsList
  <2> QED
    BY <2>1, SeqMonotonic
<1> QED
  BY <1>1, AppendIsConcat

LEMMA AppendsAre ==
  ASSUME NEW a, NEW b, NEW c
  PROVE  Append(<<a>>, b) = <<a, b>> /\ Append(<<a, b>>, c) = <<a, b, c>>
<1>1. Append(<<a>>, b) = <<a, b>>
  <2> DEFINE s == Append(<<a>>, b)
             t == <<a, b>>
  <2>1. /\ s \in Seq({a, b}) /\ t \in Seq({a, b}) /\ Len(s) = 2 /\ Len(t) = 2
        /\ s[1] = a /\ s[2] = b /\ t[1] = a /\ t[2] = b
    OBVIOUS
  <2> HIDE DEF s, t
  <2>2. \A i \in 1..2 : i \in {1, 2}
    OBVIOUS
  <2>3. s = t
    BY <2>1, <2>2, SeqEqual
  <2> QED
    BY <2>3 DEF s, t
<1>2. Append(<<a, b>>, c) = <<a, b, c>>
  <2> DEFINE s == Append(<<a, b>>, c)
             t == <<a, b, c>>
  <2>1. /\ s \in Seq({a, b, c}) /\ t \in Seq({a, b, c}) /\ Len(s) = 3 /\ Len(t) = 3
        /\ s[1] = a /\ s[2] = b /\ s[3] = c /\ t[1] = a /\ t[2] = b /\ t[3] = c
    OBVIOUS
  <2> HIDE DEF s, t
  <2>2. \A i \in 1..3 : i \in {1, 2, 3}
    OBVIOUS
  <2>3. s = t
    BY <2>1, <2>2, SeqEqual
  <2> QED
    BY <2>3 DEF s, t
<1> QED
  BY <1>1, <1>2

LEMMA TwoJoined == ASSUME NEW a, NEW b PROVE <<a>> \o <<b>> = <<a, b>>
BY OneList, Joined, AppendsAre

LEMMA SaveIs ==
  ASSUME NEW u, NEW post, NEW images \in BOOLEAN
  PROVE  SavePost(u, post, images) =
           IF images
           THEN <<Store(Images(post)), Store(Content(post)), Publish(Event("add", u, post)),
                  Publish(Event("objects", u, post)), Publish(Event("sentiment", u, post))>>
           ELSE <<Store(Content(post)), Publish(Event("add", u, post)),
                  Publish(Event("sentiment", u, post))>>
<1> DEFINE a == Store(Images(post))
           b == Store(Content(post))
           c == Publish(Event("add", u, post))
           d == Publish(Event("objects", u, post))
           e == Publish(Event("sentiment", u, post))
<1>1. SavePost(u, post, TRUE) = ((<<a>> \o <<b>>) \o <<c>>) \o (<<d>> \o <<e>>)
  BY DEF SavePost, SaveImages, SaveContent, Analyses
<1>2. SavePost(u, post, FALSE) = ((<<>> \o <<b>>) \o <<c>>) \o (<<>> \o <<e>>)
  BY DEF SavePost, SaveImages, SaveContent, Analyses
<1> HIDE DEF a, b, c, d, e
<1>3. /\ <<a>> \o <<b>> = <<a, b>> /\ <<d>> \o <<e>> = <<d, e>>
      /\ <<>> \o <<b>> = <<b>> /\ <<>> \o <<e>> = <<e>>
  <2>1. <<b>> \in Seq({b}) /\ <<e>> \in Seq({e})
    OBVIOUS
  <2> QED
    BY <2>1, TwoJoined, ConcatEmptySeq
<1>4. <<a, b>> \o <<c>> = <<a, b, c>> /\ <<b>> \o <<c>> = <<b, c>>
  <2>1. <<a, b>> \in Seq({a, b})
    OBVIOUS
  <2>2. IsList(<<a, b>>)
    BY <2>1, SeqIsList
  <2>3. Append(<<a, b>>, c) = <<a, b, c>>
    BY AppendsAre
  <2> QED
    BY <2>2, <2>3, Joined, TwoJoined
<1>5. <<a, b, c>> \o <<d, e>> = <<a, b, c, d, e>>
  <2> DEFINE s == <<a, b, c>> \o <<d, e>>
             t == <<a, b, c, d, e>>
  <2>1. /\ <<a, b, c>> \in Seq({a, b, c, d, e}) /\ <<d, e>> \in Seq({a, b, c, d, e})
        /\ t \in Seq({a, b, c, d, e})
    OBVIOUS
  <2>2. s \in Seq({a, b, c, d, e}) /\ Len(s) = 5 /\ Len(t) = 5
    BY <2>1
  <2>3. /\ s[1] = a /\ s[2] = b /\ s[3] = c /\ s[4] = d /\ s[5] = e
    BY <2>1
  <2>4. t[1] = a /\ t[2] = b /\ t[3] = c /\ t[4] = d /\ t[5] = e
    OBVIOUS
  <2> HIDE DEF s, t
  <2>5. \A i \in 1..5 : s[i] = t[i]
    <3>1. \A i \in 1..5 : i \in {1, 2, 3, 4, 5}
      OBVIOUS
    <3> QED
      BY <2>3, <2>4, <3>1
  <2>6. s = t
    BY <2>1, <2>2, <2>5, SeqEqual
  <2> QED
    BY <2>6 DEF s, t
<1>6. <<b, c>> \o <<e>> = <<b, c, e>>
  <2>1. <<b, c>> \in Seq({b, c})
    OBVIOUS
  <2>2. IsList(<<b, c>>)
    BY <2>1, SeqIsList
  <2>3. Append(<<b, c>>, e) = <<b, c, e>>
    BY AppendsAre
  <2> QED
    BY <2>2, <2>3, Joined
<1> QED
  <2>1. CASE images
    BY <1>1, <1>3, <1>4, <1>5, <2>1 DEF a, b, c, d, e
  <2>2. CASE ~images
    BY <1>2, <1>3, <1>4, <1>6, <2>2 DEF a, b, c, d, e
  <2> QED
    BY <2>1, <2>2

LEMMA SaveCommands ==
  ASSUME NEW u, NEW post, NEW images \in BOOLEAN,
         NEW r, r = SavePost(u, post, images)
  PROVE  /\ IsList(r) /\ \A i \in 1..Len(r) : r[i].do \in {"store", "publish"}
         /\ \E n \in {1, 2} :
              /\ r[n] = Store(Content(post)) /\ r[n + 1] = Publish(Event("add", u, post))
              /\ Len(r) \in {3, 5} /\ (n = 1 <=> Len(r) = 3)
              /\ \A i \in 1..Len(r) :
                   /\ i < n => r[i] = Store(Images(post))
                   /\ i > n + 1 => r[i] \in {Publish(Event("objects", u, post)),
                                            Publish(Event("sentiment", u, post))}
<1> DEFINE a == Store(Images(post))
           b == Store(Content(post))
           c == Publish(Event("add", u, post))
           d == Publish(Event("objects", u, post))
           e == Publish(Event("sentiment", u, post))
<1>0. /\ a.do = "store" /\ b.do = "store" /\ c.do = "publish" /\ d.do = "publish"
      /\ e.do = "publish"
  BY DEF Store, Save, Publish
<1>1. r = IF images THEN <<a, b, c, d, e>> ELSE <<b, c, e>>
  BY SaveIs
<1> SUFFICES /\ IsList(r) /\ \A i \in 1..Len(r) : r[i].do \in {"store", "publish"}
             /\ \E n \in {1, 2} :
                  /\ r[n] = b /\ r[n + 1] = c
                  /\ Len(r) \in {3, 5} /\ (n = 1 <=> Len(r) = 3)
                  /\ \A i \in 1..Len(r) :
                       (i < n => r[i] = a) /\ (i > n + 1 => r[i] \in {d, e})
  OBVIOUS
<1> HIDE DEF a, b, c, d, e
<1>2. CASE images
  <2>1. /\ r \in Seq({a, b, c, d, e}) /\ Len(r) = 5
        /\ r[1] = a /\ r[2] = b /\ r[3] = c /\ r[4] = d /\ r[5] = e
    BY <1>1, <1>2
  <2>2. \A i \in 1..5 : i \in {1, 2, 3, 4, 5}
    OBVIOUS
  <2>3. \A i \in 1..Len(r) : r[i].do \in {"store", "publish"}
    BY <1>0, <2>1, <2>2
  <2>4. /\ r[2] = b /\ r[2 + 1] = c /\ Len(r) = 5
        /\ \A i \in 1..Len(r) : (i < 2 => r[i] = a) /\ (i > 2 + 1 => r[i] \in {d, e})
    BY <2>1, <2>2
  <2> QED
    BY <2>1, <2>3, <2>4, SeqIsList
<1>3. CASE ~images
  <2>1. /\ r \in Seq({b, c, e}) /\ Len(r) = 3 /\ r[1] = b /\ r[2] = c /\ r[3] = e
    BY <1>1, <1>3
  <2>2. \A i \in 1..3 : i \in {1, 2, 3}
    OBVIOUS
  <2>3. \A i \in 1..Len(r) : r[i].do \in {"store", "publish"}
    BY <1>0, <2>1, <2>2
  <2>4. /\ r[1] = b /\ r[1 + 1] = c /\ Len(r) = 3
        /\ \A i \in 1..Len(r) : (i < 1 => r[i] = a) /\ (i > 1 + 1 => r[i] \in {d, e})
    BY <2>1, <2>2
  <2> QED
    BY <2>1, <2>3, <2>4, SeqIsList
<1> QED
  BY <1>2, <1>3

LEMMA FiveJoined ==
  ASSUME NEW a, NEW b, NEW c, NEW d, NEW e
  PROVE  /\ ((<<a>> \o <<b, c>>) \o <<d>>) \o <<e>> = <<a, b, c, d, e>>
         /\ <<a, b, c, d>> \o <<e>> = <<a, b, c, d, e>>
<1> DEFINE r == ((<<a>> \o <<b, c>>) \o <<d>>) \o <<e>>
           s == <<a, b, c, d>> \o <<e>>
           t == <<a, b, c, d, e>>
           S == {a, b, c, d, e}
<1>1. /\ <<a>> \in Seq(S) /\ <<b, c>> \in Seq(S) /\ <<d>> \in Seq(S) /\ <<e>> \in Seq(S)
      /\ <<a, b, c, d>> \in Seq(S)
  OBVIOUS
<1>2. /\ t \in Seq(S) /\ Len(t) = 5 /\ t[1] = a /\ t[2] = b /\ t[3] = c /\ t[4] = d /\ t[5] = e
  OBVIOUS
<1>3. /\ s \in Seq(S) /\ Len(s) = 5 /\ s[1] = a /\ s[2] = b /\ s[3] = c /\ s[4] = d /\ s[5] = e
  BY <1>1
<1>4. /\ <<a>> \o <<b, c>> \in Seq(S) /\ Len(<<a>> \o <<b, c>>) = 3
      /\ (<<a>> \o <<b, c>>)[1] = a /\ (<<a>> \o <<b, c>>)[2] = b /\ (<<a>> \o <<b, c>>)[3] = c
  BY <1>1
<1>5. /\ IsList(r) /\ Len(r) = 5 /\ r[1] = a /\ r[2] = b /\ r[3] = c /\ r[4] = d /\ r[5] = e
  <2> DEFINE v == <<a>> \o <<b, c>>
  <2>1. /\ v \in Seq(S) /\ Len(v) = 3 /\ v[1] = a /\ v[2] = b /\ v[3] = c
    BY <1>4
  <2> HIDE DEF v
  <2>2. v \o <<d>> = Append(v, d)
    BY <2>1, Joined, SeqIsList
  <2> DEFINE w == Append(v, d)
  <2>3. /\ IsList(w) /\ Len(w) = 4 /\ w[1] = a /\ w[2] = b /\ w[3] = c /\ w[4] = d
    <3>1. IsList(v)
      BY <2>1, SeqIsList
    <3>2. /\ IsList(w) /\ Len(w) = Len(v) + 1 /\ \A i \in 1..Len(v) : w[i] = v[i]
          /\ w[Len(v) + 1] = d
      <4> HIDE DEF w
      <4> QED
        BY <3>1, ListAppend DEF w
    <3> HIDE DEF w
    <3> QED
      BY <2>1, <3>2
  <2> HIDE DEF w
  <2>4. w \o <<e>> = Append(w, e)
    BY <2>3, Joined
  <2> DEFINE x == Append(w, e)
  <2>5. /\ IsList(x) /\ Len(x) = 5 /\ x[1] = a /\ x[2] = b /\ x[3] = c /\ x[4] = d /\ x[5] = e
    <3>1. /\ IsList(x) /\ Len(x) = Len(w) + 1 /\ \A i \in 1..Len(w) : x[i] = w[i]
          /\ x[Len(w) + 1] = e
      <4>1. IsList(w)
        BY <2>3
      <4> HIDE DEF x
      <4> QED
        BY <4>1, ListAppend DEF x
    <3> HIDE DEF x
    <3> QED
      BY <2>3, <3>1
  <2>6. r = x
    BY <2>2, <2>4 DEF w, v
  <2> HIDE DEF x
  <2> QED
    BY <2>5, <2>6
<1> HIDE DEF r, s, t
<1>6. \A i \in 1..5 : i \in {1, 2, 3, 4, 5}
  OBVIOUS
<1>7. r = t
  BY <1>2, <1>5, <1>6, SeqIsList, ListsEqual
<1>8. s = t
  BY <1>2, <1>3, <1>6, SeqEqual
<1> QED
  BY <1>7, <1>8 DEF r, s, t

LEMMA FiveList ==
  ASSUME NEW a, NEW b, NEW c, NEW d, NEW e, NEW r, r = <<a, b, c, d, e>>
  PROVE  /\ IsList(r) /\ Len(r) = 5
         /\ r[1] = a /\ r[2] = b /\ r[3] = c /\ r[4] = d /\ r[5] = e
<1>1. /\ r \in Seq({a, b, c, d, e}) /\ Len(r) = 5
      /\ r[1] = a /\ r[2] = b /\ r[3] = c /\ r[4] = d /\ r[5] = e
  OBVIOUS
<1> QED
  BY <1>1, SeqIsList

LEMMA UploadIs ==
  ASSUME NEW video, NEW date
  PROVE  UploadVideo(video, date) =
           <<Store(Data(video)), Publish(Event("scale", "none", video)),
             Publish(Event("thumbnail", "none", video)), Store(VideoMeta(video)),
             Edit(Date(date), "add", video)>>
BY FiveJoined DEF UploadVideo, Copies, SaveMeta, AddToDate

LEMMA DeletionIs ==
  ASSUME NEW u, NEW post
  PROVE  DelPost(u, post) =
           <<Delete(Content(post)), Delete(Meta(post)), Delete(Comments(post)),
             Delete(Upvotes(post)), Publish(Event("remove", u, post))>>
BY FiveJoined DEF DelPost, DeleteItems

LEMMA RatingIs ==
  ASSUME NEW u, NEW video, NEW score
  PROVE  RateVideo(u, video, score) =
           <<Rate(RatingsBy(u), "rating", video, score), Rate(Rating(video), "score", video, score)>>
BY TwoJoined DEF RateVideo, StoreRating, CountRating

LEMMA ViewIs ==
  ASSUME NEW video
  PROVE  GetVideoData(video) = <<Edit(Views(video), "view", video), Get(Data(video))>>
BY TwoJoined DEF GetVideoData, CountView

-----------------------------------------------------------------------------
LEMMA SaveRight ==
  ASSUME NEW u, NEW post, NEW images \in BOOLEAN
  PROVE  RequestRight(SavePost(u, post, images))
<1>1. PICK r : r = SavePost(u, post, images)
  OBVIOUS
<1>2. /\ IsList(r) /\ \A i \in 1..Len(r) : r[i].do \in {"store", "publish"}
      /\ \E n \in {1, 2} :
           /\ r[n] = Store(Content(post)) /\ r[n + 1] = Publish(Event("add", u, post))
           /\ Len(r) \in {3, 5} /\ (n = 1 <=> Len(r) = 3)
           /\ \A i \in 1..Len(r) :
                /\ i < n => r[i] = Store(Images(post))
                /\ i > n + 1 => r[i] \in {Publish(Event("objects", u, post)),
                                         Publish(Event("sentiment", u, post))}
  BY <1>1, SaveCommands
<1>3. PICK n \in {1, 2} :
           /\ r[n] = Store(Content(post)) /\ r[n + 1] = Publish(Event("add", u, post))
           /\ \A i \in 1..Len(r) :
                /\ i < n => r[i] = Store(Images(post))
                /\ i > n + 1 => r[i] \in {Publish(Event("objects", u, post)),
                                         Publish(Event("sentiment", u, post))}
  BY <1>2
<1>4. ASSUME NEW i \in 1..Len(r)
      PROVE  /\ CommandRight(r[i]) /\ \A key \in Needs(r[i]) : StoredBefore(r, i, key)
  <2>1. CASE i < n
    <3>1. r[i] = Store(Images(post))
      BY <1>3, <2>1
    <3> QED
      BY <3>1 DEF CommandRight, Needs, Store, Save, Images, Wholes
  <2>2. CASE i = n
    <3>1. r[i] = Store(Content(post))
      BY <1>3, <2>2
    <3> QED
      BY <3>1 DEF CommandRight, Needs, Store, Save, Content, Wholes
  <2>3. CASE i = n + 1
    <3>1. r[i] = Publish(Event("add", u, post))
      BY <1>3, <2>3
    <3>2. CommandRight(r[i]) /\ Needs(r[i]) = {Content(post)}
      BY <3>1 DEF CommandRight, EventRight, Stages, Needs, EventNeeds, Publish, Event
    <3>3. n \in 1..(i - 1) /\ r[n].do = "store" /\ r[n].key = Content(post)
      BY <1>3, <2>3 DEF Store, Save
    <3> QED
      BY <3>2, <3>3 DEF StoredBefore
  <2>4. CASE i > n + 1
    <3>1. r[i] \in {Publish(Event("objects", u, post)), Publish(Event("sentiment", u, post))}
      BY <1>3, <2>4
    <3> QED
      BY <3>1 DEF CommandRight, EventRight, Stages, Needs, EventNeeds, Publish, Event
  <2> QED
    BY <1>2, <1>3, <2>1, <2>2, <2>3, <2>4
<1>5. \A i \in 1..Len(r) : r[i].do # "delete"
  BY <1>2
<1> QED
  BY <1>1, <1>2, <1>4, <1>5 DEF RequestRight, AllRight, InOrder

LEMMA DeletionRight ==
  ASSUME NEW u, NEW post \in Posts
  PROVE  /\ RequestRight(DelPost(u, post))
         /\ Deletes(DelPost(u, post), post)
<1> DEFINE r == DelPost(u, post)
<1>1. /\ IsList(r) /\ Len(r) = 5
      /\ r[1] = Delete(Content(post)) /\ r[2] = Delete(Meta(post))
      /\ r[3] = Delete(Comments(post)) /\ r[4] = Delete(Upvotes(post))
      /\ r[5] = Publish(Event("remove", u, post))
  BY DeletionIs, FiveList
<1> HIDE DEF r
<1>2. \A i \in 1..Len(r) : i \in {1, 2, 3, 4, 5}
  BY <1>1
<1>3. IsList(r)
  BY <1>1
<1>4. ASSUME NEW i \in {1, 2, 3, 4}
      PROVE  r[i].do = "delete" /\ r[i].key \in ItemsOf(post)
  BY <1>1, <1>4 DEF Delete, ItemsOf
<1>5. ASSUME NEW i \in 1..Len(r) PROVE CommandRight(r[i]) /\ Needs(r[i]) = {}
  <2>1. CASE i = 5
    <3>1. r[i] = Publish(Event("remove", u, post))
      BY <1>1, <2>1
    <3> QED
      BY <3>1 DEF CommandRight, EventRight, Stages, Needs, EventNeeds, Publish, Event
  <2>2. CASE i # 5
    <3>1. i \in {1, 2, 3, 4}
      BY <1>2, <2>2
    <3>2. r[i].do = "delete" /\ r[i].key \in ItemsOf(post)
      BY <1>4, <3>1
    <3> QED
      BY <3>2 DEF CommandRight, Needs
  <2> QED
    BY <2>1, <2>2
<1>6. ASSUME NEW other \in Posts, NEW i \in 1..Len(r), r[i].do = "delete", r[i].key \in ItemsOf(other)
      PROVE  other = post
  <2>1. i # 5
    BY <1>1, <1>6 DEF Publish
  <2>2. r[i].key \in ItemsOf(post)
    BY <1>2, <1>4, <2>1
  <2>3. ASSUME NEW j, NEW k \in ItemsOf(j) PROVE k[2] = j
    <3>1. CASE k = Content(j)
      BY <3>1 DEF Content
    <3>2. CASE k = Meta(j)
      BY <3>2 DEF Meta
    <3>3. CASE k = Comments(j)
      BY <3>3 DEF Comments
    <3>4. CASE k = Upvotes(j)
      BY <3>4 DEF Upvotes
    <3> QED
      BY <3>1, <3>2, <3>3, <3>4 DEF ItemsOf
  <2> QED
    BY <1>6, <2>2, <2>3
<1>7. Deletes(r, post)
  <2>1. 1 \in 1..Len(r) /\ r[1] = Delete(Content(post))
    BY <1>1
  <2> QED
    BY <2>1 DEF Deletes
<1>8. \A i \in 1..Len(r), other \in Posts :
        r[i].do = "delete" /\ r[i].key \in ItemsOf(other) => Deletes(r, other)
  BY <1>6, <1>7
<1>9. RequestRight(r)
  BY <1>3, <1>5, <1>8 DEF RequestRight, AllRight, InOrder
<1> QED
  BY <1>7, <1>9 DEF r

LEMMA UploadRight ==
  ASSUME NEW video, NEW date
  PROVE  RequestRight(UploadVideo(video, date))
<1> DEFINE r == UploadVideo(video, date)
<1>1. /\ IsList(r) /\ Len(r) = 5
      /\ r[1] = Store(Data(video)) /\ r[2] = Publish(Event("scale", "none", video))
      /\ r[3] = Publish(Event("thumbnail", "none", video)) /\ r[4] = Store(VideoMeta(video))
      /\ r[5] = Edit(Date(date), "add", video)
  BY UploadIs, FiveList
<1> HIDE DEF r
<1>2. \A i \in 1..Len(r) : i \in {1, 2, 3, 4, 5}
  BY <1>1
<1>3. IsList(r)
  BY <1>1
<1>4. /\ r[1].do = "store" /\ r[1].key = Data(video) /\ r[4].do = "store"
      /\ r[4].key = VideoMeta(video) /\ CommandRight(r[1]) /\ CommandRight(r[4])
      /\ Needs(r[1]) = {} /\ Needs(r[4]) = {}
  <2>1. ASSUME NEW key, key[1] \in Wholes, NEW command, command = Store(key)
        PROVE  command.do = "store" /\ command.key = key /\ CommandRight(command)
               /\ Needs(command) = {}
    <3>1. command.do = "store" /\ command.key = key
      BY <2>1 DEF Store, Save
    <3> QED
      BY <2>1, <3>1 DEF CommandRight, Needs
  <2>2. Data(video)[1] \in Wholes /\ VideoMeta(video)[1] \in Wholes
    BY DEF Data, VideoMeta, Wholes
  <2> QED
    BY <1>1, <2>1, <2>2
<1>5. ASSUME NEW i \in {2, 3}
      PROVE  r[i].do = "publish" /\ CommandRight(r[i]) /\ Needs(r[i]) = {Data(video)}
  <2>1. r[i] \in {Publish(Event("scale", "none", video)), Publish(Event("thumbnail", "none", video))}
    BY <1>1
  <2> QED
    BY <2>1 DEF CommandRight, EventRight, Stages, Needs, EventNeeds, Publish, Event
<1>6. /\ r[5].do = "edit" /\ CommandRight(r[5])
      /\ Needs(r[5]) = {Data(video), VideoMeta(video)}
  <2> DEFINE new == Edit(Date(date), "add", video)
  <2>0. /\ new.do = "edit" /\ new.key = Date(date) /\ new.edit.kind = "add"
        /\ new.edit.val = video
    BY DEF Edit, NoEdit
  <2> HIDE DEF new
  <2>1. r[5].do = "edit" /\ r[5].key = Date(date) /\ r[5].edit.kind = "add" /\ r[5].edit.val = video
    BY <1>1, <2>0 DEF new
  <2>2. Date(date)[1] = "date"
    BY DEF Date
  <2> QED
    BY <2>1, <2>2 DEF CommandRight, EditRight, Needs, ElementNeeds, Timelines
<1>7. ASSUME NEW i \in 1..Len(r)
      PROVE  /\ CommandRight(r[i]) /\ r[i].do # "delete"
             /\ \A key \in Needs(r[i]) : StoredBefore(r, i, key)
  <2>1. CASE i \in {1, 4}
    BY <1>4, <2>1
  <2>2. CASE i \in {2, 3}
    <3>1. 1 \in 1..(i - 1)
      BY <2>2
    <3> QED
      BY <1>4, <1>5, <2>2, <3>1 DEF StoredBefore
  <2>3. CASE i = 5
    <3>1. 1 \in 1..(i - 1) /\ 4 \in 1..(i - 1)
      BY <2>3
    <3> QED
      BY <1>4, <1>6, <2>3, <3>1 DEF StoredBefore
  <2> QED
    BY <1>2, <2>1, <2>2, <2>3
<1> QED
  BY <1>3, <1>7 DEF RequestRight, AllRight, InOrder, r

LEMMA OthersRight ==
  /\ \A u, video, score : RequestRight(RateVideo(u, video, score))
  /\ \A video : RequestRight(GetVideoData(video))
  /\ \A r \in DOMAIN FramesOf, priority \in Priorities : RequestRight(Request(r, priority))
<1>1. ASSUME NEW u, NEW video, NEW score PROVE RequestRight(RateVideo(u, video, score))
  <2> DEFINE a == Rate(RatingsBy(u), "rating", video, score)
             b == Rate(Rating(video), "score", video, score)
  <2>1. /\ a.do = "edit" /\ a.key[1] = "ratings" /\ a.edit.kind = "rating"
        /\ b.do = "edit" /\ b.key[1] = "rate" /\ b.edit.kind = "score"
    BY DEF Rate, RatingsBy, Rating
  <2> HIDE DEF a, b
  <2>2. /\ CommandRight(a) /\ Needs(a) = {} /\ a.do # "delete"
        /\ CommandRight(b) /\ Needs(b) = {} /\ b.do # "delete"
    BY <2>1 DEF CommandRight, EditRight, Needs, ElementNeeds, Timelines
  <2> QED
    BY <2>2, TwoCommands, RatingIs DEF a, b
<1>2. ASSUME NEW video PROVE RequestRight(GetVideoData(video))
  <2> DEFINE a == Edit(Views(video), "view", video)
             b == Get(Data(video))
  <2>1. a.do = "edit" /\ a.key[1] = "views" /\ a.edit.kind = "view" /\ b.do = "get"
    BY DEF Edit, NoEdit, Views, Get
  <2> HIDE DEF a, b
  <2>2. /\ CommandRight(a) /\ Needs(a) = {} /\ a.do # "delete"
        /\ CommandRight(b) /\ Needs(b) = {} /\ b.do # "delete"
    BY <2>1 DEF CommandRight, EditRight, Needs, ElementNeeds, Timelines
  <2> QED
    BY <2>2, TwoCommands, ViewIs DEF a, b
<1>3. ASSUME NEW r \in DOMAIN FramesOf, NEW priority \in Priorities
      PROVE  RequestRight(Request(r, priority))
  <2> DEFINE a == Publish(Event("meta", priority, r))
  <2>1. /\ a.do = "publish" /\ a.event.kind = "meta" /\ a.event.user = priority
        /\ a.event.about = r
    BY DEF Publish, Event
  <2> HIDE DEF a
  <2>2. CommandRight(a) /\ Needs(a) = {} /\ a.do # "delete"
    BY <2>1 DEF CommandRight, EventRight, Needs, EventNeeds
  <2> QED
    BY <2>2, OneCommand DEF Request, a
<1> QED
  BY <1>1, <1>2, <1>3

LEMMA RequestsRight ==
  ASSUME NEW request, IsRequest(request)
  PROVE  RequestRight(request)
<1>1. CASE ReadsOnly(request)
  <2>1. IsList(request)
    BY <1>1 DEF ReadsOnly, IsList
  <2>2. \A i \in 1..Len(request) : request[i].do = "get"
    BY <1>1, <2>1, ListFacts DEF ReadsOnly
  <2> QED
    BY <2>1, <2>2 DEF RequestRight, AllRight, InOrder, CommandRight, Needs
<1>2. CASE Rates(request)
  BY <1>2, OthersRight DEF Rates
<1>3. CASE ReadsTimeline(request)
  <2>1. \A u : UserTimeline(u)[1] = "user timeline" /\ HomeTimeline(u)[1] = "home timeline"
    BY DEF UserTimeline, HomeTimeline
  <2>2. request[1].key[1] \in Timelines /\ request[1].posts \in Nat
    BY <1>3, <2>1 DEF ReadsTimeline, Timelines
  <2> DEFINE a == [do |-> "page", key |-> request[1].key, earliest |-> request[1].earliest,
                   posts |-> request[1].posts]
             b == [do |-> "posts"]
  <2>3. /\ a.do = "page" /\ a.key[1] \in Timelines /\ a.posts \in Nat /\ b.do = "posts"
    BY <2>2
  <2>4. request = <<a, b>>
    BY <1>3 DEF ReadsTimeline, ReadTimeline
  <2> HIDE DEF a, b
  <2>5. /\ CommandRight(a) /\ Needs(a) = {} /\ a.do # "delete"
        /\ CommandRight(b) /\ Needs(b) = {} /\ b.do # "delete"
    BY <2>3 DEF CommandRight, Needs
  <2> QED
    BY <2>4, <2>5, TwoCommands
<1>4. CASE \E post \in Posts : IsSave(request, post) \/ IsDeletion(request, post)
  BY <1>4, SaveRight, DeletionRight DEF IsSave, IsDeletion
<1>5. CASE \E u, v \in Names : request \in {FollowUser(u, v), UnfollowUser(u, v)}
  BY <1>5, FollowRight
<1>6. CASE \E post \in Posts, x \in Names : request \in {Comment(post, x), Upvote(post, x)}
  BY <1>6, OneEdits
<1>7. CASE \E video, date \in Names : request \in {UploadVideo(video, date), GetVideoData(video)}
  BY <1>7, UploadRight, OthersRight
<1>8. CASE \E r \in DOMAIN FramesOf, priority \in Priorities : request = Request(r, priority)
  BY <1>8, OthersRight
<1> QED
  BY <1>1, <1>2, <1>3, <1>4, <1>5, <1>6, <1>7, <1>8 DEF IsRequest

-----------------------------------------------------------------------------
(* What is stored stays, but for the items of a post that is deleted. *)

Gone == UNION {ItemsOf(post) : post \in Deleted}
There == DOMAIN items \cup Gone

\* The commands a process has still to send need only what is in S, or what
\* an earlier one stores, and delete only what is in G.
TodoReady(todo, S, G) ==
  /\ AllRight(todo)
  /\ \A i \in 1..Len(todo) :
       /\ \A key \in Needs(todo[i]) : key \in S \/ StoredBefore(todo, i, key)
       /\ todo[i].do = "delete" => todo[i].key \in G

ElementsIn(key, value, S) ==
  key[1] \in Lists => IsList(value) /\ \A x \in ToSet(value) : ElementNeeds(key, x) \subseteq S

ProcReady(proc, S, G) ==
  /\ IsList(proc.todo) /\ TodoReady(proc.todo, S, G)
  /\ proc.at = "save" => ElementsIn(Head(proc.todo).key, proc.seen.value, S)
  /\ \A x \in ToSet(proc.page) : Content(x) \in S

LEMMA ElementsGrow ==
  ASSUME NEW S, NEW T, S \subseteq T, NEW key, NEW value, ElementsIn(key, value, S)
  PROVE  ElementsIn(key, value, T)
BY DEF ElementsIn

LEMMA ProcReadyGrows ==
  ASSUME NEW S, NEW T, S \subseteq T, NEW G, NEW H, G \subseteq H, NEW proc, ProcReady(proc, S, G)
  PROVE  ProcReady(proc, T, H)
<1>1. TodoReady(proc.todo, T, H)
  BY DEF ProcReady, TodoReady
<1> QED
  BY <1>1, ElementsGrow DEF ProcReady

LEMMA FirstNeeds ==
  ASSUME NEW S, NEW G, NEW todo, IsList(todo), todo # <<>>, TodoReady(todo, S, G)
  PROVE  /\ CommandRight(Head(todo)) /\ Needs(Head(todo)) \subseteq S
         /\ Head(todo).do = "delete" => Head(todo).key \in G
<1>1. 1 \in 1..Len(todo) /\ Head(todo) = todo[1] /\ Len(todo) \in Nat
  BY ListFacts
<1>2. ~\E j \in 1..(1 - 1) : TRUE
  OBVIOUS
<1> QED
  BY <1>1, <1>2 DEF TodoReady, AllRight, StoredBefore

LEMMA TodoReadyTail ==
  ASSUME NEW S, NEW T, S \subseteq T, NEW G, NEW todo, IsList(todo), todo # <<>>,
         TodoReady(todo, S, G), Head(todo).do = "store" => Head(todo).key \in T
  PROVE  IsList(Tail(todo)) /\ TodoReady(Tail(todo), T, G)
<1> DEFINE t == Tail(todo)
<1>1. /\ IsList(t) /\ Len(t) = Len(todo) - 1 /\ \A i \in 1..Len(t) : t[i] = todo[i + 1]
      /\ Len(todo) \in Nat /\ Head(todo) = todo[1]
  BY ListFacts, ListTail
<1> HIDE DEF t
<1>2. ASSUME NEW i \in 1..Len(t)
      PROVE  /\ CommandRight(t[i]) /\ t[i].do = "delete" => t[i].key \in G
             /\ \A key \in Needs(t[i]) : key \in T \/ StoredBefore(t, i, key)
  <2>1. i + 1 \in 1..Len(todo) /\ t[i] = todo[i + 1]
    BY <1>1
  <2>2. CommandRight(t[i]) /\ (t[i].do = "delete" => t[i].key \in G)
    BY <2>1 DEF TodoReady, AllRight
  <2>3. ASSUME NEW key \in Needs(t[i]), key \notin T
        PROVE  StoredBefore(t, i, key)
    <3>1. StoredBefore(todo, i + 1, key)
      BY <2>1, <2>3 DEF TodoReady
    <3>2. PICK j \in 1..((i + 1) - 1) : todo[j].do = "store" /\ todo[j].key = key
      BY <3>1 DEF StoredBefore
    <3>3. j # 1
      BY <1>1, <2>3, <3>2
    <3>4. j - 1 \in 1..(i - 1) /\ j - 1 \in 1..Len(t) /\ (j - 1) + 1 = j
      BY <1>1, <3>2, <3>3
    <3>5. t[j - 1] = todo[j]
      BY <1>1, <3>4
    <3> QED
      BY <3>2, <3>4, <3>5 DEF StoredBefore
  <2> QED
    BY <2>2, <2>3
<1> QED
  BY <1>1, <1>2 DEF TodoReady, AllRight, t

LEMMA NothingReady == ASSUME NEW S, NEW G PROVE TodoReady(<<>>, S, G)
<1>1. Len(<<>>) = 0 /\ ~\E i \in 1..0 : TRUE
  OBVIOUS
<1> QED
  BY <1>1 DEF TodoReady, AllRight

LEMMA RequestReady ==
  ASSUME NEW request, RequestRight(request), NEW S, NEW G,
         \A post \in Posts : Deletes(request, post) => ItemsOf(post) \subseteq G
  PROVE  IsList(request) /\ TodoReady(request, S, G)
<1>1. ASSUME NEW i \in 1..Len(request), request[i].do = "delete"
      PROVE  request[i].key \in G
  <2>1. CommandRight(request[i])
    BY DEF RequestRight, AllRight
  <2>2. PICK post \in Posts : request[i].key \in ItemsOf(post)
    BY <1>1, <2>1 DEF CommandRight
  <2> QED
    BY <1>1, <2>2 DEF RequestRight
<1> QED
  BY <1>1 DEF RequestRight, TodoReady, InOrder

LEMMA OneReady ==
  ASSUME NEW a, NEW S, NEW G, CommandRight(a), Needs(a) \subseteq S, a.do # "delete"
  PROVE  IsList(<<a>>) /\ TodoReady(<<a>>, S, G)
<1> DEFINE r == <<a>>
<1>1. IsList(r) /\ Len(r) = 1 /\ r[1] = a
  BY OneList
<1> HIDE DEF r
<1>2. \A i \in 1..Len(r) : r[i] = a
  BY <1>1
<1> QED
  BY <1>1, <1>2 DEF TodoReady, AllRight, r

LEMMA TwoReady ==
  ASSUME NEW a, CommandRight(a), Needs(a) = {}, a.do # "delete",
         NEW b, CommandRight(b), Needs(b) = {}, b.do # "delete",
         NEW S, NEW G
  PROVE  IsList(<<a, b>>) /\ TodoReady(<<a, b>>, S, G)
<1> DEFINE r == <<a, b>>
<1>1. r \in Seq({a, b}) /\ Len(r) = 2 /\ r[1] = a /\ r[2] = b
  OBVIOUS
<1> HIDE DEF r
<1>2. IsList(r) /\ \A i \in 1..Len(r) : i \in {1, 2}
  BY <1>1, SeqIsList
<1> QED
  BY <1>1, <1>2 DEF TodoReady, AllRight, r
-----------------------------------------------------------------------------
(* The tasks of deliveries and workers. *)

EventReady(e, S) == EventRight(e) /\ EventNeeds(e) \subseteq S

LEMMA AnalysesReady ==
  ASSUME NEW about, NEW S, NEW G
  PROVE  /\ IsList(SentimentAnalysis(about)) /\ TodoReady(SentimentAnalysis(about), S, G)
         /\ IsList(ObjectDetect(about)) /\ TodoReady(ObjectDetect(about), S, G)
         /\ IsList(ScaleVideo(about)) /\ TodoReady(ScaleVideo(about), S, G)
         /\ IsList(VideoThumbnail(about)) /\ TodoReady(VideoThumbnail(about), S, G)
<1>1. ASSUME NEW field, NEW a, a = UpdateMeta(about, field)
      PROVE  CommandRight(a) /\ Needs(a) = {} /\ a.do # "delete"
  <2>1. a.do = "edit" /\ a.key = <<"meta of post", about>> /\ a.edit.kind = "meta"
    BY <1>1 DEF UpdateMeta, Edit, NoEdit
  <2> DEFINE key == <<"meta of post", about>>
  <2>2. a.key[1] = "meta of post"
    <3>1. key[1] = "meta of post"
      OBVIOUS
    <3> HIDE DEF key
    <3> QED
      BY <2>1, <3>1 DEF key
  <2> QED
    BY <2>1, <2>2 DEF CommandRight, EditRight, Needs, ElementNeeds, Timelines
<1>2. ASSUME NEW key, NEW a, a \in {Get(key), Need(key)}
      PROVE  CommandRight(a) /\ Needs(a) = {} /\ a.do # "delete"
  BY <1>2 DEF Get, Need, CommandRight, Needs
<1>3. ASSUME NEW key, key[1] \in Wholes, NEW a, a = Store(key)
      PROVE  CommandRight(a) /\ Needs(a) = {} /\ a.do # "delete"
  <2>1. a.do = "store" /\ a.key = key
    BY <1>3 DEF Store, Save
  <2> QED
    BY <1>3, <2>1 DEF CommandRight, Needs
<1>4. Scaled(about)[1] \in Wholes /\ Thumbnail(about)[1] \in Wholes
  BY DEF Scaled, Thumbnail, Wholes
<1>5. IsList(SentimentAnalysis(about)) /\ TodoReady(SentimentAnalysis(about), S, G)
  BY <1>1, OneReady DEF SentimentAnalysis
<1>6. IsList(ObjectDetect(about)) /\ TodoReady(ObjectDetect(about), S, G)
  BY <1>1, <1>2, TwoReady DEF ObjectDetect
<1>7. IsList(ScaleVideo(about)) /\ TodoReady(ScaleVideo(about), S, G)
  BY <1>2, <1>3, <1>4, TwoReady DEF ScaleVideo
<1>8. IsList(VideoThumbnail(about)) /\ TodoReady(VideoThumbnail(about), S, G)
  BY <1>2, <1>3, <1>4, TwoReady DEF VideoThumbnail
<1> QED
  BY <1>5, <1>6, <1>7, <1>8

LEMMA ListFromFunction ==
  ASSUME NEW n \in Nat, NEW s, s = [i \in 1..n |-> s[i]]
  PROVE  IsList(s) /\ Len(s) = n
<1>1. ToSet(s) = {s[i] : i \in 1..n}
  BY DEF ToSet
<1>2. s \in [1..n -> ToSet(s)]
  BY <1>1
<1>3. s \in Seq(ToSet(s)) /\ DOMAIN s = 1..n
  BY <1>2, SeqDef
<1> QED
  BY <1>3, LenProperties DEF IsList

LEMMA FramesAre ==
  ASSUME NEW e, e.about \in DOMAIN FramesOf
  PROVE  LET f == FramesOf[e.about]
         IN /\ IsList(f) /\ IsList(Frames(e)) /\ IsList(Faces(e))
            /\ Len(Frames(e)) = Len(f) /\ Len(Faces(e)) = Len(f)
            /\ \A i \in 1..Len(f) : /\ Frames(e)[i] = Save(Frame(f[i]), "found")
                                    /\ Faces(e)[i] = Publish(Event("face", e.user, f[i]))
<1> DEFINE f == FramesOf[e.about]
           s == Frames(e)
           t == Faces(e)
<1>1. IsList(f)
  BY DaprAssumption DEF IsList
<1>2. DOMAIN f = 1..Len(f) /\ Len(f) \in Nat
  BY <1>1, ListFacts
<1>3. /\ s = [i \in 1..Len(f) |-> s[i]]
      /\ \A i \in 1..Len(f) : s[i] = Save(Frame(f[i]), "found")
  BY <1>2 DEF Frames
<1>4. /\ t = [i \in 1..Len(f) |-> t[i]]
      /\ \A i \in 1..Len(f) : t[i] = Publish(Event("face", e.user, f[i]))
  BY <1>2 DEF Faces
<1> HIDE DEF f, s, t
<1>5. IsList(s) /\ Len(s) = Len(f) /\ IsList(t) /\ Len(t) = Len(f)
  BY <1>2, <1>3, <1>4, ListFromFunction
<1> QED
  BY <1>1, <1>3, <1>4, <1>5 DEF f, s, t

\* The job of an event for the scenes: all frames are stored, then all
\* faces asked for.
IsScene(r, e, f, n) ==
  /\ n \in Nat /\ IsList(r) /\ Len(r) = 2 * n + 1 /\ r[1] = Get(Footage(e.about))
  /\ \A i \in 1..n : r[i + 1] = Save(Frame(f[i]), "found")
  /\ \A i \in 1..n : r[(n + 1) + i] = Publish(Event("face", e.user, f[i]))

LEMMA SceneIs ==
  ASSUME NEW e, e.about \in DOMAIN FramesOf
  PROVE  IsScene(ExtractScene(e), e, FramesOf[e.about], Len(FramesOf[e.about]))
<1> DEFINE f == FramesOf[e.about]
           r == ExtractScene(e)
           n == Len(f)
           a == <<Get(Footage(e.about))>>
           b == Frames(e)
           c == Faces(e)
           d == a \o b
<1>1. /\ n \in Nat /\ IsList(b) /\ IsList(c) /\ Len(b) = n /\ Len(c) = n
      /\ \A i \in 1..n : b[i] = Save(Frame(f[i]), "found")
      /\ \A i \in 1..n : c[i] = Publish(Event("face", e.user, f[i]))
  BY FramesAre, ListFacts
<1>2. IsList(a) /\ Len(a) = 1 /\ a[1] = Get(Footage(e.about))
  BY OneList
<1>3. r = d \o c
  BY DEF ExtractScene
<1> HIDE DEF a, b, c, f, n, r
<1>4. /\ IsList(d) /\ Len(d) = Len(a) + Len(b) /\ \A i \in 1..Len(a) : d[i] = a[i]
      /\ \A i \in 1..Len(b) : d[Len(a) + i] = b[i]
  <2>1. IsList(a) /\ IsList(b)
    BY <1>1, <1>2
  <2> QED
    BY <2>1, ListConcat
<1> HIDE DEF d
<1>5. /\ IsList(r) /\ Len(r) = Len(d) + Len(c) /\ \A i \in 1..Len(d) : r[i] = d[i]
      /\ \A i \in 1..Len(c) : r[Len(d) + i] = c[i]
  <2>1. IsList(c) /\ IsList(d)
    BY <1>1, <1>4
  <2> QED
    BY <1>3, <2>1, ListConcat
<1>6. Len(d) = n + 1 /\ Len(r) = 2 * n + 1
  BY <1>1, <1>2, <1>4, <1>5
<1>7. r[1] = Get(Footage(e.about))
  BY <1>1, <1>2, <1>4, <1>5, <1>6
<1>8. ASSUME NEW i \in 1..n PROVE r[i + 1] = Save(Frame(f[i]), "found")
  <2>1. i + 1 \in 1..Len(d) /\ i + 1 = Len(a) + i
    BY <1>1, <1>2, <1>6
  <2>2. d[i + 1] = b[i]
    BY <1>1, <1>4, <2>1
  <2> QED
    BY <1>1, <1>5, <2>1, <2>2
<1>9. ASSUME NEW i \in 1..n PROVE r[(n + 1) + i] = Publish(Event("face", e.user, f[i]))
  BY <1>1, <1>5, <1>6
<1> QED
  BY <1>1, <1>5, <1>6, <1>7, <1>8, <1>9 DEF IsScene, f, n, r

LEMMA SceneReady ==
  ASSUME NEW e, e.about \in DOMAIN FramesOf, e.user \in Priorities, NEW S, NEW G
  PROVE  IsList(ExtractScene(e)) /\ TodoReady(ExtractScene(e), S, G)
<1> DEFINE f == FramesOf[e.about]
           n == Len(f)
           r == ExtractScene(e)
<1>1. IsScene(r, e, f, n)
  BY SceneIs
<1> HIDE DEF f, n, r
<1>2. n \in Nat /\ IsList(r) /\ Len(r) = 2 * n + 1
  BY <1>1 DEF IsScene
<1>3. r[1].do = "get"
  BY <1>1 DEF IsScene, Get
<1>4. ASSUME NEW i \in 1..n PROVE r[i + 1] = Save(Frame(f[i]), "found")
  BY <1>1 DEF IsScene
<1>5. ASSUME NEW i \in 1..n PROVE r[(n + 1) + i] = Publish(Event("face", e.user, f[i]))
  BY <1>1 DEF IsScene
<1>6. ASSUME NEW k \in 1..Len(r)
       PROVE  /\ CommandRight(r[k]) /\ r[k].do # "delete"
              /\ \A key \in Needs(r[k]) : StoredBefore(r, k, key)
  <2>1. CASE k = 1
    BY <1>3, <2>1 DEF CommandRight, Needs
  <2>2. CASE k \in 2..(n + 1)
    <3>1. k - 1 \in 1..n /\ (k - 1) + 1 = k
      BY <1>2, <2>2
    <3>2. r[k] = Save(Frame(f[k - 1]), "found")
      BY <1>4, <3>1
    <3>3. r[k].do = "store" /\ r[k].key[1] \in Wholes
      BY <3>2 DEF Save, Frame, Wholes
    <3> QED
      BY <3>3 DEF CommandRight, Needs
  <2>3. CASE k \in (n + 2)..(2 * n + 1)
    <3> DEFINE i == k - (n + 1)
    <3>1. i \in 1..n /\ (n + 1) + i = k /\ i + 1 \in 1..(k - 1)
      BY <1>2, <2>3
    <3> HIDE DEF i
    <3>2. r[k] = Publish(Event("face", e.user, f[i]))
      BY <1>5, <3>1
    <3>3. /\ r[k].do = "publish" /\ r[k].event.kind = "face" /\ r[k].event.user = e.user
          /\ r[k].event.about = f[i]
      BY <3>2 DEF Publish, Event
    <3>4. CommandRight(r[k]) /\ Needs(r[k]) = {Frame(f[i])} /\ r[k].do # "delete"
      BY <3>3 DEF CommandRight, EventRight, Needs, EventNeeds
    <3>5. r[i + 1].do = "store" /\ r[i + 1].key = Frame(f[i])
      <4>1. r[i + 1] = Save(Frame(f[i]), "found")
        BY <1>4, <3>1
      <4> QED
        BY <4>1 DEF Save
    <3> QED
      BY <3>1, <3>4, <3>5 DEF StoredBefore
  <2> QED
    BY <1>2, <2>1, <2>2, <2>3
<1> QED
  BY <1>2, <1>6 DEF r, TodoReady, AllRight

LEMMA JobReady ==
  ASSUME NEW e, e.kind \in Stages, EventRight(e), NEW S, NEW G
  PROVE  IsList(Job(e)) /\ TodoReady(Job(e), S, G)
<1>1. CASE e.kind = "meta"
  <2> DEFINE a == Get(Footage(e.about))
             b == Publish(Event("scene", e.user, e.about))
  <2>1. /\ a.do = "get" /\ b.do = "publish" /\ b.event.kind = "scene" /\ b.event.user = e.user
        /\ b.event.about = e.about
    BY DEF Get, Publish, Event
  <2>2. Job(e) = <<a, b>>
    BY <1>1 DEF Job, ExtractMeta
  <2> HIDE DEF a, b
  <2>3. /\ CommandRight(a) /\ Needs(a) = {} /\ a.do # "delete"
        /\ CommandRight(b) /\ Needs(b) = {} /\ b.do # "delete"
    BY <1>1, <2>1 DEF CommandRight, EventRight, Needs, EventNeeds
  <2> QED
    BY <2>2, <2>3, TwoReady
<1>2. CASE e.kind = "scene"
  <2>1. e.about \in DOMAIN FramesOf /\ e.user \in Priorities
    BY <1>2 DEF EventRight
  <2>2. Job(e) = ExtractScene(e)
    BY <1>2 DEF Job
  <2> QED
    BY <2>1, <2>2, SceneReady
<1>3. CASE e.kind = "face"
  <2> DEFINE a == Get(Frame(e.about))
             b == Save(Frame(e.about), "marked")
  <2>1. a.do = "get" /\ b.do = "store" /\ b.key[1] \in Wholes
    BY DEF Get, Save, Frame, Wholes
  <2>2. Job(e) = <<a, b>>
    BY <1>3 DEF Job, FaceDetect
  <2> HIDE DEF a, b
  <2>3. /\ CommandRight(a) /\ Needs(a) = {} /\ a.do # "delete"
        /\ CommandRight(b) /\ Needs(b) = {} /\ b.do # "delete"
    BY <2>1 DEF CommandRight, Needs
  <2> QED
    BY <2>2, <2>3, TwoReady
<1> QED
  BY <1>1, <1>2, <1>3 DEF Stages

\* What a worker of the timeline-update service is given to do.
LEMMA UpdateReady ==
  ASSUME NEW key, key[1] \in Timelines, NEW e, e.kind \in TimelineEvents, NEW S, NEW G,
         EventReady(e, S), NEW a,
         a = Edit(key, IF e.kind = "add" THEN "post" ELSE "remove", e.about)
  PROVE  IsList(<<a>>) /\ TodoReady(<<a>>, S, G)
<1>1. /\ a.do = "edit" /\ a.key = key /\ a.edit.val = e.about
      /\ a.edit.kind = IF e.kind = "add" THEN "post" ELSE "remove"
  BY DEF Edit, NoEdit
<1>2. CommandRight(a)
  BY <1>1 DEF CommandRight, EditRight
<1>3. Needs(a) \subseteq S
  <2>1. CASE e.kind = "add"
    <3>1. Needs(a) = ElementNeeds(a.key, a.edit.val)
      BY <1>1, <2>1 DEF Needs
    <3>2. ElementNeeds(key, e.about) = {Content(e.about)}
      BY DEF ElementNeeds, Timelines
    <3>3. Content(e.about) \in S
      BY <2>1 DEF EventReady, EventNeeds
    <3> QED
      BY <1>1, <3>1, <3>2, <3>3
  <2>2. CASE e.kind # "add"
    BY <1>1, <2>2 DEF Needs
  <2> QED
    BY <2>1, <2>2
<1> QED
  BY <1>1, <1>2, <1>3, OneReady
-----------------------------------------------------------------------------
(* What is stored. *)

LEMMA PutFacts ==
  ASSUME NEW key, NEW value, Put(key, value)
  PROVE  /\ DOMAIN items' = DOMAIN items \cup {key} /\ items'[key].value = value
         /\ items'[key].etag = Item(key).etag + 1
         /\ \A k \in DOMAIN items \ {key} : items'[k] = items[k]
<1> DEFINE new == [etag |-> Item(key).etag + 1, value |-> value]
<1>1. items' = With(items, key, new) /\ new.value = value /\ new.etag = Item(key).etag + 1
  BY DEF Put
<1> HIDE DEF new
<1>2. /\ DOMAIN items' = DOMAIN items \cup {key} /\ items'[key] = new
      /\ \A k \in DOMAIN items \ {key} : items'[k] = items[k]
  BY <1>1 DEF With
<1> QED
  BY <1>1, <1>2

LEMMA EraseFacts ==
  ASSUME NEW key, Erase(key)
  PROVE  /\ DOMAIN items' = DOMAIN items \ {key}
         /\ \A k \in DOMAIN items' : items'[k] = items[k]
BY DEF Erase

\* A step changes one item, if any.
LEMMA ItemChanges ==
  ASSUME NEW p, Saves(p) \/ Writes(p) \/ UNCHANGED items
  PROVE  \/ UNCHANGED items
         \/ /\ Command(p).do = "edit"
            /\ \E value \in Results(p) : Put(Command(p).key, value)
            /\ Accepts(Command(p).key, procs[p].seen.etag) /\ procs[p].at = "save"
         \/ Command(p).do = "store" /\ Put(Command(p).key, Command(p).value)
         \/ Command(p).do = "delete" /\ Erase(Command(p).key)
BY DEF Saves, Writes, Turn

LEMMA RemoveAtList ==
  ASSUME NEW s, IsList(s), NEW n \in 1..Len(s)
  PROVE  /\ IsList(RemoveAt(s, n)) /\ Len(RemoveAt(s, n)) = Len(s) - 1
         /\ \A i \in 1..(n - 1) : RemoveAt(s, n)[i] = s[i]
         /\ \A i \in n..(Len(s) - 1) : RemoveAt(s, n)[i] = s[i + 1]
         /\ ToSet(RemoveAt(s, n)) \subseteq ToSet(s)
<1> DEFINE a == SubSeq(s, 1, n - 1)
           b == SubSeq(s, n + 1, Len(s))
           r == a \o b
<1>1. Len(s) \in Nat
  BY ListFacts
<1>2. /\ IsList(a) /\ ToSet(a) \subseteq ToSet(s) /\ Len(a) = n - 1
      /\ \A i \in 1..Len(a) : a[i] = s[i]
  <2>1. /\ IsList(a) /\ ToSet(a) \subseteq ToSet(s)
        /\ Len(a) = IF 1 <= (n - 1) + 1 THEN (n - 1) - 1 + 1 ELSE 0
        /\ \A i \in 1..Len(a) : a[i] = s[1 + i - 1]
    BY <1>1, SubList
  <2> HIDE DEF a
  <2>2. Len(a) = n - 1 /\ \A i \in 1..Len(a) : 1 + i - 1 = i
    BY <1>1, <2>1
  <2> QED
    BY <2>1, <2>2
<1>3. /\ IsList(b) /\ ToSet(b) \subseteq ToSet(s) /\ Len(b) = Len(s) - n
      /\ \A i \in 1..Len(b) : b[i] = s[n + i]
  <2>1. /\ IsList(b) /\ ToSet(b) \subseteq ToSet(s)
        /\ Len(b) = IF n + 1 <= Len(s) + 1 THEN Len(s) - (n + 1) + 1 ELSE 0
        /\ \A i \in 1..Len(b) : b[i] = s[(n + 1) + i - 1]
    BY <1>1, SubList
  <2> HIDE DEF b
  <2>2. Len(b) = Len(s) - n /\ \A i \in 1..Len(b) : (n + 1) + i - 1 = n + i
    BY <1>1, <2>1
  <2> QED
    BY <2>1, <2>2
<1> HIDE DEF a, b
<1>4. /\ IsList(r) /\ Len(r) = Len(a) + Len(b) /\ ToSet(r) = ToSet(a) \cup ToSet(b)
      /\ \A i \in 1..Len(a) : r[i] = a[i]
      /\ \A i \in 1..Len(b) : r[Len(a) + i] = b[i]
  <2>1. IsList(a) /\ IsList(b)
    BY <1>2, <1>3
  <2> QED
    BY <2>1, ListConcat
<1>5. RemoveAt(s, n) = r
  BY DEF RemoveAt, a, b
<1> HIDE DEF r
<1>6. ASSUME NEW i \in n..(Len(s) - 1) PROVE r[i] = s[i + 1]
  <2>1. PICK k : k = i - (n - 1)
    OBVIOUS
  <2>2. k \in 1..Len(b) /\ Len(a) + k = i /\ n + k = i + 1
    BY <1>1, <1>2, <1>3, <2>1
  <2>3. b[k] = s[n + k] /\ r[Len(a) + k] = b[k]
    BY <1>3, <1>4, <2>2
  <2> QED
    BY <2>2, <2>3
<1>7. Len(r) = Len(s) - 1
  BY <1>1, <1>2, <1>3, <1>4
<1>8. \A i \in 1..(n - 1) : r[i] = s[i]
  BY <1>2, <1>4
<1> QED
  BY <1>2, <1>3, <1>4, <1>5, <1>6, <1>7, <1>8

LEMMA ByTimeList ==
  ASSUME NEW list, IsList(list), NEW l \in ByTime(list)
  PROVE  /\ IsList(l) /\ Len(l) = Len(list) /\ ToSet(l) = ToSet(list)
         /\ \E turn : /\ turn \in [1..Len(list) -> 1..Len(list)]
                      /\ \A i, j \in 1..Len(list) : turn[i] = turn[j] => i = j
                      /\ \A i \in 1..Len(list) : \E j \in 1..Len(list) : turn[j] = i
                      /\ \A i \in 1..Len(list) : l[i] = list[turn[i]]
         /\ \A i, j \in 1..Len(l) : i < j => PostTime[l[i]] <= PostTime[l[j]]
<1>1. DOMAIN list = 1..Len(list) /\ Len(list) \in Nat
  BY ListFacts
<1>2. PICK turn \in Bijection(DOMAIN list, DOMAIN list) :
        l = [i \in DOMAIN list |-> list[turn[i]]]
  BY DEF ByTime
<1>3. \A i, j \in DOMAIN list : i < j => PostTime[l[i]] <= PostTime[l[j]]
  BY DEF ByTime
<1>4. /\ turn \in [1..Len(list) -> 1..Len(list)]
      /\ \A i, j \in 1..Len(list) : turn[i] = turn[j] => i = j
      /\ \A i \in 1..Len(list) : \E j \in 1..Len(list) : turn[j] = i
  BY <1>1, <1>2 DEF Bijection, Injection, Surjection, IsInjective
<1>5. l = [i \in 1..Len(list) |-> l[i]] /\ \A i \in 1..Len(list) : l[i] = list[turn[i]]
  BY <1>1, <1>2
<1>6. IsList(l) /\ Len(l) = Len(list)
  BY <1>1, <1>5, ListFromFunction
<1>7. ToSet(l) = ToSet(list)
  <2>1. DOMAIN l = 1..Len(list)
    BY <1>5
  <2>2. ASSUME NEW x \in ToSet(l) PROVE x \in ToSet(list)
    BY <1>1, <1>4, <1>5, <2>1 DEF ToSet
  <2>3. ASSUME NEW x \in ToSet(list) PROVE x \in ToSet(l)
    <3>1. PICK i \in 1..Len(list) : list[i] = x
      BY <1>1 DEF ToSet
    <3>2. PICK j \in 1..Len(list) : turn[j] = i
      BY <1>4
    <3>3. l[j] = x
      BY <1>5, <3>1, <3>2
    <3> QED
      BY <2>1, <3>3 DEF ToSet
  <2> QED
    BY <2>2, <2>3
<1> QED
  BY <1>1, <1>3, <1>4, <1>5, <1>6, <1>7

LEMMA CutList ==
  ASSUME NEW list, IsList(list)
  PROVE  IsList(Cut(list)) /\ ToSet(Cut(list)) \subseteq ToSet(list)
<1>1. Len(list) \in Nat
  BY ListFacts
<1>2. CASE MaxTimelineLen > 0 /\ Len(list) > MaxTimelineLen
  <2>1. /\ Len(list) - MaxTimelineLen + 1 \in Nat /\ 1 <= Len(list) - MaxTimelineLen + 1
        /\ Len(list) <= Len(list)
    BY <1>1, <1>2, DaprStoreAssumption
  <2>2. Cut(list) = SubSeq(list, Len(list) - MaxTimelineLen + 1, Len(list))
    BY <1>2 DEF Cut
  <2> QED
    BY <1>1, <2>1, <2>2, SubList
<1>3. CASE ~(MaxTimelineLen > 0 /\ Len(list) > MaxTimelineLen)
  BY <1>3 DEF Cut
<1> QED
  BY <1>2, <1>3

\* An update saves what was there, without a part of it or with its own
\* element.
LEMMA ResultLists ==
  ASSUME NEW p, Command(p).do = "edit", CommandRight(Command(p)), NEW value \in Results(p),
         Command(p).key[1] \in Lists, IsList(procs[p].seen.value)
  PROVE  /\ IsList(value)
         /\ ToSet(value) \subseteq ToSet(procs[p].seen.value) \cup
              (IF Command(p).edit.kind = "remove" THEN {} ELSE {Command(p).edit.val})
<1> DEFINE edit == Command(p).edit
           seen == procs[p].seen.value
<1>1. edit.kind \in {"add", "append", "remove", "post"}
  BY DEF CommandRight, EditRight, Lists
<1>2. CASE edit.kind \in {"add", "append"}
  <2>1. value = Append(seen, edit.val)
    BY <1>2 DEF Results
  <2> QED
    BY <1>2, <2>1, ListAppend
<1>3. CASE edit.kind = "remove"
  <2>1. PICK n \in Place(edit.val, seen) : value = RemoveAt(seen, n)
    BY <1>3 DEF Results
  <2>2. n \in 1..Len(seen)
    BY <2>1, ListFacts DEF Place
  <2> QED
    BY <1>3, <2>1, <2>2, RemoveAtList
<1>4. CASE edit.kind = "post"
  <2>1. PICK l \in {Append(seen, edit.val)} \cup ByTime(Append(seen, edit.val)) : value = Cut(l)
    BY <1>4 DEF Results
  <2>2. /\ IsList(Append(seen, edit.val))
        /\ ToSet(Append(seen, edit.val)) = ToSet(seen) \cup {edit.val}
    BY ListAppend
  <2>3. IsList(l) /\ ToSet(l) = ToSet(seen) \cup {edit.val}
    BY <2>1, <2>2, ByTimeList
  <2> QED
    BY <1>4, <2>1, <2>3, CutList
<1> QED
  BY <1>1, <1>2, <1>3, <1>4
-----------------------------------------------------------------------------
(* A step of a process leaves what every process and every list needs. *)

ProcsReady == \A p \in Procs : ProcReady(procs[p], There, Gone)
ListsReady == \A key \in DOMAIN items : ElementsIn(key, items[key].value, There)

LEMMA ItemIn ==
  ASSUME ListsReady, NEW key
  PROVE  ElementsIn(key, Item(key).value, There)
<1>1. CASE key \in DOMAIN items
  BY <1>1 DEF ListsReady, Item
<1>2. CASE key \notin DOMAIN items
  <2> DEFINE none == [etag |-> 0, value |-> Empty(key)]
  <2>1. Item(key) = none /\ none.value = Empty(key)
    BY <1>2 DEF Item
  <2> HIDE DEF none
  <2>2. Item(key).value = Empty(key)
    BY <2>1
  <2>3. key[1] \in Lists => Empty(key) = <<>>
    BY DEF Lists, Empty
  <2> QED
    BY <2>2, <2>3, EmptyList DEF ElementsIn
<1> QED
  BY <1>1, <1>2

LEMMA SavedIn ==
  ASSUME NEW p, NEW S, Command(p).do = "edit", CommandRight(Command(p)),
         Needs(Command(p)) \subseteq S,
         ElementsIn(Command(p).key, procs[p].seen.value, S), NEW value \in Results(p)
  PROVE  ElementsIn(Command(p).key, value, S)
<1> SUFFICES ASSUME Command(p).key[1] \in Lists
             PROVE  /\ IsList(value)
                    /\ \A x \in ToSet(value) : ElementNeeds(Command(p).key, x) \subseteq S
  BY DEF ElementsIn
<1>1. /\ IsList(procs[p].seen.value)
      /\ \A x \in ToSet(procs[p].seen.value) : ElementNeeds(Command(p).key, x) \subseteq S
  BY DEF ElementsIn
<1>2. /\ IsList(value)
      /\ ToSet(value) \subseteq ToSet(procs[p].seen.value) \cup
              (IF Command(p).edit.kind = "remove" THEN {} ELSE {Command(p).edit.val})
  BY <1>1, ResultLists
<1>3. Command(p).edit.kind # "remove" =>
        ElementNeeds(Command(p).key, Command(p).edit.val) \subseteq S
  BY DEF Needs
<1> QED
  BY <1>1, <1>2, <1>3

LEMMA AdvancesReady ==
  ASSUME ProcsShaped, ProcsReady, ListsReady, NEW p, Advances(p), Gone' = Gone
  PROVE  There \subseteq There' /\ ProcsReady' /\ ListsReady'
<1>1. p \in Procs /\ Runs(p) /\ OthersStay(p)
  BY DEF Advances
<1>2. /\ procs[p].todo # <<>> /\ Command(p) = Head(procs[p].todo) /\ IsList(procs[p].todo)
      /\ ProcReady(procs[p], There, Gone) /\ TodoReady(procs[p].todo, There, Gone)
  BY <1>1 DEF Runs, Command, ProcsReady, ProcReady
<1>3. /\ CommandRight(Command(p)) /\ Needs(Command(p)) \subseteq There
      /\ Command(p).do = "delete" => Command(p).key \in Gone
  BY <1>2, FirstNeeds
<1>4. Saves(p) \/ Writes(p) \/ UNCHANGED items
  BY DEF Advances, HasRead, HasSkipped, HasSaved, TriesAgain, HasWritten, HasPassed, HasTurned,
         HasStopped
<1>5. \/ UNCHANGED items
      \/ /\ Command(p).do = "edit" /\ procs[p].at = "save"
         /\ \E value \in Results(p) : Put(Command(p).key, value)
      \/ Command(p).do = "store" /\ Put(Command(p).key, Command(p).value)
      \/ Command(p).do = "delete" /\ Erase(Command(p).key)
  BY <1>4, ItemChanges
<1>6. There \subseteq There'
  <2>1. DOMAIN items \subseteq DOMAIN items' \cup Gone
    <3>1. CASE UNCHANGED items
      BY <3>1
    <3>2. CASE \E value : Put(Command(p).key, value)
      BY <3>2, PutFacts
    <3>3. CASE Command(p).do = "delete" /\ Erase(Command(p).key)
      BY <1>3, <3>3, EraseFacts
    <3> QED
      BY <1>5, <3>1, <3>2, <3>3
  <2> QED
    BY <2>1 DEF There
<1>7. ListsReady'
  <2> SUFFICES ASSUME NEW key \in DOMAIN items'
               PROVE  ElementsIn(key, items'[key].value, There')
    BY DEF ListsReady
  <2>1. CASE key \in DOMAIN items /\ items'[key] = items[key]
    <3>1. ElementsIn(key, items[key].value, There)
      BY <2>1 DEF ListsReady
    <3> QED
      BY <1>6, <2>1, <3>1, ElementsGrow
  <2>2. CASE key \notin DOMAIN items \/ items'[key] # items[key]
    <3>1. CASE /\ Command(p).do = "edit" /\ procs[p].at = "save"
               /\ \E value \in Results(p) : Put(Command(p).key, value)
      <4>1. PICK value \in Results(p) : Put(Command(p).key, value)
        BY <3>1
      <4>2. key = Command(p).key /\ items'[key].value = value
        BY <2>2, <4>1, PutFacts
      <4>3. ElementsIn(Command(p).key, procs[p].seen.value, There)
        BY <1>2, <3>1 DEF ProcReady
      <4>4. ElementsIn(key, value, There)
        BY <1>3, <3>1, <4>2, <4>3, SavedIn
      <4> QED
        BY <1>6, <4>2, <4>4, ElementsGrow
    <3>2. CASE Command(p).do = "store" /\ Put(Command(p).key, Command(p).value)
      <4>0. PICK value : Put(Command(p).key, value)
        BY <3>2
      <4>1. key = Command(p).key
        <5>1. /\ DOMAIN items' = DOMAIN items \cup {Command(p).key}
              /\ \A k \in DOMAIN items \ {Command(p).key} : items'[k] = items[k]
          BY <4>0, PutFacts
        <5> QED
          BY <2>2, <5>1
      <4>2. key[1] \notin Lists
        BY <1>3, <3>2, <4>1 DEF CommandRight, Wholes, Lists
      <4> QED
        BY <4>2 DEF ElementsIn
    <3>3. CASE Command(p).do = "delete" /\ Erase(Command(p).key)
      BY <2>2, <3>3, EraseFacts
    <3> QED
      BY <1>5, <2>2, <3>1, <3>2, <3>3
  <2> QED
    BY <2>1, <2>2
<1>8. ASSUME NEW q \in Procs \ {p} PROVE ProcReady(procs'[q], There', Gone')
  <2>1. procs'[q] = procs[q] /\ ProcReady(procs[q], There, Gone)
    BY <1>1, <1>8 DEF OthersStay, ProcsReady
  <2> QED
    BY <1>6, <2>1, ProcReadyGrows
<1>9. ASSUME NEW page, NEW ok, Reached(p, Tail(procs[p].todo), page, ok),
             \A x \in ToSet(page) : Content(x) \in There',
             Command(p).do = "store" => Command(p).key \in There'
      PROVE  ProcReady(procs'[p], There', Gone')
  <2>1. IsList(Tail(procs[p].todo)) /\ TodoReady(Tail(procs[p].todo), There', Gone)
    BY <1>2, <1>6, <1>9, TodoReadyTail
  <2> QED
    BY <1>9, <2>1 DEF Reached, ProcReady
<1>10. ASSUME NEW page, NEW ok, Reached(p, <<>>, page, ok),
              \A x \in ToSet(page) : Content(x) \in There'
       PROVE  ProcReady(procs'[p], There', Gone')
  BY <1>10, NothingReady, EmptyList DEF Reached, ProcReady
<1>11. ProcReady(procs'[p], There', Gone')
  <2>0. ProcReady(procs[p], There', Gone')
    BY <1>2, <1>6, ProcReadyGrows
  <2>1. CASE HasRead(p)
    <3>1. /\ procs'[p].todo = procs[p].todo /\ procs'[p].page = procs[p].page
          /\ procs'[p].seen = Item(Command(p).key)
      BY <2>1 DEF HasRead
    <3>2. ElementsIn(Command(p).key, Item(Command(p).key).value, There')
      BY <1>6, ItemIn, ElementsGrow
    <3> QED
      BY <1>2, <2>0, <3>1, <3>2 DEF ProcReady
  <2>2. CASE HasSkipped(p) \/ HasSaved(p) \/ HasPassed(p)
    <3>1. Command(p).do # "store" /\ Goes(p)
      BY <2>2 DEF HasSkipped, HasSaved, HasPassed, Saves, Turn
    <3> QED
      BY <1>9, <3>1, EmptyList DEF Goes
  <2>3. CASE TriesAgain(p)
    BY <2>0, <2>3 DEF TriesAgain, ProcReady
  <2>4. CASE HasWritten(p)
    <3>1. Goes(p) /\ Writes(p)
      BY <2>4 DEF HasWritten
    <3>2. Command(p).do = "store" => Command(p).key \in There'
      <4>1. Command(p).do = "store" => Put(Command(p).key, Command(p).value)
        BY <3>1 DEF Writes, Turn
      <4>2. Command(p).do = "store" => Command(p).key \in DOMAIN items'
        BY <4>1, PutFacts
      <4> QED
        BY <4>2 DEF There
    <3> QED
      BY <1>9, <3>1, <3>2, EmptyList DEF Goes
  <2>5. CASE HasTurned(p)
    <3>1. PICK page : /\ ToSet(page) \subseteq ToSet(Item(Command(p).key).value)
                      /\ Reached(p, IF page = <<>> THEN <<>> ELSE Tail(procs[p].todo), page, TRUE)
      BY <2>5 DEF HasTurned
    <3>2. Command(p).do = "page" /\ Command(p).key[1] \in Timelines
      BY <1>3, <2>5 DEF HasTurned, CommandRight
    <3>3. /\ Command(p).key[1] \in Lists
          /\ \A x : ElementNeeds(Command(p).key, x) = {Content(x)}
      BY <3>2 DEF Lists, Timelines, ElementNeeds
    <3>4. \A x \in ToSet(page) : Content(x) \in There'
      BY <1>6, <3>1, <3>3, ItemIn DEF ElementsIn
    <3>5. CASE page = <<>>
      <4>1. Reached(p, <<>>, page, TRUE)
        BY <3>1, <3>5
      <4> QED
        BY <1>10, <3>4, <4>1
    <3>6. CASE page # <<>>
      <4>1. Reached(p, Tail(procs[p].todo), page, TRUE)
        BY <3>1, <3>6
      <4> QED
        BY <1>9, <3>2, <3>4, <4>1
    <3> QED
      BY <3>5, <3>6
  <2>6. CASE HasStopped(p)
    <3>1. PICK ok \in BOOLEAN : Reached(p, <<>>, <<>>, ok)
      BY <2>6 DEF HasStopped
    <3> QED
      BY <1>10, <3>1, EmptyList
  <2> QED
    BY <2>1, <2>2, <2>3, <2>4, <2>5, <2>6 DEF Advances
<1>12. ProcsReady'
  BY <1>8, <1>11 DEF ProcsReady
<1> QED
  BY <1>6, <1>7, <1>12

\* Another begins with commands that are ready.
LEMMA BeginsReady ==
  ASSUME ProcsReady, ListsReady, NEW p, NEW commands, Begins(p, commands), Gone \subseteq Gone',
         IsList(commands), TodoReady(commands, There', Gone')
  PROVE  There \subseteq There' /\ ProcsReady' /\ ListsReady'
<1>1. There \subseteq There' /\ UNCHANGED items /\ OthersStay(p) /\ Reached(p, commands, <<>>, TRUE)
  BY DEF Begins, There
<1>2. ListsReady'
  <2> SUFFICES ASSUME NEW key \in DOMAIN items'
               PROVE  ElementsIn(key, items'[key].value, There')
    BY DEF ListsReady
  <2>1. ElementsIn(key, items[key].value, There)
    BY <1>1 DEF ListsReady
  <2> QED
    BY <1>1, <2>1, ElementsGrow
<1>3. ASSUME NEW q \in Procs PROVE ProcReady(procs'[q], There', Gone')
  <2>1. CASE q = p
    BY <1>1, <2>1, EmptyList DEF Reached, ProcReady
  <2>2. CASE q # p
    <3>1. procs'[q] = procs[q] /\ ProcReady(procs[q], There, Gone)
      BY <1>1, <1>3, <2>2 DEF OthersStay, ProcsReady
    <3> QED
      BY <1>1, <3>1, ProcReadyGrows
  <2> QED
    BY <2>1, <2>2
<1> QED
  BY <1>1, <1>2, <1>3 DEF ProcsReady
LEMMA ReadPageAdvances ==
  ASSUME ProcsShaped, ProcsReady, ListsReady, NEW p \in Procs, ReadPage(p)
  PROVE  Advances(p) /\ Command(p).do = "page"
<1> DEFINE list == Item(Command(p).key).value
<1>1. Runs(p) /\ Command(p).do = "page" /\ UNCHANGED items
  BY DEF ReadPage, Turn
<1>2. /\ procs[p].todo # <<>> /\ Command(p) = Head(procs[p].todo) /\ IsList(procs[p].todo)
      /\ TodoReady(procs[p].todo, There, Gone) /\ IsList(Tail(procs[p].todo))
  BY <1>1, ProcsFacts DEF Runs, Command, ProcsReady, ProcReady
<1>3. CommandRight(Command(p))
  BY <1>2, FirstNeeds
<1>4. Command(p).key[1] \in Timelines /\ Command(p).posts \in Nat
  BY <1>1, <1>3 DEF CommandRight
<1>5. IsList(list)
  <2>1. ElementsIn(Command(p).key, list, There)
    BY ItemIn
  <2>2. Command(p).key[1] \in Lists
    BY <1>4 DEF Lists, Timelines
  <2> QED
    BY <2>1, <2>2 DEF ElementsIn
<1>6. PICK i \in Boundaries(list, Command(p).earliest) :
        LET last == IF i + Command(p).posts >= Len(list) THEN Len(list) ELSE i + Command(p).posts
            page == SubSeq(list, i + 1, last)
        IN procs' = [procs EXCEPT ![p] =
             [Idle EXCEPT !.todo = IF page = <<>> THEN <<>> ELSE Tail(procs[p].todo),
                          !.page = page]]
  BY DEF ReadPage
<1> HIDE DEF list
<1> DEFINE last == IF i + Command(p).posts >= Len(list) THEN Len(list) ELSE i + Command(p).posts
           page == SubSeq(list, i + 1, last)
           todo == IF page = <<>> THEN <<>> ELSE Tail(procs[p].todo)
           new == [Idle EXCEPT !.todo = todo, !.page = page]
<1>7. Len(list) \in Nat /\ i \in 0..Len(list)
  BY <1>5, ListFacts DEF Boundaries
<1>8. last \in Nat /\ last <= Len(list) /\ i + 1 \in Nat /\ 1 <= i + 1
  BY <1>4, <1>7
<1>9. procs' = [procs EXCEPT ![p] = new]
  BY <1>6
<1> HIDE DEF last
<1>10. ToSet(page) \subseteq ToSet(list)
  BY <1>5, <1>8, SubList
<1> HIDE DEF page
<1>11. IsList(todo)
  BY <1>2, EmptyList
<1> HIDE DEF todo
<1>12. /\ DOMAIN new = ProcFields /\ new.todo = todo /\ new.at = "next" /\ new.page = page
       /\ new.ok = TRUE
  BY DEF Idle, ProcFields
<1> HIDE DEF new
<1>13. ProcsShaped' /\ OthersStay(p) /\ procs'[p] = new
  BY <1>9, <1>11, <1>12, ProcChanges
<1>14. Reached(p, todo, page, TRUE)
  BY <1>12, <1>13 DEF Reached
<1>15. HasTurned(p)
  BY <1>1, <1>10, <1>14 DEF HasTurned, todo, list
<1> QED
  BY <1>1, <1>13, <1>15 DEF Advances

-----------------------------------------------------------------------------
(* The deliveries, their jobs, and the events on their way. *)

UpdateRight(u, S) ==
  /\ DOMAIN u = {"event", "at", "keys", "sent", "got", "ok", "alone"}
  /\ u.at \in {"idle", "followers", "analysis", "push", "collect"}
  /\ u.at # "idle" => EventReady(u.event, S)
  /\ u.at \in {"followers", "push", "collect"} => u.event.kind \in TimelineEvents
  /\ u.sent \in Nat /\ u.got \in Nat /\ u.got <= u.sent
  /\ u.at \in {"push", "collect"} =>
       /\ IsList(u.keys) /\ u.sent <= Len(u.keys) /\ (u.at = "push" => u.sent < Len(u.keys))
       /\ \A i \in 1..Len(u.keys) : u.keys[i][1] \in Timelines
  /\ u.at \notin {"push", "collect"} => u.sent = 0 /\ u.got = 0

UpdatesReady ==
  /\ updates = [d \in Deliveries |-> updates[d]]
  /\ \A d \in Deliveries : UpdateRight(updates[d], There)

\* A job is one of those that its handler has sent and has no result of.
JobRight(job, all) ==
  /\ job = [delivery |-> job.delivery, index |-> job.index]
  /\ job.delivery \in Deliveries /\ job.index \in Nat
  /\ all[job.delivery].got < job.index /\ job.index <= all[job.delivery].sent

JobsRight ==
  /\ IsList(queue) /\ \A k \in 1..Len(queue) : JobRight(queue[k], updates)
  /\ jobs = [w \in Workers |-> jobs[w]]
  /\ \A w \in Workers : jobs[w] = NoJob \/ JobRight(jobs[w], updates)
  /\ \A k, l \in 1..Len(queue) : queue[k] = queue[l] => k = l
  /\ \A w \in Workers, k \in 1..Len(queue) : jobs[w] # queue[k]
  /\ \A w, v \in Workers : jobs[w] = jobs[v] /\ jobs[w] # NoJob => w = v

PendingReady == \A e \in pending : EventReady(e, There)
LinesReady ==
  /\ line = [s \in Stages |-> line[s]]
  /\ \A s \in Stages :
       /\ line[s] = [priority \in Priorities |-> line[s][priority]]
       /\ \A priority \in Priorities :
            /\ IsList(line[s][priority])
            /\ \A e \in ToSet(line[s][priority]) : e.kind = s /\ EventReady(e, There)
CrewReady ==
  /\ crew = [w \in PipeWorkers |-> crew[w]]
  /\ \A w \in PipeWorkers :
       /\ crew[w] = [at |-> crew[w].at, job |-> crew[w].job]
       /\ crew[w].at = "work" => EventReady(crew[w].job, There)
       /\ crew[w].at # "work" => crew[w].job = NoEvent

NeedsInv ==
  /\ ProcsShaped /\ ProcsReady /\ ListsReady
  /\ UpdatesReady /\ JobsRight
  /\ PendingReady /\ LinesReady /\ CrewReady
  /\ missing \subseteq Deleted /\ scenario \in Scenarios

LEMMA EventsGrow ==
  ASSUME NEW S, NEW T, S \subseteq T
  PROVE  /\ \A e : EventReady(e, S) => EventReady(e, T)
         /\ \A u : UpdateRight(u, S) => UpdateRight(u, T)
<1>1. \A e : EventReady(e, S) => EventReady(e, T)
  BY DEF EventReady
<1> QED
  BY <1>1 DEF UpdateRight

LEMMA UpdatesGrow ==
  ASSUME UpdatesReady, There \subseteq There', UNCHANGED updates
  PROVE  UpdatesReady'
BY EventsGrow DEF UpdatesReady

LEMMA PendingGrows ==
  ASSUME PendingReady, There \subseteq There', pending' \subseteq pending
  PROVE  PendingReady'
BY EventsGrow DEF PendingReady

LEMMA LinesGrow ==
  ASSUME LinesReady, There \subseteq There', UNCHANGED line
  PROVE  LinesReady'
BY EventsGrow DEF LinesReady

LEMMA CrewGrows ==
  ASSUME CrewReady, There \subseteq There', UNCHANGED crew
  PROVE  CrewReady'
BY EventsGrow DEF CrewReady

LEMMA PipeGrows ==
  ASSUME LinesReady, CrewReady, There \subseteq There', UNCHANGED <<line, crew>>
  PROVE  LinesReady' /\ CrewReady'
BY LinesGrow, CrewGrows

LEMMA JobsStay ==
  ASSUME JobsRight, UNCHANGED <<updates, queue, jobs>>
  PROVE  JobsRight'
BY DEF JobsRight, JobRight

\* Nothing but what the procs have to do changes.
LEMMA Quiet ==
  ASSUME ProcsShaped, ProcsReady, ListsReady, UNCHANGED <<items, procs, scenario, started>>
  PROVE  ProcsShaped' /\ ProcsReady' /\ ListsReady' /\ There' = There /\ Deleted' = Deleted
<1>1. Deleted' = Deleted
  BY DEF Deleted, Sent
<1>2. Gone' = Gone
  BY <1>1 DEF Gone
<1>3. There' = There
  BY <1>2 DEF There
<1>4. ProcsShaped'
  BY DEF ProcsShaped, Runs, Command
<1> QED
  BY <1>1, <1>2, <1>3, <1>4 DEF ProcsReady, ListsReady

\* The deletions asked for are the same unless a request is sent.
LEMMA GoneStays ==
  ASSUME UNCHANGED <<scenario, started>>
  PROVE  Deleted' = Deleted /\ Gone' = Gone
<1>1. Deleted' = Deleted
  BY DEF Deleted, Sent
<1> QED
  BY <1>1 DEF Gone

\* One delivery changes.
LEMMA UpdateChanges ==
  ASSUME UpdatesReady, There \subseteq There', NEW d \in Deliveries, NEW new,
         updates' = [updates EXCEPT ![d] = new], UpdateRight(new, There')
  PROVE  /\ UpdatesReady' /\ updates'[d] = new
         /\ \A other \in Deliveries \ {d} : updates'[other] = updates[other]
<1>1. /\ updates' = [other \in Deliveries |-> updates'[other]] /\ updates'[d] = new
      /\ \A other \in Deliveries \ {d} : updates'[other] = updates[other]
  BY DEF UpdatesReady
<1>2. ASSUME NEW other \in Deliveries PROVE UpdateRight(updates'[other], There')
  <2>1. CASE other = d
    BY <1>1, <2>1
  <2>2. CASE other # d
    BY <1>1, <2>2, EventsGrow DEF UpdatesReady
  <2> QED
    BY <2>1, <2>2
<1> QED
  BY <1>1, <1>2 DEF UpdatesReady

\* A delivery whose jobs are the same, or which has none.
LEMMA JobsKeep ==
  ASSUME JobsRight, UNCHANGED <<queue, jobs>>, NEW d \in Deliveries,
         \A other \in Deliveries \ {d} : updates'[other] = updates[other],
         \/ updates'[d].got = updates[d].got /\ updates'[d].sent = updates[d].sent
         \/ \A job : JobRight(job, updates) => job.delivery # d
  PROVE  JobsRight'
<1>1. ASSUME NEW job, JobRight(job, updates) PROVE JobRight(job, updates')
  BY <1>1 DEF JobRight
<1> QED
  BY <1>1 DEF JobsRight
-----------------------------------------------------------------------------
(* The steps of the deliveries. *)

LEMMA NoJobs ==
  ASSUME UpdatesReady, NEW d \in Deliveries,
         \/ updates[d].at \notin {"push", "collect"}
         \/ updates[d].at = "collect" /\ updates[d].got = Len(updates[d].keys)
  PROVE  \A job : JobRight(job, updates) => job.delivery # d
<1>1. UpdateRight(updates[d], There)
  BY DEF UpdatesReady
<1>2. updates[d].sent <= updates[d].got /\ updates[d].sent \in Nat /\ updates[d].got \in Nat
  BY <1>1 DEF UpdateRight
<1>3. ASSUME NEW job, JobRight(job, updates), job.delivery = d PROVE FALSE
  <2>1. job.index \in Nat /\ updates[d].got < job.index /\ job.index <= updates[d].sent
    BY <1>3 DEF JobRight
  <2> QED
    BY <1>2, <2>1
<1> QED
  BY <1>3

LEMMA NoUpdateRight == ASSUME NEW S PROVE UpdateRight(NoUpdate, S)
<1>1. /\ DOMAIN NoUpdate = {"event", "at", "keys", "sent", "got", "ok", "alone"}
      /\ NoUpdate.at = "idle" /\ NoUpdate.sent = 0 /\ NoUpdate.got = 0
  BY DEF NoUpdate
<1> QED
  BY <1>1 DEF UpdateRight

LEMMA AcknowledgeNeeds ==
  ASSUME NeedsInv, NEW d \in Deliveries, Acknowledge(d), There \subseteq There',
         UNCHANGED <<queue, jobs>>,
         \/ updates[d].at \notin {"push", "collect"}
         \/ updates[d].at = "collect" /\ updates[d].got = Len(updates[d].keys)
  PROVE  UpdatesReady' /\ JobsRight' /\ PendingReady'
<1>1. UpdatesReady' /\ \A other \in Deliveries \ {d} : updates'[other] = updates[other]
  <2>1. updates' = [updates EXCEPT ![d] = NoUpdate] /\ UpdateRight(NoUpdate, There')
    BY NoUpdateRight DEF Acknowledge
  <2> QED
    BY <2>1, UpdateChanges DEF NeedsInv
<1>2. JobsRight'
  <2>1. \A job : JobRight(job, updates) => job.delivery # d
    BY NoJobs DEF NeedsInv
  <2> QED
    BY <1>1, <2>1, JobsKeep DEF NeedsInv
<1>3. PendingReady'
  BY PendingGrows DEF NeedsInv, Acknowledge
<1> QED
  BY <1>1, <1>2, <1>3

\* All but the deliveries, their jobs and the events.
LEMMA NeedsInvFrom ==
  ASSUME NeedsInv, ProcsShaped', ProcsReady', ListsReady', There \subseteq There',
         UNCHANGED <<missing, line, crew, scenario, started>>,
         UpdatesReady', JobsRight', PendingReady'
  PROVE  NeedsInv'
<1>1. LinesReady' /\ CrewReady'
  BY PipeGrows DEF NeedsInv
<1>2. missing' \subseteq Deleted' /\ scenario' \in Scenarios
  BY GoneStays DEF NeedsInv
<1> QED
  BY <1>1, <1>2 DEF NeedsInv

LEMMA DeliverNeeds ==
  ASSUME NeedsInv, NEW d \in Deliveries, NEW e \in pending, Deliver(d, e),
         UNCHANGED <<missing, line, crew, scenario, started>>
  PROVE  NeedsInv'
<1>1. /\ e.kind \in SubscribedEvents /\ updates[d].at = "idle" /\ d \in Procs
      /\ UNCHANGED <<items, pending, queue, jobs>>
  BY DaprTimelinesAssumption DEF Deliver, IdleDeliveries
<1>2. EventReady(e, There)
  BY DEF NeedsInv, PendingReady
<1>3. Gone' = Gone
  BY GoneStays
<1>4. ASSUME NEW commands, Begin(d, commands), IsList(commands),
             TodoReady(commands, There', Gone')
      PROVE  ProcsShaped' /\ ProcsReady' /\ ListsReady' /\ There \subseteq There'
  <2>1. Begins(d, commands)
    BY <1>1, <1>4, BeginFacts DEF Begins, NeedsInv
  <2>2. ProcsShaped'
    BY <2>1 DEF Begins
  <2> QED
    BY <1>3, <1>4, <2>1, <2>2, BeginsReady DEF NeedsInv
<1>5. ProcsShaped' /\ ProcsReady' /\ ListsReady' /\ There \subseteq There'
  <2>1. CASE e.kind = "sentiment"
    BY <1>4, <2>1, AnalysesReady DEF Deliver
  <2>2. CASE e.kind = "objects"
    BY <1>4, <2>2, AnalysesReady DEF Deliver
  <2>3. CASE e.kind = "scale"
    BY <1>4, <2>3, AnalysesReady DEF Deliver
  <2>4. CASE e.kind = "thumbnail"
    BY <1>4, <2>4, AnalysesReady DEF Deliver
  <2>5. CASE e.kind \in TimelineEvents
    <3>1. UNCHANGED procs
      BY <2>5 DEF Deliver, TimelineEvents
    <3> QED
      BY <1>1, <3>1, Quiet DEF NeedsInv
  <2> QED
    BY <1>1, <2>1, <2>2, <2>3, <2>4, <2>5 DEF SubscribedEvents
<1> DEFINE new == [NoUpdate EXCEPT !.event = e, !.alone = Alone(d, e),
                     !.at = IF e.kind \in TimelineEvents THEN "followers" ELSE "analysis"]
<1>6. UpdateRight(new, There')
  <2>1. /\ DOMAIN new = {"event", "at", "keys", "sent", "got", "ok", "alone"}
        /\ new.event = e /\ new.sent = 0 /\ new.got = 0
        /\ new.at = IF e.kind \in TimelineEvents THEN "followers" ELSE "analysis"
    BY DEF NoUpdate
  <2>2. EventReady(e, There')
    BY <1>2, <1>5, EventsGrow
  <2> HIDE DEF new
  <2> QED
    BY <2>1, <2>2 DEF UpdateRight
<1>7. updates' = [updates EXCEPT ![d] = new]
  BY DEF Deliver
<1> HIDE DEF new
<1>8. UpdatesReady' /\ \A other \in Deliveries \ {d} : updates'[other] = updates[other]
  BY <1>5, <1>6, <1>7, UpdateChanges DEF NeedsInv
<1>9. JobsRight'
  <2>1. \A job : JobRight(job, updates) => job.delivery # d
    BY <1>1, NoJobs DEF NeedsInv
  <2> QED
    BY <1>1, <1>8, <2>1, JobsKeep DEF NeedsInv
<1>10. PendingReady'
  BY <1>1, <1>5, PendingGrows DEF NeedsInv
<1> QED
  BY <1>5, <1>8, <1>9, <1>10, NeedsInvFrom

LEMMA EndsNeeds ==
  ASSUME NeedsInv, NEW d \in Deliveries, AnalysisEnds(d) \/ AskFails(d) \/ UpdateEnds(d),
         UNCHANGED <<missing, line, crew, scenario, started>>
  PROVE  NeedsInv'
<1>1. /\ Acknowledge(d) /\ UNCHANGED <<items, procs, queue, jobs>>
      /\ \/ updates[d].at \notin {"push", "collect"}
         \/ updates[d].at = "collect" /\ updates[d].got = Len(updates[d].keys)
  BY DEF AnalysisEnds, AskFails, UpdateEnds, storeVars
<1>2. ProcsShaped' /\ ProcsReady' /\ ListsReady' /\ There \subseteq There'
  BY <1>1, Quiet DEF NeedsInv
<1>3. UpdatesReady' /\ JobsRight' /\ PendingReady'
  BY <1>1, <1>2, AcknowledgeNeeds
<1> QED
  BY <1>2, <1>3, NeedsInvFrom

LEMMA TargetsFacts ==
  ASSUME ListsReady, NEW u
  PROVE  /\ IsList(Targets(u)) /\ Len(Targets(u)) \in Nat \ {0}
         /\ \A i \in 1..Len(Targets(u)) : Targets(u)[i][1] \in Timelines
<1> DEFINE v == Item(Followers(u)).value
           a == <<UserTimeline(u)>>
           b == [i \in DOMAIN v |-> HomeTimeline(v[i])]
           t == a \o b
<1>1. IsList(v)
  <2>1. ElementsIn(Followers(u), v, There)
    BY ItemIn
  <2>2. Followers(u)[1] \in Lists
    BY DEF Followers, Lists
  <2> QED
    BY <2>1, <2>2 DEF ElementsIn
<1>2. DOMAIN v = 1..Len(v) /\ Len(v) \in Nat
  BY <1>1, ListFacts
<1>3. /\ b = [i \in 1..Len(v) |-> b[i]]
      /\ \A i \in 1..Len(v) : b[i] = HomeTimeline(v[i])
  BY <1>2
<1>4. /\ UserTimeline(u)[1] \in Timelines
      /\ \A x : HomeTimeline(x)[1] \in Timelines
  BY DEF UserTimeline, HomeTimeline, Timelines
<1>5. IsList(a) /\ Len(a) = 1 /\ a[1] = UserTimeline(u)
  BY OneList
<1>6. Targets(u) = t
  BY DEF Targets
<1> HIDE DEF v, a, b
<1>7. IsList(b) /\ Len(b) = Len(v)
  BY <1>2, <1>3, ListFromFunction
<1>8. /\ IsList(t) /\ Len(t) = Len(a) + Len(b)
      /\ \A i \in 1..Len(a) : t[i] = a[i]
      /\ \A i \in 1..Len(b) : t[Len(a) + i] = b[i]
  <2>1. IsList(a) /\ IsList(b)
    BY <1>5, <1>7
  <2> QED
    BY <2>1, ListConcat
<1> HIDE DEF t
<1>9. ASSUME NEW i \in 1..Len(t) PROVE t[i][1] \in Timelines
  <2>1. CASE i = 1
    BY <1>4, <1>5, <1>8, <2>1
  <2>2. CASE i # 1
    <3>1. PICK k : k = i - 1
      OBVIOUS
    <3>2. k \in 1..Len(v) /\ Len(a) + k = i
      BY <1>2, <1>5, <1>7, <1>8, <2>2, <3>1
    <3>3. t[i] = HomeTimeline(v[k])
      BY <1>3, <1>7, <1>8, <3>2
    <3> QED
      BY <1>4, <3>3
  <2> QED
    BY <2>1, <2>2
<1>10. Len(t) \in Nat \ {0}
  BY <1>2, <1>5, <1>7, <1>8
<1> QED
  BY <1>6, <1>8, <1>9, <1>10

LEMMA AskNeeds ==
  ASSUME NeedsInv, NEW d \in Deliveries, AskFollowers(d),
         UNCHANGED <<missing, line, crew, scenario, started>>
  PROVE  NeedsInv'
<1> DEFINE keys == Targets(updates[d].event.user)
           new == [updates[d] EXCEPT !.at = "push", !.keys = keys]
<1>1. /\ updates[d].at = "followers" /\ UNCHANGED <<items, procs, pending, queue, jobs>>
      /\ updates' = [updates EXCEPT ![d].at = "push", ![d].keys = keys]
  BY DEF AskFollowers, storeVars
<1>2. ProcsShaped' /\ ProcsReady' /\ ListsReady' /\ There' = There
  BY <1>1, Quiet DEF NeedsInv
<1>3. UpdateRight(updates[d], There)
  BY DEF NeedsInv, UpdatesReady
<1>4. /\ IsList(keys) /\ Len(keys) \in Nat \ {0} /\ \A i \in 1..Len(keys) : keys[i][1] \in Timelines
  BY TargetsFacts DEF NeedsInv
<1> HIDE DEF keys
<1>5. updates' = [updates EXCEPT ![d] = new]
  BY <1>1 DEF NeedsInv, UpdatesReady
<1>6. /\ DOMAIN new = {"event", "at", "keys", "sent", "got", "ok", "alone"}
      /\ new.at = "push" /\ new.keys = keys /\ new.sent = 0 /\ new.got = 0
      /\ updates[d].sent = 0 /\ updates[d].got = 0
      /\ new.event = updates[d].event
  BY <1>1, <1>3 DEF UpdateRight
<1> HIDE DEF new
<1>7. UpdateRight(new, There')
  BY <1>1, <1>2, <1>3, <1>4, <1>6 DEF UpdateRight
<1>8. /\ UpdatesReady' /\ updates'[d] = new
      /\ \A other \in Deliveries \ {d} : updates'[other] = updates[other]
  BY <1>2, <1>5, <1>7, UpdateChanges DEF NeedsInv
<1>9. JobsRight'
  BY <1>1, <1>6, <1>8, JobsKeep DEF NeedsInv
<1>10. PendingReady'
  BY <1>1, <1>2, PendingGrows DEF NeedsInv
<1> QED
  BY <1>2, <1>8, <1>9, <1>10, NeedsInvFrom
-----------------------------------------------------------------------------
(* The jobs. *)

LEMMA PushNeeds ==
  ASSUME NeedsInv, NEW d \in Deliveries, PushJob(d),
         UNCHANGED <<missing, line, crew, scenario, started>>
  PROVE  NeedsInv'
<1> DEFINE next == updates[d].sent + 1
           at == IF next = Len(updates[d].keys) THEN "collect" ELSE "push"
           new == [updates[d] EXCEPT !.sent = next, !.at = at]
           job == [delivery |-> d, index |-> next]
<1>1. /\ updates[d].at = "push" /\ UNCHANGED <<items, procs, pending, jobs>>
      /\ queue' = Append(queue, job)
  BY DEF PushJob, storeVars
<1>2. updates' = [updates EXCEPT ![d] = new]
  BY <1>1 DEF PushJob, NeedsInv, UpdatesReady
<1>3. ProcsShaped' /\ ProcsReady' /\ ListsReady' /\ There' = There
  BY <1>1, Quiet DEF NeedsInv
<1>4. UpdateRight(updates[d], There)
  BY DEF NeedsInv, UpdatesReady
<1>5. /\ DOMAIN new = {"event", "at", "keys", "sent", "got", "ok", "alone"}
      /\ new.at = at /\ new.keys = updates[d].keys /\ new.sent = next
      /\ new.got = updates[d].got /\ new.event = updates[d].event
  BY <1>4 DEF UpdateRight
<1>6. /\ next \in Nat /\ next <= Len(updates[d].keys) /\ updates[d].got < next
      /\ updates[d].sent < next /\ updates[d].sent \in Nat /\ updates[d].got \in Nat
      /\ Len(updates[d].keys) \in Nat
  BY <1>1, <1>4, ListFacts DEF UpdateRight
<1>7. at \in {"push", "collect"} /\ (at = "push" => next < Len(updates[d].keys))
  BY <1>6
<1>8. job = [delivery |-> job.delivery, index |-> job.index] /\ job.delivery = d /\ job.index = next
  OBVIOUS
<1> HIDE DEF new, next, at, job
<1>9. UpdateRight(new, There')
  BY <1>1, <1>3, <1>4, <1>5, <1>6, <1>7 DEF UpdateRight
<1>10. /\ UpdatesReady' /\ updates'[d] = new
       /\ \A other \in Deliveries \ {d} : updates'[other] = updates[other]
  BY <1>2, <1>3, <1>9, UpdateChanges DEF NeedsInv
<1>11. ASSUME NEW j, JobRight(j, updates) PROVE JobRight(j, updates') /\ j # job
  <2>1. /\ j.delivery \in Deliveries /\ j.index \in Nat /\ updates[j.delivery].got < j.index
        /\ j.index <= updates[j.delivery].sent /\ j = [delivery |-> j.delivery, index |-> j.index]
    BY <1>11 DEF JobRight
  <2>2. CASE j.delivery = d
    <3>1. updates'[d].got < j.index /\ j.index <= updates'[d].sent /\ j.index # next
      BY <1>5, <1>6, <1>10, <2>1, <2>2
    <3> QED
      BY <1>8, <2>1, <2>2, <3>1 DEF JobRight
  <2>3. CASE j.delivery # d
    BY <1>8, <1>10, <2>1, <2>3 DEF JobRight
  <2> QED
    BY <2>2, <2>3
<1>12. JobRight(job, updates')
  BY <1>5, <1>6, <1>8, <1>10 DEF JobRight
<1>13. JobsRight'
  <2> DEFINE q == Append(queue, job)
             n == Len(queue)
  <2>1. IsList(queue) /\ n \in Nat /\ \A k \in 1..n : JobRight(queue[k], updates)
    BY ListFacts DEF NeedsInv, JobsRight
  <2>2. /\ IsList(q) /\ Len(q) = n + 1 /\ \A i \in 1..n : q[i] = queue[i]
        /\ q[n + 1] = job
    BY <2>1, ListAppend
  <2> HIDE DEF q, n
  <2>3. queue' = q /\ jobs' = jobs
    BY <1>1 DEF q
  <2>4. \A k \in 1..Len(q) : k \in 1..n \/ k = n + 1
    BY <2>1, <2>2
  <2>5. \A k \in 1..Len(q) : JobRight(q[k], updates')
    BY <1>11, <1>12, <2>1, <2>2, <2>4
  <2>6. \A k, l \in 1..Len(q) : q[k] = q[l] => k = l
    <3>1. \A k, l \in 1..n : queue[k] = queue[l] => k = l
      BY DEF NeedsInv, JobsRight, n
    <3>2. \A k \in 1..n : q[k] # job
      BY <1>11, <2>1, <2>2
    <3> QED
      BY <2>2, <2>4, <3>1, <3>2
  <2>7. \A w \in Workers : /\ jobs[w] = NoJob \/ JobRight(jobs[w], updates')
                           /\ jobs[w] # job
    <3>1. \A w \in Workers : jobs[w] = NoJob \/ JobRight(jobs[w], updates)
      BY DEF NeedsInv, JobsRight
    <3>2. NoJob # job
      <4>1. NoJob.index = 0
        BY DEF NoJob
      <4> QED
        BY <1>6, <1>8, <4>1
    <3> QED
      BY <1>11, <3>1, <3>2
  <2>8. \A w \in Workers, k \in 1..Len(q) : jobs[w] # q[k]
    <3>1. \A w \in Workers, k \in 1..n : jobs[w] # queue[k]
      BY DEF NeedsInv, JobsRight, n
    <3> QED
      BY <2>2, <2>4, <2>7, <3>1
  <2>9. \A k \in 1..Len(queue') : JobRight(queue'[k], updates')
    BY <2>3, <2>5
  <2>10. /\ jobs' = [w \in Workers |-> jobs'[w]]
         /\ \A w, v \in Workers : jobs'[w] = jobs'[v] /\ jobs'[w] # NoJob => w = v
    BY <1>1 DEF NeedsInv, JobsRight
  <2>11. \A w \in Workers : jobs'[w] = NoJob \/ JobRight(jobs'[w], updates')
    BY <2>3, <2>7
  <2>12. /\ IsList(queue') /\ \A k, l \in 1..Len(queue') : queue'[k] = queue'[l] => k = l
         /\ \A w \in Workers, k \in 1..Len(queue') : jobs'[w] # queue'[k]
    BY <2>2, <2>3, <2>6, <2>8
  <2> QED
    BY <2>9, <2>10, <2>11, <2>12 DEF JobsRight
<1>14. PendingReady'
  BY <1>1, <1>3, PendingGrows DEF NeedsInv
<1> QED
  BY <1>3, <1>10, <1>13, <1>14, NeedsInvFrom

LEMMA TakeNeeds ==
  ASSUME NeedsInv, NEW w \in Workers, TakeJob(w),
         UNCHANGED <<missing, line, crew, scenario, started>>
  PROVE  NeedsInv'
<1> DEFINE job == Head(queue)
           d == job.delivery
           command == Edit(updates[d].keys[job.index],
                           IF updates[d].event.kind = "add" THEN "post" ELSE "remove",
                           updates[d].event.about)
<1>1. /\ queue # <<>> /\ jobs[w] = NoJob /\ queue' = Tail(queue)
      /\ jobs' = [jobs EXCEPT ![w] = job] /\ Begin(w, <<command>>)
      /\ UNCHANGED <<items, pending, updates>>
  BY DEF TakeJob, IdleWorkers
<1>2. /\ IsList(queue) /\ Len(queue) \in Nat \ {0} /\ job = queue[1] /\ 1 \in 1..Len(queue)
      /\ IsList(Tail(queue)) /\ Len(Tail(queue)) = Len(queue) - 1
      /\ \A i \in 1..Len(Tail(queue)) : Tail(queue)[i] = queue[i + 1]
  BY <1>1, ListFacts, ListTail DEF NeedsInv, JobsRight
<1>3. JobRight(job, updates)
  BY <1>2 DEF NeedsInv, JobsRight
<1>4. /\ d \in Deliveries /\ job.index \in 1..Len(updates[d].keys)
      /\ updates[d].keys[job.index][1] \in Timelines
      /\ updates[d].event.kind \in TimelineEvents /\ EventReady(updates[d].event, There)
  <2>1. /\ d \in Deliveries /\ job.index \in Nat /\ updates[d].got < job.index
        /\ job.index <= updates[d].sent
    BY <1>3 DEF JobRight
  <2>2. UpdateRight(updates[d], There)
    BY <2>1 DEF NeedsInv, UpdatesReady
  <2>3. updates[d].at \in {"push", "collect"}
    BY <2>1, <2>2 DEF UpdateRight
  <2>4. /\ IsList(updates[d].keys) /\ updates[d].sent <= Len(updates[d].keys)
        /\ \A i \in 1..Len(updates[d].keys) : updates[d].keys[i][1] \in Timelines
        /\ updates[d].event.kind \in TimelineEvents /\ EventReady(updates[d].event, There)
        /\ updates[d].sent \in Nat /\ updates[d].got \in Nat
    BY <2>2, <2>3 DEF UpdateRight
  <2>5. Len(updates[d].keys) \in Nat
    BY <2>4, ListFacts
  <2>6. job.index \in 1..Len(updates[d].keys)
    BY <2>1, <2>4, <2>5
  <2> QED
    BY <2>1, <2>4, <2>6
<1>5. IsList(<<command>>) /\ TodoReady(<<command>>, There', Gone')
  <2>1. There' = There
    BY <1>1, GoneStays DEF There
  <2>2. EventReady(updates[d].event, There')
    BY <1>4, <2>1
  <2> QED
    BY <1>4, <2>2, UpdateReady
<1> HIDE DEF command
<1>6. ProcsShaped' /\ ProcsReady' /\ ListsReady' /\ There \subseteq There'
  <2>1. w \in Procs
    BY DaprTimelinesAssumption
  <2>2. Begins(w, <<command>>)
    BY <1>1, <1>5, <2>1, BeginFacts DEF Begins, NeedsInv
  <2>3. ProcsShaped' /\ Gone \subseteq Gone'
    BY <2>2, GoneStays DEF Begins
  <2> QED
    BY <1>5, <2>2, <2>3, BeginsReady DEF NeedsInv
<1>7. UpdatesReady' /\ PendingReady'
  BY <1>1, <1>6, UpdatesGrow, PendingGrows DEF NeedsInv
<1> HIDE DEF job
<1>8. JobsRight'
  <2> DEFINE q == Tail(queue)
             n == Len(queue)
  <2>1. /\ n \in Nat \ {0} /\ IsList(q) /\ Len(q) = n - 1
        /\ \A i \in 1..Len(q) : i + 1 \in 1..n /\ 1 \in 1..n /\ i + 1 # 1 /\ q[i] = queue[i + 1]
    BY <1>2
  <2>2. queue' = q /\ job = queue[1] /\ 1 \in 1..n
    BY <1>1, <1>2
  <2> HIDE DEF q, n
  <2>3. \A j : JobRight(j, updates') <=> JobRight(j, updates)
    BY <1>1 DEF JobRight
  <2>4. /\ \A k \in 1..n : JobRight(queue[k], updates)
        /\ \A k, l \in 1..n : queue[k] = queue[l] => k = l
        /\ \A v \in Workers, k \in 1..n : jobs[v] # queue[k]
        /\ \A v \in Workers : jobs[v] = NoJob \/ JobRight(jobs[v], updates)
        /\ \A u, v \in Workers : jobs[u] = jobs[v] /\ jobs[u] # NoJob => u = v
        /\ DOMAIN jobs = Workers
    BY DEF NeedsInv, JobsRight, n
  <2>5. /\ jobs' = [v \in Workers |-> jobs'[v]] /\ jobs'[w] = job
        /\ \A v \in Workers \ {w} : jobs'[v] = jobs[v]
    BY <1>1, <2>4
  <2>6. \A k \in 1..Len(q) : JobRight(q[k], updates')
    BY <2>1, <2>3, <2>4
  <2>7. \A v \in Workers : jobs'[v] = NoJob \/ JobRight(jobs'[v], updates')
    BY <1>3, <2>3, <2>4, <2>5
  <2>8. \A k, l \in 1..Len(q) : q[k] = q[l] => k = l
    <3> SUFFICES ASSUME NEW k \in 1..Len(q), NEW l \in 1..Len(q), q[k] = q[l] PROVE k = l
      OBVIOUS
    <3>1. queue[k + 1] = queue[l + 1] /\ k + 1 \in 1..n /\ l + 1 \in 1..n
      BY <2>1
    <3>2. k + 1 = l + 1
      BY <2>4, <3>1
    <3> QED
      BY <3>2
  <2>9. ASSUME NEW v \in Workers, NEW k \in 1..Len(q) PROVE jobs'[v] # q[k]
    <3>1. k + 1 \in 1..n /\ k + 1 # 1 /\ q[k] = queue[k + 1]
      BY <2>1
    <3>2. queue[k + 1] # queue[1]
      BY <2>2, <2>4, <3>1
    <3>3. jobs[v] # queue[k + 1]
      BY <2>4, <3>1
    <3> QED
      BY <2>2, <2>5, <3>1, <3>2, <3>3
  <2>10. \A u, v \in Workers : jobs'[u] = jobs'[v] /\ jobs'[u] # NoJob => u = v
    BY <2>2, <2>4, <2>5
  <2>11. /\ IsList(queue') /\ \A k \in 1..Len(queue') : JobRight(queue'[k], updates')
         /\ \A k, l \in 1..Len(queue') : queue'[k] = queue'[l] => k = l
         /\ \A v \in Workers, k \in 1..Len(queue') : jobs'[v] # queue'[k]
    BY <2>1, <2>2, <2>6, <2>8, <2>9
  <2> QED
    BY <2>5, <2>7, <2>10, <2>11 DEF JobsRight
<1> QED
  BY <1>6, <1>7, <1>8, NeedsInvFrom

LEMMA SendResultNeeds ==
  ASSUME NeedsInv, NEW w \in Workers, SendResult(w),
         UNCHANGED <<missing, line, crew, scenario, started>>
  PROVE  NeedsInv'
<1> DEFINE job == jobs[w]
           d == job.delivery
           new == [updates[d] EXCEPT !.got = @ + 1, !.ok = @ /\ procs[w].ok]
<1>1. /\ job # NoJob /\ updates[d].at = "collect" /\ job.index = updates[d].got + 1
      /\ jobs' = [jobs EXCEPT ![w] = NoJob] /\ UNCHANGED <<items, procs, pending, queue>>
  BY DEF SendResult, storeVars
<1>2. JobRight(job, updates)
  BY <1>1 DEF NeedsInv, JobsRight
<1>3. /\ d \in Deliveries /\ job.index <= updates[d].sent
      /\ job = [delivery |-> d, index |-> job.index]
  BY <1>2 DEF JobRight
<1>4. updates' = [updates EXCEPT ![d] = new]
  BY <1>3 DEF SendResult, NeedsInv, UpdatesReady
<1>5. ProcsShaped' /\ ProcsReady' /\ ListsReady' /\ There' = There
  BY <1>1, Quiet DEF NeedsInv
<1>6. UpdateRight(updates[d], There)
  BY <1>3 DEF NeedsInv, UpdatesReady
<1>7. /\ DOMAIN new = {"event", "at", "keys", "sent", "got", "ok", "alone"}
      /\ new.at = updates[d].at /\ new.keys = updates[d].keys /\ new.sent = updates[d].sent
      /\ new.got = updates[d].got + 1 /\ new.event = updates[d].event
  BY <1>6 DEF UpdateRight
<1> HIDE DEF new
<1>8. UpdateRight(new, There')
  BY <1>1, <1>3, <1>5, <1>6, <1>7 DEF UpdateRight
<1>9. /\ UpdatesReady' /\ updates'[d] = new
      /\ \A other \in Deliveries \ {d} : updates'[other] = updates[other]
  BY <1>3, <1>4, <1>5, <1>8, UpdateChanges DEF NeedsInv
<1>10. ASSUME NEW j, JobRight(j, updates), j # job PROVE JobRight(j, updates')
  <2>1. /\ j.delivery \in Deliveries /\ j.index \in Nat /\ updates[j.delivery].got < j.index
        /\ j.index <= updates[j.delivery].sent /\ j = [delivery |-> j.delivery, index |-> j.index]
    BY <1>10 DEF JobRight
  <2>2. CASE j.delivery = d
    <3>1. j.index # job.index
      BY <1>3, <1>10, <2>1, <2>2
    <3>2. updates[d].got \in Nat /\ updates[d].got < j.index /\ j.index # updates[d].got + 1
      BY <1>1, <1>6, <2>1, <2>2, <3>1 DEF UpdateRight
    <3>3. updates[d].got + 1 < j.index
      BY <2>1, <3>2
    <3> QED
      BY <1>7, <1>9, <2>1, <2>2, <3>3 DEF JobRight
  <2>3. CASE j.delivery # d
    BY <1>9, <2>1, <2>3 DEF JobRight
  <2> QED
    BY <2>2, <2>3
<1>11. JobsRight'
  <2>1. /\ IsList(queue) /\ \A k \in 1..Len(queue) : JobRight(queue[k], updates)
        /\ \A k, l \in 1..Len(queue) : queue[k] = queue[l] => k = l
        /\ \A v \in Workers, k \in 1..Len(queue) : jobs[v] # queue[k]
        /\ \A v \in Workers : jobs[v] = NoJob \/ JobRight(jobs[v], updates)
        /\ \A u, v \in Workers : jobs[u] = jobs[v] /\ jobs[u] # NoJob => u = v
        /\ DOMAIN jobs = Workers
    BY DEF NeedsInv, JobsRight
  <2>2. /\ jobs' = [v \in Workers |-> jobs'[v]] /\ jobs'[w] = NoJob
        /\ \A v \in Workers \ {w} : jobs'[v] = jobs[v]
    BY <1>1, <2>1
  <2>3. \A k \in 1..Len(queue) : JobRight(queue[k], updates') /\ queue[k] # NoJob
    <3>1. \A k \in 1..Len(queue) : JobRight(queue[k], updates) /\ queue[k] # job
      BY <2>1
    <3>2. ~JobRight(NoJob, updates)
      <4>1. NoJob.index = 0 /\ NoJob.delivery = 0
        BY DEF NoJob
      <4>2. ASSUME JobRight(NoJob, updates) PROVE FALSE
        <5>1. 0 \in Deliveries /\ updates[0].got < 0
          BY <4>1, <4>2 DEF JobRight
        <5>2. updates[0].got \in Nat
          BY <5>1 DEF NeedsInv, UpdatesReady, UpdateRight
        <5> QED
          BY <5>1, <5>2
      <4> QED
        BY <4>2
    <3> QED
      BY <1>10, <3>1, <3>2
  <2>4. \A v \in Workers : jobs'[v] = NoJob \/ JobRight(jobs'[v], updates')
    <3> SUFFICES ASSUME NEW v \in Workers, jobs'[v] # NoJob PROVE JobRight(jobs'[v], updates')
      OBVIOUS
    <3>1. v # w /\ jobs'[v] = jobs[v] /\ jobs[v] # job
      BY <1>1, <2>1, <2>2
    <3>2. JobRight(jobs[v], updates)
      BY <2>1, <3>1
    <3>3. PICK j : j = jobs[v]
      OBVIOUS
    <3>4. JobRight(j, updates')
      BY <1>10, <3>1, <3>2, <3>3
    <3> QED
      BY <3>1, <3>3, <3>4
  <2>5. \A k \in 1..Len(queue') : JobRight(queue'[k], updates')
    BY <1>1, <2>3
  <2>6. /\ IsList(queue') /\ \A k, l \in 1..Len(queue') : queue'[k] = queue'[l] => k = l
        /\ \A v \in Workers, k \in 1..Len(queue') : jobs'[v] # queue'[k]
    BY <1>1, <2>1, <2>2, <2>3
  <2>7. \A u, v \in Workers : jobs'[u] = jobs'[v] /\ jobs'[u] # NoJob => u = v
    BY <2>1, <2>2
  <2> QED
    BY <2>2, <2>4, <2>5, <2>6, <2>7 DEF JobsRight
<1>12. PendingReady'
  BY <1>1, <1>5, PendingGrows DEF NeedsInv
<1> QED
  BY <1>5, <1>9, <1>11, <1>12, NeedsInvFrom
-----------------------------------------------------------------------------
(* The steps of handlers and of the pipeline, and requests. *)

LEMMA AdvancesNeeds ==
  ASSUME NeedsInv, NEW p, Advances(p), UNCHANGED <<updates, queue, jobs, line, scenario, started>>,
         \/ UNCHANGED pending
         \/ Command(p).do = "publish" /\ pending' \in {pending, pending \cup {Command(p).event}}
  PROVE  /\ ProcsShaped' /\ ProcsReady' /\ ListsReady' /\ There \subseteq There'
         /\ UpdatesReady' /\ JobsRight' /\ PendingReady' /\ LinesReady'
<1>1. Gone' = Gone
  BY GoneStays
<1>2. ProcsShaped' /\ ProcsReady' /\ ListsReady' /\ There \subseteq There'
  BY <1>1, AdvancesReady DEF NeedsInv, Advances
<1>3. UpdatesReady' /\ JobsRight' /\ LinesReady'
  BY <1>2, UpdatesGrow, JobsStay, LinesGrow DEF NeedsInv
<1>4. PendingReady'
  <2>1. CASE UNCHANGED pending
    BY <1>2, <2>1, PendingGrows DEF NeedsInv
  <2>2. CASE /\ Command(p).do = "publish"
             /\ pending' \in {pending, pending \cup {Command(p).event}}
    <3>1. /\ procs[p].todo # <<>> /\ Command(p) = Head(procs[p].todo)
          /\ IsList(procs[p].todo) /\ TodoReady(procs[p].todo, There, Gone)
      BY DEF Advances, Runs, Command, NeedsInv, ProcsReady, ProcReady
    <3>2. CommandRight(Command(p)) /\ Needs(Command(p)) \subseteq There
      BY <3>1, FirstNeeds
    <3>3. EventReady(Command(p).event, There)
      BY <2>2, <3>2 DEF CommandRight, Needs, EventReady
    <3>4. \A e \in pending' : EventReady(e, There)
      BY <2>2, <3>3 DEF NeedsInv, PendingReady
    <3> QED
      BY <1>2, <3>4, EventsGrow DEF PendingReady
  <2> QED
    BY <2>1, <2>2
<1> QED
  BY <1>2, <1>3, <1>4

LEMMA HandlerNeeds ==
  ASSUME NeedsInv, NEW p \in Procs,
         \/ StoreStep(p) /\ UNCHANGED timelineVars
         \/ PublishEvent(p) \/ PublishFails(p) \/ ReadPage(p),
         UNCHANGED <<missing, line, crew, scenario, started>>
  PROVE  NeedsInv'
<1>1. Advances(p)
  BY StoreStepAdvances, PublishingAdvances, ReadPageAdvances DEF NeedsInv
<1>2. /\ UNCHANGED <<updates, queue, jobs>>
      /\ \/ UNCHANGED pending
         \/ Command(p).do = "publish" /\ pending' \in {pending, pending \cup {Command(p).event}}
  BY DEF timelineVars, handlerVars, PublishEvent, PublishFails, ReadPage, Turn
<1>3. /\ ProcsShaped' /\ ProcsReady' /\ ListsReady' /\ There \subseteq There'
      /\ UpdatesReady' /\ JobsRight' /\ PendingReady'
  BY <1>1, <1>2, AdvancesNeeds
<1> QED
  BY <1>3, NeedsInvFrom

LEMMA GoneContent ==
  ASSUME NEW post, Content(post) \in Gone
  PROVE  post \in Deleted
<1>1. PICK other \in Deleted : Content(post) \in ItemsOf(other)
  BY DEF Gone
<1>2. /\ Content(post)[1] = "content" /\ Content(post)[2] = post /\ Content(other)[2] = other
      /\ Meta(other)[1] = "meta of post" /\ Comments(other)[1] = "comments"
      /\ Upvotes(other)[1] = "upvotes"
  BY DEF Content, Meta, Comments, Upvotes
<1>3. Content(post) = Content(other)
  BY <1>1, <1>2 DEF ItemsOf
<1> QED
  BY <1>2, <1>3

LEMMA ReadPostsNeeds ==
  ASSUME NeedsInv, NEW p \in Procs, ReadPosts(p), UNCHANGED <<line, crew, scenario, started>>
  PROVE  NeedsInv'
<1>1. Advances(p) /\ UNCHANGED <<updates, queue, jobs, pending>>
  BY ReadPostsAdvances DEF NeedsInv, ReadPosts, timelineVars
<1>2. /\ ProcsShaped' /\ ProcsReady' /\ ListsReady' /\ There \subseteq There'
      /\ UpdatesReady' /\ JobsRight' /\ PendingReady' /\ LinesReady'
  BY <1>1, AdvancesNeeds
<1>3. CrewReady'
  BY <1>2, CrewGrows DEF NeedsInv
<1>4. missing' \subseteq Deleted'
  <2>1. Deleted' = Deleted
    BY GoneStays
  <2>2. missing' = missing \cup
          {post \in ToSet(procs[p].page) : Content(post) \notin DOMAIN items}
    BY DEF ReadPosts
  <2>3. ASSUME NEW post \in ToSet(procs[p].page), Content(post) \notin DOMAIN items
        PROVE  post \in Deleted
    <3>1. Content(post) \in There
      BY DEF NeedsInv, ProcsReady, ProcReady
    <3> QED
      BY <2>3, <3>1, GoneContent DEF There
  <2> QED
    BY <2>1, <2>2, <2>3 DEF NeedsInv
<1> QED
  BY <1>2, <1>3, <1>4 DEF NeedsInv

\* One worker of the pipeline changes.
LEMMA CrewChanges ==
  ASSUME CrewReady, There \subseteq There', NEW w \in PipeWorkers, NEW at, NEW job,
         crew' = [crew EXCEPT ![w] = [at |-> at, job |-> job]],
         at = "work" => EventReady(job, There), at # "work" => job = NoEvent
  PROVE  CrewReady'
<1> DEFINE new == [at |-> at, job |-> job]
<1>1. new.at = at /\ new.job = job /\ new = [at |-> new.at, job |-> new.job]
  OBVIOUS
<1>2. crew' = [crew EXCEPT ![w] = new]
  OBVIOUS
<1> HIDE DEF new
<1>3. /\ crew' = [v \in PipeWorkers |-> crew'[v]] /\ crew'[w] = new
      /\ \A v \in PipeWorkers \ {w} : crew'[v] = crew[v]
  BY <1>2 DEF CrewReady
<1>4. EventReady(job, There) => EventReady(job, There')
  BY EventsGrow
<1>5. ASSUME NEW v \in PipeWorkers
      PROVE  /\ crew'[v] = [at |-> crew'[v].at, job |-> crew'[v].job]
             /\ crew'[v].at = "work" => EventReady(crew'[v].job, There')
             /\ crew'[v].at # "work" => crew'[v].job = NoEvent
  <2>1. CASE v = w
    BY <1>1, <1>3, <1>4, <2>1
  <2>2. CASE v # w
    BY <1>3, <2>2, EventsGrow DEF CrewReady
  <2> QED
    BY <2>1, <2>2
<1> QED
  BY <1>3, <1>5 DEF CrewReady

LEMMA TurnsNeed ==
  ASSUME NeedsInv, NEW w \in PipeWorkers, TimesOut(w) \/ FindsNothing(w) \/ JobEnds(w),
         UNCHANGED <<missing, scenario, started>>
  PROVE  NeedsInv'
<1>1. UNCHANGED <<items, procs, pending, updates, queue, jobs, line>>
  BY DEF TimesOut, FindsNothing, JobEnds, storeVars, timelineVars
<1>2. /\ ProcsShaped' /\ ProcsReady' /\ ListsReady' /\ There' = There /\ Deleted' = Deleted
  BY <1>1, Quiet DEF NeedsInv
<1>3. UpdatesReady' /\ JobsRight' /\ PendingReady' /\ LinesReady'
  BY <1>1, <1>2, UpdatesGrow, JobsStay, PendingGrows, LinesGrow DEF NeedsInv
<1>4. crew[w] = [at |-> crew[w].at, job |-> crew[w].job] /\ DOMAIN crew = PipeWorkers
      /\ (crew[w].at # "work" => crew[w].job = NoEvent)
  BY DEF NeedsInv, CrewReady
<1>5. PICK at \in {"low", "high"} : crew' = [crew EXCEPT ![w] = [at |-> at, job |-> NoEvent]]
  <2>1. CASE TimesOut(w)
    <3>1. crew' = [crew EXCEPT ![w] = [crew[w] EXCEPT !.at = "low"]] /\ crew[w].job = NoEvent
      BY <1>4, <2>1 DEF TimesOut
    <3>2. [crew[w] EXCEPT !.at = "low"] = [at |-> "low", job |-> crew[w].job]
      <4>1. PICK r : r = crew[w]
        OBVIOUS
      <4>2. r = [at |-> r.at, job |-> r.job]
        BY <1>4, <4>1
      <4>3. [r EXCEPT !.at = "low"] = [at |-> "low", job |-> r.job]
        BY <4>2
      <4> QED
        BY <4>1, <4>3
    <3> QED
      BY <3>1, <3>2
  <2>2. CASE FindsNothing(w)
    <3>1. crew' = [crew EXCEPT ![w] = [crew[w] EXCEPT !.at = "high"]] /\ crew[w].job = NoEvent
      BY <1>4, <2>2 DEF FindsNothing
    <3>2. [crew[w] EXCEPT !.at = "high"] = [at |-> "high", job |-> crew[w].job]
      <4>1. PICK r : r = crew[w]
        OBVIOUS
      <4>2. r = [at |-> r.at, job |-> r.job]
        BY <1>4, <4>1
      <4>3. [r EXCEPT !.at = "high"] = [at |-> "high", job |-> r.job]
        BY <4>2
      <4> QED
        BY <4>1, <4>3
    <3> QED
      BY <3>1, <3>2
  <2>3. CASE JobEnds(w)
    BY <2>3 DEF JobEnds
  <2> QED
    BY <2>1, <2>2, <2>3
<1>6. CrewReady'
  BY <1>2, <1>5, CrewChanges DEF NeedsInv
<1> QED
  BY <1>2, <1>3, <1>6 DEF NeedsInv

\* A worker whose detection raised is left with the frame that it read.
LEMMA DetectFacts ==
  ASSUME NeedsInv, NEW w \in PipeWorkers, DetectFails(w)
  PROVE  /\ w \in Procs \ (Calls \cup Deliveries)
         /\ crew[w].at = "work" /\ crew[w].job.kind = "face"
         /\ lost' = lost \cup {crew[w].job.about}
         /\ UNCHANGED <<items, pending, updates, queue, jobs, line, crew>>
         /\ \E value, a : /\ a = Save(Frame(crew[w].job.about), value) /\ a.do = "store"
                          /\ a.key = Frame(crew[w].job.about)
                          /\ Begin(w, <<a>>) /\ Begins(w, <<a>>)
                          /\ IsList(<<a>>) /\ TodoReady(<<a>>, There', Gone')
<1>1. w \in Procs \ (Calls \cup Deliveries)
  BY DaprPipeAssumption, DaprAssumption
<1>2. /\ crew[w].at = "work" /\ crew[w].job.kind = "face"
      /\ lost' = lost \cup {crew[w].job.about}
      /\ UNCHANGED <<items, pending, updates, queue, jobs, line, crew>>
  BY DEF DetectFails, timelineVars, handlerVars
<1>3. PICK f, value : f = crew[w].job.about /\ value = Item(Frame(f)).value
  OBVIOUS
<1>4. PICK a : a = Save(Frame(f), value) /\ Begin(w, <<a>>)
  BY <1>3 DEF DetectFails
<1>5. a.do = "store" /\ a.key = Frame(f) /\ Frame(f)[1] = "frame"
  BY <1>4 DEF Save, Frame
<1>6. CommandRight(a) /\ Needs(a) = {}
  BY <1>5 DEF CommandRight, Needs, Wholes
<1>7. IsList(<<a>>) /\ TodoReady(<<a>>, There', Gone')
  BY <1>5, <1>6, OneReady
<1>8. Begins(w, <<a>>)
  BY <1>1, <1>2, <1>4, <1>7, BeginFacts DEF Begins, NeedsInv
<1> QED
  BY <1>1, <1>2, <1>3, <1>4, <1>5, <1>7, <1>8

LEMMA DetectNeeds ==
  ASSUME NeedsInv, NEW w \in PipeWorkers, DetectFails(w), UNCHANGED <<missing, scenario, started>>
  PROVE  NeedsInv'
<1>1. PICK a : Begins(w, <<a>>) /\ IsList(<<a>>) /\ TodoReady(<<a>>, There', Gone')
  BY DetectFacts
<1>2. UNCHANGED <<items, pending, updates, queue, jobs, line, crew>> /\ Deleted' = Deleted
  BY DetectFacts, GoneStays
<1>3. ProcsShaped' /\ ProcsReady' /\ ListsReady' /\ There \subseteq There'
  <2>1. ProcsShaped' /\ Gone \subseteq Gone'
    BY <1>1, GoneStays DEF Begins
  <2> QED
    BY <1>1, <2>1, BeginsReady DEF NeedsInv
<1>4. UpdatesReady' /\ JobsRight' /\ PendingReady' /\ LinesReady' /\ CrewReady'
  BY <1>2, <1>3, UpdatesGrow, JobsStay, PendingGrows, LinesGrow, CrewGrows DEF NeedsInv
<1> QED
  BY <1>2, <1>3, <1>4 DEF NeedsInv

LEMMA WorksNeeds ==
  ASSUME NeedsInv, NEW w \in PipeWorkers, Works(w) \/ ReadFails(w) \/ WorkerDies(w),
         UNCHANGED <<missing, scenario, started>>
  PROVE  NeedsInv'
<1>1. w \in Procs
  BY DaprPipeAssumption
<1>2. /\ Advances(w) /\ UNCHANGED <<updates, queue, jobs, line>>
      /\ \/ UNCHANGED pending
         \/ Command(w).do = "publish" /\ pending' \in {pending, pending \cup {Command(w).event}}
  <2>1. CASE Works(w)
    <3>1. CASE (ReadState(w) \/ WriteState(w)) /\ UNCHANGED timelineVars
      <4>1. StoreStep(w)
        BY <3>1 DEF StoreStep
      <4> QED
        BY <1>1, <2>1, <3>1, <4>1, StoreStepAdvances DEF NeedsInv, timelineVars, Works, pipeVars
    <3>2. CASE PublishEvent(w)
      BY <1>1, <2>1, <3>2, PublishingAdvances DEF NeedsInv, PublishEvent, handlerVars, Works, pipeVars
    <3> QED
      BY <2>1, <3>1, <3>2 DEF Works
  <2>2. CASE ReadFails(w)
    BY <1>1, <2>2, ReadFailsAdvances DEF NeedsInv, ReadFails, timelineVars
  <2>3. CASE WorkerDies(w)
    BY <1>1, <2>3, WorkerDiesAdvances DEF NeedsInv, WorkerDies, handlerVars, Turn
  <2> QED
    BY <2>1, <2>2, <2>3
<1>3. /\ ProcsShaped' /\ ProcsReady' /\ ListsReady' /\ There \subseteq There'
      /\ UpdatesReady' /\ JobsRight' /\ PendingReady' /\ LinesReady'
  BY <1>2, AdvancesNeeds
<1>4. CrewReady'
  <2>1. CASE UNCHANGED crew
    BY <1>3, <2>1, CrewGrows DEF NeedsInv
  <2>2. CASE crew' = [crew EXCEPT ![w] = [at |-> "dead", job |-> NoEvent]]
    <3>1. PICK at \in {"dead"} : crew' = [crew EXCEPT ![w] = [at |-> at, job |-> NoEvent]]
      BY <2>2
    <3>2. at # "work"
      BY <3>1
    <3> QED
      BY <1>3, <3>1, <3>2, CrewChanges DEF NeedsInv
  <2> QED
    BY <2>1, <2>2 DEF Works, ReadFails, WorkerDies, pipeVars
<1>5. Deleted' = Deleted
  BY GoneStays
<1> QED
  BY <1>3, <1>4, <1>5 DEF NeedsInv

\* One queue of a stage changes.
LEMMA LinesChange ==
  ASSUME LinesReady, There \subseteq There', NEW s \in Stages, NEW priority \in Priorities, NEW list,
         line' = [line EXCEPT ![s][priority] = list], IsList(list),
         \A e \in ToSet(list) : e.kind = s /\ EventReady(e, There)
  PROVE  LinesReady'
<1>1. /\ line = [t \in Stages |-> line[t]]
      /\ line[s] = [other \in Priorities |-> line[s][other]]
  BY DEF LinesReady
<1> DEFINE new == [line[s] EXCEPT ![priority] = list]
<1>2. /\ line' = [line EXCEPT ![s] = new] /\ new[priority] = list
      /\ new = [other \in Priorities |-> new[other]]
      /\ \A other \in Priorities \ {priority} : new[other] = line[s][other]
  BY <1>1
<1> HIDE DEF new
<1>3. /\ line' = [t \in Stages |-> line'[t]] /\ line'[s] = new
      /\ \A t \in Stages \ {s} : line'[t] = line[t]
  BY <1>1, <1>2
<1>4. ASSUME NEW t \in Stages
      PROVE  /\ line'[t] = [other \in Priorities |-> line'[t][other]]
             /\ \A other \in Priorities :
                  /\ IsList(line'[t][other])
                  /\ \A e \in ToSet(line'[t][other]) : e.kind = t /\ EventReady(e, There)
  <2>1. CASE t = s
    <3>1. line'[t] = new
      BY <1>3, <2>1
    <3>2. ASSUME NEW other \in Priorities
          PROVE  /\ IsList(new[other])
                 /\ \A e \in ToSet(new[other]) : e.kind = s /\ EventReady(e, There)
      BY <1>2, <3>2 DEF LinesReady
    <3> QED
      BY <1>2, <2>1, <3>1, <3>2
  <2>2. CASE t # s
    BY <1>3, <2>2 DEF LinesReady
  <2> QED
    BY <2>1, <2>2
<1> QED
  BY <1>3, <1>4, EventsGrow DEF LinesReady

LEMMA PutRequestNeeds ==
  ASSUME NeedsInv, NEW e \in pending, PutRequest(e), UNCHANGED <<missing, scenario, started>>
  PROVE  NeedsInv'
<1>1. /\ UNCHANGED <<items, procs, updates, queue, jobs, crew>> /\ pending' \subseteq pending
      /\ e.kind \in Stages
      /\ line' = [line EXCEPT ![e.kind][e.user] = Append(@, e)]
  BY DEF PutRequest, storeVars, handlerVars
<1>2. ProcsShaped' /\ ProcsReady' /\ ListsReady' /\ There' = There /\ Deleted' = Deleted
  BY <1>1, Quiet DEF NeedsInv
<1>3. UpdatesReady' /\ JobsRight' /\ PendingReady' /\ CrewReady'
  BY <1>1, <1>2, UpdatesGrow, JobsStay, PendingGrows, CrewGrows DEF NeedsInv
<1>4. EventReady(e, There) /\ e.user \in Priorities
  BY <1>1 DEF NeedsInv, PendingReady, EventReady, EventRight
<1>5. LinesReady'
  <2> DEFINE list == Append(line[e.kind][e.user], e)
  <2>1. /\ IsList(line[e.kind][e.user])
        /\ \A f \in ToSet(line[e.kind][e.user]) : f.kind = e.kind /\ EventReady(f, There)
    BY <1>1, <1>4 DEF NeedsInv, LinesReady
  <2>2. IsList(list) /\ ToSet(list) = ToSet(line[e.kind][e.user]) \cup {e}
    BY <2>1, ListAppend
  <2>3. line' = [line EXCEPT ![e.kind][e.user] = list]
    BY <1>1
  <2> HIDE DEF list
  <2>4. \A f \in ToSet(list) : f.kind = e.kind /\ EventReady(f, There)
    BY <1>4, <2>1, <2>2
  <2> QED
    BY <1>1, <1>2, <1>4, <2>2, <2>3, <2>4, LinesChange DEF NeedsInv
<1> QED
  BY <1>2, <1>3, <1>5 DEF NeedsInv

LEMMA PipeTakeNeeds ==
  ASSUME NeedsInv, NEW w \in PipeWorkers, NEW priority \in Priorities, Take(w, priority),
         UNCHANGED <<missing, scenario, started>>
  PROVE  NeedsInv'
<1> DEFINE s == StageOf[w]
           waiting == line[s][priority]
           e == Head(waiting)
<1>1. /\ waiting # <<>> /\ line' = [line EXCEPT ![s][priority] = Tail(@)]
      /\ crew' = [crew EXCEPT ![w] = [at |-> "work", job |-> e]] /\ Begin(w, Job(e))
      /\ UNCHANGED <<items, pending, updates, queue, jobs>>
  BY DEF Take, Waiting, handlerVars
<1>2. s \in Stages /\ w \in Procs
  BY DaprPipeAssumption
<1>3. /\ IsList(waiting) /\ \A f \in ToSet(waiting) : f.kind = s /\ EventReady(f, There)
  BY <1>2 DEF NeedsInv, LinesReady
<1>4. /\ e \in ToSet(waiting) /\ IsList(Tail(waiting)) /\ ToSet(Tail(waiting)) \subseteq ToSet(waiting)
  <2>1. /\ Len(waiting) \in Nat \ {0} /\ e = waiting[1]
        /\ \A i \in 1..Len(waiting) : waiting[i] \in ToSet(waiting)
        /\ IsList(Tail(waiting)) /\ Len(Tail(waiting)) = Len(waiting) - 1
        /\ \A i \in 1..Len(Tail(waiting)) : Tail(waiting)[i] = waiting[i + 1]
    BY <1>1, <1>3, ListFacts, ListTail
  <2>2. ASSUME NEW x \in ToSet(Tail(waiting)) PROVE x \in ToSet(waiting)
    <3>1. PICK i \in 1..Len(Tail(waiting)) : Tail(waiting)[i] = x
      BY <2>1, ListFacts
    <3>2. i + 1 \in 1..Len(waiting) /\ waiting[i + 1] = x
      BY <2>1, <3>1
    <3> QED
      BY <2>1, <3>2
  <2> QED
    BY <2>1, <2>2
<1>5. e.kind = s /\ EventReady(e, There) /\ EventRight(e)
  BY <1>3, <1>4 DEF EventReady
<1>6. IsList(Job(e)) /\ TodoReady(Job(e), There', Gone')
  BY <1>2, <1>5, JobReady
<1>7. line' = [line EXCEPT ![s][priority] = Tail(waiting)]
  BY <1>1
<1> HIDE DEF e, waiting, s
<1>8. ProcsShaped' /\ ProcsReady' /\ ListsReady' /\ There \subseteq There'
  <2>1. Begins(w, Job(e))
    BY <1>1, <1>2, <1>6, BeginFacts DEF Begins, NeedsInv
  <2>2. ProcsShaped' /\ Gone \subseteq Gone'
    BY <2>1, GoneStays DEF Begins
  <2> QED
    BY <1>6, <2>1, <2>2, BeginsReady DEF NeedsInv
<1>9. UpdatesReady' /\ JobsRight' /\ PendingReady'
  BY <1>1, <1>8, UpdatesGrow, JobsStay, PendingGrows DEF NeedsInv
<1>10. LinesReady'
  BY <1>2, <1>3, <1>4, <1>7, <1>8, LinesChange DEF NeedsInv
<1>11. CrewReady'
  BY <1>1, <1>5, <1>8, CrewChanges DEF NeedsInv
<1>12. Deleted' = Deleted
  BY GoneStays
<1> QED
  BY <1>8, <1>9, <1>10, <1>11, <1>12 DEF NeedsInv

LEMMA SendNeeds ==
  ASSUME NeedsInv, NEW c \in Calls, SendRequest(c)
  PROVE  NeedsInv'
<1> DEFINE request == scenario.requests[c]
<1>1. /\ c \in DOMAIN scenario.requests /\ Begin(c, request) /\ started' = started \cup {c}
      /\ UNCHANGED <<items, pending, updates, queue, jobs, missing, line, crew, scenario>>
  BY DEF SendRequest, timelineVars, pipeVars
<1>2. c \in Procs /\ RequestRight(request)
  <2>1. IsRequest(request)
    BY <1>1, DaprAssumption DEF ScenariosAssumption, NeedsInv
  <2> QED
    BY <2>1, DaprAssumption, RequestsRight
<1>3. Deleted \subseteq Deleted'
  BY <1>1 DEF Deleted, Sent
<1>4. Gone \subseteq Gone'
  BY <1>3 DEF Gone
<1>5. ASSUME NEW post \in Posts, Deletes(request, post) PROVE ItemsOf(post) \subseteq Gone'
  <2>1. PICK i \in 1..Len(request) : request[i] = Delete(Content(post))
    BY <1>5 DEF Deletes
  <2>2. Delete(Content(post)) \in ToSet(request)
    <3>1. IsList(request)
      BY <1>2 DEF RequestRight
    <3> QED
      BY <2>1, <3>1, ListFacts
  <2>3. c \in started' /\ Delete(Content(post)) \in Sent(c)'
    BY <1>1, <2>2 DEF Sent
  <2>4. post \in Deleted'
    BY <2>3 DEF Deleted, Posts
  <2> QED
    BY <2>4 DEF Gone
<1>6. IsList(request) /\ TodoReady(request, There', Gone')
  BY <1>2, <1>5, RequestReady
<1> HIDE DEF request
<1>7. ProcsShaped' /\ ProcsReady' /\ ListsReady' /\ There \subseteq There'
  <2>1. Begins(c, request)
    BY <1>1, <1>2, <1>6, BeginFacts DEF Begins, NeedsInv
  <2>2. ProcsShaped'
    BY <2>1 DEF Begins
  <2> QED
    BY <1>4, <1>6, <2>1, <2>2, BeginsReady DEF NeedsInv
<1>8. UpdatesReady' /\ JobsRight' /\ PendingReady' /\ LinesReady' /\ CrewReady'
  BY <1>1, <1>7, UpdatesGrow, JobsStay, PendingGrows, PipeGrows DEF NeedsInv
<1> QED
  BY <1>1, <1>3, <1>7, <1>8 DEF NeedsInv
-----------------------------------------------------------------------------
LEMMA NeedsInit == Init => NeedsInv
<1> SUFFICES ASSUME Init PROVE NeedsInv
  OBVIOUS
<1>1. /\ scenario \in Scenarios /\ items = scenario.stored /\ procs = [p \in Procs |-> Idle]
      /\ pending = {} /\ updates = [d \in Deliveries |-> NoUpdate] /\ queue = <<>>
      /\ jobs = [w \in Workers |-> NoJob] /\ missing = {}
      /\ line = [s \in Stages |-> [priority \in Priorities |-> <<>>]]
      /\ crew = [w \in PipeWorkers |-> [at |-> "high", job |-> NoEvent]]
  BY DEF Init, StoreInit, SocialInit, TimelinesInit, PipeInit
<1>2. /\ DOMAIN Idle = ProcFields /\ Idle.todo = <<>> /\ Idle.at = "next" /\ Idle.page = <<>>
  BY DEF Idle, ProcFields
<1>3. ProcsShaped
  <2>1. \A p \in Procs : procs[p] = Idle
    BY <1>1
  <2> QED
    BY <1>1, <1>2, <2>1, EmptyList DEF ProcsShaped
<1>4. ProcsReady
  <2> SUFFICES ASSUME NEW p \in Procs PROVE ProcReady(procs[p], There, Gone)
    BY DEF ProcsReady
  <2>1. procs[p] = Idle
    BY <1>1
  <2> QED
    BY <1>2, <2>1, EmptyList, NothingReady DEF ProcReady
<1>5. ListsReady
  <2> SUFFICES ASSUME NEW key \in DOMAIN items, key[1] \in Lists
               PROVE  /\ IsList(items[key].value)
                      /\ \A x \in ToSet(items[key].value) : ElementNeeds(key, x) \subseteq There
    BY DEF ListsReady, ElementsIn
  <2>1. StoredRight(items)
    BY <1>1, DaprAssumption DEF ScenariosAssumption
  <2>2. IsList(items[key].value)
    BY <2>1 DEF StoredRight, IsList
  <2>3. ASSUME NEW x \in ToSet(items[key].value) PROVE ElementNeeds(key, x) \subseteq There
    <3>1. CASE key[1] \in Timelines
      <4>1. Content(x) \in DOMAIN items
        BY <2>1, <3>1 DEF StoredRight, Timelines
      <4>2. ElementNeeds(key, x) = {Content(x)}
        BY <3>1 DEF ElementNeeds, Timelines
      <4> QED
        BY <4>1, <4>2 DEF There
    <3>2. CASE key[1] = "date"
      <4>1. {Data(x), VideoMeta(x)} \subseteq DOMAIN items
        BY <2>1, <3>2 DEF StoredRight
      <4>2. ElementNeeds(key, x) = {Data(x), VideoMeta(x)}
        BY <3>2 DEF ElementNeeds, Timelines
      <4> QED
        BY <4>1, <4>2 DEF There
    <3>3. CASE key[1] \notin Timelines /\ key[1] # "date"
      BY <3>3 DEF ElementNeeds
    <3> QED
      BY <3>1, <3>2, <3>3
  <2> QED
    BY <2>2, <2>3
<1>6. UpdatesReady
  BY <1>1, NoUpdateRight DEF UpdatesReady
<1>7. JobsRight
  BY <1>1, EmptyList DEF JobsRight
<1>8. PendingReady
  BY <1>1 DEF PendingReady
<1>9. LinesReady
  <2>1. ASSUME NEW s \in Stages, NEW priority \in Priorities PROVE line[s][priority] = <<>>
    BY <1>1
  <2> QED
    BY <1>1, <2>1, EmptyList DEF LinesReady
<1>10. CrewReady
  <2>1. ASSUME NEW w \in PipeWorkers PROVE crew[w] = [at |-> "high", job |-> NoEvent]
    BY <1>1
  <2>2. ASSUME NEW w \in PipeWorkers
        PROVE  crew[w].at = "high" /\ crew[w].job = NoEvent
               /\ crew[w] = [at |-> crew[w].at, job |-> crew[w].job]
    BY <2>1
  <2> QED
    BY <1>1, <2>2 DEF CrewReady
<1> QED
  BY <1>1, <1>3, <1>4, <1>5, <1>6, <1>7, <1>8, <1>9, <1>10 DEF NeedsInv

LEMMA NeedsStep == NeedsInv /\ [Next]_appVars => NeedsInv'
<1> SUFFICES ASSUME NeedsInv, [Next]_appVars PROVE NeedsInv'
  OBVIOUS
<1>1. CASE UNCHANGED appVars
  <2>1. UNCHANGED <<items, procs, pending, updates, queue, jobs, missing, line, crew, scenario, started>>
    BY <1>1 DEF appVars, storeVars, timelineVars, pipeVars
  <2>2. /\ ProcsShaped' /\ ProcsReady' /\ ListsReady' /\ There' = There /\ Deleted' = Deleted
    BY <2>1, Quiet DEF NeedsInv
  <2>3. UpdatesReady' /\ JobsRight' /\ PendingReady' /\ LinesReady' /\ CrewReady'
    BY <2>1, <2>2, UpdatesGrow, JobsStay, PendingGrows, PipeGrows DEF NeedsInv
  <2> QED
    BY <2>1, <2>2, <2>3 DEF NeedsInv
<1>2. CASE \E c \in Calls : SendRequest(c)
  BY <1>2, SendNeeds
<1>3. CASE Step
  <2>1. UNCHANGED <<scenario, started>>
    BY <1>3 DEF Step
  <2>2. CASE SocialStep /\ UNCHANGED pipeVars
    <3>1. UNCHANGED <<line, crew>>
      BY <2>2 DEF pipeVars
    <3>2. CASE TimelineStep /\ UNCHANGED missing
      <4>1. CASE \E d \in Deliveries, e \in pending : Deliver(d, e)
        BY <2>1, <3>1, <3>2, <4>1, DeliverNeeds
      <4>2. CASE \E d \in Deliveries : AnalysisEnds(d) \/ AskFails(d) \/ UpdateEnds(d)
        BY <2>1, <3>1, <3>2, <4>2, EndsNeeds
      <4>3. CASE \E d \in Deliveries : AskFollowers(d)
        BY <2>1, <3>1, <3>2, <4>3, AskNeeds
      <4>4. CASE \E d \in Deliveries : PushJob(d)
        BY <2>1, <3>1, <3>2, <4>4, PushNeeds
      <4>5. CASE \E w \in Workers : TakeJob(w)
        BY <2>1, <3>1, <3>2, <4>5, TakeNeeds
      <4>6. CASE \E w \in Workers : SendResult(w)
        BY <2>1, <3>1, <3>2, <4>6, SendResultNeeds
      <4> QED
        BY <3>2, <4>1, <4>2, <4>3, <4>4, <4>5, <4>6 DEF TimelineStep
    <3>3. CASE \E p \in Procs : ReadPage(p)
      <4>1. PICK p \in Procs : ReadPage(p)
        BY <3>3
      <4>2. UNCHANGED missing
        BY <4>1 DEF ReadPage
      <4> QED
        BY <2>1, <3>1, <4>1, <4>2, HandlerNeeds
    <3>4. CASE \E p \in Procs : ReadPosts(p)
      BY <2>1, <3>1, <3>4, ReadPostsNeeds
    <3> QED
      BY <2>2, <3>2, <3>3, <3>4 DEF SocialStep
  <2>3. CASE /\ \E p \in Handlers : \/ StoreStep(p) /\ UNCHANGED timelineVars
                                    \/ PublishEvent(p) \/ PublishFails(p)
             /\ UNCHANGED <<missing, pipeVars>>
    <3>1. UNCHANGED <<missing, line, crew>>
      BY <2>3 DEF pipeVars
    <3>2. PICK p \in Procs : \/ StoreStep(p) /\ UNCHANGED timelineVars
                             \/ PublishEvent(p) \/ PublishFails(p)
      BY <2>3 DEF Handlers
    <3> QED
      BY <2>1, <3>1, <3>2, HandlerNeeds
  <2>4. CASE PipeStep /\ UNCHANGED missing
    <3>1. CASE \E e \in pending : PutRequest(e)
      BY <2>1, <2>4, <3>1, PutRequestNeeds
    <3>2. CASE \E w \in PipeWorkers, priority \in Priorities : Take(w, priority)
      BY <2>1, <2>4, <3>2, PipeTakeNeeds
    <3>3. CASE \E w \in PipeWorkers : TimesOut(w) \/ FindsNothing(w) \/ JobEnds(w)
      BY <2>1, <2>4, <3>3, TurnsNeed
    <3>4. CASE \E w \in PipeWorkers : Works(w) \/ ReadFails(w) \/ WorkerDies(w)
      BY <2>1, <2>4, <3>4, WorksNeeds
    <3>5. CASE \E w \in PipeWorkers : DetectFails(w)
      BY <2>1, <2>4, <3>5, DetectNeeds
    <3> QED
      BY <2>4, <3>1, <3>2, <3>3, <3>4, <3>5 DEF PipeStep, WorkerStep
  <2> QED
    BY <1>3, <2>2, <2>3, <2>4 DEF Step, Work
<1> QED
  BY <1>1, <1>2, <1>3 DEF Next

\* Only items of posts are deleted.
LEMMA GoneKinds ==
  ASSUME NEW key, key \in Gone
  PROVE  key[1] \in {"content", "meta of post", "comments", "upvotes"}
<1>1. PICK post \in Deleted : key \in ItemsOf(post)
  BY DEF Gone
<1>2. /\ Content(post)[1] = "content" /\ Meta(post)[1] = "meta of post"
      /\ Comments(post)[1] = "comments" /\ Upvotes(post)[1] = "upvotes"
  BY DEF Content, Meta, Comments, Upvotes
<1> QED
  BY <1>1, <1>2 DEF ItemsOf

LEMMA WholesStay ==
  ASSUME NEW x
  PROVE  Data(x) \notin Gone /\ VideoMeta(x) \notin Gone /\ Frame(x) \notin Gone
<1>1. Data(x) \notin Gone
  <2>1. Data(x)[1] = "video"
    BY DEF Data
  <2> QED
    BY <2>1, GoneKinds
<1>2. VideoMeta(x) \notin Gone
  <2>1. VideoMeta(x)[1] = "meta of video"
    BY DEF VideoMeta
  <2> QED
    BY <2>1, GoneKinds
<1>3. Frame(x) \notin Gone
  <2>1. Frame(x)[1] = "frame"
    BY DEF Frame
  <2> QED
    BY <2>1, GoneKinds
<1> QED
  BY <1>1, <1>2, <1>3

LEMMA NeedsMissNothing == NeedsInv => NothingMissing
<1> SUFFICES ASSUME NeedsInv PROVE NothingMissing
  OBVIOUS
<1>1. missing \subseteq Deleted
  BY DEF NeedsInv
<1>2. ASSUME NEW key \in StoredKeys("date"), NEW video \in ToSet(Value(key))
      PROVE  {Data(video), VideoMeta(video)} \subseteq DOMAIN items
  <2>1. key \in DOMAIN items /\ key[1] = "date" /\ Value(key) = items[key].value
    BY DEF StoredKeys, Value, Item
  <2>2. ElementsIn(key, items[key].value, There) /\ key[1] \in Lists
    BY <2>1 DEF NeedsInv, ListsReady, Lists
  <2>3. ElementNeeds(key, video) \subseteq There
    BY <1>2, <2>1, <2>2 DEF ElementsIn
  <2>4. ElementNeeds(key, video) = {Data(video), VideoMeta(video)}
    BY <2>1 DEF ElementNeeds, Timelines
  <2>6. Data(video) \notin Gone /\ VideoMeta(video) \notin Gone
    BY WholesStay
  <2> QED
    BY <2>3, <2>4, <2>6 DEF There
<1>3. ASSUME NEW e \in UnderWay, e.kind = "face"
      PROVE  Frame(e.about) \in DOMAIN items
  <2>1. EventReady(e, There)
    <3>1. CASE e \in pending
      BY <3>1 DEF NeedsInv, PendingReady
    <3>2. CASE e \in Queued
      <4>1. PICK s \in Stages, priority \in Priorities : e \in ToSet(line[s][priority])
        BY <3>2 DEF Queued
      <4> QED
        BY <4>1 DEF NeedsInv, LinesReady
    <3>3. CASE e \in InHand
      <4>1. PICK w \in PipeWorkers : crew[w].job = e /\ e # NoEvent
        BY <3>3 DEF InHand
      <4> QED
        BY <4>1 DEF NeedsInv, CrewReady
    <3> QED
      BY <3>1, <3>2, <3>3 DEF UnderWay
  <2>2. Frame(e.about) \in There
    BY <1>3, <2>1 DEF EventReady, EventNeeds
  <2>4. Frame(e.about) \notin Gone
    BY WholesStay
  <2> QED
    BY <2>2, <2>4 DEF There
<1> QED
  BY <1>1, <1>2, <1>3 DEF NothingMissing, FramesStored

(* Nothing that a list, an event or a reader names is missing in the stores  *)
(* of the Dapr applications, but for the posts that are being deleted.       *)
THEOREM NothingIsMissing == Spec => []NothingMissing
<1>1. Spec => []NeedsInv
  BY NeedsInit, NeedsStep, PTL DEF Spec
<1> QED
  BY <1>1, NeedsMissNothing, PTL

-----------------------------------------------------------------------------
(* Edits are kept.  A save that is accepted replaces the value it has read,  *)
(* since the etag of an item grows with every save while the item is not     *)
(* erased; so an element leaves a list only when a request for the contrary  *)
(* removes it.                                                               *)

Reserved == Timelines \cup {"meta of post"}
Elements == {"follows", "followers", "upvotes", "comments", "date"}

\* Only the handlers of events edit timelines and meta data.
Foreign(todo) ==
  \A i \in 1..Len(todo) : todo[i].do = "edit" => todo[i].key[1] \in Reserved
\* No edit is asked for twice.
Once(todo) ==
  \A i, j \in 1..Len(todo) : todo[i].do = "edit" /\ todo[i] = todo[j] => i = j

TasksKnown ==
  \A p \in Procs :
    IF p \in started
    THEN /\ ToSet(procs[p].todo) \subseteq Sent(p) /\ Once(procs[p].todo)
         /\ Runs(p) => procs[p].ok
    ELSE Foreign(procs[p].todo)

CallsRight ==
  /\ started \subseteq Calls /\ started \subseteq DOMAIN scenario.requests
  /\ overAt = [c \in Calls |-> overAt[c]]
  /\ \A c \in Calls : \A d \in overAt[c] : d \in started /\ ~Runs(d)

EtagsRight == \A key \in DOMAIN items : items[key].etag \in Nat \ {0}

\* What an update has read is the item, if that has not been written since.
Fresh(key, edit, seen) ==
  /\ seen.etag \in Nat /\ ~Needless(edit, seen.value)
  /\ key \notin Gone => /\ seen.etag <= Item(key).etag
                        /\ seen.etag = Item(key).etag => seen.value = Item(key).value
SeenFresh ==
  \A p \in Procs : procs[p].at = "save" =>
    Fresh(Command(p).key, Command(p).edit, procs[p].seen)

OnceEach == \A key : key \notin Gone /\ key[1] \in Elements => IsInjective(Item(key).value)

\* A comment that is still to be made is not there.
CommentsNew ==
  \A c \in DOMAIN scenario.requests, post \in Posts, x \in Names :
    /\ scenario.requests[c] = Comment(post, x) /\ Comments(post) \notin Gone
    /\ c \in started => Edit(Comments(post), "append", x) \in ToSet(procs[c].todo)
    => x \notin ToSet(Item(Comments(post)).value)

Holds(kind, val, value) ==
  CASE kind \in {"add", "append"} -> val \in ToSet(value)
    [] kind = "remove" -> val \notin ToSet(value)
    [] kind = "rating" -> val \in DOMAIN value
    [] OTHER -> TRUE
EditsHold ==
  \A c \in started : procs[c].ok =>
    \A edit \in Sent(c) \ ToSet(procs[c].todo) : edit.do = "edit" =>
      \/ Holds(edit.edit.kind, edit.edit.val, Item(edit.key).value)
      \/ edit.key \in Gone \/ Undone(c, edit)

Viewers(video) == {c \in started : Edit(Views(video), "view", video) \in Sent(c)}
ViewsCounted ==
  \A video :
    \E X \in SUBSET Viewers(video) :
      /\ \A c \in X : Edit(Views(video), "view", video) \notin ToSet(procs[c].todo)
      /\ \A c \in Viewers(video) \ X :
           procs[c].ok => Edit(Views(video), "view", video) \in ToSet(procs[c].todo)
      /\ Item(Views(video)).value = Cardinality(X)

CallsInv ==
  /\ TasksKnown /\ CallsRight /\ EtagsRight /\ SeenFresh /\ OnceEach /\ CommentsNew /\ EditsHold
  /\ ViewsCounted

-----------------------------------------------------------------------------
(* The requests and their edits. *)

EditKnown(request, edit) ==
  /\ edit.edit.kind = "append" =>
       \E post \in Posts, x \in Names :
         edit = Edit(Comments(post), "append", x) /\ request = Comment(post, x)
  /\ edit.edit.kind = "view" => \E video \in Names : edit = Edit(Views(video), "view", video)
  /\ edit.key[1] \notin Reserved
RequestKnown(request) ==
  /\ Once(request)
  /\ \A i \in 1..Len(request) :
       /\ request[i].do # "need"
       /\ request[i].do = "page" => \A j \in 1..Len(request) : request[j].do # "edit"
       /\ request[i].do = "edit" => EditKnown(request, request[i])

LEMMA NoEditsKnown ==
  ASSUME NEW r, \A i \in 1..Len(r) : r[i].do \notin {"edit", "need"}
  PROVE  RequestKnown(r)
BY DEF RequestKnown, Once

LEMMA OneKnown ==
  ASSUME NEW a, a.do = "edit", EditKnown(<<a>>, a)
  PROVE  RequestKnown(<<a>>)
<1> DEFINE r == <<a>>
<1>1. Len(r) = 1 /\ r[1] = a
  OBVIOUS
<1>2. EditKnown(r, a)
  OBVIOUS
<1> HIDE DEF r
<1>3. \A i \in 1..Len(r) : i = 1
  BY <1>1
<1>4. RequestKnown(r)
  BY <1>1, <1>2, <1>3 DEF RequestKnown, Once
<1> QED
  BY <1>4 DEF r

LEMMA TwoKnown ==
  ASSUME NEW a, NEW b, a # b, a.do \in {"edit", "get"}, b.do \in {"edit", "get"},
         a.do = "edit" => EditKnown(<<a, b>>, a), b.do = "edit" => EditKnown(<<a, b>>, b)
  PROVE  RequestKnown(<<a, b>>)
<1> DEFINE r == <<a, b>>
<1>1. Len(r) = 2 /\ r[1] = a /\ r[2] = b
  OBVIOUS
<1>2. (a.do = "edit" => EditKnown(r, a)) /\ (b.do = "edit" => EditKnown(r, b))
  OBVIOUS
<1> HIDE DEF r
<1>3. \A i \in 1..Len(r) : i \in {1, 2}
  BY <1>1
<1>4. Once(r)
  BY <1>1, <1>3 DEF Once
<1>5. \A i \in 1..Len(r) : /\ r[i].do \in {"edit", "get"}
                           /\ r[i].do = "edit" => EditKnown(r, r[i])
  BY <1>1, <1>2, <1>3
<1>6. RequestKnown(r)
  BY <1>4, <1>5 DEF RequestKnown
<1> QED
  BY <1>6 DEF r

LEMMA FollowKnown ==
  ASSUME NEW u, NEW v
  PROVE  RequestKnown(FollowUser(u, v)) /\ RequestKnown(UnfollowUser(u, v))
<1>1. ASSUME NEW kind \in {"add", "remove"}
      PROVE  RequestKnown(<<Edit(Follows(u), kind, v), Edit(Followers(v), kind, u)>>)
  <2> DEFINE a == Edit(Follows(u), kind, v)
             b == Edit(Followers(v), kind, u)
  <2>1. /\ a.do = "edit" /\ a.edit.kind = kind /\ a.key[1] = "follows"
        /\ b.do = "edit" /\ b.edit.kind = kind /\ b.key[1] = "followers"
    BY DEF Edit, NoEdit, Follows, Followers
  <2> HIDE DEF a, b
  <2>2. a # b
    BY <2>1
  <2>3. EditKnown(<<a, b>>, a) /\ EditKnown(<<a, b>>, b)
    BY <2>1 DEF EditKnown, Reserved, Timelines
  <2>4. RequestKnown(<<a, b>>)
    BY <2>1, <2>2, <2>3, TwoKnown
  <2> QED
    BY <2>4 DEF a, b
<1> QED
  BY <1>1 DEF FollowUser, UnfollowUser

LEMMA OneEditsKnown ==
  ASSUME NEW post \in Posts, NEW x \in Names
  PROVE  RequestKnown(Comment(post, x)) /\ RequestKnown(Upvote(post, x))
<1>1. RequestKnown(Comment(post, x))
  <2> DEFINE a == Edit(Comments(post), "append", x)
  <2>1. a.do = "edit" /\ a.edit.kind = "append" /\ a.key[1] = "comments"
    BY DEF Edit, NoEdit, Comments
  <2>2. Comment(post, x) = <<a>>
    BY DEF Comment
  <2>3. \E p \in Posts, y \in Names :
          a = Edit(Comments(p), "append", y) /\ <<a>> = Comment(p, y)
    BY <2>2
  <2> HIDE DEF a
  <2>4. EditKnown(<<a>>, a)
    BY <2>1, <2>3 DEF EditKnown, Reserved, Timelines
  <2> QED
    BY <2>1, <2>2, <2>4, OneKnown
<1>2. RequestKnown(Upvote(post, x))
  <2> DEFINE a == Edit(Upvotes(post), "add", x)
  <2>1. a.do = "edit" /\ a.edit.kind = "add" /\ a.key[1] = "upvotes"
    BY DEF Edit, NoEdit, Upvotes
  <2>2. Upvote(post, x) = <<a>>
    BY DEF Upvote
  <2> HIDE DEF a
  <2>3. EditKnown(<<a>>, a)
    BY <2>1 DEF EditKnown, Reserved, Timelines
  <2> QED
    BY <2>1, <2>2, <2>3, OneKnown
<1> QED
  BY <1>1, <1>2

LEMMA VideoKnown ==
  ASSUME NEW video \in Names, NEW x
  PROVE  RequestKnown(UploadVideo(video, x)) /\ RequestKnown(GetVideoData(video))
<1>1. RequestKnown(UploadVideo(video, x))
  <2> DEFINE a == Store(Data(video))
             b == Publish(Event("scale", "none", video))
             c == Publish(Event("thumbnail", "none", video))
             d == Store(VideoMeta(video))
             e == Edit(Date(x), "add", video)
  <2>1. /\ a.do = "store" /\ b.do = "publish" /\ c.do = "publish" /\ d.do = "store"
        /\ e.do = "edit" /\ e.edit.kind = "add" /\ e.key[1] = "date"
    BY DEF Store, Save, Publish, Edit, NoEdit, Date
  <2>2. PICK r : r = UploadVideo(video, x)
    OBVIOUS
  <2>3. r = <<a, b, c, d, e>>
    BY <2>2, UploadIs
  <2> HIDE DEF a, b, c, d, e
  <2>4. Len(r) = 5 /\ r[1] = a /\ r[2] = b /\ r[3] = c /\ r[4] = d /\ r[5] = e
    BY <2>3, FiveList
  <2>5. \A i \in 1..Len(r) : i \in {1, 2, 3, 4, 5}
    BY <2>4
  <2>6. \A i \in 1..Len(r) : r[i].do \in {"store", "publish", "edit"} /\ (r[i].do = "edit" => i = 5)
    BY <2>1, <2>4, <2>5
  <2>7. EditKnown(r, r[5])
    BY <2>1, <2>4 DEF EditKnown, Reserved, Timelines
  <2> QED
    BY <2>2, <2>6, <2>7 DEF RequestKnown, Once
<1>2. RequestKnown(GetVideoData(video))
  <2> DEFINE a == Edit(Views(video), "view", video)
             b == Get(Data(video))
  <2>1. a.do = "edit" /\ a.edit.kind = "view" /\ a.key[1] = "views" /\ b.do = "get"
    BY DEF Edit, NoEdit, Get, Views
  <2>2. \E v \in Names : a = Edit(Views(v), "view", v)
    OBVIOUS
  <2>3. GetVideoData(video) = <<a, b>>
    BY ViewIs
  <2> HIDE DEF a, b
  <2>4. EditKnown(<<a, b>>, a)
    BY <2>1, <2>2 DEF EditKnown, Reserved, Timelines
  <2>5. a # b
    BY <2>1
  <2> QED
    BY <2>1, <2>3, <2>4, <2>5, TwoKnown
<1> QED
  BY <1>1, <1>2

LEMMA RequestsKnown ==
  ASSUME NEW request, IsRequest(request)
  PROVE  RequestKnown(request)
<1>1. CASE ReadsOnly(request)
  <2>1. \A i \in DOMAIN request : request[i].do = "get"
    BY <1>1 DEF ReadsOnly
  <2>2. IsList(request)
    BY <1>1 DEF ReadsOnly, IsList
  <2>3. \A i \in 1..Len(request) : request[i].do = "get"
    BY <2>1, <2>2, ListFacts
  <2> QED
    BY <2>3, NoEditsKnown
<1>2. CASE Rates(request)
  <2>1. PICK u \in Names, video \in Names : request = RateVideo(u, video, request[1].edit.score)
    BY <1>2 DEF Rates
  <2>2. PICK score : request = RateVideo(u, video, score)
    BY <2>1
  <2> DEFINE a == Rate(RatingsBy(u), "rating", video, score)
             b == Rate(Rating(video), "score", video, score)
  <2>3. /\ a.do = "edit" /\ a.edit.kind = "rating" /\ a.key[1] = "ratings"
        /\ b.do = "edit" /\ b.edit.kind = "score" /\ b.key[1] = "rate"
    BY DEF Rate, RatingsBy, Rating
  <2>4. request = <<a, b>>
    BY <2>2, RatingIs
  <2> HIDE DEF a, b
  <2>5. EditKnown(<<a, b>>, a) /\ EditKnown(<<a, b>>, b) /\ a # b
    BY <2>3 DEF EditKnown, Reserved, Timelines
  <2> QED
    BY <2>3, <2>4, <2>5, TwoKnown
<1>3. CASE ReadsTimeline(request)
  <2> DEFINE a == [do |-> "page", key |-> request[1].key, earliest |-> request[1].earliest,
                   posts |-> request[1].posts]
             b == [do |-> "posts"]
  <2>1. a.do = "page" /\ b.do = "posts"
    OBVIOUS
  <2>2. request = <<a, b>>
    BY <1>3 DEF ReadsTimeline, ReadTimeline
  <2> HIDE DEF a, b
  <2>3. Len(request) = 2 /\ request[1] = a /\ request[2] = b
    BY <2>2
  <2>4. \A i \in 1..Len(request) : i \in {1, 2}
    BY <2>3
  <2> QED
    BY <2>1, <2>3, <2>4, NoEditsKnown
<1>4. CASE \E post \in Posts : IsSave(request, post)
  <2>1. PICK u \in Names, post \in Posts, images \in BOOLEAN : request = SavePost(u, post, images)
    BY <1>4 DEF IsSave
  <2>2. \A i \in 1..Len(request) : request[i].do \in {"store", "publish"}
    BY <2>1, SaveCommands
  <2> QED
    BY <2>2, NoEditsKnown
<1>5. CASE \E post \in Posts : IsDeletion(request, post)
  <2>1. PICK u \in Names, post \in Posts : request = DelPost(u, post)
    BY <1>5 DEF IsDeletion
  <2> DEFINE a == Delete(Content(post))
             b == Delete(Meta(post))
             c == Delete(Comments(post))
             d == Delete(Upvotes(post))
             e == Publish(Event("remove", u, post))
  <2>2. /\ a.do = "delete" /\ b.do = "delete" /\ c.do = "delete" /\ d.do = "delete"
        /\ e.do = "publish"
    BY DEF Delete, Publish
  <2>3. request = <<a, b, c, d, e>>
    BY <2>1, DeletionIs
  <2> HIDE DEF a, b, c, d, e
  <2>4. /\ Len(request) = 5 /\ request[1] = a /\ request[2] = b /\ request[3] = c
        /\ request[4] = d /\ request[5] = e
    BY <2>3, FiveList
  <2>5. \A i \in 1..Len(request) : i \in {1, 2, 3, 4, 5}
    BY <2>4
  <2> QED
    BY <2>2, <2>4, <2>5, NoEditsKnown
<1>6. CASE \E u, v \in Names : request \in {FollowUser(u, v), UnfollowUser(u, v)}
  BY <1>6, FollowKnown
<1>7. CASE \E post \in Posts, x \in Names : request \in {Comment(post, x), Upvote(post, x)}
  BY <1>7, OneEditsKnown
<1>8. CASE \E video, date \in Names : request \in {UploadVideo(video, date), GetVideoData(video)}
  BY <1>8, VideoKnown
<1>9. CASE \E r \in DOMAIN FramesOf, priority \in Priorities : request = Request(r, priority)
  <2>1. PICK a : request = <<a>> /\ a.do = "publish"
    BY <1>9 DEF Request, Publish
  <2>2. Len(request) = 1 /\ request[1] = a
    BY <2>1
  <2>3. \A i \in 1..Len(request) : i = 1
    BY <2>2
  <2> QED
    BY <2>1, <2>2, <2>3, NoEditsKnown
<1> QED
  BY <1>1, <1>2, <1>3, <1>4, <1>5, <1>6, <1>7, <1>8, <1>9 DEF IsRequest

-----------------------------------------------------------------------------
(* Lists without repetitions, and what is left of a list of commands. *)

LEMMA AppendStaysOnce ==
  ASSUME NEW s, IsList(s), IsInjective(s), NEW x, x \notin ToSet(s), NEW r, r = Append(s, x)
  PROVE  IsInjective(r)
<1>1. /\ IsList(r) /\ Len(r) = Len(s) + 1 /\ r[Len(s) + 1] = x
      /\ \A i \in 1..Len(s) : r[i] = s[i]
  BY ListAppend
<1>2. Len(s) \in Nat /\ DOMAIN s = 1..Len(s) /\ \A i \in 1..Len(s) : s[i] \in ToSet(s)
  BY ListFacts
<1>3. DOMAIN r = 1..(Len(s) + 1)
  BY <1>1, ListFacts
<1>4. ASSUME NEW i \in DOMAIN r, NEW j \in DOMAIN r, r[i] = r[j] PROVE i = j
  <2>1. (i \in 1..Len(s) \/ i = Len(s) + 1) /\ (j \in 1..Len(s) \/ j = Len(s) + 1)
    BY <1>2, <1>3
  <2> QED
    BY <1>1, <1>2, <1>4, <2>1 DEF IsInjective
<1> QED
  BY <1>4 DEF IsInjective

LEMMA RemoveStaysOnce ==
  ASSUME NEW s, IsList(s), IsInjective(s), NEW n \in 1..Len(s), NEW r, r = RemoveAt(s, n)
  PROVE  IsInjective(r) /\ ToSet(r) = ToSet(s) \ {s[n]}
<1>1. /\ IsList(r) /\ Len(r) = Len(s) - 1
      /\ \A i \in 1..(n - 1) : r[i] = s[i]
      /\ \A i \in n..(Len(s) - 1) : r[i] = s[i + 1]
      /\ ToSet(r) \subseteq ToSet(s)
  BY RemoveAtList
<1>2. /\ Len(s) \in Nat /\ DOMAIN s = 1..Len(s) /\ DOMAIN r = 1..(Len(s) - 1)
      /\ \A i \in 1..Len(s) : s[i] \in ToSet(s)
      /\ \A i \in 1..Len(r) : r[i] \in ToSet(r)
  BY <1>1, ListFacts
<1>3. ASSUME NEW i \in DOMAIN r
      PROVE  \E k \in 1..Len(s) : k # n /\ r[i] = s[k] /\ (i < n => k = i) /\ (i >= n => k = i + 1)
  <2>1. CASE i < n
    <3>1. i \in 1..(n - 1) /\ i \in 1..Len(s) /\ i # n
      BY <1>2, <2>1
    <3> QED
      BY <1>1, <2>1, <3>1
  <2>2. CASE i >= n
    <3>1. i \in n..(Len(s) - 1) /\ i + 1 \in 1..Len(s) /\ i + 1 # n /\ ~(i < n)
      BY <1>2, <2>2
    <3> QED
      BY <1>1, <3>1
  <2> QED
    BY <1>2, <2>1, <2>2
<1>4. ASSUME NEW i \in DOMAIN r, NEW j \in DOMAIN r, r[i] = r[j] PROVE i = j
  <2>1. PICK k \in 1..Len(s) : r[i] = s[k] /\ (i < n => k = i) /\ (i >= n => k = i + 1)
    BY <1>3
  <2>2. PICK l \in 1..Len(s) : r[j] = s[l] /\ (j < n => l = j) /\ (j >= n => l = j + 1)
    BY <1>3
  <2>3. k = l
    BY <1>2, <1>4, <2>1, <2>2 DEF IsInjective
  <2> QED
    BY <1>2, <2>1, <2>2, <2>3
<1>5. s[n] \notin ToSet(r)
  <2> SUFFICES ASSUME s[n] \in ToSet(r) PROVE FALSE
    OBVIOUS
  <2>1. PICK i \in DOMAIN r : r[i] = s[n]
    BY DEF ToSet
  <2>2. PICK k \in 1..Len(s) : k # n /\ r[i] = s[k]
    BY <1>3
  <2> QED
    BY <1>2, <2>1, <2>2 DEF IsInjective
<1>6. ASSUME NEW x \in ToSet(s), x # s[n] PROVE x \in ToSet(r)
  <2>1. PICK k \in 1..Len(s) : s[k] = x
    BY <1>2 DEF ToSet
  <2>2. CASE k < n
    <3>1. k \in 1..(n - 1) /\ k \in 1..Len(r)
      BY <1>1, <1>2, <2>2
    <3> QED
      BY <1>1, <1>2, <2>1, <3>1
  <2>3. CASE k > n
    <3>1. PICK i : i = k - 1
      OBVIOUS
    <3>2. i \in n..(Len(s) - 1) /\ i \in 1..Len(r) /\ i + 1 = k
      BY <1>1, <1>2, <2>3, <3>1
    <3> QED
      BY <1>1, <1>2, <2>1, <3>2
  <2> QED
    BY <1>6, <2>1, <2>2, <2>3
<1> QED
  BY <1>1, <1>4, <1>5, <1>6 DEF IsInjective

LEMMA OccursOnce ==
  ASSUME NEW s, IsList(s), IsInjective(s), NEW x
  PROVE  Occurrences(x, s) = IF x \in ToSet(s) THEN 1 ELSE 0
<1>1. CASE x \in ToSet(s)
  <2>1. PICK k \in DOMAIN s : s[k] = x
    BY <1>1 DEF ToSet
  <2>2. {i \in DOMAIN s : s[i] = x} = {k}
    BY <2>1 DEF IsInjective
  <2>3. Cardinality({k}) = 1
    BY FS_Singleton
  <2> QED
    BY <1>1, <2>2, <2>3 DEF Occurrences
<1>2. CASE x \notin ToSet(s)
  <2>1. {i \in DOMAIN s : s[i] = x} = {}
    BY <1>2 DEF ToSet
  <2>2. Cardinality({}) = 0
    BY FS_EmptySet
  <2> QED
    BY <1>2, <2>1, <2>2 DEF Occurrences
<1> QED
  BY <1>1, <1>2

LEMMA OnceTail ==
  ASSUME NEW todo, IsList(todo), todo # <<>>
  PROVE  /\ ToSet(todo) = ToSet(Tail(todo)) \cup {Head(todo)}
         /\ Once(todo) => /\ Once(Tail(todo))
                          /\ Head(todo).do = "edit" => Head(todo) \notin ToSet(Tail(todo))
         /\ Foreign(todo) => Foreign(Tail(todo))
<1> DEFINE t == Tail(todo)
<1>1. /\ Len(todo) \in Nat \ {0} /\ Head(todo) = todo[1] /\ 1 \in 1..Len(todo)
      /\ DOMAIN todo = 1..Len(todo)
  BY ListFacts
<1>2. IsList(t) /\ Len(t) = Len(todo) - 1 /\ \A i \in 1..Len(t) : t[i] = todo[i + 1]
  BY ListTail
<1>3. DOMAIN t = 1..Len(t)
  BY <1>2, ListFacts
<1> HIDE DEF t
<1>4. \A i \in 1..Len(t) : i + 1 \in 1..Len(todo) /\ i + 1 # 1
  BY <1>1, <1>2
<1>5. ASSUME NEW x \in ToSet(todo), x # todo[1] PROVE x \in ToSet(t)
  <2>1. PICK k \in 1..Len(todo) : todo[k] = x
    BY <1>1 DEF ToSet
  <2>2. PICK i : i = k - 1
    OBVIOUS
  <2>3. i \in 1..Len(t) /\ i + 1 = k
    BY <1>1, <1>2, <1>5, <2>1, <2>2
  <2>4. t[i] = x
    BY <1>2, <2>1, <2>3
  <2> QED
    BY <1>3, <2>3, <2>4 DEF ToSet
<1>6. ASSUME NEW x \in ToSet(t) PROVE \E i \in 1..Len(t) : t[i] = x /\ todo[i + 1] = x
  BY <1>2, <1>3 DEF ToSet
<1>7. ToSet(todo) = ToSet(t) \cup {Head(todo)}
  <2>1. todo[1] \in ToSet(todo)
    BY <1>1 DEF ToSet
  <2>2. \A x \in ToSet(t) : x \in ToSet(todo)
    BY <1>1, <1>4, <1>6 DEF ToSet
  <2> QED
    BY <1>1, <1>5, <2>1, <2>2
<1>8. ASSUME Once(todo)
      PROVE  Once(t) /\ (Head(todo).do = "edit" => Head(todo) \notin ToSet(t))
  <2>1. Once(t)
    <3> SUFFICES ASSUME NEW i \in 1..Len(t), NEW j \in 1..Len(t), t[i].do = "edit", t[i] = t[j]
                 PROVE  i = j
      BY DEF Once
    <3>1. i + 1 = j + 1
      BY <1>2, <1>4, <1>8 DEF Once
    <3> QED
      BY <3>1
  <2>2. ASSUME Head(todo).do = "edit", Head(todo) \in ToSet(t) PROVE FALSE
    <3>1. PICK i \in 1..Len(t) : todo[i + 1] = Head(todo)
      BY <1>6, <2>2
    <3>2. i + 1 = 1
      BY <1>1, <1>4, <1>8, <2>2, <3>1 DEF Once
    <3> QED
      BY <1>4, <3>2
  <2> QED
    BY <2>1, <2>2
<1>9. Foreign(todo) => Foreign(t)
  BY <1>2, <1>4 DEF Foreign
<1> QED
  BY <1>7, <1>8, <1>9 DEF t

LEMMA NothingKnown == Once(<<>>) /\ Foreign(<<>>) /\ ToSet(<<>>) = {}
<1>1. Len(<<>>) = 0 /\ ~\E i \in 1..0 : TRUE
  OBVIOUS
<1> QED
  BY <1>1, EmptyList DEF Once, Foreign

-----------------------------------------------------------------------------
(* A step of a process and the items. *)

LEMMA AdvanceFacts ==
  ASSUME NeedsInv, NEW p, Advances(p)
  PROVE  /\ p \in Procs /\ IsList(procs[p].todo) /\ procs[p].todo # <<>>
         /\ Command(p) = Head(procs[p].todo) /\ Command(p) \in ToSet(procs[p].todo)
         /\ CommandRight(Command(p)) /\ (Command(p).do = "delete" => Command(p).key \in Gone)
         /\ \A q \in Procs \ {p} : procs'[q] = procs[q]
<1>1. /\ p \in Procs /\ procs[p].todo # <<>> /\ Command(p) = Head(procs[p].todo)
      /\ \A q \in Procs \ {p} : procs'[q] = procs[q]
  BY DEF Advances, Runs, Command, OthersStay
<1>2. IsList(procs[p].todo) /\ TodoReady(procs[p].todo, There, Gone)
  BY <1>1 DEF NeedsInv, ProcsReady, ProcReady
<1>3. Head(procs[p].todo) \in ToSet(procs[p].todo)
  BY <1>1, <1>2, OnceTail
<1> QED
  BY <1>1, <1>2, <1>3, FirstNeeds

\* What is left to do: all, all but the first command, or nothing.
LEMMA TodoChanges ==
  ASSUME NeedsInv, NEW p, Advances(p)
  PROVE  /\ procs'[p].todo \in {procs[p].todo, Tail(procs[p].todo), <<>>}
         /\ ToSet(procs'[p].todo) \subseteq ToSet(procs[p].todo)
         /\ Once(procs[p].todo) => Once(procs'[p].todo)
         /\ Foreign(procs[p].todo) => Foreign(procs'[p].todo)
         /\ procs[p].ok /\ procs'[p].todo # <<>> => procs'[p].ok
<1>1. /\ procs'[p].todo \in {procs[p].todo, Tail(procs[p].todo), <<>>}
      /\ procs[p].ok /\ procs'[p].todo # <<>> => procs'[p].ok
  <2>1. CASE HasRead(p) \/ TriesAgain(p)
    BY <2>1 DEF HasRead, TriesAgain
  <2>2. CASE HasSkipped(p) \/ HasSaved(p) \/ HasWritten(p) \/ HasPassed(p)
    BY <2>2 DEF HasSkipped, HasSaved, HasWritten, HasPassed, Goes, Reached
  <2>3. CASE HasTurned(p)
    BY <2>3 DEF HasTurned, Reached
  <2>4. CASE HasStopped(p)
    BY <2>4 DEF HasStopped, Reached
  <2> QED
    BY <2>1, <2>2, <2>3, <2>4 DEF Advances
<1>2. IsList(procs[p].todo) /\ procs[p].todo # <<>>
  BY AdvanceFacts
<1>3. CASE procs'[p].todo = procs[p].todo
  BY <1>1, <1>3
<1>4. CASE procs'[p].todo = Tail(procs[p].todo)
  <2>1. PICK todo : todo = procs[p].todo
    OBVIOUS
  <2>2. /\ ToSet(Tail(todo)) \subseteq ToSet(todo) /\ (Once(todo) => Once(Tail(todo)))
        /\ Foreign(todo) => Foreign(Tail(todo))
    BY <1>2, <2>1, OnceTail
  <2> QED
    BY <1>1, <1>4, <2>1, <2>2
<1>5. CASE procs'[p].todo = <<>>
  BY <1>1, <1>5, NothingKnown
<1> QED
  BY <1>1, <1>3, <1>4, <1>5

LEMMA ItemIs ==
  ASSUME NEW key
  PROVE  /\ key \in DOMAIN items => Item(key) = items[key]
         /\ key \notin DOMAIN items => Item(key).etag = 0 /\ Item(key).value = Empty(key)
         /\ EtagsRight => Item(key).etag \in Nat
<1>1. key \in DOMAIN items => Item(key) = items[key]
  BY DEF Item
<1>2. key \notin DOMAIN items => Item(key).etag = 0 /\ Item(key).value = Empty(key)
  BY DEF Item
<1> QED
  BY <1>1, <1>2 DEF EtagsRight

\* An item is the same or was written, once, by the command.
Wrote(p, key, value) ==
  /\ Command(p).key = key /\ procs'[p].todo \in {Tail(procs[p].todo), <<>>}
  /\ \/ /\ Command(p).do = "edit" /\ value \in Results(p) /\ procs[p].at = "save"
        /\ procs[p].seen.value = Item(key).value
        /\ ~Needless(Command(p).edit, Item(key).value)
     \/ Command(p).do = "store" /\ key[1] \in Wholes /\ value = Command(p).value

LEMMA ItemStays ==
  ASSUME NEW key, key \in DOMAIN items' <=> key \in DOMAIN items,
         key \in DOMAIN items => items'[key] = items[key]
  PROVE  Item(key)' = Item(key)
BY DEF Item

LEMMA ItemWrites ==
  ASSUME NeedsInv, EtagsRight, SeenFresh, NEW p, Advances(p), NEW key, key \notin Gone
  PROVE  \/ Item(key)' = Item(key)
         \/ /\ Item(key)'.etag = Item(key).etag + 1 /\ key \in DOMAIN items'
            /\ Wrote(p, key, Item(key)'.value)
<1>1. /\ p \in Procs /\ CommandRight(Command(p)) /\ (Command(p).do = "delete" => Command(p).key \in Gone)
  BY AdvanceFacts
<1>2. CASE UNCHANGED items
  BY <1>2, ItemStays
<1>3. CASE (Saves(p) \/ Writes(p) \/ UNCHANGED items) /\ procs'[p].todo \in {Tail(procs[p].todo), <<>>}
  <2>1. CASE \E value : Put(Command(p).key, value)
    <3>1. PICK k : k = Command(p).key
      OBVIOUS
    <3>2. PICK value : Put(k, value)
      BY <2>1, <3>1
    <3>3. /\ DOMAIN items' = DOMAIN items \cup {k} /\ items'[k].value = value
          /\ items'[k].etag = Item(k).etag + 1
          /\ \A l \in DOMAIN items \ {k} : items'[l] = items[l]
      BY <3>2, PutFacts
    <3>4. CASE k # key
      BY <3>3, <3>4, ItemStays
    <3>5. CASE k = key
      <4>1. Item(key)' = items'[key] /\ key \in DOMAIN items'
        BY <3>3, <3>5 DEF Item
      <4>2. CASE Command(p).do = "store" /\ Put(Command(p).key, Command(p).value)
        <5>1. PICK v : v = Command(p).value
          OBVIOUS
        <5>2. Put(key, v)
          BY <3>1, <3>5, <4>2, <5>1
        <5>3. items'[key].value = v
          BY <5>2, PutFacts
        <5>4. key[1] \in Wholes
          BY <1>1, <3>1, <3>5, <4>2 DEF CommandRight
        <5> QED
          BY <1>3, <3>1, <3>3, <3>5, <4>1, <4>2, <5>1, <5>3, <5>4 DEF Wrote
      <4>3. CASE /\ Command(p).do = "edit"
                 /\ \E v \in Results(p) : Put(Command(p).key, v)
                 /\ Accepts(Command(p).key, procs[p].seen.etag) /\ procs[p].at = "save"
        <5>1. PICK v \in Results(p) : Put(key, v)
          BY <3>1, <3>5, <4>3
        <5>2. items'[key].value = v
          BY <5>1, PutFacts
        <5>3. /\ procs[p].seen.etag \in Nat /\ ~Needless(Command(p).edit, procs[p].seen.value)
              /\ procs[p].seen.etag <= Item(key).etag
              /\ procs[p].seen.etag = Item(key).etag => procs[p].seen.value = Item(key).value
          BY <1>1, <3>1, <3>5, <4>3 DEF SeenFresh, Fresh
        <5>4. procs[p].seen.etag = Item(key).etag
          <6>1. key \in DOMAIN items => items[key].etag = procs[p].seen.etag
            BY <3>1, <3>5, <4>3 DEF Accepts
          <6> QED
            BY <5>3, <6>1, ItemIs
        <5> QED
          BY <1>3, <3>1, <3>3, <3>5, <4>1, <4>3, <5>2, <5>3, <5>4 DEF Wrote
      <4>4. CASE UNCHANGED items
        BY <4>4, ItemStays
      <4>5. CASE Command(p).do = "delete" /\ Erase(Command(p).key)
        BY <1>1, <3>1, <3>5, <4>5
      <4> QED
        BY <1>3, <4>2, <4>3, <4>4, <4>5, ItemChanges
    <3> QED
      BY <3>4, <3>5
  <2>2. CASE Command(p).do = "delete" /\ Erase(Command(p).key)
    <3>1. PICK k : k = Command(p).key
      OBVIOUS
    <3>2. Erase(k) /\ k # key
      BY <1>1, <2>2, <3>1
    <3>3. DOMAIN items' = DOMAIN items \ {k} /\ \A l \in DOMAIN items' : items'[l] = items[l]
      BY <3>2, EraseFacts
    <3> QED
      BY <3>2, <3>3, ItemStays
  <2> QED
    BY <1>2, <1>3, <2>1, <2>2, ItemChanges
<1> QED
  BY <1>2, <1>3 DEF Advances, HasRead, HasSkipped, HasSaved, TriesAgain, HasWritten, HasPassed,
     HasTurned, HasStopped, Goes, Reached

\* A save that is not refused writes the item.
LEMMA SavedWrites ==
  ASSUME NeedsInv, EtagsRight, NEW p, HasSaved(p), NEW key, key = Command(p).key
  PROVE  Item(key)' # Item(key) /\ Command(p).do = "edit"
<1>1. PICK value : Put(key, value)
  BY DEF HasSaved, Saves
<1>2. Item(key)' = items'[key] /\ items'[key].etag = Item(key).etag + 1
  BY <1>1, PutFacts DEF Item
<1>3. Item(key).etag \in Nat
  BY ItemIs
<1>4. Item(key).etag + 1 # Item(key).etag
  BY <1>3
<1> QED
  BY <1>2, <1>4 DEF HasSaved, Saves, Turn

-----------------------------------------------------------------------------
(* A step of a process and the edits that were made. *)

LEMMA AdvanceEtags ==
  ASSUME NeedsInv, EtagsRight, NEW p, Advances(p)
  PROVE  EtagsRight'
<1> SUFFICES ASSUME NEW key \in DOMAIN items' PROVE items'[key].etag \in Nat \ {0}
  BY DEF EtagsRight
<1>1. CASE UNCHANGED items
  BY <1>1 DEF EtagsRight
<1>2. CASE \E value : Put(Command(p).key, value)
  <2>1. PICK k, value : Put(k, value)
    BY <1>2
  <2>2. Item(k).etag \in Nat
    BY ItemIs
  <2>3. CASE key = k
    <3>1. items'[k].etag = Item(k).etag + 1
      BY <2>1, PutFacts
    <3>2. Item(k).etag + 1 \in Nat \ {0}
      BY <2>2
    <3> QED
      BY <2>3, <3>1, <3>2
  <2>4. CASE key # k
    BY <2>1, <2>4, PutFacts DEF EtagsRight
  <2> QED
    BY <2>3, <2>4
<1>3. CASE Erase(Command(p).key)
  <2>1. PICK k : Erase(k)
    BY <1>3
  <2> QED
    BY <2>1, EraseFacts DEF EtagsRight
<1>4. Saves(p) \/ Writes(p) \/ UNCHANGED items
  BY DEF Advances, HasRead, HasSkipped, HasSaved, TriesAgain, HasWritten, HasPassed, HasTurned,
         HasStopped
<1> QED
  BY <1>1, <1>2, <1>3, <1>4, ItemChanges

LEMMA AdvanceSeen ==
  ASSUME NeedsInv, EtagsRight, SeenFresh, NEW p, Advances(p), UNCHANGED <<scenario, started>>
  PROVE  SeenFresh'
<1>1. Gone' = Gone
  BY GoneStays
<1> SUFFICES ASSUME NEW q \in Procs, procs'[q].at = "save"
             PROVE  Fresh(Command(q).key, Command(q).edit, procs[q].seen)'
  BY DEF SeenFresh
<1>2. PICK key, edit, seen : key = Command(q)'.key /\ edit = Command(q)'.edit /\ seen = procs'[q].seen
  OBVIOUS
<1> SUFFICES /\ seen.etag \in Nat /\ ~Needless(edit, seen.value)
             /\ key \notin Gone =>
                  /\ seen.etag <= Item(key)'.etag
                  /\ seen.etag = Item(key)'.etag => seen.value = Item(key)'.value
  BY <1>1, <1>2 DEF Fresh
<1>3. CASE q # p
  <2>1. procs'[q] = procs[q]
    BY <1>3, AdvanceFacts
  <2>2. Command(q)' = Command(q) /\ procs[q].at = "save"
    BY <2>1 DEF Command
  <2>3. Fresh(key, edit, seen)
    BY <1>2, <2>1, <2>2 DEF SeenFresh
  <2>4. ASSUME key \notin Gone
        PROVE  Item(key)' = Item(key) \/ Item(key)'.etag = Item(key).etag + 1
    BY <2>4, ItemWrites
  <2>5. Item(key).etag \in Nat
    BY ItemIs
  <2>6. ASSUME key \notin Gone
        PROVE  /\ seen.etag <= Item(key)'.etag
               /\ seen.etag = Item(key)'.etag => seen.value = Item(key)'.value
    <3>1. CASE Item(key)' = Item(key)
      BY <2>3, <2>6, <3>1 DEF Fresh
    <3>2. CASE Item(key)'.etag = Item(key).etag + 1
      BY <2>3, <2>5, <2>6, <3>2 DEF Fresh
    <3> QED
      BY <2>4, <2>6, <3>1, <3>2
  <2> QED
    BY <2>3, <2>6 DEF Fresh
<1>4. CASE q = p
  <2>1. HasRead(p)
    BY <1>4 DEF Advances, HasSkipped, HasSaved, TriesAgain, HasWritten, HasPassed, HasTurned,
                HasStopped, Goes, Reached
  <2>2. /\ Command(p)' = Command(p) /\ UNCHANGED items /\ procs'[p].seen = Item(Command(p).key)
        /\ ~Needless(Command(p).edit, Item(Command(p).key).value)
    BY <2>1 DEF HasRead, Command
  <2>3. key = Command(p).key /\ edit = Command(p).edit
    BY <1>2, <1>4, <2>2
  <2>4. Item(key)' = Item(key) /\ Item(key).etag \in Nat
    BY <2>2, ItemStays, ItemIs
  <2>5. seen = Item(key) /\ ~Needless(edit, Item(key).value)
    BY <1>2, <1>4, <2>2, <2>3
  <2> QED
    BY <2>4, <2>5
<1> QED
  BY <1>3, <1>4

LEMMA AdvanceTasks ==
  ASSUME NeedsInv, TasksKnown, NEW p, Advances(p), UNCHANGED <<scenario, started>>
  PROVE  TasksKnown'
<1> SUFFICES ASSUME NEW q \in Procs
             PROVE  IF q \in started
                    THEN /\ ToSet(procs'[q].todo) \subseteq Sent(q) /\ Once(procs'[q].todo)
                         /\ procs'[q].todo # <<>> => procs'[q].ok
                    ELSE Foreign(procs'[q].todo)
  BY DEF TasksKnown, Sent, Runs
<1>1. IF q \in started
      THEN /\ ToSet(procs[q].todo) \subseteq Sent(q) /\ Once(procs[q].todo)
           /\ procs[q].todo # <<>> => procs[q].ok
      ELSE Foreign(procs[q].todo)
  BY DEF TasksKnown, Runs
<1>2. CASE q # p
  <2>1. procs'[q] = procs[q]
    BY <1>2, AdvanceFacts
  <2> QED
    BY <1>1, <2>1
<1>3. CASE q = p
  <2>1. procs[p].todo # <<>>
    BY AdvanceFacts
  <2> QED
    BY <1>1, <1>3, <2>1, TodoChanges
<1> QED
  BY <1>2, <1>3

LEMMA AdvanceCalls ==
  ASSUME NeedsInv, CallsRight, NEW p, Advances(p), UNCHANGED <<scenario, started, overAt>>
  PROVE  CallsRight'
<1>1. ASSUME NEW c \in Calls, NEW d \in overAt[c] PROVE ~Runs(d)'
  <2>1. d \in started /\ ~Runs(d) /\ d \in Procs
    BY DaprAssumption DEF CallsRight
  <2>2. d # p
    BY <2>1 DEF Advances
  <2>3. procs'[d] = procs[d]
    BY <2>1, <2>2, AdvanceFacts
  <2> QED
    BY <2>1, <2>3 DEF Runs
<1> QED
  BY <1>1 DEF CallsRight

\* What a call that was sent is made of.
LEMMA SentKnown ==
  ASSUME NeedsInv, CallsRight, NEW c \in started
  PROVE  /\ c \in Calls /\ c \in Procs /\ c \in DOMAIN scenario.requests
         /\ IsList(scenario.requests[c])
         /\ RequestKnown(scenario.requests[c])
         /\ \A command \in Sent(c) :
              /\ CommandRight(command) /\ command.do # "need"
              /\ command.do = "page" => \A other \in Sent(c) : other.do # "edit"
              /\ command.do = "edit" => EditKnown(scenario.requests[c], command)
<1>1. c \in Calls /\ c \in DOMAIN scenario.requests /\ c \in Procs
  BY DaprAssumption DEF CallsRight
<1>2. IsRequest(scenario.requests[c])
  BY <1>1, DaprAssumption DEF ScenariosAssumption, NeedsInv
<1>3. RequestKnown(scenario.requests[c]) /\ RequestRight(scenario.requests[c])
  BY <1>2, RequestsKnown, RequestsRight
<1>4. IsList(scenario.requests[c]) /\ AllRight(scenario.requests[c])
  BY <1>3 DEF RequestRight
<1>5. PICK r : r = scenario.requests[c]
  OBVIOUS
<1>6. IsList(r) /\ AllRight(r) /\ RequestKnown(r) /\ Sent(c) = ToSet(r)
  BY <1>3, <1>4, <1>5 DEF Sent
<1>7. \A command \in ToSet(r) : \E i \in 1..Len(r) : r[i] = command
  BY <1>6, ListFacts
<1>8. ASSUME NEW command \in ToSet(r)
      PROVE  /\ CommandRight(command) /\ command.do # "need"
             /\ command.do = "page" => \A other \in ToSet(r) : other.do # "edit"
             /\ command.do = "edit" => EditKnown(r, command)
  BY <1>6, <1>7 DEF AllRight, RequestKnown
<1> QED
  BY <1>1, <1>3, <1>4, <1>5, <1>6, <1>8

\* Only a request edits what is not reserved for the handlers of events.
LEMMA EditorIs ==
  ASSUME NeedsInv, TasksKnown, CallsRight, NEW p, Advances(p), Command(p).do = "edit",
         Command(p).key[1] \notin Reserved
  PROVE  p \in started /\ Command(p) \in Sent(p)
<1>1. /\ p \in Procs /\ IsList(procs[p].todo) /\ procs[p].todo # <<>>
      /\ Command(p) = Head(procs[p].todo) /\ Command(p) \in ToSet(procs[p].todo)
  BY AdvanceFacts
<1>2. Len(procs[p].todo) \in Nat \ {0} /\ Command(p) = procs[p].todo[1] /\ 1 \in 1..Len(procs[p].todo)
  BY <1>1, ListFacts
<1>3. ~Foreign(procs[p].todo)
  BY <1>2 DEF Foreign
<1> QED
  BY <1>1, <1>3 DEF TasksKnown

LEMMA UndoneBy ==
  ASSUME CallsRight, NEW c \in started, NEW p \in started, Runs(p), NEW edit,
         NEW command \in Sent(p), command.do = "edit", command.key = edit.key,
         command.edit.val = edit.edit.val, command.edit.kind # edit.edit.kind
  PROVE  Undone(c, edit)
<1>1. p \notin overAt[c]
  BY DEF CallsRight
<1> QED
  BY <1>1 DEF Undone

-----------------------------------------------------------------------------
(* What a step does to a list. *)

Sets(kind, val, old, new) == ToSet(new) = IF kind = "remove" THEN ToSet(old) \ {val}
                                          ELSE ToSet(old) \cup {val}

LEMMA EditIs ==
  ASSUME NEW key, NEW kind, NEW val, NEW edit, edit = Edit(key, kind, val)
  PROVE  edit.do = "edit" /\ edit.key = key /\ edit.edit.kind = kind /\ edit.edit.val = val
<1>1. /\ Edit(key, kind, val).do = "edit" /\ Edit(key, kind, val).key = key
      /\ Edit(key, kind, val).edit.kind = kind /\ Edit(key, kind, val).edit.val = val
  BY DEF Edit, NoEdit
<1> QED
  BY <1>1

LEMMA ListIs ==
  ASSUME NeedsInv, OnceEach, NEW key, key \notin Gone, key[1] \in Elements
  PROVE  IsList(Item(key).value) /\ IsInjective(Item(key).value)
<1>1. ElementsIn(key, Item(key).value, There)
  BY ItemIn DEF NeedsInv
<1> QED
  BY <1>1 DEF ElementsIn, OnceEach, Elements, Lists

\* A result of an edit of a list in which nothing is twice.
LEMMA ResultOnce ==
  ASSUME NEW p, NEW list, procs[p].seen.value = list, IsList(list), IsInjective(list),
         NEW kind \in {"add", "append", "remove"}, Command(p).edit.kind = kind,
         NEW val, Command(p).edit.val = val, ~Needless(Command(p).edit, list),
         kind = "append" => val \notin ToSet(list), NEW new \in Results(p)
  PROVE  IsInjective(new) /\ Sets(kind, val, list, new)
<1>1. CASE kind \in {"add", "append"}
  <2>1. val \notin ToSet(list)
    BY <1>1 DEF Needless, Slices
  <2>2. new = Append(list, val)
    BY <1>1 DEF Results
  <2> QED
    BY <1>1, <2>1, <2>2, AppendStaysOnce, ListAppend DEF Sets
<1>2. CASE kind = "remove"
  <2>1. PICK i \in Place(val, list) : new = RemoveAt(list, i)
    BY <1>2 DEF Results
  <2>2. i \in 1..Len(list) /\ list[i] = val
    BY ListFacts DEF Place
  <2> QED
    BY <1>2, <2>1, <2>2, RemoveStaysOnce DEF Sets
<1> QED
  BY <1>1, <1>2

LEMMA ListChanges ==
  ASSUME NeedsInv, TasksKnown, CallsRight, EtagsRight, SeenFresh, OnceEach, CommentsNew,
         NEW p, Advances(p), NEW key, key \notin Gone, key[1] \in Elements
  PROVE  \/ Item(key)' = Item(key)
         \/ /\ p \in started /\ Command(p) \in Sent(p) /\ Command(p).do = "edit"
            /\ Command(p).key = key /\ Command(p).edit.kind \in {"add", "append", "remove"}
            /\ procs'[p].todo \in {Tail(procs[p].todo), <<>>}
            /\ IsInjective(Item(key)'.value)
            /\ Sets(Command(p).edit.kind, Command(p).edit.val, Item(key).value, Item(key)'.value)
<1>1. PICK new : new = Item(key)'.value
  OBVIOUS
<1> SUFFICES ASSUME Item(key)' # Item(key)
             PROVE  /\ p \in started /\ Command(p) \in Sent(p) /\ Command(p).do = "edit"
                    /\ Command(p).key = key /\ Command(p).edit.kind \in {"add", "append", "remove"}
                    /\ procs'[p].todo \in {Tail(procs[p].todo), <<>>}
                    /\ IsInjective(new)
                    /\ Sets(Command(p).edit.kind, Command(p).edit.val, Item(key).value, new)
  BY <1>1
<1>2. Wrote(p, key, new)
  BY <1>1, ItemWrites
<1>3. /\ Command(p).do = "edit" /\ new \in Results(p) /\ procs[p].at = "save"
      /\ procs[p].seen.value = Item(key).value /\ ~Needless(Command(p).edit, Item(key).value)
      /\ Command(p).key = key /\ procs'[p].todo \in {Tail(procs[p].todo), <<>>}
  BY <1>2 DEF Wrote, Wholes, Elements
<1>4. CommandRight(Command(p)) /\ Command(p) \in ToSet(procs[p].todo)
  BY AdvanceFacts
<1>5. Command(p).edit.kind \in {"add", "append", "remove"}
  BY <1>3, <1>4 DEF CommandRight, EditRight, Elements, Timelines
<1>6. p \in started /\ Command(p) \in Sent(p)
  BY <1>3, EditorIs DEF Reserved, Elements, Timelines
<1>7. IsList(Item(key).value) /\ IsInjective(Item(key).value)
  BY ListIs
<1>8. ASSUME Command(p).edit.kind = "append"
      PROVE  Command(p).edit.val \notin ToSet(Item(key).value)
  <2>1. EditKnown(scenario.requests[p], Command(p)) /\ p \in DOMAIN scenario.requests
    BY <1>3, <1>6, SentKnown
  <2>2. PICK post \in Posts, x \in Names :
          Command(p) = Edit(Comments(post), "append", x) /\ scenario.requests[p] = Comment(post, x)
    BY <1>8, <2>1 DEF EditKnown
  <2>3. Command(p).key = Comments(post) /\ Command(p).edit.val = x
    BY <2>2, EditIs
  <2> QED
    BY <1>3, <1>4, <2>1, <2>2, <2>3 DEF CommentsNew
<1>9. IsInjective(new) /\ Sets(Command(p).edit.kind, Command(p).edit.val, Item(key).value, new)
  BY <1>3, <1>5, <1>7, <1>8, ResultOnce
<1> QED
  BY <1>3, <1>5, <1>6, <1>9

LEMMA AdvanceOnce ==
  ASSUME NeedsInv, TasksKnown, CallsRight, EtagsRight, SeenFresh, OnceEach, CommentsNew,
         NEW p, Advances(p), UNCHANGED <<scenario, started>>
  PROVE  OnceEach'
<1>1. Gone' = Gone
  BY GoneStays
<1> SUFFICES ASSUME NEW key, key \notin Gone, key[1] \in Elements
             PROVE  IsInjective(Item(key)'.value)
  BY <1>1 DEF OnceEach
<1>2. IsInjective(Item(key).value)
  BY ListIs
<1> QED
  BY <1>2, ListChanges

LEMMA AdvanceComments ==
  ASSUME NeedsInv, TasksKnown, CallsRight, EtagsRight, SeenFresh, OnceEach, CommentsNew,
         NEW p, Advances(p), UNCHANGED <<scenario, started>>
  PROVE  CommentsNew'
<1>1. Gone' = Gone
  BY GoneStays
<1> SUFFICES ASSUME NEW c \in DOMAIN scenario.requests, NEW post \in Posts, NEW x \in Names,
                    scenario.requests[c] = Comment(post, x), Comments(post) \notin Gone,
                    c \in started => Edit(Comments(post), "append", x) \in ToSet(procs'[c].todo)
             PROVE  x \notin ToSet(Item(Comments(post))'.value)
  BY <1>1 DEF CommentsNew
<1> DEFINE key == Comments(post)
           comment == Edit(key, "append", x)
<1>2. key[1] = "comments" /\ key[2] = post
  BY DEF Comments
<1>3. comment.do = "edit" /\ comment.key = key /\ comment.edit.kind = "append" /\ comment.edit.val = x
  BY DEF Edit, NoEdit
<1>4. c \in started => comment \in ToSet(procs[c].todo)
  <2>1. ASSUME c \in started PROVE ToSet(procs'[c].todo) \subseteq ToSet(procs[c].todo)
    <3>1. CASE c = p
      BY <3>1, TodoChanges
    <3>2. CASE c # p
      BY <2>1, <3>2, AdvanceFacts, DaprAssumption DEF CallsRight
    <3> QED
      BY <3>1, <3>2
  <2> QED
    BY <2>1
<1>5. x \notin ToSet(Item(key).value)
  BY <1>4 DEF CommentsNew
<1> SUFFICES ASSUME x \in ToSet(Item(key)'.value) PROVE FALSE
  OBVIOUS
<1>6. /\ p \in started /\ Command(p) \in Sent(p) /\ Command(p).do = "edit"
      /\ Command(p).key = key /\ Command(p).edit.kind \in {"add", "append", "remove"}
      /\ procs'[p].todo \in {Tail(procs[p].todo), <<>>}
      /\ Sets(Command(p).edit.kind, Command(p).edit.val, Item(key).value, Item(key)'.value)
  BY <1>2, <1>5, ListChanges DEF Elements
<1>7. Command(p).edit.kind # "remove" /\ Command(p).edit.val = x
  BY <1>5, <1>6 DEF Sets
<1>8. CommandRight(Command(p)) /\ p \in DOMAIN scenario.requests
      /\ EditKnown(scenario.requests[p], Command(p))
  BY <1>6, SentKnown
<1>9. Command(p).edit.kind = "append"
  BY <1>2, <1>6, <1>8 DEF CommandRight, EditRight, Timelines
<1>10. PICK other \in Posts, y \in Names :
         Command(p) = Edit(Comments(other), "append", y) /\ scenario.requests[p] = Comment(other, y)
  BY <1>8, <1>9 DEF EditKnown
<1>11. Command(p).key = Comments(other) /\ Command(p).edit.val = y
  BY <1>10, EditIs
<1>12. Comments(other)[2] = other
  BY DEF Comments
<1>13. other = post /\ y = x
  BY <1>2, <1>6, <1>7, <1>11, <1>12
<1>14. p = c
  <2>1. scenario \in Scenarios
    BY DEF NeedsInv
  <2>2. scenario.requests[p] = scenario.requests[c]
    BY <1>10, <1>13
  <2> QED
    BY <1>8, <2>1, <2>2, DaprAssumption DEF ScenariosAssumption
<1>15. comment \notin ToSet(procs'[p].todo)
  <2>1. Command(p) = comment
    BY <1>10, <1>13
  <2>2. IsList(procs[p].todo) /\ procs[p].todo # <<>> /\ Command(p) = Head(procs[p].todo)
    BY AdvanceFacts
  <2>3. Once(procs[p].todo)
    BY <1>6, DaprAssumption DEF TasksKnown, CallsRight
  <2>4. Command(p) \notin ToSet(Tail(procs[p].todo))
    BY <1>6, <2>2, <2>3, OnceTail
  <2> QED
    BY <1>6, <2>1, <2>4, NothingKnown
<1> QED
  BY <1>6, <1>14, <1>15

-----------------------------------------------------------------------------
(* What was edited stays, or is undone. *)

LEMMA EditKinds ==
  ASSUME NEW request, NEW edit, edit.do = "edit", CommandRight(edit), EditKnown(request, edit)
  PROVE  \/ edit.edit.kind \in {"add", "append", "remove"} /\ edit.key[1] \in Elements
         \/ edit.edit.kind = "rating" /\ edit.key[1] = "ratings"
         \/ edit.edit.kind = "score" /\ edit.key[1] = "rate"
         \/ edit.edit.kind = "view" /\ edit.key[1] = "views"
<1>1. EditRight(edit.edit.kind, edit.key)
  BY DEF CommandRight
<1>2. edit.key[1] \notin Reserved
  BY DEF EditKnown
<1> QED
  BY <1>1, <1>2 DEF EditRight, Reserved, Elements, Timelines

\* A request that succeeds leaves out no edit.
LEMMA EditLeaves ==
  ASSUME NeedsInv, TasksKnown, CallsRight, NEW p \in started, Advances(p), procs'[p].ok,
         NEW edit \in ToSet(procs[p].todo), edit \notin ToSet(procs'[p].todo), edit.do = "edit"
  PROVE  Command(p) = edit /\ (HasSkipped(p) \/ HasSaved(p))
<1>1. /\ p \in Procs /\ IsList(procs[p].todo) /\ procs[p].todo # <<>>
      /\ Command(p) = Head(procs[p].todo) /\ Command(p) \in ToSet(procs[p].todo)
  BY AdvanceFacts
<1>2. ToSet(procs[p].todo) \subseteq Sent(p)
  BY <1>1 DEF TasksKnown
<1>3. Command(p).do # "need" /\ Command(p).do # "page"
  BY <1>1, <1>2, SentKnown
<1>4. ToSet(procs[p].todo) = ToSet(Tail(procs[p].todo)) \cup {Command(p)}
  BY <1>1, OnceTail
<1>5. Goes(p) => Command(p) = edit
  BY <1>4 DEF Goes, Reached
<1>6. ~HasRead(p) /\ ~TriesAgain(p)
  BY DEF HasRead, TriesAgain
<1>7. ~HasTurned(p) /\ ~HasStopped(p)
  BY <1>3 DEF HasTurned, HasStopped, Reached
<1>8. ~HasWritten(p)
  BY <1>5 DEF HasWritten, Writes, Turn
<1>9. ~HasPassed(p)
  BY <1>5 DEF HasPassed
<1> QED
  BY <1>5, <1>6, <1>7, <1>8, <1>9 DEF Advances, HasSkipped, HasSaved

\* What the rating of a user becomes.
LEMMA RatingsGrow ==
  ASSUME NeedsInv, EtagsRight, SeenFresh, NEW p, Advances(p), NEW key, key[1] = "ratings"
  PROVE  \/ Item(key)' = Item(key)
         \/ /\ Command(p).do = "edit" /\ Command(p).key = key
            /\ DOMAIN (Item(key)'.value) = DOMAIN (Item(key).value) \cup {Command(p).edit.val}
<1>1. key \notin Gone
  BY GoneKinds
<1>2. PICK new : new = Item(key)'.value
  OBVIOUS
<1>3. CASE Wrote(p, key, new)
  <2>1. /\ Command(p).do = "edit" /\ Command(p).key = key /\ new \in Results(p)
        /\ procs[p].seen.value = Item(key).value
    BY <1>3 DEF Wrote, Wholes
  <2>2. Command(p).edit.kind = "rating"
    BY <2>1, AdvanceFacts DEF CommandRight, EditRight, Timelines
  <2>3. PICK old, val : old = Item(key).value /\ val = Command(p).edit.val
    OBVIOUS
  <2>4. new = With(old, val, Command(p).edit.score)
    BY <2>1, <2>2, <2>3 DEF Results
  <2>5. DOMAIN new = DOMAIN old \cup {val}
    BY <2>4 DEF With
  <2> QED
    BY <1>2, <2>1, <2>3, <2>5
<1> QED
  BY <1>1, <1>2, <1>3, ItemWrites

LEMMA HoldsStays ==
  ASSUME NeedsInv, TasksKnown, CallsRight, EtagsRight, SeenFresh, OnceEach, CommentsNew,
         NEW p, Advances(p), NEW c \in started, NEW edit \in Sent(c), edit.do = "edit",
         edit.key \notin Gone, Holds(edit.edit.kind, edit.edit.val, Item(edit.key).value)
  PROVE  Holds(edit.edit.kind, edit.edit.val, Item(edit.key)'.value) \/ Undone(c, edit)
<1> DEFINE kind == edit.edit.kind
           val == edit.edit.val
           old == Item(edit.key).value
<1>1. PICK new : new = Item(edit.key)'.value
  OBVIOUS
<1> SUFFICES Holds(kind, val, new) \/ Undone(c, edit)
  BY <1>1
<1>2. CommandRight(edit) /\ EditKnown(scenario.requests[c], edit)
  BY SentKnown
<1>3. CASE kind \in {"add", "append", "remove"} /\ edit.key[1] \in Elements
  <2>1. CASE Item(edit.key)' = Item(edit.key)
    BY <1>1, <2>1
  <2>2. CASE /\ p \in started /\ Command(p) \in Sent(p) /\ Command(p).do = "edit"
             /\ Command(p).key = edit.key
             /\ Sets(Command(p).edit.kind, Command(p).edit.val, old, new)
    <3>1. CASE Command(p).edit.val = val /\ Command(p).edit.kind # kind
      <4>1. Runs(p)
        BY DEF Advances
      <4> QED
        BY <2>2, <3>1, <4>1, UndoneBy
    <3>2. CASE Command(p).edit.val # val \/ Command(p).edit.kind = kind
      BY <1>3, <2>2, <3>2 DEF Holds, Sets
    <3> QED
      BY <3>1, <3>2
  <2> QED
    BY <1>1, <1>3, <2>1, <2>2, ListChanges
<1>4. CASE kind = "rating" /\ edit.key[1] = "ratings"
  <2>1. val \in DOMAIN old
    BY <1>4 DEF Holds
  <2>2. DOMAIN old \subseteq DOMAIN new
    BY <1>1, <1>4, RatingsGrow
  <2> QED
    BY <1>4, <2>1, <2>2 DEF Holds
<1>5. CASE kind \in {"score", "view"}
  BY <1>5 DEF Holds
<1> QED
  BY <1>2, <1>3, <1>4, <1>5, EditKinds

LEMMA HoldsNow ==
  ASSUME NeedsInv, TasksKnown, CallsRight, EtagsRight, SeenFresh, OnceEach, CommentsNew,
         NEW p \in started, Advances(p), NEW edit \in Sent(p), edit.do = "edit",
         edit.key \notin Gone, Command(p) = edit, HasSkipped(p) \/ HasSaved(p)
  PROVE  Holds(edit.edit.kind, edit.edit.val, Item(edit.key)'.value)
<1> DEFINE kind == edit.edit.kind
           val == edit.edit.val
           old == Item(edit.key).value
<1>1. PICK new : new = Item(edit.key)'.value
  OBVIOUS
<1> SUFFICES Holds(kind, val, new)
  BY <1>1
<1>2. CommandRight(edit) /\ EditKnown(scenario.requests[p], edit)
  BY SentKnown
<1>3. CASE HasSkipped(p)
  <2>1. Needless(edit.edit, old) /\ new = old
    BY <1>1, <1>3, ItemStays DEF HasSkipped
  <2> QED
    BY <2>1 DEF Needless, Slices, Holds
<1>4. CASE HasSaved(p)
  <2>1. Item(edit.key)' # Item(edit.key)
    BY <1>4, SavedWrites
  <2>2. CASE kind \in {"add", "append", "remove"} /\ edit.key[1] \in Elements
    <3>1. Sets(kind, val, old, new)
      BY <1>1, <2>1, <2>2, ListChanges
    <3> QED
      BY <2>2, <3>1 DEF Sets, Holds
  <2>3. CASE kind = "rating" /\ edit.key[1] = "ratings"
    <3>1. val \in DOMAIN new
      BY <1>1, <2>1, <2>3, RatingsGrow
    <3> QED
      BY <2>3, <3>1 DEF Holds
  <2>4. CASE kind \in {"score", "view"}
    BY <2>4 DEF Holds
  <2> QED
    BY <1>2, <2>2, <2>3, <2>4, EditKinds
<1> QED
  BY <1>3, <1>4

LEMMA AdvanceHolds ==
  ASSUME NeedsInv, TasksKnown, CallsRight, EtagsRight, SeenFresh, OnceEach, CommentsNew, EditsHold,
         NEW p, Advances(p), UNCHANGED <<scenario, started, overAt>>
  PROVE  EditsHold'
<1>1. Gone' = Gone
  BY GoneStays
<1> SUFFICES ASSUME NEW c \in started, procs'[c].ok,
                    NEW edit \in Sent(c), edit \notin ToSet(procs'[c].todo), edit.do = "edit",
                    edit.key \notin Gone, ~Undone(c, edit)
             PROVE  Holds(edit.edit.kind, edit.edit.val, Item(edit.key)'.value)
  BY <1>1 DEF EditsHold, Sent, Undone
<1>2. c \in Procs /\ p \in Procs
  BY SentKnown, AdvanceFacts
<1>3. procs[c].ok
  <2>1. CASE c = p
    BY <1>2, <2>1 DEF TasksKnown, Advances
  <2>2. CASE c # p
    BY <1>2, <2>2, AdvanceFacts
  <2> QED
    BY <2>1, <2>2
<1>4. CASE edit \notin ToSet(procs[c].todo)
  <2>1. Holds(edit.edit.kind, edit.edit.val, Item(edit.key).value)
    BY <1>3, <1>4 DEF EditsHold
  <2> QED
    BY <2>1, HoldsStays
<1>5. CASE edit \in ToSet(procs[c].todo)
  <2>1. c = p
    BY <1>2, <1>5, AdvanceFacts
  <2>2. Command(p) = edit /\ (HasSkipped(p) \/ HasSaved(p))
    BY <1>5, <2>1, EditLeaves
  <2> QED
    BY <2>1, <2>2, HoldsNow
<1> QED
  BY <1>4, <1>5

-----------------------------------------------------------------------------
(* Views are counted. *)

ViewOf(video) == Edit(Views(video), "view", video)

\* Those whose view was counted.
Counted(video, X) ==
  /\ \A c \in X : ViewOf(video) \notin ToSet(procs[c].todo)
  /\ \A c \in Viewers(video) \ X : procs[c].ok => ViewOf(video) \in ToSet(procs[c].todo)
  /\ Item(Views(video)).value = Cardinality(X)

LEMMA ViewsAre == ViewsCounted <=> \A video : \E X \in SUBSET Viewers(video) : Counted(video, X)
BY DEF ViewsCounted, Counted, ViewOf

LEMMA ViewWritten ==
  ASSUME NeedsInv, TasksKnown, CallsRight, EtagsRight, SeenFresh, NEW p, Advances(p), NEW video
  PROVE  \/ Item(Views(video))' = Item(Views(video))
         \/ /\ p \in started /\ Command(p) = ViewOf(video) /\ Command(p) \in Sent(p)
            /\ procs'[p].todo \in {Tail(procs[p].todo), <<>>}
            /\ Item(Views(video))'.value = Item(Views(video)).value + 1
<1> DEFINE key == Views(video)
<1>1. key[1] = "views" /\ key[2] = video
  BY DEF Views
<1>2. key \notin Gone
  BY <1>1, GoneKinds
<1>3. PICK new : new = Item(key)'.value
  OBVIOUS
<1>4. CASE Wrote(p, key, new)
  <2>1. /\ Command(p).do = "edit" /\ Command(p).key = key /\ new \in Results(p)
        /\ procs[p].seen.value = Item(key).value /\ procs'[p].todo \in {Tail(procs[p].todo), <<>>}
    BY <1>1, <1>4 DEF Wrote, Wholes
  <2>2. Command(p).edit.kind = "view"
    BY <1>1, <2>1, AdvanceFacts DEF CommandRight, EditRight, Timelines
  <2>3. new = Item(key).value + 1
    BY <2>1, <2>2 DEF Results
  <2>4. p \in started /\ Command(p) \in Sent(p)
    BY <1>1, <2>1, EditorIs DEF Reserved, Timelines
  <2>5. PICK v \in Names : Command(p) = ViewOf(v)
    BY <2>1, <2>2, <2>4, SentKnown DEF EditKnown, ViewOf
  <2>6. Views(v)[2] = v /\ Command(p).key = Views(v)
    BY <2>5, EditIs DEF Views, ViewOf
  <2>7. v = video
    BY <1>1, <2>1, <2>6
  <2> QED
    BY <1>3, <2>1, <2>3, <2>4, <2>5, <2>7
<1> QED
  BY <1>2, <1>3, <1>4, ItemWrites

LEMMA AdvanceViews ==
  ASSUME NeedsInv, TasksKnown, CallsRight, EtagsRight, SeenFresh, ViewsCounted,
         NEW p, Advances(p), UNCHANGED <<scenario, started, overAt>>
  PROVE  ViewsCounted'
<1> SUFFICES ASSUME NEW video PROVE (\E X \in SUBSET Viewers(video) : Counted(video, X))'
  BY DEF ViewsCounted, Counted, ViewOf
<1>1. PICK X \in SUBSET Viewers(video) : Counted(video, X)
  BY ViewsAre
<1>2. Viewers(video)' = Viewers(video)
  BY DEF Viewers, Sent
<1>3. Viewers(video) \subseteq started /\ started \subseteq Calls /\ Calls \subseteq Procs
  BY DaprAssumption DEF Viewers, CallsRight
<1>4. /\ p \in Procs /\ \A q \in Procs \ {p} : procs'[q] = procs[q]
      /\ ToSet(procs'[p].todo) \subseteq ToSet(procs[p].todo)
      /\ Command(p) \in ToSet(procs[p].todo)
  BY AdvanceFacts, TodoChanges
<1>5. PICK edit : edit = ViewOf(video)
  OBVIOUS
<1>6. edit.do = "edit" /\ edit.key = Views(video) /\ edit.edit.kind = "view"
  BY <1>5, EditIs DEF ViewOf
<1>7. CASE Item(Views(video))' = Item(Views(video))
  <2>1. ASSUME NEW c \in X PROVE edit \notin ToSet(procs'[c].todo)
    BY <1>1, <1>3, <1>4, <1>5 DEF Counted
  <2>2. ASSUME NEW c \in Viewers(video) \ X, procs'[c].ok PROVE edit \in ToSet(procs'[c].todo)
    <3>1. CASE c # p
      BY <1>1, <1>3, <1>4, <1>5, <2>2, <3>1 DEF Counted
    <3>2. CASE c = p
      <4>1. p \in started /\ procs[p].ok
        BY <1>3, <1>4, <3>2 DEF TasksKnown, Advances
      <4>2. edit \in ToSet(procs[p].todo)
        BY <1>1, <1>5, <3>2, <4>1 DEF Counted
      <4> SUFFICES ASSUME edit \notin ToSet(procs'[p].todo) PROVE FALSE
        BY <3>2
      <4>3. Command(p) = edit /\ (HasSkipped(p) \/ HasSaved(p))
        BY <1>6, <2>2, <3>2, <4>1, <4>2, EditLeaves
      <4>4. ~HasSkipped(p)
        BY <1>6, <4>3 DEF HasSkipped, Needless, Slices
      <4> QED
        BY <1>6, <1>7, <4>3, <4>4, SavedWrites
    <3> QED
      BY <3>1, <3>2
  <2>3. Item(Views(video))'.value = Cardinality(X)
    BY <1>1, <1>7 DEF Counted
  <2>4. Counted(video, X)'
    BY <1>2, <1>5, <2>1, <2>2, <2>3 DEF Counted, ViewOf
  <2> QED
    BY <1>2, <2>4
<1>8. CASE /\ p \in started /\ Command(p) = ViewOf(video) /\ Command(p) \in Sent(p)
           /\ procs'[p].todo \in {Tail(procs[p].todo), <<>>}
           /\ Item(Views(video))'.value = Item(Views(video)).value + 1
  <2>1. p \in Viewers(video)
    BY <1>8 DEF Viewers, ViewOf
  <2>2. p \notin X
    BY <1>1, <1>4, <1>8 DEF Counted
  <2>3. edit \notin ToSet(procs'[p].todo)
    <3>1. IsList(procs[p].todo) /\ procs[p].todo # <<>> /\ Command(p) = Head(procs[p].todo)
      BY AdvanceFacts
    <3>2. Once(procs[p].todo)
      BY <1>4, <1>8 DEF TasksKnown
    <3>3. edit \notin ToSet(Tail(procs[p].todo))
      BY <1>5, <1>6, <1>8, <3>1, <3>2, OnceTail
    <3> QED
      BY <1>8, <3>3, NothingKnown
  <2>4. PICK Y : Y = X \cup {p}
    OBVIOUS
  <2>5. Cardinality(Y) = Cardinality(X) + 1
    <3>1. IsFiniteSet(X)
      BY <1>1, <1>3, FS_Subset, DaprAssumption
    <3> QED
      BY <2>2, <2>4, <3>1, FS_AddElement
  <2>6. \A c \in Y : edit \notin ToSet(procs'[c].todo)
    BY <1>1, <1>3, <1>4, <1>5, <2>3, <2>4 DEF Counted
  <2>7. \A c \in Viewers(video) \ Y : procs'[c].ok => edit \in ToSet(procs'[c].todo)
    BY <1>1, <1>3, <1>4, <1>5, <2>4 DEF Counted
  <2>8. Item(Views(video))'.value = Cardinality(Y)
    BY <1>1, <1>8, <2>5 DEF Counted
  <2>9. Counted(video, Y)'
    BY <1>2, <1>5, <2>6, <2>7, <2>8 DEF Counted, ViewOf
  <2>10. Y \in SUBSET Viewers(video)
    BY <2>1, <2>4
  <2> QED
    BY <1>2, <2>9, <2>10
<1> QED
  BY <1>7, <1>8, ViewWritten

LEMMA CallsAdvance ==
  ASSUME NeedsInv, CallsInv, NEW p, Advances(p), UNCHANGED <<scenario, started, overAt>>
  PROVE  CallsInv'
<1>1. TasksKnown' /\ CallsRight' /\ EtagsRight' /\ SeenFresh'
  BY AdvanceTasks, AdvanceCalls, AdvanceEtags, AdvanceSeen DEF CallsInv
<1>2. OnceEach' /\ CommentsNew'
  BY AdvanceOnce, AdvanceComments DEF CallsInv
<1>3. EditsHold' /\ ViewsCounted'
  BY AdvanceHolds, AdvanceViews DEF CallsInv
<1> QED
  BY <1>1, <1>2, <1>3 DEF CallsInv

-----------------------------------------------------------------------------
(* The steps that no request takes. *)

LEMMA OneForeign ==
  ASSUME NEW a, a.do = "edit" => a.key[1] \in Reserved
  PROVE  Foreign(<<a>>)
<1>1. Len(<<a>>) = 1 /\ <<a>>[1] = a
  OBVIOUS
<1>2. \A i \in 1..Len(<<a>>) : i = 1
  BY <1>1
<1> QED
  BY <1>1, <1>2 DEF Foreign

LEMMA TwoForeign ==
  ASSUME NEW a, NEW b, a.do = "edit" => a.key[1] \in Reserved,
         b.do = "edit" => b.key[1] \in Reserved
  PROVE  Foreign(<<a, b>>)
<1>1. Len(<<a, b>>) = 2 /\ <<a, b>>[1] = a /\ <<a, b>>[2] = b
  OBVIOUS
<1>2. \A i \in 1..Len(<<a, b>>) : i \in {1, 2}
  BY <1>1
<1> QED
  BY <1>1, <1>2 DEF Foreign

LEMMA AnalysesForeign ==
  ASSUME NEW about
  PROVE  /\ Foreign(SentimentAnalysis(about)) /\ Foreign(ObjectDetect(about))
         /\ Foreign(ScaleVideo(about)) /\ Foreign(VideoThumbnail(about))
<1>1. \A field : UpdateMeta(about, field).key[1] \in Reserved
  BY DEF UpdateMeta, Edit, Reserved
<1>2. \A key : Get(key).do = "get" /\ Need(key).do = "need" /\ Store(key).do = "store"
  BY DEF Get, Need, Store, Save
<1>3. Foreign(SentimentAnalysis(about))
  BY <1>1, OneForeign DEF SentimentAnalysis
<1>4. Foreign(ObjectDetect(about))
  BY <1>1, <1>2, TwoForeign DEF ObjectDetect
<1>5. Foreign(ScaleVideo(about)) /\ Foreign(VideoThumbnail(about))
  BY <1>2, TwoForeign DEF ScaleVideo, VideoThumbnail
<1> QED
  BY <1>3, <1>4, <1>5

LEMMA JobForeign ==
  ASSUME NEW e, e.kind \in Stages, EventRight(e)
  PROVE  Foreign(Job(e))
<1>1. /\ \A key : Get(key).do = "get" /\ \A value : Save(key, value).do = "store"
      /\ \A event : Publish(event).do = "publish"
  BY DEF Get, Save, Publish
<1>2. CASE e.kind = "meta"
  BY <1>1, <1>2, TwoForeign DEF Job, ExtractMeta
<1>3. CASE e.kind = "scene"
  <2>1. e.about \in DOMAIN FramesOf
    BY <1>3 DEF EventRight
  <2>2. PICK r, f, n : r = ExtractScene(e) /\ IsScene(r, e, f, n)
    BY <2>1, SceneIs
  <2>3. /\ n \in Nat /\ Len(r) = 2 * n + 1 /\ r[1] = Get(Footage(e.about))
        /\ \A i \in 1..n : r[i + 1] = Save(Frame(f[i]), "found")
        /\ \A i \in 1..n : r[(n + 1) + i] = Publish(Event("face", e.user, f[i]))
    BY <2>2 DEF IsScene
  <2>4. ASSUME NEW k \in 1..Len(r) PROVE r[k].do # "edit"
    <3>1. CASE k = 1
      BY <1>1, <2>3, <3>1
    <3>2. CASE k \in 2..(n + 1)
      <4>1. k - 1 \in 1..n /\ (k - 1) + 1 = k
        BY <2>3, <3>2
      <4>2. r[k] = Save(Frame(f[k - 1]), "found")
        BY <2>3, <4>1
      <4> QED
        BY <1>1, <4>2
    <3>3. CASE k \in (n + 2)..(2 * n + 1)
      <4>1. k - (n + 1) \in 1..n /\ (n + 1) + (k - (n + 1)) = k
        BY <2>3, <3>3
      <4>2. r[k] = Publish(Event("face", e.user, f[k - (n + 1)]))
        BY <2>3, <4>1
      <4> QED
        BY <1>1, <4>2
    <3> QED
      BY <2>3, <3>1, <3>2, <3>3
  <2>5. Job(e) = r
    BY <1>3, <2>2 DEF Job
  <2> QED
    BY <2>4, <2>5 DEF Foreign
<1>4. CASE e.kind = "face"
  BY <1>1, <1>4, TwoForeign DEF Job, FaceDetect
<1> QED
  BY <1>2, <1>3, <1>4 DEF Stages

\* No call is at work.
Aside(q) == q \notin Calls /\ Foreign(procs'[q].todo) /\ procs'[q].at = "next"
Apart ==
  /\ UNCHANGED <<items, scenario, started, overAt>>
  /\ \A q \in Procs : procs'[q] = procs[q] \/ Aside(q)

LEMMA BeginApart ==
  ASSUME NeedsInv, NEW q \in Procs \ Calls, NEW commands, IsList(commands), Foreign(commands),
         Begin(q, commands), UNCHANGED <<items, scenario, started, overAt>>
  PROVE  Apart
<1>1. OthersStay(q) /\ Reached(q, commands, <<>>, TRUE)
  BY BeginFacts DEF NeedsInv
<1> QED
  BY <1>1 DEF Apart, Aside, OthersStay, Reached

LEMMA DeliverApart ==
  ASSUME NeedsInv, NEW d \in Deliveries, NEW e \in pending, Deliver(d, e),
         UNCHANGED <<scenario, started, overAt>>
  PROVE  Apart
<1>1. e.kind \in SubscribedEvents /\ d \in Procs \ Calls /\ UNCHANGED items
  BY DaprTimelinesAssumption, DaprAssumption DEF Deliver
<1>2. CASE e.kind = "sentiment"
  BY <1>1, <1>2, AnalysesReady, AnalysesForeign, BeginApart DEF Deliver
<1>3. CASE e.kind = "objects"
  BY <1>1, <1>3, AnalysesReady, AnalysesForeign, BeginApart DEF Deliver
<1>4. CASE e.kind = "scale"
  BY <1>1, <1>4, AnalysesReady, AnalysesForeign, BeginApart DEF Deliver
<1>5. CASE e.kind = "thumbnail"
  BY <1>1, <1>5, AnalysesReady, AnalysesForeign, BeginApart DEF Deliver
<1>6. CASE e.kind \in TimelineEvents
  <2>1. UNCHANGED procs
    BY <1>6 DEF Deliver, TimelineEvents
  <2> QED
    BY <1>1, <2>1 DEF Apart
<1> QED
  BY <1>1, <1>2, <1>3, <1>4, <1>5, <1>6 DEF SubscribedEvents

LEMMA TakeApart ==
  ASSUME NeedsInv, NEW w \in Workers, TakeJob(w), UNCHANGED <<scenario, started, overAt>>
  PROVE  Apart
<1>1. PICK job, event, key, command :
        /\ job = Head(queue) /\ event = updates[job.delivery].event
        /\ key = updates[job.delivery].keys[job.index]
        /\ command = Edit(key, IF event.kind = "add" THEN "post" ELSE "remove", event.about)
  OBVIOUS
<1>2. /\ queue # <<>> /\ Begin(w, <<command>>) /\ UNCHANGED items
  BY <1>1 DEF TakeJob
<1>3. JobRight(job, updates)
  <2>1. IsList(queue) /\ \A k \in 1..Len(queue) : JobRight(queue[k], updates)
    BY DEF NeedsInv, JobsRight
  <2>2. Len(queue) \in Nat \ {0} /\ job = queue[1] /\ 1 \in 1..Len(queue)
    BY <1>1, <1>2, <2>1, ListFacts
  <2> QED
    BY <2>1, <2>2
<1>4. key[1] \in Timelines
  <2>1. /\ job.delivery \in Deliveries /\ job.index \in Nat
        /\ updates[job.delivery].got < job.index /\ job.index <= updates[job.delivery].sent
    BY <1>3 DEF JobRight
  <2>2. UpdateRight(updates[job.delivery], There)
    BY <2>1 DEF NeedsInv, UpdatesReady
  <2>3. PICK u : u = updates[job.delivery]
    OBVIOUS
  <2>4. u.at \in {"push", "collect"} /\ u.sent \in Nat /\ u.got \in Nat
    BY <2>1, <2>2, <2>3 DEF UpdateRight
  <2>5. IsList(u.keys) /\ u.sent <= Len(u.keys) /\ \A i \in 1..Len(u.keys) : u.keys[i][1] \in Timelines
    BY <2>2, <2>3, <2>4 DEF UpdateRight
  <2>6. job.index \in 1..Len(u.keys)
    BY <2>1, <2>3, <2>4, <2>5, ListFacts
  <2> QED
    BY <1>1, <2>3, <2>5, <2>6
<1>5. command.do = "edit" /\ command.key = key
  BY <1>1, EditIs
<1>6. Foreign(<<command>>)
  BY <1>4, <1>5, OneForeign DEF Reserved
<1>7. w \in Procs \ Calls
  BY DaprTimelinesAssumption, DaprAssumption
<1> QED
  BY <1>2, <1>6, <1>7, OneList, BeginApart

LEMMA PipeTakeApart ==
  ASSUME NeedsInv, NEW w \in PipeWorkers, NEW priority \in Priorities, Take(w, priority),
         UNCHANGED <<scenario, started, overAt>>
  PROVE  Apart
<1>1. PICK s, waiting, e : s = StageOf[w] /\ waiting = line[s][priority] /\ e = Head(waiting)
  OBVIOUS
<1>2. waiting # <<>> /\ Begin(w, Job(e)) /\ UNCHANGED items
  BY <1>1 DEF Take, Waiting
<1>3. s \in Stages /\ w \in Procs \ Calls
  BY <1>1, DaprPipeAssumption, DaprAssumption
<1>4. IsList(waiting) /\ \A f \in ToSet(waiting) : f.kind = s /\ EventReady(f, There)
  BY <1>1, <1>3 DEF NeedsInv, LinesReady
<1>5. e \in ToSet(waiting)
  BY <1>1, <1>2, <1>4, OnceTail
<1>6. e.kind = s /\ EventRight(e)
  BY <1>4, <1>5 DEF EventReady
<1>7. IsList(Job(e)) /\ Foreign(Job(e))
  BY <1>3, <1>6, JobReady, JobForeign
<1> QED
  BY <1>2, <1>3, <1>7, BeginApart

LEMMA DetectApart ==
  ASSUME NeedsInv, NEW w \in PipeWorkers, DetectFails(w), UNCHANGED <<scenario, started, overAt>>
  PROVE  Apart
<1>1. PICK a : a.do = "store" /\ Begin(w, <<a>>)
  BY DetectFacts
<1>2. w \in Procs \ Calls /\ UNCHANGED items
  BY DetectFacts
<1>3. IsList(<<a>>) /\ Foreign(<<a>>)
  BY <1>1, OneList, OneForeign
<1> QED
  BY <1>1, <1>2, <1>3, BeginApart

LEMMA ApartCalls ==
  ASSUME NeedsInv, CallsInv, Apart
  PROVE  CallsInv'
<1>1. /\ UNCHANGED <<items, scenario, started, overAt>>
      /\ \A q \in Procs : procs'[q] = procs[q] \/ Aside(q)
  BY DEF Apart
<1>2. Gone' = Gone /\ (\A c : Sent(c)' = Sent(c)) /\ \A key : Item(key)' = Item(key)
  BY <1>1, GoneStays, ItemStays DEF Sent
<1>3. started \subseteq Calls /\ Calls \subseteq Procs
  BY DaprAssumption DEF CallsInv, CallsRight
<1>4. \A c \in Calls : procs'[c] = procs[c]
  BY <1>1, <1>3 DEF Aside
<1>5. TasksKnown'
  <2> SUFFICES ASSUME NEW q \in Procs
               PROVE  IF q \in started
                      THEN /\ ToSet(procs'[q].todo) \subseteq Sent(q) /\ Once(procs'[q].todo)
                           /\ procs'[q].todo # <<>> => procs'[q].ok
                      ELSE Foreign(procs'[q].todo)
    BY <1>1, <1>2 DEF TasksKnown, Runs
  <2>1. IF q \in started
        THEN /\ ToSet(procs[q].todo) \subseteq Sent(q) /\ Once(procs[q].todo)
             /\ procs[q].todo # <<>> => procs[q].ok
        ELSE Foreign(procs[q].todo)
    BY DEF CallsInv, TasksKnown, Runs
  <2>2. CASE procs'[q] = procs[q]
    BY <2>1, <2>2
  <2>3. CASE Aside(q)
    BY <1>3, <2>3 DEF Aside
  <2> QED
    BY <1>1, <2>2, <2>3
<1>6. CallsRight'
  <2>1. \A c \in Calls : \A d \in overAt[c] : ~Runs(d)'
    BY <1>3, <1>4 DEF CallsInv, CallsRight, Runs
  <2> QED
    BY <1>1, <2>1 DEF CallsInv, CallsRight
<1>7. EtagsRight'
  BY <1>1 DEF CallsInv, EtagsRight
<1>8. SeenFresh'
  <2> SUFFICES ASSUME NEW q \in Procs, procs'[q].at = "save"
               PROVE  Fresh(Command(q).key, Command(q).edit, procs[q].seen)'
    BY DEF SeenFresh
  <2>1. procs'[q] = procs[q]
    BY <1>1 DEF Aside
  <2>2. Command(q)' = Command(q)
    BY <2>1 DEF Command
  <2>3. PICK key, edit, seen : key = Command(q).key /\ edit = Command(q).edit /\ seen = procs[q].seen
    OBVIOUS
  <2>4. Fresh(key, edit, seen)
    BY <2>1, <2>3 DEF CallsInv, SeenFresh
  <2>5. Fresh(key, edit, seen)'
    BY <1>2, <2>4 DEF Fresh
  <2> QED
    BY <2>1, <2>2, <2>3, <2>5
<1>9. OnceEach' /\ CommentsNew'
  <2>1. OnceEach'
    BY <1>2 DEF CallsInv, OnceEach
  <2>2. CommentsNew'
    BY <1>1, <1>2, <1>3, <1>4 DEF CallsInv, CommentsNew
  <2> QED
    BY <2>1, <2>2
<1>10. EditsHold'
  BY <1>1, <1>2, <1>3, <1>4 DEF CallsInv, EditsHold, Undone
<1>11. ViewsCounted'
  <2>1. \A video : Viewers(video)' = Viewers(video)
    BY <1>1, <1>2 DEF Viewers
  <2>2. \A video, X : X \in SUBSET Viewers(video) => Counted(video, X)' = Counted(video, X)
    BY <1>2, <1>3, <1>4, <2>1 DEF Counted, Viewers
  <2> SUFFICES ASSUME NEW video PROVE (\E X \in SUBSET Viewers(video) : Counted(video, X))'
    BY DEF ViewsCounted, Counted, ViewOf
  <2>3. PICK X \in SUBSET Viewers(video) : Counted(video, X)
    BY ViewsAre DEF CallsInv
  <2> QED
    BY <2>1, <2>2, <2>3
<1> QED
  BY <1>5, <1>6, <1>7, <1>8, <1>9, <1>10, <1>11 DEF CallsInv

LEMMA SendCalls ==
  ASSUME NeedsInv, CallsInv, NEW c \in Calls, SendRequest(c)
  PROVE  CallsInv'
<1>1. PICK request : request = scenario.requests[c]
  OBVIOUS
<1>2. /\ c \in DOMAIN scenario.requests /\ c \notin started /\ Begin(c, request)
      /\ started' = started \cup {c} /\ overAt' = [overAt EXCEPT ![c] = Over]
      /\ UNCHANGED <<items, scenario>>
  BY <1>1 DEF SendRequest
<1>3. IsList(request) /\ RequestKnown(request)
  <2>1. IsRequest(request)
    BY <1>1, <1>2, DaprAssumption DEF ScenariosAssumption, NeedsInv
  <2> QED
    BY <2>1, RequestsKnown, RequestsRight DEF RequestRight
<1>4. started \subseteq Calls /\ Calls \subseteq Procs
  BY DaprAssumption DEF CallsInv, CallsRight
<1>5. /\ procs'[c].todo = request /\ procs'[c].at = "next" /\ procs'[c].ok = TRUE
      /\ \A q \in Procs \ {c} : procs'[q] = procs[q]
  BY <1>2, <1>3, <1>4, BeginFacts DEF NeedsInv, Reached, OthersStay
<1>6. (\A d : Sent(d)' = Sent(d)) /\ Sent(c) = ToSet(request) /\ \A key : Item(key)' = Item(key)
  BY <1>1, <1>2, ItemStays DEF Sent
<1>7. Gone \subseteq Gone'
  <2>1. Deleted \subseteq Deleted'
    BY <1>2, <1>6 DEF Deleted
  <2> QED
    BY <2>1 DEF Gone
<1>8. TasksKnown'
  <2> SUFFICES ASSUME NEW q \in Procs
               PROVE  IF q \in started'
                      THEN /\ ToSet(procs'[q].todo) \subseteq Sent(q) /\ Once(procs'[q].todo)
                           /\ procs'[q].todo # <<>> => procs'[q].ok
                      ELSE Foreign(procs'[q].todo)
    BY <1>6 DEF TasksKnown, Runs
  <2>1. IF q \in started
        THEN /\ ToSet(procs[q].todo) \subseteq Sent(q) /\ Once(procs[q].todo)
             /\ procs[q].todo # <<>> => procs[q].ok
        ELSE Foreign(procs[q].todo)
    BY DEF CallsInv, TasksKnown, Runs
  <2>2. CASE q = c
    BY <1>2, <1>3, <1>5, <1>6, <2>2 DEF RequestKnown
  <2>3. CASE q # c
    BY <1>2, <1>5, <2>1, <2>3
  <2> QED
    BY <2>2, <2>3
<1>9. CallsRight'
  <2>1. /\ overAt' = [b \in Calls |-> overAt'[b]] /\ overAt'[c] = Over
        /\ \A b \in Calls \ {c} : overAt'[b] = overAt[b]
    BY <1>2 DEF CallsInv, CallsRight
  <2>2. ASSUME NEW b \in Calls, NEW d \in overAt'[b] PROVE d \in started' /\ ~Runs(d)'
    <3>1. d \in started /\ ~Runs(d)
      BY <2>1 DEF CallsInv, CallsRight, Over
    <3>2. procs'[d] = procs[d]
      BY <1>2, <1>4, <1>5, <3>1
    <3> QED
      BY <1>2, <3>1, <3>2 DEF Runs
  <2>3. started' \subseteq Calls /\ started' \subseteq DOMAIN scenario.requests
    BY <1>2 DEF CallsInv, CallsRight
  <2> QED
    BY <1>2, <2>1, <2>2, <2>3 DEF CallsRight
<1>10. EtagsRight'
  BY <1>2 DEF CallsInv, EtagsRight
<1>11. SeenFresh'
  <2> SUFFICES ASSUME NEW q \in Procs, procs'[q].at = "save"
               PROVE  Fresh(Command(q).key, Command(q).edit, procs[q].seen)'
    BY DEF SeenFresh
  <2>1. procs'[q] = procs[q]
    BY <1>5
  <2>2. Command(q)' = Command(q)
    BY <2>1 DEF Command
  <2>3. PICK key, edit, seen : key = Command(q).key /\ edit = Command(q).edit /\ seen = procs[q].seen
    OBVIOUS
  <2>4. Fresh(key, edit, seen)
    BY <2>1, <2>3 DEF CallsInv, SeenFresh
  <2>5. Fresh(key, edit, seen)'
    BY <1>6, <1>7, <2>4 DEF Fresh
  <2> QED
    BY <2>1, <2>2, <2>3, <2>5
<1>12. OnceEach' /\ CommentsNew'
  <2>1. OnceEach'
    BY <1>6, <1>7 DEF CallsInv, OnceEach
  <2>2. CommentsNew'
    BY <1>2, <1>4, <1>5, <1>6, <1>7 DEF CallsInv, CommentsNew
  <2> QED
    BY <2>1, <2>2
<1>13. EditsHold'
  <2> SUFFICES ASSUME NEW b \in started', procs'[b].ok,
                      NEW edit \in Sent(b), edit \notin ToSet(procs'[b].todo), edit.do = "edit"
               PROVE  \/ Holds(edit.edit.kind, edit.edit.val, Item(edit.key).value)
                      \/ edit.key \in Gone' \/ Undone(b, edit)'
    BY <1>6 DEF EditsHold
  <2>1. b # c
    BY <1>5, <1>6
  <2>2. b \in started /\ procs'[b] = procs[b]
    BY <1>2, <1>4, <1>5, <2>1
  <2>3. \/ Holds(edit.edit.kind, edit.edit.val, Item(edit.key).value)
        \/ edit.key \in Gone \/ Undone(b, edit)
    BY <2>2 DEF CallsInv, EditsHold
  <2>4. overAt'[b] = overAt[b]
    BY <1>2, <1>4, <2>1, <2>2 DEF CallsInv, CallsRight
  <2>5. Undone(b, edit) => Undone(b, edit)'
    BY <1>2, <1>6, <2>4 DEF Undone
  <2> QED
    BY <1>7, <2>3, <2>5
<1>14. ViewsCounted'
  <2> SUFFICES ASSUME NEW video PROVE (\E X \in SUBSET Viewers(video) : Counted(video, X))'
    BY DEF ViewsCounted, Counted, ViewOf
  <2>1. PICK X \in SUBSET Viewers(video) : Counted(video, X)
    BY ViewsAre DEF CallsInv
  <2>2. Viewers(video) \subseteq Viewers(video)' /\ Viewers(video) \subseteq started
    BY <1>2, <1>6 DEF Viewers
  <2>3. PICK edit : edit = ViewOf(video)
    OBVIOUS
  <2>4. \A b \in X : edit \notin ToSet(procs'[b].todo)
    BY <1>2, <1>4, <1>5, <2>1, <2>2, <2>3 DEF Counted
  <2>5. ASSUME NEW b \in Viewers(video)' \ X, procs'[b].ok PROVE edit \in ToSet(procs'[b].todo)
    <3>1. CASE b = c
      <4>1. edit \in Sent(c)
        BY <1>6, <2>3, <2>5, <3>1 DEF Viewers, ViewOf
      <4> QED
        BY <1>5, <1>6, <3>1, <4>1
    <3>2. CASE b # c
      <4>1. b \in Viewers(video) \ X /\ procs'[b] = procs[b]
        BY <1>2, <1>4, <1>5, <1>6, <2>5, <3>2 DEF Viewers
      <4> QED
        BY <2>1, <2>3, <2>5, <4>1 DEF Counted
    <3> QED
      BY <3>1, <3>2
  <2>6. Item(Views(video))'.value = Cardinality(X)
    BY <1>6, <2>1 DEF Counted
  <2>7. Counted(video, X)'
    BY <2>3, <2>4, <2>5, <2>6 DEF Counted, ViewOf
  <2> QED
    BY <2>1, <2>2, <2>7
<1> QED
  BY <1>8, <1>9, <1>10, <1>11, <1>12, <1>13, <1>14 DEF CallsInv

LEMMA CallsInit == Init => CallsInv
<1> SUFFICES ASSUME Init PROVE CallsInv
  OBVIOUS
<1>1. /\ scenario \in Scenarios /\ items = scenario.stored /\ procs = [p \in Procs |-> Idle]
      /\ started = {} /\ overAt = [c \in Calls |-> {}]
  BY DEF Init, StoreInit
<1>2. \A p \in Procs : procs[p].todo = <<>> /\ procs[p].at = "next"
  <2>1. Idle.todo = <<>> /\ Idle.at = "next"
    BY DEF Idle
  <2> QED
    BY <1>1, <2>1
<1>3. StoredRight(items)
  BY <1>1, DaprAssumption DEF ScenariosAssumption
<1>4. \A key \in DOMAIN items :
        /\ items[key].etag \in Nat \ {0} /\ key[1] # "views"
        /\ key[1] \in Lists => IsInjective(items[key].value)
  BY <1>3 DEF StoredRight
<1>5. TasksKnown
  BY <1>1, <1>2, NothingKnown DEF TasksKnown
<1>6. CallsRight
  BY <1>1 DEF CallsRight
<1>7. EtagsRight /\ SeenFresh /\ EditsHold
  BY <1>1, <1>2, <1>4 DEF EtagsRight, SeenFresh, EditsHold
<1>8. OnceEach
  <2> SUFFICES ASSUME NEW key, key[1] \in Elements PROVE IsInjective(Item(key).value)
    BY DEF OnceEach
  <2>1. CASE key \in DOMAIN items
    <3>1. Item(key).value = items[key].value
      BY <2>1, ItemIs
    <3> QED
      BY <1>4, <2>1, <3>1 DEF Elements, Lists
  <2>2. CASE key \notin DOMAIN items
    <3>1. Item(key).value = <<>>
      BY <2>2, ItemIs DEF Empty, Elements
    <3> QED
      BY <3>1 DEF IsInjective
  <2> QED
    BY <2>1, <2>2
<1>9. CommentsNew
  <2> SUFFICES ASSUME NEW c \in DOMAIN scenario.requests, NEW post \in Posts, NEW x \in Names,
                      scenario.requests[c] = Comment(post, x)
               PROVE  x \notin ToSet(Item(Comments(post)).value)
    BY DEF CommentsNew
  <2>1. CASE Comments(post) \in DOMAIN items
    <3>1. x \notin ToSet(items[Comments(post)].value)
      BY <1>1, <2>1, DaprAssumption DEF ScenariosAssumption
    <3> QED
      BY <2>1, <3>1, ItemIs
  <2>2. CASE Comments(post) \notin DOMAIN items
    <3>1. Comments(post)[1] = "comments"
      BY DEF Comments
    <3>2. Item(Comments(post)).value = <<>>
      BY <2>2, <3>1, ItemIs DEF Empty
    <3> QED
      BY <3>2, NothingKnown
  <2> QED
    BY <2>1, <2>2
<1>10. ViewsCounted
  <2> SUFFICES ASSUME NEW video PROVE \E X \in SUBSET Viewers(video) : Counted(video, X)
    BY ViewsAre
  <2>1. Views(video)[1] = "views"
    BY DEF Views
  <2>2. Views(video) \notin DOMAIN items
    BY <1>4, <2>1
  <2>3. Item(Views(video)).value = 0
    BY <2>1, <2>2, ItemIs DEF Empty
  <2>4. Viewers(video) = {}
    BY <1>1 DEF Viewers
  <2>5. Cardinality({}) = 0
    BY FS_EmptySet
  <2>6. Counted(video, {})
    BY <2>3, <2>4, <2>5 DEF Counted
  <2> QED
    BY <2>6
<1> QED
  BY <1>5, <1>6, <1>7, <1>8, <1>9, <1>10 DEF CallsInv

\* A step is one of a process, of a client, or apart from the calls.
LEMMA StepKinds ==
  ASSUME NeedsInv, [Next]_appVars
  PROVE  \/ Apart \/ \E c \in Calls : SendRequest(c)
         \/ \E p : Advances(p) /\ UNCHANGED <<scenario, started, overAt>>
<1>1. CASE UNCHANGED appVars
  BY <1>1 DEF appVars, storeVars, Apart
<1>2. CASE Step
  <2>1. UNCHANGED <<scenario, started, overAt>> /\ ProcsShaped
    BY <1>2 DEF Step, NeedsInv
  <2>2. CASE SocialStep /\ UNCHANGED pipeVars
    <3>1. CASE \E d \in Deliveries, e \in pending : Deliver(d, e)
      BY <2>1, <3>1, DeliverApart
    <3>2. CASE \E d \in Deliveries :
                 AnalysisEnds(d) \/ AskFollowers(d) \/ AskFails(d) \/ PushJob(d) \/ UpdateEnds(d)
      BY <2>1, <3>2
         DEF AnalysisEnds, AskFollowers, AskFails, PushJob, UpdateEnds, storeVars, Apart
    <3>3. CASE \E w \in Workers : TakeJob(w)
      BY <2>1, <3>3, TakeApart
    <3>4. CASE \E w \in Workers : SendResult(w)
      BY <2>1, <3>4 DEF SendResult, storeVars, Apart
    <3>5. CASE \E p \in Procs : ReadPage(p) \/ ReadPosts(p)
      BY <2>1, <3>5, ReadPageAdvances, ReadPostsAdvances DEF NeedsInv
    <3> QED
      BY <2>2, <3>1, <3>2, <3>3, <3>4, <3>5 DEF SocialStep, TimelineStep
  <2>3. CASE \E p \in Handlers : StoreStep(p) \/ PublishEvent(p) \/ PublishFails(p)
    BY <2>1, <2>3, StoreStepAdvances, PublishingAdvances DEF Handlers
  <2>4. CASE PipeStep
    <3>1. CASE \E e \in pending : PutRequest(e)
      BY <2>1, <3>1 DEF PutRequest, storeVars, Apart
    <3>2. CASE \E w \in PipeWorkers, priority \in Priorities : Take(w, priority)
      BY <2>1, <3>2, PipeTakeApart
    <3>3. CASE \E w \in PipeWorkers : TimesOut(w) \/ FindsNothing(w) \/ JobEnds(w)
      BY <2>1, <3>3 DEF TimesOut, FindsNothing, JobEnds, storeVars, Apart
    <3>4. CASE \E w \in PipeWorkers : Works(w) \/ ReadFails(w) \/ WorkerDies(w)
      <4>1. PICK w \in PipeWorkers : Works(w) \/ ReadFails(w) \/ WorkerDies(w)
        BY <3>4
      <4>2. w \in Procs
        BY DaprPipeAssumption
      <4>3. CASE Works(w)
        <5>1. StoreStep(w) \/ PublishEvent(w)
          BY <4>3 DEF Works, StoreStep
        <5> QED
          BY <2>1, <4>2, <5>1, StoreStepAdvances, PublishingAdvances
      <4>4. CASE ReadFails(w) \/ WorkerDies(w)
        BY <2>1, <4>2, <4>4, ReadFailsAdvances, WorkerDiesAdvances
      <4> QED
        BY <4>1, <4>3, <4>4
    <3>5. CASE \E w \in PipeWorkers : DetectFails(w)
      BY <2>1, <3>5, DetectApart
    <3> QED
      BY <2>4, <3>1, <3>2, <3>3, <3>4, <3>5 DEF PipeStep, WorkerStep
  <2> QED
    BY <1>2, <2>2, <2>3, <2>4 DEF Step, Work
<1> QED
  BY <1>1, <1>2 DEF Next

LEMMA CallsStep == NeedsInv /\ CallsInv /\ [Next]_appVars => CallsInv'
BY StepKinds, ApartCalls, SendCalls, CallsAdvance

-----------------------------------------------------------------------------
\* An item that is gone is one of a post that is deleted.
LEMMA GonePost ==
  ASSUME NEW key, key \in Gone
  PROVE  key[2] \in Deleted
<1>1. PICK post \in Deleted : key \in ItemsOf(post)
  BY DEF Gone
<1>2. /\ Content(post)[2] = post /\ Meta(post)[2] = post
      /\ Comments(post)[2] = post /\ Upvotes(post)[2] = post
  BY DEF Content, Meta, Comments, Upvotes
<1> QED
  BY <1>1, <1>2 DEF ItemsOf

\* What the calls that succeeded have edited is there, or undone.
CallsKept ==
  \A c \in Succeeded : \A edit \in Sent(c) :
    edit.do = "edit" => Kept(edit) \/ edit.key[2] \in Deleted \/ Undone(c, edit)

LEMMA ViewsKept ==
  ASSUME NeedsInv, CallsInv, NEW video
  PROVE  Value(Views(video)) \in
           Cardinality(Viewings(video) \cap Succeeded)..Cardinality(Viewings(video))
<1>1. PICK X \in SUBSET Viewers(video) : Counted(video, X)
  BY ViewsAre DEF CallsInv
<1>2. Viewers(video) = Viewings(video)
  <2>1. ASSUME NEW c \in started, NEW command \in Sent(c), command.do = "edit",
               command.key = Views(video)
        PROVE  command = ViewOf(video)
    <3>1. CommandRight(command) /\ EditKnown(scenario.requests[c], command)
      BY <2>1, SentKnown DEF CallsInv
    <3>2. Views(video)[1] = "views" /\ Views(video)[2] = video
      BY DEF Views
    <3>3. command.edit.kind = "view"
      BY <2>1, <3>1, <3>2 DEF CommandRight, EditRight, Timelines
    <3>4. PICK v \in Names : command = ViewOf(v)
      BY <3>1, <3>3 DEF EditKnown, ViewOf
    <3>5. command.key = Views(v) /\ Views(v)[2] = v
      BY <3>4, EditIs DEF Views, ViewOf
    <3> QED
      BY <2>1, <3>2, <3>4, <3>5
  <2>2. ViewOf(video).do = "edit" /\ ViewOf(video).key = Views(video)
    BY EditIs DEF ViewOf
  <2> QED
    BY <2>1, <2>2 DEF Viewers, Viewings, ViewOf
<1>3. IsFiniteSet(Viewings(video)) /\ Viewings(video) \subseteq started
  <2>1. Viewings(video) \subseteq Calls /\ Viewings(video) \subseteq started
    BY DEF Viewings, CallsInv, CallsRight
  <2> QED
    BY <2>1, DaprAssumption, FS_Subset
<1>4. IsFiniteSet(X) /\ Cardinality(X) \in Nat /\ Cardinality(Viewings(video)) \in Nat
  BY <1>2, <1>3, FS_Subset, FS_CardinalityType
<1>5. Cardinality(X) <= Cardinality(Viewings(video))
  BY <1>2, <1>3, FS_Subset
<1>6. Viewings(video) \cap Succeeded \subseteq X
  <2> SUFFICES ASSUME NEW c \in Viewings(video) \cap Succeeded, c \notin X PROVE FALSE
    OBVIOUS
  <2>1. procs[c].ok /\ procs[c].todo = <<>>
    BY DEF Succeeded, Over, Runs
  <2>2. ViewOf(video) \in ToSet(procs[c].todo)
    BY <1>1, <1>2, <2>1 DEF Counted
  <2> QED
    BY <2>1, <2>2, NothingKnown
<1>7. PICK Y : Y = Viewings(video) \cap Succeeded
  OBVIOUS
<1>8. Cardinality(Y) \in Nat /\ Cardinality(Y) <= Cardinality(X)
  BY <1>4, <1>6, <1>7, FS_Subset, FS_CardinalityType
<1>9. Value(Views(video)) = Cardinality(X)
  BY <1>1 DEF Counted, Value
<1> QED
  BY <1>4, <1>5, <1>7, <1>8, <1>9

LEMMA CallsAreKept ==
  ASSUME NeedsInv, CallsInv
  PROVE  CallsKept
<1> SUFFICES ASSUME NEW c \in Succeeded, NEW edit \in Sent(c), edit.do = "edit",
                    edit.key[2] \notin Deleted, ~Undone(c, edit)
             PROVE  Kept(edit)
  BY DEF CallsKept
<1> DEFINE kind == edit.edit.kind
           val == edit.edit.val
           value == Item(edit.key).value
<1>1. c \in started /\ procs[c].ok /\ procs[c].todo = <<>>
  BY DEF Succeeded, Over, Runs
<1>2. edit.key \notin Gone
  BY GonePost
<1>3. Holds(kind, val, value)
  BY <1>1, <1>2, NothingKnown DEF CallsInv, EditsHold
<1>4. CommandRight(edit) /\ EditKnown(scenario.requests[c], edit)
  BY <1>1, SentKnown DEF CallsInv
<1>5. CASE kind \in {"add", "append", "remove"} /\ edit.key[1] \in Elements
  <2>1. IsList(value) /\ IsInjective(value)
    BY <1>2, <1>5, ListIs DEF CallsInv
  <2>2. Occurrences(val, value) = IF val \in ToSet(value) THEN 1 ELSE 0
    BY <2>1, OccursOnce
  <2> QED
    BY <1>3, <1>5, <2>2 DEF Kept, Value, Holds
<1>6. CASE kind = "rating"
  BY <1>3, <1>6 DEF Kept, Value, Holds
<1>7. CASE kind = "score"
  BY <1>7 DEF Kept
<1>8. CASE kind = "view"
  <2>1. PICK video \in Names : edit = ViewOf(video)
    BY <1>4, <1>8 DEF EditKnown, ViewOf
  <2>2. edit.key = Views(video) /\ val = video
    BY <2>1, EditIs DEF ViewOf
  <2> QED
    BY <1>8, <2>2, ViewsKept DEF Kept
<1> QED
  BY <1>4, <1>5, <1>6, <1>7, <1>8, EditKinds

-----------------------------------------------------------------------------
(* What the handlers of events have found is kept. *)

Copied == {"scale", "thumbnail"}
Final(e) == IF e.kind \in Copied THEN Store(CopyOf(e)) ELSE UpdateMeta(e.about, e.kind)
Found(e) == IF e.kind \in Copied THEN CopyOf(e) \in DOMAIN items
            ELSE e.kind \in Value(Meta(e.about)) \/ e.about \in Deleted
CommandOf(e, command) ==
  \/ command = Final(e) \/ command.do = "get"
  \/ command.do = "need" /\ e.kind \in Copied /\ command.key = Data(e.about)

\* A handler at work for an event, and what it has done if it has not failed.
Doing(e, proc) ==
  /\ e.kind \in {"sentiment", "objects"} \cup Copied
  /\ \A command \in ToSet(proc.todo) : CommandOf(e, command)
  /\ proc.todo # <<>> => proc.ok
  /\ proc.ok /\ Final(e) \notin ToSet(proc.todo) => Found(e)
Analysing(d) == updates[d].at = "analysis"
FindingsInv ==
  /\ \A h \in handled : h.event.kind \in TimelineEvents \/ Found(h.event)
  /\ \A d \in Deliveries : Analysing(d) => Doing(updates[d].event, procs[d])

LEMMA CopyIs ==
  ASSUME NEW e, e.kind \in Copied
  PROVE  /\ Final(e).do = "store" /\ Final(e).key = CopyOf(e) /\ CopyOf(e) \notin Gone
         /\ Data(e.about) \notin Gone
<1>1. CopyOf(e)[1] \in {"scaled", "thumbnail"}
  BY DEF Copied, CopyOf, Scaled, Thumbnail
<1>2. Final(e).do = "store" /\ Final(e).key = CopyOf(e)
  BY DEF Final, Store, Save
<1> QED
  BY <1>1, <1>2, GoneKinds, WholesStay

LEMMA FindingIs ==
  ASSUME NEW e, e.kind \notin Copied
  PROVE  /\ Final(e).do = "edit" /\ Final(e).key = Meta(e.about)
         /\ Final(e).edit.kind = "meta" /\ Final(e).edit.val = e.kind
         /\ Meta(e.about)[1] = "meta of post"
         /\ Meta(e.about) \in Gone => e.about \in Deleted
<1>1. Meta(e.about)[1] = "meta of post" /\ Meta(e.about)[2] = e.about
  BY DEF Meta
<1>2. Final(e) = Edit(Meta(e.about), "meta", e.kind)
  BY DEF Final, UpdateMeta, Meta
<1>3. /\ Final(e).do = "edit" /\ Final(e).key = Meta(e.about)
      /\ Final(e).edit.kind = "meta" /\ Final(e).edit.val = e.kind
  BY <1>2, EditIs
<1>4. Meta(e.about) \in Gone => e.about \in Deleted
  BY <1>1, GonePost
<1> QED
  BY <1>1, <1>3, <1>4

LEMMA MetaGrows ==
  ASSUME NeedsInv, EtagsRight, SeenFresh, NEW p, Advances(p),
         NEW key, key[1] = "meta of post", key \notin Gone
  PROVE  \/ Item(key)' = Item(key)
         \/ /\ Command(p).do = "edit" /\ Command(p).key = key
            /\ Item(key)'.value = Item(key).value \cup {Command(p).edit.val}
<1>1. PICK new : new = Item(key)'.value
  OBVIOUS
<1>2. CASE Wrote(p, key, new)
  <2>1. /\ Command(p).do = "edit" /\ Command(p).key = key /\ new \in Results(p)
        /\ procs[p].seen.value = Item(key).value
    BY <1>2 DEF Wrote, Wholes
  <2>2. Command(p).edit.kind = "meta"
    BY <2>1, AdvanceFacts DEF CommandRight, EditRight, Timelines
  <2>3. new = Item(key).value \cup {Command(p).edit.val}
    BY <2>1, <2>2 DEF Results
  <2> QED
    BY <1>1, <2>1, <2>3
<1> QED
  BY <1>1, <1>2, ItemWrites

LEMMA StoredStays ==
  ASSUME NeedsInv, [Next]_appVars
  PROVE  /\ Deleted \subseteq Deleted'
         /\ \A key \in DOMAIN items : key \in Gone \/ key \in DOMAIN items'
<1>1. CASE UNCHANGED <<items, scenario>> /\ started \subseteq started'
  BY <1>1 DEF Deleted, Sent
<1>2. CASE \E p : Advances(p) /\ UNCHANGED <<scenario, started, overAt>>
  <2>1. Deleted' = Deleted /\ Gone' = Gone
    BY <1>2, GoneStays
  <2>2. There \subseteq There'
    BY <1>2, <2>1, AdvancesReady DEF NeedsInv
  <2> QED
    BY <2>1, <2>2 DEF There
<1> QED
  BY <1>1, <1>2, StepKinds DEF Apart, SendRequest

LEMMA FoundStays ==
  ASSUME NeedsInv, CallsInv, [Next]_appVars, NEW e, Found(e)
  PROVE  Found(e)'
<1>1. CASE e.kind \in Copied
  <2>1. CopyOf(e) \in DOMAIN items'
    BY <1>1, CopyIs, StoredStays DEF Found
  <2> QED
    BY <1>1, <2>1 DEF Found
<1>2. CASE e.kind \notin Copied
  <2> DEFINE key == Meta(e.about)
  <2>1. e.kind \in Item(key).value \/ e.about \in Deleted
    BY <1>2 DEF Found, Value
  <2>2. CASE e.about \in Deleted
    BY <1>2, <2>2, StoredStays DEF Found
  <2>3. CASE e.kind \in Item(key).value /\ e.about \notin Deleted
    <3>1. key \notin Gone /\ key[1] = "meta of post"
      BY <1>2, <2>3, FindingIs
    <3>2. e.kind \in Item(key)'.value
      <4>1. CASE UNCHANGED items
        BY <2>3, <4>1, ItemStays
      <4>2. CASE \E p : Advances(p)
        BY <2>3, <3>1, <4>2, MetaGrows DEF CallsInv
      <4> QED
        BY <4>1, <4>2, StepKinds DEF Apart, SendRequest
    <3> QED
      BY <1>2, <3>2 DEF Found, Value
  <2> QED
    BY <2>1, <2>2, <2>3
<1> QED
  BY <1>1, <1>2

\* A handler that does not fail leaves its last command out only when it is done.
LEMMA FinalLeaves ==
  ASSUME NeedsInv, NEW p, Advances(p), procs'[p].ok, NEW e, EventReady(e, There),
         \A command \in ToSet(procs[p].todo) : CommandOf(e, command),
         Final(e) \in ToSet(procs[p].todo), Final(e) \notin ToSet(procs'[p].todo)
  PROVE  Command(p) = Final(e) /\ (HasSaved(p) \/ HasWritten(p))
<1>1. /\ p \in Procs /\ IsList(procs[p].todo) /\ procs[p].todo # <<>>
      /\ Command(p) = Head(procs[p].todo) /\ Command(p) \in ToSet(procs[p].todo)
  BY AdvanceFacts
<1>2. CommandOf(e, Command(p))
  BY <1>1
<1>3. Final(e).do \in {"edit", "store"}
  BY CopyIs, FindingIs
<1>4. Command(p).do = "need" => Command(p).key \in DOMAIN items
  <2> SUFFICES ASSUME Command(p).do = "need" PROVE Command(p).key \in DOMAIN items
    OBVIOUS
  <2>1. e.kind \in Copied /\ Command(p).key = Data(e.about)
    BY <1>2, <1>3 DEF CommandOf
  <2>2. Data(e.about) \in There
    BY <2>1 DEF EventReady, EventNeeds, Copied
  <2> QED
    BY <2>1, <2>2, CopyIs DEF There
<1>5. ToSet(procs[p].todo) = ToSet(Tail(procs[p].todo)) \cup {Command(p)}
  BY <1>1, OnceTail
<1>6. Goes(p) => Command(p) = Final(e)
  BY <1>5 DEF Goes, Reached
<1>7. ~HasRead(p) /\ ~TriesAgain(p)
  BY DEF HasRead, TriesAgain
<1>8. ~HasTurned(p)
  BY <1>2, <1>3 DEF HasTurned, CommandOf
<1>9. ~HasStopped(p)
  BY <1>4 DEF HasStopped, Reached
<1>10. ~HasPassed(p)
  BY <1>3, <1>6 DEF HasPassed
<1>11. ~HasSkipped(p)
  <2> SUFFICES ASSUME HasSkipped(p) PROVE FALSE
    OBVIOUS
  <2>1. Command(p) = Final(e) /\ Command(p).do = "edit" /\ Command(p).edit.kind \in Slices
    BY <1>6 DEF HasSkipped, Needless
  <2> QED
    BY <2>1, CopyIs, FindingIs DEF Slices
<1> QED
  BY <1>6, <1>7, <1>8, <1>9, <1>10, <1>11 DEF Advances, HasSaved, HasWritten

LEMMA DoingAdvances ==
  ASSUME NeedsInv, CallsInv, [Next]_appVars, NEW p, Advances(p), NEW e, EventReady(e, There),
         Doing(e, procs[p])
  PROVE  Doing(e, procs[p])'
<1>1. PICK old : old = procs[p]
  OBVIOUS
<1>2. PICK new : new = procs'[p]
  OBVIOUS
<1>3. /\ ToSet(new.todo) \subseteq ToSet(old.todo)
      /\ old.ok /\ new.todo # <<>> => new.ok
  BY <1>1, <1>2, TodoChanges
<1>4. old.todo # <<>> /\ old.ok
  BY <1>1 DEF Doing, Advances, Runs
<1>5. ASSUME new.ok, Final(e) \notin ToSet(new.todo) PROVE Found(e)'
  <2>1. CASE Final(e) \notin ToSet(old.todo)
    BY <1>1, <1>4, <2>1, FoundStays DEF Doing
  <2>2. CASE Final(e) \in ToSet(old.todo)
    <3>1. Command(p) = Final(e) /\ (HasSaved(p) \/ HasWritten(p))
      BY <1>1, <1>2, <1>5, <2>2, FinalLeaves DEF Doing
    <3>2. CASE e.kind \in Copied
      <4>1. Writes(p) /\ Command(p).do = "store" /\ Command(p).key = CopyOf(e)
        BY <3>1, <3>2, CopyIs DEF HasSaved, Saves, Turn, HasWritten
      <4>2. PICK key, value : key = CopyOf(e) /\ Put(key, value)
        BY <4>1 DEF Writes, Turn
      <4>3. CopyOf(e) \in DOMAIN items'
        BY <4>2, PutFacts
      <4> QED
        BY <3>2, <4>3 DEF Found
    <3>3. CASE e.kind \notin Copied
      <4>1. PICK key : key = Meta(e.about)
        OBVIOUS
      <4>2. /\ Command(p).do = "edit" /\ Command(p).key = key /\ Command(p).edit.val = e.kind
            /\ key[1] = "meta of post" /\ (key \in Gone => e.about \in Deleted)
        BY <3>1, <3>3, <4>1, FindingIs
      <4>3. HasSaved(p)
        BY <3>1, <4>2 DEF HasWritten, Writes, Turn
      <4>4. Item(key)' # Item(key)
        BY <4>2, <4>3, SavedWrites DEF CallsInv
      <4>5. key \notin Gone => e.kind \in Item(key)'.value
        BY <4>2, <4>4, MetaGrows DEF CallsInv
      <4>6. e.kind \in Item(key)'.value \/ e.about \in Deleted'
        BY <4>2, <4>5, StoredStays
      <4> QED
        BY <3>3, <4>1, <4>6 DEF Found, Value
    <3> QED
      BY <3>2, <3>3
  <2> QED
    BY <2>1, <2>2
<1> QED
  BY <1>1, <1>2, <1>3, <1>4, <1>5 DEF Doing

LEMMA FindingsFrom ==
  ASSUME NeedsInv, CallsInv, FindingsInv, [Next]_appVars,
         \A h \in handled' : h \in handled \/ h.event.kind \in TimelineEvents \/ Found(h.event),
         \A d \in Deliveries : Analysing(d)' =>
           \/ Doing(updates[d].event, procs[d])'
           \/ /\ Analysing(d) /\ updates'[d].event = updates[d].event
              /\ procs'[d] = procs[d] \/ Advances(d)
  PROVE  FindingsInv'
<1>1. ASSUME NEW h \in handled', h.event.kind \notin TimelineEvents PROVE Found(h.event)'
  <2>1. Found(h.event)
    BY <1>1 DEF FindingsInv
  <2> QED
    BY <2>1, FoundStays
<1>2. ASSUME NEW d \in Deliveries, Analysing(d)' PROVE Doing(updates[d].event, procs[d])'
  <2>1. CASE Doing(updates[d].event, procs[d])'
    BY <2>1
  <2>2. CASE /\ Analysing(d) /\ updates'[d].event = updates[d].event
             /\ procs'[d] = procs[d] \/ Advances(d)
    <3>1. PICK e : e = updates[d].event
      OBVIOUS
    <3>2. Doing(e, procs[d])
      BY <2>2, <3>1 DEF FindingsInv
    <3>3. EventReady(e, There)
      BY <2>2, <3>1 DEF NeedsInv, UpdatesReady, UpdateRight, Analysing
    <3>4. CASE procs'[d] = procs[d]
      <4>1. Found(e) => Found(e)'
        BY FoundStays
      <4>2. Doing(e, procs[d])'
        BY <3>2, <3>4, <4>1 DEF Doing
      <4> QED
        BY <2>2, <3>1, <4>2
    <3>5. CASE Advances(d)
      <4>1. Doing(e, procs[d])'
        BY <3>2, <3>3, <3>5, DoingAdvances
      <4> QED
        BY <2>2, <3>1, <4>1
    <3> QED
      BY <2>2, <3>4, <3>5
  <2> QED
    BY <1>2, <2>1, <2>2
<1> QED
  BY <1>1, <1>2 DEF FindingsInv

\* A handler starts with all of its commands.
CommandsOf(e, commands) ==
  \/ commands = <<Final(e)>> \/ commands = <<Get(<<"images", e.about>>), Final(e)>>
  \/ e.kind \in Copied /\ commands = <<Need(Data(e.about)), Final(e)>>

LEMMA DoingBegins ==
  ASSUME NEW e, NEW commands, CommandsOf(e, commands)
  PROVE  /\ Final(e) \in ToSet(commands)
         /\ \A command \in ToSet(commands) : CommandOf(e, command)
<1>1. PICK a, b : a = Get(<<"images", e.about>>) /\ b = Need(Data(e.about))
  OBVIOUS
<1>2. a.do = "get" /\ b.do = "need" /\ b.key = Data(e.about)
  BY <1>1 DEF Get, Need
<1>3. PICK f : f = Final(e)
  OBVIOUS
<1>4. /\ ToSet(<<f>>) = {f} /\ ToSet(<<a, f>>) = {a, f} /\ ToSet(<<b, f>>) = {b, f}
  BY DEF ToSet
<1>5. /\ f \in ToSet(commands)
      /\ \A command \in ToSet(commands) : CommandOf(e, command)
  BY <1>1, <1>2, <1>3, <1>4 DEF CommandOf, CommandsOf
<1> QED
  BY <1>3, <1>5

LEMMA DeliverFindings ==
  ASSUME NeedsInv, CallsInv, FindingsInv, [Next]_appVars,
         NEW d \in Deliveries, NEW e \in pending, Deliver(d, e)
  PROVE  FindingsInv'
<1>1. e.kind \in SubscribedEvents /\ d \in Procs /\ UNCHANGED handled
  BY DaprTimelinesAssumption DEF Deliver
<1>2. /\ updates'[d].event = e
      /\ updates'[d].at = IF e.kind \in TimelineEvents THEN "followers" ELSE "analysis"
      /\ \A other \in Deliveries \ {d} : updates'[other] = updates[other]
  <2> DEFINE new == [NoUpdate EXCEPT !.event = e, !.alone = Alone(d, e),
                       !.at = IF e.kind \in TimelineEvents THEN "followers" ELSE "analysis"]
  <2>1. /\ new.event = e
        /\ new.at = IF e.kind \in TimelineEvents THEN "followers" ELSE "analysis"
    BY DEF NoUpdate
  <2>2. updates' = [updates EXCEPT ![d] = new]
    BY DEF Deliver
  <2>3. updates = [c \in Deliveries |-> updates[c]]
    BY DEF NeedsInv, UpdatesReady
  <2> HIDE DEF new
  <2> QED
    BY <2>1, <2>2, <2>3
<1>3. ASSUME NEW commands, Begin(d, commands), IsList(commands)
      PROVE  OthersStay(d) /\ procs'[d].todo = commands /\ procs'[d].ok
  BY <1>1, <1>3, BeginFacts DEF NeedsInv, Reached
<1>4. CASE e.kind \in TimelineEvents
  <2>1. UNCHANGED procs /\ ~Analysing(d)'
    BY <1>2, <1>4 DEF Deliver, TimelineEvents, Analysing
  <2> QED
    BY <1>1, <1>2, <2>1, FindingsFrom DEF Analysing
<1>5. CASE e.kind \notin TimelineEvents
  <2>1. e.kind \in {"sentiment", "objects"} \cup Copied
    BY <1>1, <1>5 DEF SubscribedEvents, Copied
  <2>2. PICK commands : /\ Begin(d, commands) /\ IsList(commands) /\ CommandsOf(e, commands)
    <3>1. CASE e.kind = "sentiment"
      <4>1. SentimentAnalysis(e.about) = <<Final(e)>>
        BY <3>1 DEF SentimentAnalysis, Final, Copied
      <4>2. Begin(d, SentimentAnalysis(e.about)) /\ IsList(SentimentAnalysis(e.about))
        BY <3>1, AnalysesReady DEF Deliver
      <4> QED
        BY <3>1, <4>1, <4>2 DEF CommandsOf, Copied
    <3>2. CASE e.kind = "objects"
      <4>1. ObjectDetect(e.about) = <<Get(<<"images", e.about>>), Final(e)>>
        BY <3>2 DEF ObjectDetect, Final, Copied
      <4>2. Begin(d, ObjectDetect(e.about)) /\ IsList(ObjectDetect(e.about))
        BY <3>2, AnalysesReady DEF Deliver
      <4> QED
        BY <3>2, <4>1, <4>2 DEF CommandsOf, Copied
    <3>3. CASE e.kind = "scale"
      <4>1. ScaleVideo(e.about) = <<Need(Data(e.about)), Final(e)>>
        BY <3>3 DEF ScaleVideo, Final, Copied, CopyOf
      <4>2. Begin(d, ScaleVideo(e.about)) /\ IsList(ScaleVideo(e.about))
        BY <3>3, AnalysesReady DEF Deliver
      <4> QED
        BY <3>3, <4>1, <4>2 DEF CommandsOf, Copied
    <3>4. CASE e.kind = "thumbnail"
      <4>1. VideoThumbnail(e.about) = <<Need(Data(e.about)), Final(e)>>
        BY <3>4 DEF VideoThumbnail, Final, Copied, CopyOf
      <4>2. Begin(d, VideoThumbnail(e.about)) /\ IsList(VideoThumbnail(e.about))
        BY <3>4, AnalysesReady DEF Deliver
      <4> QED
        BY <3>4, <4>1, <4>2 DEF CommandsOf, Copied
    <3> QED
      BY <2>1, <3>1, <3>2, <3>3, <3>4 DEF Copied
  <2>3. OthersStay(d) /\ procs'[d].todo = commands /\ procs'[d].ok
    BY <1>3, <2>2
  <2>4. PICK new : new = procs'[d]
    OBVIOUS
  <2>5. Doing(e, new)'
    <3>1. Final(e) \in ToSet(commands) /\ \A c \in ToSet(commands) : CommandOf(e, c)
      BY <2>2, DoingBegins
    <3> QED
      BY <2>1, <2>3, <2>4, <3>1 DEF Doing
  <2>6. Doing(updates[d].event, procs[d])'
    BY <1>2, <2>4, <2>5
  <2>7. ASSUME NEW c \in Deliveries \ {d} PROVE procs'[c] = procs[c] /\ updates'[c] = updates[c]
    BY <1>2, <2>3, DaprTimelinesAssumption DEF OthersStay
  <2> QED
    BY <1>1, <2>6, <2>7, FindingsFrom DEF Analysing
<1> QED
  BY <1>4, <1>5

\* The handlers are where they were, and nothing was handled.
LEMMA HandlersStay ==
  ASSUME NeedsInv, CallsInv, FindingsInv, [Next]_appVars, UNCHANGED <<updates, handled>>,
         NEW p, Advances(p) \/ p \notin Deliveries, \A q \in Procs \ {p} : procs'[q] = procs[q]
  PROVE  FindingsInv'
<1>1. \A d \in Deliveries : procs'[d] = procs[d] \/ Advances(d)
  BY DaprTimelinesAssumption
<1> QED
  BY <1>1, FindingsFrom DEF Analysing

\* One handler that is at no analysis goes on, or ends.
LEMMA HandlerMoves ==
  ASSUME NeedsInv, CallsInv, FindingsInv, [Next]_appVars, UNCHANGED procs, NEW d,
         \A other \in Deliveries \ {d} : updates'[other] = updates[other],
         d \in Deliveries /\ Analysing(d)' =>
           Analysing(d) /\ updates'[d].event = updates[d].event,
         \A h \in handled' : h \in handled \/ h.event.kind \in TimelineEvents \/ Found(h.event)
  PROVE  FindingsInv'
<1>1. ASSUME NEW other \in Deliveries, Analysing(other)'
      PROVE  /\ Analysing(other) /\ updates'[other].event = updates[other].event
             /\ procs'[other] = procs[other]
  <2>1. CASE other = d
    BY <1>1, <2>1
  <2>2. CASE other # d
    BY <1>1, <2>2 DEF Analysing
  <2> QED
    BY <2>1, <2>2
<1> QED
  BY <1>1, FindingsFrom

LEMMA EndsFindings ==
  ASSUME NeedsInv, CallsInv, FindingsInv, [Next]_appVars, NEW d \in Deliveries,
         AnalysisEnds(d) \/ AskFails(d) \/ UpdateEnds(d)
  PROVE  FindingsInv'
<1>1. Acknowledge(d) /\ UNCHANGED procs
  BY DEF AnalysisEnds, AskFails, UpdateEnds, storeVars
<1>2. updates'[d] = NoUpdate /\ \A other \in Deliveries \ {d} : updates'[other] = updates[other]
  <2>1. updates = [c \in Deliveries |-> updates[c]]
    BY DEF NeedsInv, UpdatesReady
  <2> QED
    BY <1>1, <2>1 DEF Acknowledge
<1>3. ~Analysing(d)'
  BY <1>2 DEF Analysing, NoUpdate
<1>4. PICK e : e = updates[d].event
  OBVIOUS
<1>5. Handled(d).event = e
  BY <1>4 DEF Handled
<1>6. UpdateRight(updates[d], There)
  BY DEF NeedsInv, UpdatesReady
<1>7. ASSUME NEW h \in handled'
      PROVE  h \in handled \/ h.event.kind \in TimelineEvents \/ Found(h.event)
  <2>1. CASE AnalysisEnds(d)
    <3>1. Analysing(d) /\ procs[d].todo = <<>>
      BY <2>1 DEF AnalysisEnds, Analysing, Runs
    <3>2. h \in handled \/ (h = Handled(d) /\ procs[d].ok)
      BY <2>1 DEF AnalysisEnds
    <3>3. procs[d].ok => Found(e)
      BY <1>4, <3>1, NothingKnown DEF FindingsInv, Doing
    <3> QED
      BY <1>5, <3>2, <3>3
  <2>2. CASE AskFails(d)
    BY <2>2 DEF AskFails
  <2>3. CASE UpdateEnds(d)
    <3>1. e.kind \in TimelineEvents
      BY <1>4, <1>6, <2>3 DEF UpdateEnds, UpdateRight
    <3>2. h \in handled \/ h = Handled(d)
      BY <2>3 DEF UpdateEnds
    <3> QED
      BY <1>5, <3>1, <3>2
  <2> QED
    BY <2>1, <2>2, <2>3
<1> QED
  BY <1>1, <1>2, <1>3, <1>7, HandlerMoves

LEMMA MovesFindings ==
  ASSUME NeedsInv, CallsInv, FindingsInv, [Next]_appVars, NEW d \in Deliveries,
         AskFollowers(d) \/ PushJob(d)
  PROVE  FindingsInv'
<1>1. UNCHANGED <<procs, handled>> /\ updates[d].at \in {"followers", "push"}
  BY DEF AskFollowers, PushJob, storeVars
<1>2. DOMAIN updates[d] = {"event", "at", "keys", "sent", "got", "ok", "alone"}
  BY DEF NeedsInv, UpdatesReady, UpdateRight
<1>3. updates = [c \in Deliveries |-> updates[c]]
  BY DEF NeedsInv, UpdatesReady
<1>4. /\ ~Analysing(d)'
      /\ \A other \in Deliveries \ {d} : updates'[other] = updates[other]
  <2>1. CASE AskFollowers(d)
    <3>1. PICK keys : updates' = [updates EXCEPT ![d].at = "push", ![d].keys = keys]
      BY <2>1 DEF AskFollowers
    <3>2. updates'[d].at = "push"
      BY <1>2, <1>3, <3>1
    <3> QED
      BY <1>3, <3>1, <3>2 DEF Analysing
  <2>2. CASE PushJob(d)
    <3>1. PICK next, at : /\ updates' = [updates EXCEPT ![d].sent = next, ![d].at = at]
                          /\ at \in {"push", "collect"}
      <4>1. updates[d].at = "push"
        BY <2>2 DEF PushJob
      <4>2. PICK next, at :
              /\ next = updates[d].sent + 1
              /\ at = IF next = Len(updates[d].keys) THEN "collect" ELSE updates[d].at
        OBVIOUS
      <4>3. updates' = [updates EXCEPT ![d].sent = next, ![d].at = at]
        BY <2>2, <4>2 DEF PushJob
      <4> QED
        BY <4>1, <4>2, <4>3
    <3>2. updates'[d].at = at
      BY <1>2, <1>3, <3>1
    <3> QED
      BY <1>3, <3>1, <3>2 DEF Analysing
  <2> QED
    BY <2>1, <2>2
<1> QED
  BY <1>1, <1>4, HandlerMoves

LEMMA ResultFindings ==
  ASSUME NeedsInv, CallsInv, FindingsInv, [Next]_appVars, NEW w \in Workers, SendResult(w)
  PROVE  FindingsInv'
<1>1. PICK d : d = jobs[w].delivery
  OBVIOUS
<1>2. PICK got, ok : updates' = [updates EXCEPT ![d].got = got, ![d].ok = ok]
  BY <1>1 DEF SendResult
<1>3. UNCHANGED <<procs, handled>>
  BY DEF SendResult, storeVars
<1>4. updates = [c \in Deliveries |-> updates[c]]
  BY DEF NeedsInv, UpdatesReady
<1>5. \A other \in Deliveries \ {d} : updates'[other] = updates[other]
  BY <1>2, <1>4
<1>6. ASSUME d \in Deliveries, Analysing(d)'
      PROVE  Analysing(d) /\ updates'[d].event = updates[d].event
  <2>1. DOMAIN updates[d] = {"event", "at", "keys", "sent", "got", "ok", "alone"}
    BY <1>6 DEF NeedsInv, UpdatesReady, UpdateRight
  <2>2. updates'[d].at = updates[d].at /\ updates'[d].event = updates[d].event
    BY <1>2, <1>4, <1>6, <2>1
  <2> QED
    BY <1>6, <2>2 DEF Analysing
<1> QED
  BY <1>3, <1>5, <1>6, HandlerMoves

LEMMA FindingsInit == Init => FindingsInv
<1> SUFFICES ASSUME Init PROVE FindingsInv
  OBVIOUS
<1>1. handled = {} /\ updates = [d \in Deliveries |-> NoUpdate]
  BY DEF Init, SocialInit, TimelinesInit
<1>2. \A d \in Deliveries : updates[d].at = "idle"
  BY <1>1 DEF NoUpdate
<1> QED
  BY <1>1, <1>2 DEF FindingsInv, Analysing

LEMMA FindingsStep == NeedsInv /\ CallsInv /\ FindingsInv /\ [Next]_appVars => FindingsInv'
<1> SUFFICES ASSUME NeedsInv, CallsInv, FindingsInv, [Next]_appVars PROVE FindingsInv'
  OBVIOUS
<1>1. ASSUME NEW p, Advances(p), UNCHANGED <<updates, handled>> PROVE FindingsInv'
  BY <1>1, HandlersStay DEF Advances, OthersStay
<1>2. ASSUME NEW p \in Procs \ Deliveries, NEW commands, IsList(commands), Begin(p, commands),
             UNCHANGED <<updates, handled>>
      PROVE  FindingsInv'
  BY <1>2, BeginFacts, HandlersStay DEF OthersStay, NeedsInv
<1>3. ProcsShaped
  BY DEF NeedsInv
<1>4. CASE UNCHANGED appVars
  <2>1. UNCHANGED <<procs, updates, handled>>
    BY <1>4 DEF appVars, storeVars, timelineVars
  <2> QED
    BY <2>1, FindingsFrom DEF Analysing
<1>5. CASE \E c \in Calls : SendRequest(c)
  <2>1. PICK c \in Calls : SendRequest(c)
    BY <1>5
  <2>2. /\ c \in DOMAIN scenario.requests /\ Begin(c, scenario.requests[c])
        /\ UNCHANGED <<updates, handled>>
    BY <2>1 DEF SendRequest, timelineVars
  <2>3. IsRequest(scenario.requests[c])
    BY <2>2, DaprAssumption DEF ScenariosAssumption, NeedsInv
  <2>4. IsList(scenario.requests[c]) /\ c \in Procs \ Deliveries
    BY <2>3, RequestsRight, DaprAssumption DEF RequestRight
  <2> QED
    BY <1>2, <2>2, <2>4
<1>6. CASE SocialStep
  <2>1. CASE \E d \in Deliveries, e \in pending : Deliver(d, e)
    BY <2>1, DeliverFindings
  <2>2. CASE \E d \in Deliveries : AnalysisEnds(d) \/ AskFails(d) \/ UpdateEnds(d)
    BY <2>2, EndsFindings
  <2>3. CASE \E d \in Deliveries : AskFollowers(d) \/ PushJob(d)
    BY <2>3, MovesFindings
  <2>4. CASE \E w \in Workers : TakeJob(w)
    <3>1. PICK w \in Workers : TakeJob(w)
      BY <2>4
    <3>2. PICK command : Begin(w, <<command>>) /\ UNCHANGED <<updates, handled>>
      BY <3>1 DEF TakeJob
    <3>3. w \in Procs \ Deliveries
      BY DaprTimelinesAssumption
    <3> QED
      BY <1>2, <3>2, <3>3, OneList
  <2>5. CASE \E w \in Workers : SendResult(w)
    BY <2>5, ResultFindings
  <2>6. CASE \E p \in Procs : ReadPage(p) \/ ReadPosts(p)
    <3>1. PICK p \in Procs : ReadPage(p) \/ ReadPosts(p)
      BY <2>6
    <3>2. UNCHANGED <<updates, handled>>
      BY <3>1 DEF ReadPage, ReadPosts, timelineVars
    <3>3. Advances(p)
      BY <3>1, ReadPageAdvances, ReadPostsAdvances DEF NeedsInv
    <3> QED
      BY <1>1, <3>2, <3>3
  <2> QED
    BY <1>6, <2>1, <2>2, <2>3, <2>4, <2>5, <2>6 DEF SocialStep, TimelineStep
<1>7. CASE \E p \in Handlers : \/ StoreStep(p) /\ UNCHANGED timelineVars
                               \/ PublishEvent(p) \/ PublishFails(p)
  <2>1. PICK p \in Procs : \/ StoreStep(p) /\ UNCHANGED timelineVars
                           \/ PublishEvent(p) \/ PublishFails(p)
    BY <1>7 DEF Handlers
  <2>2. UNCHANGED <<updates, handled>>
    BY <2>1 DEF PublishEvent, PublishFails, timelineVars, handlerVars
  <2> QED
    BY <1>1, <1>3, <2>1, <2>2, StoreStepAdvances, PublishingAdvances
<1>8. CASE PipeStep
  <2>1. UNCHANGED <<updates, handled>>
    BY <1>8 DEF PipeStep, WorkerStep, PutRequest, Take, TimesOut, FindsNothing, Works, JobEnds,
                ReadFails, DetectFails, WorkerDies, PublishEvent, timelineVars, handlerVars
  <2>2. CASE UNCHANGED procs
    BY <2>1, <2>2, FindingsFrom DEF Analysing
  <2>3. CASE \E w \in PipeWorkers, priority \in Priorities : Take(w, priority)
    <3>1. PICK w \in PipeWorkers, priority \in Priorities : Take(w, priority)
      BY <2>3
    <3>2. PICK e : Begin(w, Job(e)) /\ e = Head(Waiting(w, priority)) /\ Waiting(w, priority) # <<>>
      BY <3>1 DEF Take
    <3>3. w \in Procs \ Deliveries /\ StageOf[w] \in Stages
      BY DaprPipeAssumption
    <3>4. e.kind \in Stages /\ EventRight(e)
      <4>1. PICK waiting : waiting = Waiting(w, priority)
        OBVIOUS
      <4>2. IsList(waiting) /\ \A f \in ToSet(waiting) : f.kind = StageOf[w] /\ EventReady(f, There)
        BY <3>3, <4>1 DEF NeedsInv, LinesReady, Waiting
      <4>3. e \in ToSet(waiting)
        BY <3>2, <4>1, <4>2, OnceTail
      <4> QED
        BY <3>3, <4>2, <4>3 DEF EventReady
    <3>5. IsList(Job(e))
      BY <3>4, JobReady
    <3> QED
      BY <1>2, <2>1, <3>2, <3>3, <3>5
  <2>4. CASE \E w \in PipeWorkers : Works(w) \/ ReadFails(w) \/ WorkerDies(w)
    <3>1. PICK w \in PipeWorkers : Works(w) \/ ReadFails(w) \/ WorkerDies(w)
      BY <2>4
    <3>2. w \in Procs
      BY DaprPipeAssumption
    <3>3. Advances(w)
      <4>1. CASE Works(w)
        <5>1. StoreStep(w) \/ PublishEvent(w)
          BY <4>1 DEF Works, StoreStep
        <5> QED
          BY <1>3, <3>2, <5>1, StoreStepAdvances, PublishingAdvances
      <4>2. CASE ReadFails(w) \/ WorkerDies(w)
        BY <1>3, <3>2, <4>2, ReadFailsAdvances, WorkerDiesAdvances
      <4> QED
        BY <3>1, <4>1, <4>2
    <3> QED
      BY <1>1, <2>1, <3>3
  <2>5. CASE \/ \E e \in pending : PutRequest(e)
             \/ \E w \in PipeWorkers : TimesOut(w) \/ FindsNothing(w) \/ JobEnds(w)
    BY <2>2, <2>5 DEF PutRequest, TimesOut, FindsNothing, JobEnds, storeVars
  <2>6. CASE \E w \in PipeWorkers : DetectFails(w)
    <3>1. PICK w \in PipeWorkers : DetectFails(w)
      BY <2>6
    <3>2. PICK a : Begin(w, <<a>>) /\ IsList(<<a>>)
      BY <1>1, <3>1, DetectFacts
    <3>3. w \in Procs \ Deliveries
      BY <3>1, DetectFacts
    <3> QED
      BY <1>2, <2>1, <3>2, <3>3
  <2> QED
    BY <1>8, <2>3, <2>4, <2>5, <2>6 DEF PipeStep, WorkerStep
<1> QED
  BY <1>4, <1>5, <1>6, <1>7, <1>8 DEF Next, Step, Work

\* What the handlers of events that succeeded have found is kept.
FindingsKept ==
  \A h \in handled :
    \/ h.event.kind \in TimelineEvents \/ h.event.about \in Deleted
    \/ IF h.event.kind \in {"scale", "thumbnail"}
       THEN CopyOf(h.event) \in DOMAIN items
       ELSE h.event.kind \in Value(Meta(h.event.about))

LEMMA FindingsAreKept == FindingsInv => FindingsKept
BY DEF FindingsInv, Found, Copied, FindingsKept

-----------------------------------------------------------------------------
(* No frame is forgotten. *)

\* What a worker has still to do for its event: whoever stores a frame asks
\* for its faces afterwards.
FaceOf(e, f) == Publish(Event("face", e.user, f))
StepOf(e, todo, i) ==
  \/ todo[i].do = "get"
  \/ e.kind = "meta" /\ todo[i] = Publish(Event("scene", e.user, e.about))
  \/ /\ e.kind = "scene"
     /\ \E f \in ToSet(FramesOf[e.about]) :
          \/ todo[i] = FaceOf(e, f)
          \/ /\ todo[i] = Save(Frame(f), "found")
             /\ \E j \in (i + 1)..Len(todo) : todo[j] = FaceOf(e, f)
  \/ e.kind = "face" /\ \E value : todo[i] = Save(Frame(e.about), value)
JobRest(e, todo) == \A i \in 1..Len(todo) : StepOf(e, todo, i)
\* A worker marks the faces, unless it has already left the frame as it is.
Marking(e, todo) ==
  e.kind = "face" => \A x \in ToSet(todo) : x.do = "store" => x.value = "marked"

Waits(kind, about) == \E e \in pending \cup Queued : e.kind = kind /\ e.about = about
WillAsk(w, kind, about) ==
  /\ crew[w].at = "work"
  /\ \E x \in ToSet(procs[w].todo) : /\ x.do = "publish" /\ x.event.kind = kind
                                     /\ x.event.about = about
WillMark(w, f) == crew[w].at = "work" /\ Save(Frame(f), "marked") \in ToSet(procs[w].todo)
Asked(kind, about) == Waits(kind, about) \/ \E w \in PipeWorkers : WillAsk(w, kind, about)

FrameKept(r, f) ==
  \/ r \in lost \/ f \in lost \/ Asked("face", f)
  \/ \E w \in PipeWorkers : WillMark(w, f)
  \/ Item(Frame(f)).value = "marked"
RequestKept(r) ==
  \/ r \in lost \/ Asked("meta", r) \/ Asked("scene", r)
  \/ \A f \in ToSet(FramesOf[r]) : FrameKept(r, f)

JobsKnown ==
  \A w \in PipeWorkers :
    IF crew[w].at = "work"
    THEN /\ JobRest(crew[w].job, procs[w].todo)
         /\ crew[w].job.about \in lost \/ Marking(crew[w].job, procs[w].todo)
    ELSE procs[w].todo = <<>>
\* Only the workers store frames.
FramesOwned ==
  \A p \in Procs \ PipeWorkers : \A x \in ToSet(procs[p].todo) :
    x.do = "store" => x.key[1] # "frame"
RequestsKept ==
  \A c \in started : procs[c].ok =>
    \A x \in Sent(c) \ ToSet(procs[c].todo) :
      x.do = "publish" /\ x.event.kind = "meta" => RequestKept(x.event.about)
FramesInv == JobsKnown /\ FramesOwned /\ RequestsKept

LEMMA JobRestTail ==
  ASSUME NEW e, NEW todo, IsList(todo), todo # <<>>, JobRest(e, todo)
  PROVE  JobRest(e, Tail(todo))
<1> DEFINE t == Tail(todo)
<1>1. IsList(t) /\ Len(t) = Len(todo) - 1 /\ \A i \in 1..Len(t) : t[i] = todo[i + 1]
  BY ListTail
<1>2. Len(t) \in Nat /\ Len(todo) \in Nat
  BY <1>1, ListFacts
<1> HIDE DEF t
<1> SUFFICES ASSUME NEW i \in 1..Len(t) PROVE StepOf(e, t, i)
  BY DEF JobRest, t
<1>3. i + 1 \in 1..Len(todo) /\ t[i] = todo[i + 1]
  BY <1>1, <1>2
<1>4. StepOf(e, todo, i + 1)
  BY <1>3 DEF JobRest
<1>5. ASSUME NEW f, \E j \in ((i + 1) + 1)..Len(todo) : todo[j] = FaceOf(e, f)
      PROVE  \E j \in (i + 1)..Len(t) : t[j] = FaceOf(e, f)
  <2>1. PICK j \in ((i + 1) + 1)..Len(todo) : todo[j] = FaceOf(e, f)
    BY <1>5
  <2>2. j - 1 \in (i + 1)..Len(t) /\ j - 1 \in 1..Len(t) /\ (j - 1) + 1 = j
    BY <1>1, <1>2
  <2>3. t[j - 1] = todo[j]
    BY <1>1, <2>2
  <2> QED
    BY <2>1, <2>2, <2>3
<1> QED
  BY <1>3, <1>4, <1>5 DEF StepOf

\* What a worker publishes and stores.
LEMMA AskIs ==
  ASSUME NEW e, NEW todo, IsList(todo), JobRest(e, todo), NEW x \in ToSet(todo), x.do = "publish"
  PROVE  \/ e.kind = "meta" /\ x.event.kind = "scene" /\ x.event.about = e.about
         \/ /\ e.kind = "scene" /\ x.event.kind = "face"
            /\ x.event.about \in ToSet(FramesOf[e.about])
<1>1. PICK i \in 1..Len(todo) : todo[i] = x
  BY ListFacts
<1>2. StepOf(e, todo, i)
  BY DEF JobRest
<1>3. \A kind, user, about : LET p == Publish(Event(kind, user, about))
                             IN p.event.kind = kind /\ p.event.about = about
  BY DEF Publish, Event
<1>4. \A key, value : Save(key, value).do = "store"
  BY DEF Save
<1>5. CASE e.kind = "meta" /\ x = Publish(Event("scene", e.user, e.about))
  BY <1>3, <1>5
<1>6. CASE e.kind = "scene" /\ \E f \in ToSet(FramesOf[e.about]) : x = FaceOf(e, f)
  BY <1>3, <1>6 DEF FaceOf
<1> QED
  BY <1>1, <1>2, <1>4, <1>5, <1>6 DEF StepOf

LEMMA StoreIs ==
  ASSUME NEW e, NEW todo, IsList(todo), JobRest(e, todo), NEW i \in 1..Len(todo),
         todo[i].do = "store"
  PROVE  \/ /\ e.kind = "scene"
            /\ \E f \in ToSet(FramesOf[e.about]) :
                 /\ todo[i] = Save(Frame(f), "found")
                 /\ \E j \in (i + 1)..Len(todo) : todo[j] = FaceOf(e, f)
         \/ e.kind = "face" /\ \E value : todo[i] = Save(Frame(e.about), value)
<1>1. StepOf(e, todo, i)
  BY DEF JobRest
<1>2. \A event : Publish(event).do = "publish"
  BY DEF Publish
<1> QED
  BY <1>1, <1>2 DEF StepOf, FaceOf

LEMMA FrameIs ==
  ASSUME NEW f, NEW g, NEW value, NEW x, x = Save(Frame(f), value)
  PROVE  /\ x.do = "store" /\ x.key = Frame(f) /\ x.value = value
         /\ Frame(f)[1] = "frame" /\ (Frame(f) = Frame(g) => f = g) /\ Frame(f) \notin Gone
<1>1. Frame(f)[2] = f /\ Frame(g)[2] = g /\ Frame(f)[1] = "frame"
  BY DEF Frame
<1>2. x.do = "store" /\ x.key = Frame(f) /\ x.value = value
  BY DEF Save
<1> QED
  BY <1>1, <1>2, GoneKinds

LEMMA MarkIs ==
  ASSUME NEW e, NEW todo, IsList(todo), JobRest(e, todo), NEW f,
         Save(Frame(f), "marked") \in ToSet(todo)
  PROVE  e.kind = "face" /\ f = e.about
<1>1. PICK x : x = Save(Frame(f), "marked")
  OBVIOUS
<1>2. PICK i \in 1..Len(todo) : todo[i] = x
  BY <1>1, ListFacts
<1>3. x.do = "store" /\ x.key = Frame(f) /\ x.value = "marked"
  BY <1>1, FrameIs
<1>4. e.kind = "face" /\ \E value : x = Save(Frame(e.about), value)
  <2>1. \A g : x # Save(Frame(g), "found")
    <3> SUFFICES ASSUME NEW g, x = Save(Frame(g), "found") PROVE FALSE
      OBVIOUS
    <3>1. x.value = "found"
      BY FrameIs
    <3> QED
      BY <1>3, <3>1
  <2> QED
    BY <1>2, <1>3, <2>1, StoreIs
<1>5. x.key = Frame(e.about)
  BY <1>4, FrameIs
<1> QED
  BY <1>3, <1>4, <1>5, FrameIs

LEMMA SecondHalf ==
  ASSUME NEW n \in Nat, NEW k \in (n + 2)..(2 * n + 1), NEW i, i = k - (n + 1)
  PROVE  i \in 1..n /\ (n + 1) + i = k
<1>1. k \in Int /\ k >= n + 2 /\ k <= 2 * n + 1
  OBVIOUS
<1>2. i \in Int /\ i >= 1 /\ i <= n
  BY <1>1
<1> QED
  BY <1>1, <1>2

LEMMA SceneRest ==
  ASSUME NEW e, NEW r, NEW n, e.about \in DOMAIN FramesOf, e.kind = "scene",
         IsScene(r, e, FramesOf[e.about], n), n = Len(FramesOf[e.about])
  PROVE  /\ JobRest(e, r)
         /\ \A f \in ToSet(FramesOf[e.about]) : FaceOf(e, f) \in ToSet(r)
<1>1. PICK frames : frames = FramesOf[e.about]
  OBVIOUS
<1>2. IsList(frames)
  BY <1>1, DaprAssumption DEF IsList
<1>3. /\ n \in Nat /\ IsList(r) /\ Len(r) = 2 * n + 1 /\ r[1] = Get(Footage(e.about))
      /\ \A i \in 1..n : r[i + 1] = Save(Frame(frames[i]), "found")
      /\ \A i \in 1..n : r[(n + 1) + i] = FaceOf(e, frames[i])
  BY <1>1 DEF IsScene, FaceOf
<1>4. \A i \in 1..n : frames[i] \in ToSet(frames)
  BY <1>1, <1>2, ListFacts
<1>5. ASSUME NEW k \in 1..Len(r) PROVE StepOf(e, r, k)
  <2>1. CASE k = 1
    BY <1>3, <2>1 DEF StepOf, Get
  <2>2. CASE k \in 2..(n + 1)
    <3>1. PICK i : i = k - 1
      OBVIOUS
    <3>2. i \in 1..n /\ i + 1 = k /\ (n + 1) + i \in (k + 1)..Len(r)
      BY <1>3, <2>2, <3>1
    <3>3. r[k] = Save(Frame(frames[i]), "found") /\ r[(n + 1) + i] = FaceOf(e, frames[i])
      BY <1>3, <3>2
    <3> QED
      BY <1>1, <1>4, <3>2, <3>3 DEF StepOf
  <2>3. CASE k \in (n + 2)..(2 * n + 1)
    <3>1. PICK i : i = k - (n + 1)
      OBVIOUS
    <3>2. i \in 1..n /\ (n + 1) + i = k
      BY <1>3, <2>3, <3>1, SecondHalf
    <3>3. r[k] = FaceOf(e, frames[i])
      BY <1>3, <3>2
    <3> QED
      BY <1>1, <1>4, <3>2, <3>3 DEF StepOf
  <2> QED
    BY <1>3, <2>1, <2>2, <2>3
<1>6. ASSUME NEW f \in ToSet(frames) PROVE FaceOf(e, f) \in ToSet(r)
  <2>1. PICK i \in 1..n : frames[i] = f
    BY <1>1, <1>2, ListFacts
  <2>2. (n + 1) + i \in 1..Len(r)
    BY <1>3
  <2>3. r[(n + 1) + i] = FaceOf(e, f)
    BY <1>3, <2>1
  <2> QED
    BY <1>3, <2>2, <2>3, ListFacts
<1> QED
  BY <1>1, <1>5, <1>6 DEF JobRest

LEMMA TwoRest ==
  ASSUME NEW e, NEW a, NEW b, a.do = "get",
         \/ e.kind = "meta" /\ b = Publish(Event("scene", e.user, e.about))
         \/ e.kind = "face" /\ b = Save(Frame(e.about), "marked")
  PROVE  JobRest(e, <<a, b>>) /\ b \in ToSet(<<a, b>>)
<1>1. Len(<<a, b>>) = 2 /\ <<a, b>>[1] = a /\ <<a, b>>[2] = b /\ ToSet(<<a, b>>) = {a, b}
  BY DEF ToSet
<1>2. PICK r : r = <<a, b>>
  OBVIOUS
<1>3. \A i \in 1..Len(r) : i \in {1, 2}
  BY <1>1, <1>2
<1>4. JobRest(e, r)
  BY <1>1, <1>2, <1>3 DEF JobRest, StepOf
<1> QED
  BY <1>1, <1>2, <1>4

LEMMA JobStarts ==
  ASSUME NEW e, e.kind \in Stages, EventRight(e)
  PROVE  /\ JobRest(e, Job(e))
         /\ e.kind = "meta" => Publish(Event("scene", e.user, e.about)) \in ToSet(Job(e))
         /\ e.kind = "scene" =>
              /\ e.about \in DOMAIN FramesOf
              /\ \A f \in ToSet(FramesOf[e.about]) : FaceOf(e, f) \in ToSet(Job(e))
         /\ e.kind = "face" => Save(Frame(e.about), "marked") \in ToSet(Job(e))
         /\ Marking(e, Job(e))
<1>1. \A key : Get(key).do = "get"
  BY DEF Get
<1>2. CASE e.kind = "meta"
  BY <1>1, <1>2, TwoRest DEF Job, ExtractMeta, Marking
<1>3. CASE e.kind = "scene"
  <2>1. e.about \in DOMAIN FramesOf
    BY <1>3 DEF EventRight
  <2>2. IsScene(ExtractScene(e), e, FramesOf[e.about], Len(FramesOf[e.about]))
    BY <2>1, SceneIs
  <2>3. Job(e) = ExtractScene(e)
    BY <1>3 DEF Job
  <2> QED
    BY <1>3, <2>1, <2>2, <2>3, SceneRest DEF Marking
<1>4. CASE e.kind = "face"
  <2>1. PICK a, b : a = Get(Frame(e.about)) /\ b = Save(Frame(e.about), "marked")
    OBVIOUS
  <2>2. Job(e) = <<a, b>>
    BY <1>4, <2>1 DEF Job, FaceDetect
  <2>3. JobRest(e, <<a, b>>) /\ b \in ToSet(<<a, b>>)
    BY <1>1, <1>4, <2>1, TwoRest
  <2>4. a.do = "get" /\ b.value = "marked" /\ ToSet(<<a, b>>) = {a, b}
    BY <2>1 DEF Get, Save, ToSet
  <2>5. Marking(e, <<a, b>>)
    BY <2>4 DEF Marking
  <2> QED
    BY <1>4, <2>1, <2>2, <2>3, <2>5
<1> QED
  BY <1>2, <1>3, <1>4 DEF Stages

-----------------------------------------------------------------------------
(* Requests store no frames, and those that read a timeline publish nothing. *)

Plain(command) ==
  /\ command.do = "store" => command.key[1] \in {"content", "images", "video", "meta of video"}
  /\ command.do # "page"
RequestPlain(request) ==
  \A i \in 1..Len(request) :
    \/ Plain(request[i])
    \/ request[i].do \in {"page", "posts"} /\ \A j \in 1..Len(request) :
         request[j].do \in {"page", "posts"}

LEMMA PlainCommands ==
  /\ \A key, kind, val : Plain(Edit(key, kind, val))
  /\ \A key, kind, val, score : Plain(Rate(key, kind, val, score))
  /\ \A key : Plain(Get(key)) /\ Plain(Delete(key))
  /\ \A event : Plain(Publish(event))
  /\ \A x : /\ Plain(Store(Content(x))) /\ Plain(Store(Images(x))) /\ Plain(Store(Data(x)))
            /\ Plain(Store(VideoMeta(x)))
<1>1. \A key, kind, val : Edit(key, kind, val).do = "edit"
  BY DEF Edit
<1>2. \A key, kind, val, score : Rate(key, kind, val, score).do = "edit"
  BY DEF Rate
<1>3. \A key : Get(key).do = "get" /\ Delete(key).do = "delete"
  BY DEF Get, Delete
<1>4. \A event : Publish(event).do = "publish"
  BY DEF Publish
<1>5. \A key : Store(key).do = "store" /\ Store(key).key = key
  BY DEF Store, Save
<1>6. \A x : /\ Content(x)[1] = "content" /\ Images(x)[1] = "images" /\ Data(x)[1] = "video"
             /\ VideoMeta(x)[1] = "meta of video"
  BY DEF Content, Images, Data, VideoMeta
<1>7. \A command : command.do \in {"edit", "get", "delete", "publish"} => Plain(command)
  BY DEF Plain
<1>8. /\ \A key, kind, val : Plain(Edit(key, kind, val))
      /\ \A key, kind, val, score : Plain(Rate(key, kind, val, score))
      /\ \A key : Plain(Get(key)) /\ Plain(Delete(key))
      /\ \A event : Plain(Publish(event))
  BY <1>1, <1>2, <1>3, <1>4, <1>7
<1>9. ASSUME NEW x
       PROVE  /\ Plain(Store(Content(x))) /\ Plain(Store(Images(x))) /\ Plain(Store(Data(x)))
              /\ Plain(Store(VideoMeta(x)))
  <2>1. PICK a, b, c, d : a = Content(x) /\ b = Images(x) /\ c = Data(x) /\ d = VideoMeta(x)
    OBVIOUS
  <2>2. a[1] = "content" /\ b[1] = "images" /\ c[1] = "video" /\ d[1] = "meta of video"
    BY <1>6, <2>1
  <2>3. Plain(Store(a)) /\ Plain(Store(b)) /\ Plain(Store(c)) /\ Plain(Store(d))
    BY <1>5, <2>2 DEF Plain
  <2> QED
    BY <2>1, <2>3
<1> QED
  BY <1>8, <1>9

LEMMA OnePlain ==
  ASSUME NEW a, Plain(a)
  PROVE  RequestPlain(<<a>>)
<1>1. PICK r : r = <<a>>
  OBVIOUS
<1>2. Len(r) = 1 /\ r[1] = a
  BY <1>1
<1>3. \A i \in 1..Len(r) : i = 1
  BY <1>2
<1> QED
  BY <1>1, <1>2, <1>3 DEF RequestPlain

LEMMA TwoPlain ==
  ASSUME NEW a, NEW b, Plain(a), Plain(b)
  PROVE  RequestPlain(<<a, b>>)
<1>1. PICK r : r = <<a, b>>
  OBVIOUS
<1>2. Len(r) = 2 /\ r[1] = a /\ r[2] = b
  BY <1>1
<1>3. \A i \in 1..Len(r) : i \in {1, 2}
  BY <1>2
<1> QED
  BY <1>1, <1>2, <1>3 DEF RequestPlain

LEMMA FivePlain ==
  ASSUME NEW a, NEW b, NEW c, NEW d, NEW e, Plain(a), Plain(b), Plain(c), Plain(d), Plain(e)
  PROVE  RequestPlain(<<a, b, c, d, e>>)
<1>1. PICK r : r = <<a, b, c, d, e>>
  OBVIOUS
<1>2. Len(r) = 5 /\ r[1] = a /\ r[2] = b /\ r[3] = c /\ r[4] = d /\ r[5] = e
  BY <1>1, FiveList
<1>3. \A i \in 1..Len(r) : i \in {1, 2, 3, 4, 5}
  BY <1>2
<1> QED
  BY <1>1, <1>2, <1>3 DEF RequestPlain

LEMMA SavePlain ==
  ASSUME NEW u, NEW post, NEW images \in BOOLEAN
  PROVE  RequestPlain(SavePost(u, post, images))
<1>1. PICK r : r = SavePost(u, post, images)
  OBVIOUS
<1>2. PICK n \in {1, 2} :
           /\ r[n] = Store(Content(post)) /\ r[n + 1] = Publish(Event("add", u, post))
           /\ Len(r) \in {3, 5}
           /\ \A i \in 1..Len(r) :
                /\ i < n => r[i] = Store(Images(post))
                /\ i > n + 1 => r[i] \in {Publish(Event("objects", u, post)),
                                         Publish(Event("sentiment", u, post))}
  BY <1>1, SaveCommands
<1>3. ASSUME NEW i \in 1..Len(r) PROVE Plain(r[i])
  <2>1. i < n \/ i = n \/ i = n + 1 \/ i > n + 1
    BY <1>2
  <2>2. \/ r[i] = Store(Images(post)) \/ r[i] = Store(Content(post))
        \/ \E event : r[i] = Publish(event)
    BY <1>2, <2>1
  <2> QED
    BY <2>2, PlainCommands
<1> QED
  BY <1>1, <1>3 DEF RequestPlain

LEMMA RequestsPlain ==
  ASSUME NEW request, IsRequest(request)
  PROVE  RequestPlain(request)
<1>1. CASE ReadsOnly(request)
  <2>1. IsList(request) /\ \A i \in DOMAIN request : request[i].do = "get"
    BY <1>1 DEF ReadsOnly, IsList
  <2>2. \A i \in 1..Len(request) : request[i].do = "get"
    BY <2>1, ListFacts
  <2> QED
    BY <2>2 DEF RequestPlain, Plain
<1>2. CASE Rates(request)
  <2>1. PICK u, video, score : request = RateVideo(u, video, score)
    BY <1>2 DEF Rates
  <2>2. request = <<Rate(RatingsBy(u), "rating", video, score), Rate(Rating(video), "score", video, score)>>
    BY <2>1, RatingIs
  <2> QED
    BY <2>2, PlainCommands, TwoPlain
<1>3. CASE ReadsTimeline(request)
  <2> DEFINE a == [do |-> "page", key |-> request[1].key, earliest |-> request[1].earliest,
                   posts |-> request[1].posts]
             b == [do |-> "posts"]
  <2>1. a.do = "page" /\ b.do = "posts"
    OBVIOUS
  <2>2. request = <<a, b>>
    BY <1>3 DEF ReadsTimeline, ReadTimeline
  <2> HIDE DEF a, b
  <2>3. Len(request) = 2 /\ request[1] = a /\ request[2] = b
    BY <2>2
  <2>4. \A i \in 1..Len(request) : i \in {1, 2}
    BY <2>3
  <2> QED
    BY <2>1, <2>3, <2>4 DEF RequestPlain
<1>4. CASE \E post \in Posts : IsSave(request, post)
  BY <1>4, SavePlain DEF IsSave
<1>5. CASE \E post \in Posts : IsDeletion(request, post)
  <2>1. PICK u, post : request = DelPost(u, post)
    BY <1>5 DEF IsDeletion
  <2> QED
    BY <2>1, DeletionIs, PlainCommands, FivePlain
<1>6. CASE \E u, v \in Names : request \in {FollowUser(u, v), UnfollowUser(u, v)}
  BY <1>6, PlainCommands, TwoPlain DEF FollowUser, UnfollowUser
<1>7. CASE \E post \in Posts, x \in Names : request \in {Comment(post, x), Upvote(post, x)}
  BY <1>7, PlainCommands, OnePlain DEF Comment, Upvote
<1>8. CASE \E video, date \in Names : request \in {UploadVideo(video, date), GetVideoData(video)}
  <2>1. PICK video, date : request = UploadVideo(video, date) \/ request = GetVideoData(video)
    BY <1>8
  <2>2. RequestPlain(UploadVideo(video, date))
    BY UploadIs, PlainCommands, FivePlain
  <2>3. RequestPlain(GetVideoData(video))
    BY ViewIs, PlainCommands, TwoPlain
  <2> QED
    BY <2>1, <2>2, <2>3
<1>9. CASE \E r \in DOMAIN FramesOf, priority \in Priorities : request = Request(r, priority)
  BY <1>9, PlainCommands, OnePlain DEF Request
<1> QED
  BY <1>1, <1>2, <1>3, <1>4, <1>5, <1>6, <1>7, <1>8, <1>9 DEF IsRequest

-----------------------------------------------------------------------------
(* What a step leaves of the events, of the commands of the workers and of   *)
(* the frames with marked faces.                                             *)

\* An event stays, or a worker begins with its job.
Begun(e) ==
  \E w \in PipeWorkers : crew'[w].at = "work" /\ crew'[w].job = e /\ procs'[w].todo = Job(e)
EventsPass ==
  \A e \in pending \cup Queued : e.kind \in Stages => e \in (pending \cup Queued)' \/ Begun(e)
\* A command is still to be sent, or was, or its worker has given up.
Passes(w, x) ==
  \/ crew'[w].at = "work" /\ x \in ToSet(procs'[w].todo)
  \/ x.do = "publish" /\ x.event \in pending'
  \/ x.do = "store" /\ Item(x.key)'.value = x.value
  \/ x.do \notin {"publish", "store"}
CommandsPass ==
  \A w \in PipeWorkers : crew[w].at = "work" =>
    crew[w].job.about \in lost' \/ \A x \in ToSet(procs[w].todo) : Passes(w, x)
MarksPass ==
  \A r \in DOMAIN FramesOf : \A f \in ToSet(FramesOf[r]) :
    Item(Frame(f)).value = "marked" => FrameKept(r, f)'
FramesPass == lost \subseteq lost' /\ EventsPass /\ CommandsPass /\ MarksPass

LEMMA WorkerIs ==
  ASSUME NeedsInv, JobsKnown, NEW w \in PipeWorkers, crew[w].at = "work"
  PROVE  /\ w \in Procs /\ IsList(procs[w].todo) /\ JobRest(crew[w].job, procs[w].todo)
         /\ EventRight(crew[w].job)
         /\ crew[w].job.about \in lost \/ Marking(crew[w].job, procs[w].todo)
<1>1. w \in Procs
  BY DaprPipeAssumption
<1>2. IsList(procs[w].todo) /\ EventRight(crew[w].job)
  BY <1>1, ProcsFacts DEF NeedsInv, CrewReady, EventReady
<1> QED
  BY <1>1, <1>2 DEF JobsKnown

LEMMA EventIs ==
  ASSUME NeedsInv, NEW e \in pending \cup Queued
  PROVE  EventRight(e)
<1>1. CASE e \in pending
  BY <1>1 DEF NeedsInv, PendingReady, EventReady
<1>2. CASE e \in Queued
  <2>1. PICK s \in Stages, priority \in Priorities : e \in ToSet(line[s][priority])
    BY <1>2 DEF Queued
  <2> QED
    BY <2>1 DEF NeedsInv, LinesReady, EventReady
<1> QED
  BY <1>1, <1>2

LEMMA PublishedIs ==
  ASSUME NEW kind, NEW user, NEW about, NEW x, x = Publish(Event(kind, user, about))
  PROVE  x.do = "publish" /\ x.event.kind = kind /\ x.event.about = about
BY DEF Publish, Event

\* An event that a worker begins with.
LEMMA BegunAsks ==
  ASSUME NEW e, e.kind \in Stages, EventRight(e), Begun(e)
  PROVE  /\ e.kind = "meta" => Asked("scene", e.about)'
         /\ e.kind = "scene" =>
              /\ e.about \in DOMAIN FramesOf
              /\ \A f \in ToSet(FramesOf[e.about]) : Asked("face", f)'
         /\ e.kind = "face" => \E w \in PipeWorkers : WillMark(w, e.about)'
<1>1. PICK w \in PipeWorkers : crew'[w].at = "work" /\ procs'[w].todo = Job(e)
  BY DEF Begun
<1>2. ASSUME NEW x \in ToSet(Job(e)), x.do = "publish", NEW kind, NEW about,
             x.event.kind = kind, x.event.about = about
      PROVE  Asked(kind, about)'
  BY <1>1, <1>2 DEF Asked, WillAsk
<1>3. CASE e.kind = "meta"
  <2>1. PICK x : x = Publish(Event("scene", e.user, e.about))
    OBVIOUS
  <2>2. x \in ToSet(Job(e))
    BY <1>3, <2>1, JobStarts
  <2>3. PICK about : about = e.about
    OBVIOUS
  <2>4. Asked("scene", about)'
    BY <1>2, <2>1, <2>2, <2>3, PublishedIs
  <2> QED
    BY <1>3, <2>3, <2>4
<1>4. CASE e.kind = "scene"
  <2>1. /\ e.about \in DOMAIN FramesOf
        /\ \A f \in ToSet(FramesOf[e.about]) : FaceOf(e, f) \in ToSet(Job(e))
    BY <1>4, JobStarts
  <2>2. ASSUME NEW f \in ToSet(FramesOf[e.about]) PROVE Asked("face", f)'
    <3>1. PICK x : x = FaceOf(e, f)
      OBVIOUS
    <3>2. x \in ToSet(Job(e)) /\ x = Publish(Event("face", e.user, f))
      BY <2>1, <3>1 DEF FaceOf
    <3> QED
      BY <1>2, <3>2, PublishedIs
  <2> QED
    BY <1>4, <2>1, <2>2
<1>5. CASE e.kind = "face"
  <2>1. PICK about : about = e.about
    OBVIOUS
  <2>2. Save(Frame(about), "marked") \in ToSet(Job(e))
    BY <1>5, <2>1, JobStarts
  <2>3. WillMark(w, about)'
    BY <1>1, <2>2 DEF WillMark
  <2> QED
    BY <1>5, <2>1, <2>3
<1> QED
  BY <1>3, <1>4, <1>5 DEF Stages

\* What was asked for is, or has led to the next stage, or was given up.
Leads(kind, about) ==
  \/ Asked(kind, about)
  \/ kind = "meta" /\ Asked("scene", about)
  \/ kind = "scene" /\ (about \in lost \/ \A f \in ToSet(FramesOf[about]) : Asked("face", f))
  \/ /\ kind = "face"
     /\ \/ \E w \in PipeWorkers : WillMark(w, about)
        \/ \E r \in DOMAIN FramesOf : r \in lost /\ about \in ToSet(FramesOf[r])

LEMMA AskPasses ==
  ASSUME NeedsInv, JobsKnown, FramesPass, NEW kind \in Stages, NEW about, Asked(kind, about)
  PROVE  Leads(kind, about)'
<1>1. CASE Waits(kind, about)
  <2>1. PICK e \in pending \cup Queued : e.kind = kind /\ e.about = about
    BY <1>1 DEF Waits
  <2>2. CASE e \in (pending \cup Queued)'
    BY <2>1, <2>2 DEF Leads, Asked, Waits
  <2>3. CASE Begun(e)
    <3>1. EventRight(e) /\ e.kind \in Stages
      BY <2>1, EventIs
    <3>2. /\ kind = "meta" => Asked("scene", about)'
          /\ kind = "scene" => \A f \in ToSet(FramesOf[about]) : Asked("face", f)'
          /\ kind = "face" => \E w \in PipeWorkers : WillMark(w, about)'
      BY <2>1, <2>3, <3>1, BegunAsks
    <3> QED
      BY <3>2 DEF Leads, Stages
  <2> QED
    BY <2>1, <2>2, <2>3 DEF FramesPass, EventsPass
<1>2. CASE \E w \in PipeWorkers : WillAsk(w, kind, about)
  <2>1. PICK w \in PipeWorkers : WillAsk(w, kind, about)
    BY <1>2
  <2>2. PICK x \in ToSet(procs[w].todo) :
          x.do = "publish" /\ x.event.kind = kind /\ x.event.about = about
    BY <2>1 DEF WillAsk
  <2>3. crew[w].at = "work" /\ IsList(procs[w].todo) /\ JobRest(crew[w].job, procs[w].todo)
        /\ EventRight(crew[w].job)
    BY <2>1, WorkerIs DEF WillAsk
  <2>4. CASE Passes(w, x)
    <3>1. CASE crew'[w].at = "work" /\ x \in ToSet(procs'[w].todo)
      BY <2>2, <3>1 DEF Leads, Asked, WillAsk
    <3>2. CASE x.event \in pending'
      BY <2>2, <3>2 DEF Leads, Asked, Waits
    <3> QED
      BY <2>2, <2>4, <3>1, <3>2 DEF Passes
  <2>5. CASE crew[w].job.about \in lost'
    <3>1. \/ kind = "scene" /\ about = crew[w].job.about
          \/ /\ kind = "face" /\ crew[w].job.kind = "scene"
             /\ about \in ToSet(FramesOf[crew[w].job.about])
      BY <2>2, <2>3, AskIs
    <3>2. kind = "face" => crew[w].job.about \in DOMAIN FramesOf
      BY <2>3, <3>1 DEF EventRight, Stages
    <3> QED
      BY <2>5, <3>1, <3>2 DEF Leads
  <2> QED
    BY <2>2, <2>3, <2>4, <2>5 DEF FramesPass, CommandsPass
<1> QED
  BY <1>1, <1>2 DEF Asked

LEMMA FramePasses ==
  ASSUME NeedsInv, JobsKnown, FramesPass, NEW r \in DOMAIN FramesOf, NEW f \in ToSet(FramesOf[r]),
         FrameKept(r, f)
  PROVE  FrameKept(r, f)'
<1>1. CASE r \in lost \/ f \in lost
  BY <1>1 DEF FramesPass, FrameKept
<1>2. CASE Asked("face", f)
  <2>1. Leads("face", f)'
    BY <1>2, AskPasses DEF Stages
  <2>2. ASSUME NEW s \in DOMAIN FramesOf, f \in ToSet(FramesOf[s]) PROVE s = r
    BY <2>2, DaprAssumption
  <2> QED
    BY <2>1, <2>2 DEF Leads, FrameKept
<1>3. CASE \E w \in PipeWorkers : WillMark(w, f)
  <2>1. PICK w \in PipeWorkers : WillMark(w, f)
    BY <1>3
  <2>2. PICK x : x = Save(Frame(f), "marked")
    OBVIOUS
  <2>3. crew[w].at = "work" /\ x \in ToSet(procs[w].todo)
        /\ x.do = "store" /\ x.key = Frame(f) /\ x.value = "marked"
    BY <2>1, <2>2, FrameIs DEF WillMark
  <2>4. CASE Passes(w, x)
    <3>1. CASE crew'[w].at = "work" /\ x \in ToSet(procs'[w].todo)
      BY <2>2, <3>1 DEF FrameKept, WillMark
    <3>2. CASE Item(x.key)'.value = x.value
      <4>1. Item(Frame(f))'.value = "marked"
        BY <2>3, <3>2
      <4> QED
        BY <4>1 DEF FrameKept
    <3> QED
      BY <2>3, <2>4, <3>1, <3>2 DEF Passes
  <2>5. CASE crew[w].job.about \in lost'
    <3>1. f = crew[w].job.about
      BY <2>2, <2>3, WorkerIs, MarkIs
    <3> QED
      BY <2>5, <3>1 DEF FrameKept
  <2> QED
    BY <2>3, <2>4, <2>5 DEF FramesPass, CommandsPass
<1>4. CASE Item(Frame(f)).value = "marked"
  BY <1>4 DEF FramesPass, MarksPass
<1> QED
  BY <1>1, <1>2, <1>3, <1>4 DEF FrameKept

LEMMA RequestPasses ==
  ASSUME NeedsInv, JobsKnown, FramesPass, NEW r \in DOMAIN FramesOf, RequestKept(r)
  PROVE  RequestKept(r)'
<1>1. CASE r \in lost
  BY <1>1 DEF FramesPass, RequestKept
<1>2. CASE Asked("meta", r)
  <2>1. Leads("meta", r)'
    BY <1>2, AskPasses DEF Stages
  <2> QED
    BY <2>1 DEF Leads, RequestKept
<1>3. CASE Asked("scene", r)
  <2>1. Leads("scene", r)'
    BY <1>3, AskPasses DEF Stages
  <2> QED
    BY <2>1 DEF Leads, RequestKept, FrameKept
<1>4. CASE \A f \in ToSet(FramesOf[r]) : FrameKept(r, f)
  BY <1>4, FramePasses DEF RequestKept
<1> QED
  BY <1>1, <1>2, <1>3, <1>4 DEF RequestKept

-----------------------------------------------------------------------------
(* The steps of the clients and of the handlers. *)

LEMMA QuietPasses ==
  ASSUME UNCHANGED pipeVars, \A w \in PipeWorkers : procs'[w] = procs[w],
         \A f : Item(Frame(f))' = Item(Frame(f)),
         \A e \in pending : e.kind \in Stages => e \in pending'
  PROVE  FramesPass
<1>1. line' = line /\ crew' = crew /\ lost' = lost
  BY DEF pipeVars
<1>2. Queued' = Queued
  BY <1>1 DEF Queued
<1>3. EventsPass
  BY <1>2 DEF EventsPass
<1>4. CommandsPass
  BY <1>1 DEF CommandsPass, Passes
<1>5. MarksPass
  BY DEF MarksPass, FrameKept
<1> QED
  BY <1>1, <1>3, <1>4, <1>5 DEF FramesPass

LEMMA QuietJobs ==
  ASSUME JobsKnown, UNCHANGED <<crew, lost>>, \A w \in PipeWorkers : procs'[w] = procs[w]
  PROVE  JobsKnown'
BY DEF JobsKnown

NoFrames(todo) == \A x \in ToSet(todo) : x.do = "store" => x.key[1] # "frame"

LEMMA OwnedStays ==
  ASSUME FramesOwned,
         \A q \in Procs \ PipeWorkers : \/ ToSet(procs'[q].todo) \subseteq ToSet(procs[q].todo)
                                        \/ NoFrames(procs'[q].todo)
  PROVE  FramesOwned'
BY DEF FramesOwned, NoFrames

\* A frame is stored only by its worker.
LEMMA FrameStays ==
  ASSUME NeedsInv, CallsInv, FramesOwned, NEW p \in Procs \ PipeWorkers, Advances(p), NEW f
  PROVE  Item(Frame(f))' = Item(Frame(f))
<1>1. PICK key : key = Frame(f)
  OBVIOUS
<1>2. key[1] = "frame" /\ key \notin Gone
  BY <1>1, FrameIs
<1>3. PICK new : new = Item(key)'
  OBVIOUS
<1>4. Command(p) \in ToSet(procs[p].todo) /\ CommandRight(Command(p))
  BY AdvanceFacts
<1>5. ~Wrote(p, key, new.value)
  <2>1. CASE Command(p).do = "edit"
    BY <1>2, <1>4, <2>1 DEF Wrote, CommandRight, EditRight, Timelines
  <2>2. CASE Command(p).do = "store"
    BY <1>2, <1>4, <2>2 DEF Wrote, FramesOwned
  <2> QED
    BY <2>1, <2>2 DEF Wrote
<1> QED
  BY <1>1, <1>2, <1>3, <1>5, ItemWrites DEF CallsInv

LEMMA SentPlain ==
  ASSUME NeedsInv, NEW c \in DOMAIN scenario.requests
  PROVE  /\ IsList(scenario.requests[c]) /\ NoFrames(scenario.requests[c])
         /\ \A x, y \in Sent(c) : x.do = "page" => y.do # "publish"
<1>1. PICK request : request = scenario.requests[c]
  OBVIOUS
<1>2. IsRequest(request)
  BY <1>1, DaprAssumption DEF ScenariosAssumption, NeedsInv
<1>3. IsList(request) /\ RequestPlain(request)
  BY <1>2, RequestsRight, RequestsPlain DEF RequestRight
<1>4. \A x \in ToSet(request) : \E i \in 1..Len(request) : request[i] = x
  BY <1>3, ListFacts
<1>5. NoFrames(request)
  BY <1>3, <1>4 DEF NoFrames, RequestPlain, Plain
<1>6. \A x, y \in ToSet(request) : x.do = "page" => y.do # "publish"
  BY <1>3, <1>4 DEF RequestPlain, Plain
<1> QED
  BY <1>1, <1>3, <1>5, <1>6 DEF Sent

\* What leaves the list of a client that goes on is with the broker.
Published(p) ==
  procs'[p].ok =>
    /\ procs[p].ok
    /\ \A x \in ToSet(procs[p].todo) \ ToSet(procs'[p].todo) :
         x.do = "publish" => x.event \in pending'

LEMMA ClientPublishes ==
  ASSUME NeedsInv, CallsInv, NEW p \in started, Advances(p),
         Command(p).do = "publish" /\ procs'[p].ok => Command(p).event \in pending'
  PROVE  Published(p)
<1> SUFFICES ASSUME procs'[p].ok PROVE Published(p)
  BY DEF Published
<1>1. /\ p \in Procs /\ IsList(procs[p].todo) /\ procs[p].todo # <<>>
      /\ Command(p) = Head(procs[p].todo) /\ Command(p) \in ToSet(procs[p].todo)
  BY AdvanceFacts
<1>2. procs[p].ok /\ ToSet(procs[p].todo) \subseteq Sent(p)
  BY <1>1 DEF CallsInv, TasksKnown, Runs
<1>3. p \in DOMAIN scenario.requests /\ Command(p).do # "need"
  BY <1>1, <1>2, SentKnown DEF CallsInv
<1>4. ASSUME NEW x \in ToSet(procs[p].todo), x \notin ToSet(procs'[p].todo), x.do = "publish"
      PROVE  x.event \in pending'
  <2>1. Command(p).do # "page"
    BY <1>1, <1>2, <1>3, <1>4, SentPlain
  <2>2. procs'[p].todo = Tail(procs[p].todo)
    <3>1. CASE HasRead(p) \/ TriesAgain(p)
      BY <1>4, <3>1 DEF HasRead, TriesAgain
    <3>2. CASE HasSkipped(p) \/ HasSaved(p) \/ HasWritten(p) \/ HasPassed(p)
      BY <3>2 DEF HasSkipped, HasSaved, HasWritten, HasPassed, Goes, Reached
    <3>3. ~HasTurned(p) /\ ~HasStopped(p)
      BY <1>3, <2>1 DEF HasTurned, HasStopped, Reached
    <3> QED
      BY <3>1, <3>2, <3>3 DEF Advances
  <2>3. ToSet(procs[p].todo) = ToSet(Tail(procs[p].todo)) \cup {Head(procs[p].todo)}
    <3>1. PICK todo : todo = procs[p].todo
      OBVIOUS
    <3> QED
      BY <1>1, <3>1, OnceTail
  <2>4. x = Command(p)
    BY <1>1, <1>4, <2>2, <2>3
  <2> QED
    BY <1>4, <2>4
<1> QED
  BY <1>2, <1>4 DEF Published

LEMMA RequestsPass ==
  ASSUME NeedsInv, CallsInv, FramesInv, FramesPass, UNCHANGED <<scenario, started>>,
         \A c \in started : procs'[c] = procs[c] \/ Published(c)
  PROVE  RequestsKept'
<1>1. \A c : Sent(c)' = Sent(c)
  BY DEF Sent
<1> SUFFICES ASSUME NEW c \in started, procs'[c].ok, NEW x \in Sent(c),
                    x \notin ToSet(procs'[c].todo), x.do = "publish", x.event.kind = "meta"
             PROVE  RequestKept(x.event.about)'
  BY <1>1 DEF RequestsKept
<1>2. PICK r : r = x.event.about
  OBVIOUS
<1>3. CASE x \in ToSet(procs[c].todo)
  <2>1. x.event \in pending'
    BY <1>3 DEF Published
  <2>2. RequestKept(r)'
    BY <1>2, <2>1 DEF RequestKept, Asked, Waits
  <2> QED
    BY <1>2, <2>2
<1>4. CASE x \notin ToSet(procs[c].todo)
  <2>1. procs[c].ok
    BY DEF Published
  <2>2. RequestKept(r)
    BY <1>2, <1>4, <2>1 DEF FramesInv, RequestsKept
  <2>3. CommandRight(x)
    BY SentKnown DEF CallsInv
  <2>4. r \in DOMAIN FramesOf
    BY <1>2, <2>3 DEF CommandRight, EventRight, Stages
  <2>5. RequestKept(r)'
    BY <2>2, <2>4, RequestPasses DEF FramesInv
  <2> QED
    BY <1>2, <2>5
<1> QED
  BY <1>3, <1>4

LEMMA SendFrames ==
  ASSUME NeedsInv, CallsInv, FramesInv, NEW c \in Calls, SendRequest(c)
  PROVE  FramesInv'
<1>1. /\ c \in DOMAIN scenario.requests /\ Begin(c, scenario.requests[c])
      /\ started' = started \cup {c} /\ UNCHANGED <<items, pending, pipeVars, scenario>>
  BY DEF SendRequest, timelineVars
<1>2. c \in Procs /\ c \notin PipeWorkers /\ started \subseteq Procs
  BY DaprAssumption DEF CallsInv, CallsRight
<1>3. /\ procs'[c].todo = scenario.requests[c]
      /\ \A q \in Procs \ {c} : procs'[q] = procs[q]
  BY <1>1, <1>2, SentPlain, BeginFacts DEF NeedsInv, Reached, OthersStay
<1>4. \A w \in PipeWorkers : procs'[w] = procs[w]
  BY <1>2, <1>3, DaprPipeAssumption
<1>5. JobsKnown'
  BY <1>1, <1>4, QuietJobs DEF pipeVars, FramesInv
<1>6. FramesOwned'
  <2>1. NoFrames(procs'[c].todo)
    BY <1>1, <1>3, SentPlain
  <2> QED
    BY <1>3, <2>1, OwnedStays DEF FramesInv
<1>7. FramesPass
  BY <1>1, <1>4, ItemStays, QuietPasses
<1>8. \A d : Sent(d)' = Sent(d)
  BY <1>1 DEF Sent
<1>9. RequestsKept'
  <2> SUFFICES ASSUME NEW d \in started', procs'[d].ok, NEW x \in Sent(d),
                      x \notin ToSet(procs'[d].todo), x.do = "publish", x.event.kind = "meta"
               PROVE  RequestKept(x.event.about)'
    BY <1>8 DEF RequestsKept
  <2>1. d # c
    BY <1>3 DEF Sent
  <2>2. d \in started /\ procs'[d] = procs[d]
    BY <1>1, <1>2, <1>3, <2>1
  <2>3. PICK r : r = x.event.about
    OBVIOUS
  <2>4. RequestKept(r)
    BY <2>2, <2>3 DEF FramesInv, RequestsKept
  <2>5. CommandRight(x)
    BY <2>2, SentKnown DEF CallsInv
  <2>6. r \in DOMAIN FramesOf
    BY <2>3, <2>5 DEF CommandRight, EventRight, Stages
  <2>7. RequestKept(r)'
    BY <1>7, <2>4, <2>6, RequestPasses DEF FramesInv
  <2> QED
    BY <2>3, <2>7
<1> QED
  BY <1>5, <1>6, <1>9 DEF FramesInv

\* A handler or a client goes on.
LEMMA HandlerFrames ==
  ASSUME NeedsInv, CallsInv, FramesInv, NEW p \in Procs \ PipeWorkers, Advances(p),
         UNCHANGED <<pipeVars, scenario, started>>, pending \subseteq pending',
         Command(p).do = "publish" /\ procs'[p].ok => Command(p).event \in pending'
  PROVE  FramesInv'
<1>1. \A q \in Procs \ {p} : procs'[q] = procs[q]
  BY AdvanceFacts
<1>2. \A w \in PipeWorkers : procs'[w] = procs[w]
  BY <1>1, DaprPipeAssumption
<1>3. JobsKnown'
  BY <1>2, QuietJobs DEF pipeVars, FramesInv
<1>4. FramesOwned'
  <2>1. ToSet(procs'[p].todo) \subseteq ToSet(procs[p].todo)
    BY TodoChanges
  <2> QED
    BY <1>1, <2>1, OwnedStays DEF FramesInv
<1>5. FramesPass
  <2>1. \A f : Item(Frame(f))' = Item(Frame(f))
    BY FrameStays DEF FramesInv
  <2> QED
    BY <1>2, <2>1, QuietPasses
<1>6. started \subseteq Procs
  BY DaprAssumption DEF CallsInv, CallsRight
<1>7. \A c \in started : procs'[c] = procs[c] \/ Published(c)
  BY <1>1, <1>6, ClientPublishes
<1> QED
  BY <1>3, <1>4, <1>5, <1>7, RequestsPass DEF FramesInv

-----------------------------------------------------------------------------
(* The steps of the subscribers. *)

EventsStay == \A e \in pending : e.kind \in Stages => e \in pending'

LEMMA StillFrames ==
  ASSUME NeedsInv, CallsInv, FramesInv, EventsStay,
         UNCHANGED <<items, procs, pipeVars, scenario, started>>
  PROVE  FramesInv'
<1>1. JobsKnown'
  BY QuietJobs DEF pipeVars, FramesInv
<1>2. FramesOwned'
  BY DEF FramesOwned, FramesInv
<1>3. FramesPass
  BY ItemStays, QuietPasses DEF EventsStay
<1> QED
  BY <1>1, <1>2, <1>3, RequestsPass DEF FramesInv

\* A handler or a worker of the timelines begins.
LEMMA BeginFrames ==
  ASSUME NeedsInv, CallsInv, FramesInv, EventsStay, NEW q \in Deliveries \cup Workers,
         NEW commands, IsList(commands), NoFrames(commands), Begin(q, commands),
         UNCHANGED <<items, pipeVars, scenario, started>>
  PROVE  FramesInv'
<1>1. q \in Procs \ (Calls \cup PipeWorkers)
  BY DaprTimelinesAssumption, DaprPipeAssumption, DaprAssumption
<1>2. /\ procs'[q].todo = commands
      /\ \A p \in Procs \ {q} : procs'[p] = procs[p]
  BY <1>1, BeginFacts DEF NeedsInv, Reached, OthersStay
<1>3. \A w \in PipeWorkers : procs'[w] = procs[w]
  BY <1>1, <1>2, DaprPipeAssumption
<1>4. JobsKnown'
  BY <1>3, QuietJobs DEF pipeVars, FramesInv
<1>5. FramesOwned'
  BY <1>2, OwnedStays DEF FramesInv
<1>6. FramesPass
  BY <1>3, ItemStays, QuietPasses DEF EventsStay
<1>7. \A c \in started : procs'[c] = procs[c]
  BY <1>1, <1>2, DaprAssumption DEF CallsInv, CallsRight
<1> QED
  BY <1>4, <1>5, <1>6, <1>7, RequestsPass DEF FramesInv

LEMMA NoFramesIn ==
  /\ \A a : a.do # "store" => NoFrames(<<a>>)
  /\ \A a, b : a.do # "store" /\ (b.do = "store" => b.key[1] # "frame") => NoFrames(<<a, b>>)
<1>1. ASSUME NEW a, a.do # "store" PROVE NoFrames(<<a>>)
  <2>1. ToSet(<<a>>) = {a}
    BY DEF ToSet
  <2> QED
    BY <1>1, <2>1 DEF NoFrames
<1>2. ASSUME NEW a, NEW b, a.do # "store", b.do = "store" => b.key[1] # "frame"
      PROVE  NoFrames(<<a, b>>)
  <2>1. ToSet(<<a, b>>) = {a, b}
    BY DEF ToSet
  <2> QED
    BY <1>2, <2>1 DEF NoFrames
<1> QED
  BY <1>1, <1>2

LEMMA AnalysesStoreNoFrames ==
  ASSUME NEW about
  PROVE  /\ NoFrames(SentimentAnalysis(about)) /\ NoFrames(ObjectDetect(about))
         /\ NoFrames(ScaleVideo(about)) /\ NoFrames(VideoThumbnail(about))
<1>1. \A post, field : UpdateMeta(post, field).do = "edit"
  BY DEF UpdateMeta, Edit
<1>2. \A key : Get(key).do = "get" /\ Need(key).do = "need" /\ Store(key).key = key
  BY DEF Get, Need, Store, Save
<1>3. PICK a, b : a = Scaled(about) /\ b = Thumbnail(about)
  OBVIOUS
<1>4. a[1] = "scaled" /\ b[1] = "thumbnail"
  BY <1>3 DEF Scaled, Thumbnail
<1>5. Store(a).key[1] # "frame" /\ Store(b).key[1] # "frame"
  BY <1>2, <1>4
<1>6. NoFrames(SentimentAnalysis(about))
  BY <1>1, NoFramesIn DEF SentimentAnalysis
<1>7. NoFrames(ObjectDetect(about))
  BY <1>1, <1>2, NoFramesIn DEF ObjectDetect
<1>8. NoFrames(ScaleVideo(about)) /\ NoFrames(VideoThumbnail(about))
  BY <1>2, <1>3, <1>5, NoFramesIn DEF ScaleVideo, VideoThumbnail
<1> QED
  BY <1>6, <1>7, <1>8

LEMMA DeliverFrames ==
  ASSUME NeedsInv, CallsInv, FramesInv, NEW d \in Deliveries, NEW e \in pending, Deliver(d, e),
         UNCHANGED <<pipeVars, scenario, started>>
  PROVE  FramesInv'
<1>1. e.kind \in SubscribedEvents /\ UNCHANGED <<items, pending>>
  BY DEF Deliver
<1>2. EventsStay
  BY <1>1 DEF EventsStay
<1>3. CASE e.kind = "sentiment"
  BY <1>1, <1>2, <1>3, AnalysesReady, AnalysesStoreNoFrames, BeginFrames DEF Deliver
<1>4. CASE e.kind = "objects"
  BY <1>1, <1>2, <1>4, AnalysesReady, AnalysesStoreNoFrames, BeginFrames DEF Deliver
<1>5. CASE e.kind = "scale"
  BY <1>1, <1>2, <1>5, AnalysesReady, AnalysesStoreNoFrames, BeginFrames DEF Deliver
<1>6. CASE e.kind = "thumbnail"
  BY <1>1, <1>2, <1>6, AnalysesReady, AnalysesStoreNoFrames, BeginFrames DEF Deliver
<1>7. CASE e.kind \in TimelineEvents
  <2>1. UNCHANGED procs
    BY <1>7 DEF Deliver, TimelineEvents
  <2> QED
    BY <1>1, <1>2, <2>1, StillFrames
<1> QED
  BY <1>1, <1>3, <1>4, <1>5, <1>6, <1>7 DEF SubscribedEvents

LEMMA EndsFrames ==
  ASSUME NeedsInv, CallsInv, FindingsInv, FramesInv, NEW d \in Deliveries,
         AnalysisEnds(d) \/ AskFails(d) \/ UpdateEnds(d),
         UNCHANGED <<pipeVars, scenario, started>>
  PROVE  FramesInv'
<1>1. /\ pending' = pending \ {updates[d].event} /\ UNCHANGED <<items, procs>>
      /\ updates[d].at \in {"analysis", "followers", "collect"}
  BY DEF AnalysisEnds, AskFails, UpdateEnds, Acknowledge, storeVars
<1>2. updates[d].event.kind \notin Stages
  <2>1. CASE updates[d].at = "analysis"
    <3>1. Doing(updates[d].event, procs[d])
      BY <2>1 DEF FindingsInv, Analysing
    <3> QED
      BY <3>1 DEF Doing, Copied, Stages
  <2>2. CASE updates[d].at # "analysis"
    BY <1>1, <2>2 DEF NeedsInv, UpdatesReady, UpdateRight, TimelineEvents, Stages
  <2> QED
    BY <2>1, <2>2
<1>3. EventsStay
  BY <1>1, <1>2 DEF EventsStay
<1> QED
  BY <1>1, <1>3, StillFrames

\* A worker of the pipeline only reads, stores and publishes.
LEMMA WorkerCommand ==
  ASSUME NEW e, NEW todo, IsList(todo), JobRest(e, todo), NEW x \in ToSet(todo)
  PROVE  x.do \in {"get", "store", "publish"}
<1>1. PICK i \in 1..Len(todo) : todo[i] = x
  BY ListFacts
<1>2. StepOf(e, todo, i)
  BY DEF JobRest
<1>3. (\A event : Publish(event).do = "publish") /\ \A key, value : Save(key, value).do = "store"
  BY DEF Publish, Save
<1> QED
  BY <1>1, <1>2, <1>3 DEF StepOf, FaceOf

LEMMA SocialFrames ==
  ASSUME NeedsInv, CallsInv, FindingsInv, FramesInv, SocialStep,
         UNCHANGED <<pipeVars, scenario, started>>
  PROVE  FramesInv'
<1>1. CASE \E d \in Deliveries, e \in pending : Deliver(d, e)
  BY <1>1, DeliverFrames
<1>2. CASE \E d \in Deliveries : AnalysisEnds(d) \/ AskFails(d) \/ UpdateEnds(d)
  BY <1>2, EndsFrames
<1>3. CASE \/ \E d \in Deliveries : AskFollowers(d) \/ PushJob(d)
           \/ \E w \in Workers : SendResult(w)
  <2>1. UNCHANGED <<items, procs, pending>>
    BY <1>3 DEF AskFollowers, PushJob, SendResult, storeVars
  <2> QED
    BY <2>1, StillFrames DEF EventsStay
<1>4. CASE \E w \in Workers : TakeJob(w)
  <2>1. PICK w \in Workers : TakeJob(w)
    BY <1>4
  <2>2. PICK key, kind, about : Begin(w, <<Edit(key, kind, about)>>)
    BY <2>1 DEF TakeJob
  <2>3. UNCHANGED <<items, pending>>
    BY <2>1 DEF TakeJob
  <2>4. PICK command : command = Edit(key, kind, about)
    OBVIOUS
  <2>5. IsList(<<command>>) /\ NoFrames(<<command>>)
    BY <2>4, EditIs, OneList, NoFramesIn
  <2> QED
    BY <2>2, <2>3, <2>4, <2>5, BeginFrames DEF EventsStay
<1>5. CASE \E p \in Procs : ReadPage(p) \/ ReadPosts(p)
  <2>1. PICK p \in Procs : ReadPage(p) \/ ReadPosts(p)
    BY <1>5
  <2>2. Advances(p) /\ Command(p).do # "publish" /\ UNCHANGED pending
    BY <2>1, ReadPageAdvances, ReadPostsAdvances DEF NeedsInv, ReadPage, ReadPosts, timelineVars
  <2>3. p \notin PipeWorkers
    <3> SUFFICES ASSUME p \in PipeWorkers PROVE FALSE
      OBVIOUS
    <3>1. Command(p).do \in {"page", "posts"} /\ Command(p) \in ToSet(procs[p].todo)
          /\ procs[p].todo # <<>>
      BY <2>1, <2>2, ReadPageAdvances, ReadPostsAdvances, AdvanceFacts DEF NeedsInv
    <3>2. crew[p].at = "work"
      BY <3>1 DEF FramesInv, JobsKnown
    <3> QED
      BY <3>1, <3>2, WorkerIs, WorkerCommand DEF FramesInv
  <2> QED
    BY <2>2, <2>3, HandlerFrames
<1> QED
  BY <1>1, <1>2, <1>3, <1>4, <1>5 DEF SocialStep, TimelineStep

LEMMA HandlersFrames ==
  ASSUME NeedsInv, CallsInv, FramesInv, NEW p \in Handlers,
         \/ StoreStep(p) /\ UNCHANGED timelineVars
         \/ PublishEvent(p) \/ PublishFails(p),
         UNCHANGED <<pipeVars, scenario, started>>
  PROVE  FramesInv'
<1>1. p \in Procs \ PipeWorkers
  BY DEF Handlers
<1>2. CASE StoreStep(p) /\ UNCHANGED timelineVars
  <2>1. Advances(p) /\ UNCHANGED pending
    BY <1>1, <1>2, StoreStepAdvances DEF NeedsInv, timelineVars
  <2>2. Command(p).do # "publish"
    BY <1>2 DEF StoreStep, GetState, GiveUp, SaveBulkState, Saves, EtagMismatch, WriteState, Writes,
                ReadState, ReadNeeded, CommandFails, Turn
  <2> QED
    BY <1>1, <2>1, <2>2, HandlerFrames
<1>3. CASE PublishEvent(p)
  <2>1. Advances(p) /\ pending' = pending \cup {Command(p).event}
    BY <1>1, <1>3, PublishingAdvances DEF NeedsInv, PublishEvent
  <2> QED
    BY <1>1, <2>1, HandlerFrames
<1>4. CASE PublishFails(p)
  <2>1. Advances(p) /\ pending \subseteq pending' /\ procs'[p].ok = FALSE
    BY <1>1, <1>4, PublishingAdvances, FailFacts DEF NeedsInv, PublishFails, Reached
  <2> QED
    BY <1>1, <2>1, HandlerFrames
<1> QED
  BY <1>2, <1>3, <1>4

-----------------------------------------------------------------------------
(* The steps of the pipeline. *)

\* One queue of a stage changes.
OnlyChanges(s, priority, list) ==
  \A t \in Stages, other \in Priorities :
    line'[t][other] = IF t = s /\ other = priority THEN list ELSE line[t][other]

LEMMA LineIs ==
  ASSUME LinesReady, NEW s \in Stages, NEW priority \in Priorities, NEW list,
         line' = [line EXCEPT ![s][priority] = list]
  PROVE  OnlyChanges(s, priority, list)
<1>1. line = [t \in Stages |-> line[t]] /\ line[s] = [other \in Priorities |-> line[s][other]]
  BY DEF LinesReady
<1>2. line'[s] = [line[s] EXCEPT ![priority] = list] /\ \A t \in Stages \ {s} : line'[t] = line[t]
  BY <1>1
<1>3. \A other \in Priorities : line'[s][other] = IF other = priority THEN list ELSE line[s][other]
  BY <1>1, <1>2
<1> QED
  BY <1>2, <1>3 DEF OnlyChanges

LEMMA QueuedFrom ==
  ASSUME NEW s \in Stages, NEW priority \in Priorities, NEW e \in ToSet(line'[s][priority])
  PROVE  e \in Queued'
BY DEF Queued

LEMMA PutFrames ==
  ASSUME NeedsInv, CallsInv, FramesInv, NEW e \in pending, PutRequest(e),
         UNCHANGED <<scenario, started>>
  PROVE  FramesInv'
<1>1. /\ e.kind \in Stages /\ pending' = pending \ {e}
      /\ line' = [line EXCEPT ![e.kind][e.user] = Append(@, e)]
      /\ items' = items /\ procs' = procs /\ crew' = crew /\ lost' = lost
  BY DEF PutRequest, storeVars
<1>2. e.user \in Priorities
  BY <1>1, EventIs DEF EventRight
<1>3. PICK s, priority, old : s = e.kind /\ priority = e.user /\ old = line[s][priority]
  OBVIOUS
<1>4. PICK list : list = Append(old, e)
  OBVIOUS
<1>5. line' = [line EXCEPT ![s][priority] = list]
  BY <1>1, <1>3, <1>4
<1>6. s \in Stages /\ priority \in Priorities /\ LinesReady
  BY <1>1, <1>2, <1>3 DEF NeedsInv
<1>7. OnlyChanges(s, priority, list)
  BY <1>5, <1>6, LineIs
<1>8. ToSet(list) = ToSet(old) \cup {e}
  <2>1. IsList(old)
    BY <1>3, <1>6 DEF LinesReady
  <2> QED
    BY <1>4, <2>1, ListAppend
<1>9. Queued \cup {e} \subseteq Queued'
  <2>1. e \in Queued'
    BY <1>6, <1>7, <1>8, QueuedFrom DEF OnlyChanges
  <2>2. ASSUME NEW x \in Queued PROVE x \in Queued'
    <3>1. PICK t \in Stages, other \in Priorities : x \in ToSet(line[t][other])
      BY DEF Queued
    <3>2. x \in ToSet(line'[t][other])
      BY <1>3, <1>7, <1>8, <3>1 DEF OnlyChanges
    <3> QED
      BY <3>2, QueuedFrom
  <2> QED
    BY <2>1, <2>2
<1>10. EventsPass
  BY <1>1, <1>9 DEF EventsPass
<1>11. CommandsPass
  BY <1>1 DEF CommandsPass, Passes
<1>12. MarksPass
  BY <1>1, ItemStays DEF MarksPass, FrameKept
<1>13. FramesPass
  BY <1>1, <1>10, <1>11, <1>12 DEF FramesPass
<1>14. JobsKnown' /\ FramesOwned'
  BY <1>1 DEF FramesInv, JobsKnown, FramesOwned
<1> QED
  BY <1>1, <1>13, <1>14, RequestsPass DEF FramesInv

\* A worker does something.
LEMMA WorkerFrames ==
  ASSUME NeedsInv, CallsInv, FramesInv, NEW w \in PipeWorkers,
         \A q \in Procs \ {w} : procs'[q] = procs[q],
         \A v \in PipeWorkers \ {w} : crew'[v] = crew[v],
         IF crew'[w].at = "work"
         THEN /\ JobRest(crew'[w].job, procs'[w].todo)
              /\ crew'[w].job.about \in lost' \/ Marking(crew'[w].job, procs'[w].todo)
         ELSE procs'[w].todo = <<>>,
         lost \subseteq lost', EventsPass, MarksPass,
         \/ crew[w].at # "work" \/ crew[w].job.about \in lost'
         \/ \A x \in ToSet(procs[w].todo) : Passes(w, x),
         UNCHANGED <<scenario, started>>
  PROVE  FramesInv'
<1>1. \A v \in PipeWorkers \ {w} : v \in Procs /\ procs'[v] = procs[v]
  BY DaprPipeAssumption
<1>2. JobsKnown'
  <2> SUFFICES ASSUME NEW v \in PipeWorkers
               PROVE  IF crew'[v].at = "work"
                      THEN /\ JobRest(crew'[v].job, procs'[v].todo)
                           /\ \/ crew'[v].job.about \in lost'
                              \/ Marking(crew'[v].job, procs'[v].todo)
                      ELSE procs'[v].todo = <<>>
    BY DEF JobsKnown
  <2>1. CASE v = w
    BY <2>1
  <2>2. CASE v # w
    BY <1>1, <2>2 DEF FramesInv, JobsKnown
  <2> QED
    BY <2>1, <2>2
<1>3. FramesOwned'
  BY OwnedStays DEF FramesInv
<1>4. CommandsPass
  <2> SUFFICES ASSUME NEW v \in PipeWorkers, crew[v].at = "work"
               PROVE  crew[v].job.about \in lost' \/ \A x \in ToSet(procs[v].todo) : Passes(v, x)
    BY DEF CommandsPass
  <2>1. CASE v # w
    BY <1>1, <2>1 DEF Passes
  <2> QED
    BY <2>1
<1>5. FramesPass
  BY <1>4 DEF FramesPass
<1>6. \A c \in started : procs'[c] = procs[c]
  BY DaprAssumption DEF CallsInv, CallsRight
<1> QED
  BY <1>2, <1>3, <1>5, <1>6, RequestsPass DEF FramesInv

LEMMA NothingRests == ASSUME NEW e PROVE JobRest(e, <<>>) /\ Marking(e, <<>>) /\ ToSet(<<>>) = {}
<1>1. PICK todo : todo = <<>>
  OBVIOUS
<1>2. Len(todo) = 0 /\ ToSet(todo) = {}
  BY <1>1, EmptyList
<1>3. JobRest(e, todo) /\ Marking(e, todo)
  BY <1>2 DEF JobRest, Marking
<1> QED
  BY <1>1, <1>2, <1>3

LEMMA EventsGoOn ==
  ASSUME pending \subseteq pending', line' = line
  PROVE  EventsPass
BY DEF EventsPass, Queued

LEMMA TurnFrames ==
  ASSUME NeedsInv, CallsInv, FramesInv, NEW w \in PipeWorkers,
         TimesOut(w) \/ FindsNothing(w) \/ JobEnds(w), UNCHANGED <<scenario, started>>
  PROVE  FramesInv'
<1>1. items' = items /\ procs' = procs /\ pending' = pending /\ line' = line /\ lost' = lost
  BY DEF TimesOut, FindsNothing, JobEnds, storeVars, timelineVars
<1>2. procs[w].todo = <<>>
  BY DEF TimesOut, FindsNothing, JobEnds, Runs, FramesInv, JobsKnown
<1>3. crew = [v \in PipeWorkers |-> crew[v]] /\ crew[w] = [at |-> crew[w].at, job |-> crew[w].job]
  BY DEF NeedsInv, CrewReady
<1>4. PICK new : crew' = [crew EXCEPT ![w] = new] /\ new.at # "work"
  <2> DEFINE low == [crew[w] EXCEPT !.at = "low"]
             high == [crew[w] EXCEPT !.at = "high"]
             done == [at |-> "high", job |-> NoEvent]
  <2>1. low.at = "low" /\ high.at = "high" /\ done.at = "high"
    BY <1>3
  <2>2. CASE TimesOut(w)
    <3>1. crew' = [crew EXCEPT ![w] = low]
      BY <2>2 DEF TimesOut
    <3> QED
      BY <2>1, <3>1
  <2>3. CASE FindsNothing(w)
    <3>1. crew' = [crew EXCEPT ![w] = high]
      BY <2>3 DEF FindsNothing
    <3> QED
      BY <2>1, <3>1
  <2>4. CASE JobEnds(w)
    <3>1. crew' = [crew EXCEPT ![w] = done]
      BY <2>4 DEF JobEnds
    <3> QED
      BY <2>1, <3>1
  <2> QED
    BY <2>2, <2>3, <2>4
<1>5. crew'[w] = new /\ \A v \in PipeWorkers \ {w} : crew'[v] = crew[v]
  BY <1>3, <1>4
<1>6. crew'[w].at # "work" /\ procs'[w].todo = <<>>
  BY <1>1, <1>2, <1>4, <1>5
<1>7. EventsPass
  BY <1>1, EventsGoOn
<1>8. MarksPass
  BY <1>1, ItemStays DEF MarksPass, FrameKept
<1>9. \A x \in ToSet(procs[w].todo) : Passes(w, x)
  BY <1>2, NothingRests
<1> QED
  BY <1>1, <1>5, <1>6, <1>7, <1>8, <1>9, WorkerFrames

LEMMA PipeTakeFrames ==
  ASSUME NeedsInv, CallsInv, FramesInv, NEW w \in PipeWorkers, NEW priority \in Priorities,
         Take(w, priority), UNCHANGED <<scenario, started>>
  PROVE  FramesInv'
<1>1. PICK s, old, e : s = StageOf[w] /\ old = line[s][priority] /\ e = Head(old)
  OBVIOUS
<1>2. /\ crew[w].at = priority /\ old # <<>>
      /\ line' = [line EXCEPT ![s][priority] = Tail(@)]
      /\ crew' = [crew EXCEPT ![w] = [at |-> "work", job |-> e]] /\ Begin(w, Job(e))
      /\ items' = items /\ pending' = pending /\ lost' = lost
  BY <1>1 DEF Take, Waiting
<1>3. s \in Stages /\ w \in Procs /\ LinesReady
  BY <1>1, DaprPipeAssumption DEF NeedsInv
<1>4. IsList(old) /\ \A x \in ToSet(old) : x.kind = s /\ EventReady(x, There)
  BY <1>1, <1>3 DEF LinesReady
<1>5. PICK list : list = Tail(old)
  OBVIOUS
<1>6. line' = [line EXCEPT ![s][priority] = list] /\ ToSet(old) = ToSet(list) \cup {e}
  BY <1>1, <1>2, <1>4, <1>5, OnceTail
<1>7. e.kind \in Stages /\ EventRight(e)
  BY <1>3, <1>4, <1>6 DEF EventReady
<1>8. IsList(Job(e)) /\ JobRest(e, Job(e)) /\ Marking(e, Job(e))
  BY <1>7, JobReady, JobStarts
<1>9. procs'[w].todo = Job(e) /\ \A q \in Procs \ {w} : procs'[q] = procs[q]
  BY <1>2, <1>3, <1>8, BeginFacts DEF NeedsInv, Reached, OthersStay
<1>10. /\ crew'[w].at = "work" /\ crew'[w].job = e
       /\ \A v \in PipeWorkers \ {w} : crew'[v] = crew[v]
  <2>1. crew = [v \in PipeWorkers |-> crew[v]]
    BY DEF NeedsInv, CrewReady
  <2> QED
    BY <1>2, <2>1
<1>11. OnlyChanges(s, priority, list)
  BY <1>3, <1>6, LineIs
<1>12. EventsPass
  <2> SUFFICES ASSUME NEW x \in Queued PROVE x \in Queued' \/ Begun(x)
    BY <1>2 DEF EventsPass
  <2>1. CASE x = e
    BY <1>9, <1>10, <2>1 DEF Begun
  <2>2. CASE x # e
    <3>1. PICK t \in Stages, other \in Priorities : x \in ToSet(line[t][other])
      BY DEF Queued
    <3>2. x \in ToSet(line'[t][other])
      BY <1>1, <1>6, <1>11, <2>2, <3>1 DEF OnlyChanges
    <3> QED
      BY <3>2, QueuedFrom
  <2> QED
    BY <2>1, <2>2
<1>13. MarksPass
  BY <1>2, ItemStays DEF MarksPass, FrameKept
<1>14. crew[w].at # "work"
  BY <1>2 DEF Priorities
<1> QED
  BY <1>2, <1>8, <1>9, <1>10, <1>12, <1>13, <1>14, WorkerFrames

\* A worker stores a frame again before it asks for its faces.
LEMMA WriteMarks ==
  ASSUME NeedsInv, CallsInv, JobsKnown, NEW w \in PipeWorkers, Advances(w), crew[w].at = "work",
         lost \subseteq lost',
         \/ crew[w].job.about \in lost'
         \/ crew'[w].at = "work" /\ procs'[w].todo = Tail(procs[w].todo)
  PROVE  MarksPass
<1> SUFFICES ASSUME NEW r \in DOMAIN FramesOf, NEW f \in ToSet(FramesOf[r]),
                    Item(Frame(f)).value = "marked"
             PROVE  FrameKept(r, f)'
  BY DEF MarksPass
<1>1. PICK key : key = Frame(f)
  OBVIOUS
<1>2. key[1] = "frame" /\ key \notin Gone
  BY <1>1, FrameIs
<1>3. PICK new : new = Item(key)'
  OBVIOUS
<1>4. PICK todo, e : todo = procs[w].todo /\ e = crew[w].job
  OBVIOUS
<1>5. IsList(todo) /\ JobRest(e, todo) /\ todo # <<>> /\ EventRight(e)
      /\ Command(w) = Head(todo) /\ Command(w) \in ToSet(todo)
      /\ (e.about \in lost \/ Marking(e, todo))
  BY <1>4, WorkerIs, AdvanceFacts
<1>6. CASE Item(key)' = Item(key)
  BY <1>1, <1>6 DEF FrameKept
<1>7. CASE Wrote(w, key, new.value)
  <2>1. Command(w).do = "store" /\ Command(w).key = key /\ new.value = Command(w).value
    BY <1>5, <1>7, WorkerCommand DEF Wrote
  <2>2. 1 \in 1..Len(todo) /\ todo[1] = Command(w)
    BY <1>5, ListFacts
  <2>3. CASE e.kind = "face" /\ \E value : todo[1] = Save(Frame(e.about), value)
    <3>1. CASE Marking(e, todo)
      <4>1. new.value = "marked"
        BY <1>5, <2>1, <2>3, <3>1 DEF Marking
      <4> QED
        BY <1>1, <1>3, <4>1 DEF FrameKept
    <3>2. CASE e.about \in lost
      <4>1. PICK value, x : x = Save(Frame(e.about), value) /\ x = todo[1]
        <5>1. PICK value : todo[1] = Save(Frame(e.about), value)
          BY <2>3
        <5>2. PICK x : x = todo[1]
          OBVIOUS
        <5> QED
          BY <5>1, <5>2
      <4>2. x.key = Frame(e.about) /\ (Frame(e.about) = Frame(f) => e.about = f)
        <5>1. PICK own : own = e.about
          OBVIOUS
        <5>2. x = Save(Frame(own), value)
          BY <4>1, <5>1
        <5>3. x.key = Frame(own) /\ (Frame(own) = Frame(f) => own = f)
          BY <5>2, FrameIs
        <5> QED
          BY <5>1, <5>3
      <4>3. e.about = f
        BY <1>1, <2>1, <2>2, <4>1, <4>2
      <4> QED
        BY <3>2, <4>3 DEF FrameKept
    <3> QED
      BY <1>5, <3>1, <3>2
  <2>4. CASE /\ e.kind = "scene"
             /\ \E g \in ToSet(FramesOf[e.about]) :
                  /\ todo[1] = Save(Frame(g), "found")
                  /\ \E j \in (1 + 1)..Len(todo) : todo[j] = FaceOf(e, g)
    <3>1. PICK g \in ToSet(FramesOf[e.about]) :
            /\ todo[1] = Save(Frame(g), "found")
            /\ \E j \in (1 + 1)..Len(todo) : todo[j] = FaceOf(e, g)
      BY <2>4
    <3>2. g = f
      <4>1. PICK x : x = Save(Frame(g), "found")
        OBVIOUS
      <4>2. x.key = Frame(g) /\ (Frame(g) = Frame(f) => g = f)
        BY <4>1, FrameIs
      <4> QED
        BY <1>1, <2>1, <2>2, <3>1, <4>1, <4>2
    <3>3. e.about = r
      <4>1. e.about \in DOMAIN FramesOf
        BY <1>5, <2>4 DEF EventRight, Stages
      <4> QED
        BY <3>1, <3>2, <4>1, DaprAssumption
    <3>4. CASE e.about \in lost'
      BY <3>3, <3>4 DEF FrameKept
    <3>5. CASE crew'[w].at = "work" /\ procs'[w].todo = Tail(todo)
      <4>1. PICK j \in 2..Len(todo) : todo[j] = FaceOf(e, f)
        BY <3>1, <3>2
      <4>2. /\ IsList(Tail(todo)) /\ Len(Tail(todo)) = Len(todo) - 1
            /\ \A i \in 1..Len(Tail(todo)) : Tail(todo)[i] = todo[i + 1]
        BY <1>5, ListTail
      <4>3. PICK i : i = j - 1
        OBVIOUS
      <4>4. Len(todo) \in Nat
        BY <1>5, ListFacts
      <4>5. i \in 1..Len(Tail(todo)) /\ i + 1 = j
        BY <4>2, <4>3, <4>4
      <4>6. PICK x : x = FaceOf(e, f)
        OBVIOUS
      <4>7. x \in ToSet(Tail(todo))
        <5>1. PICK rest : rest = Tail(todo)
          OBVIOUS
        <5>2. IsList(rest) /\ i \in 1..Len(rest) /\ rest[i] = x
          BY <4>1, <4>2, <4>5, <4>6, <5>1
        <5> QED
          BY <5>1, <5>2, ListFacts
      <4>8. x.do = "publish" /\ x.event.kind = "face" /\ x.event.about = f
        BY <4>6, PublishedIs DEF FaceOf
      <4>9. WillAsk(w, "face", f)'
        BY <3>5, <4>7, <4>8 DEF WillAsk
      <4> QED
        BY <4>9 DEF FrameKept, Asked
    <3> QED
      BY <1>4, <3>4, <3>5
  <2> QED
    BY <1>5, <2>1, <2>2, <2>3, <2>4, StoreIs
<1> QED
  BY <1>2, <1>3, <1>6, <1>7, ItemWrites DEF CallsInv

LEMMA WorkFrames ==
  ASSUME NeedsInv, CallsInv, FramesInv, NEW w \in PipeWorkers,
         Works(w) \/ ReadFails(w) \/ WorkerDies(w), UNCHANGED <<scenario, started>>
  PROVE  FramesInv'
<1>1. w \in Procs /\ crew[w].at = "work"
  BY DaprPipeAssumption DEF Works, ReadFails, WorkerDies
<1>2. Advances(w)
  <2>1. CASE Works(w)
    <3>1. StoreStep(w) \/ PublishEvent(w)
      BY <2>1 DEF Works, StoreStep
    <3> QED
      BY <1>1, <3>1, StoreStepAdvances, PublishingAdvances DEF NeedsInv
  <2> QED
    BY <1>1, <2>1, ReadFailsAdvances, WorkerDiesAdvances DEF NeedsInv
<1>3. \A q \in Procs \ {w} : procs'[q] = procs[q]
  BY <1>2, AdvanceFacts
<1>4. PICK todo, e : todo = procs[w].todo /\ e = crew[w].job
  OBVIOUS
<1>5. /\ IsList(todo) /\ JobRest(e, todo) /\ todo # <<>>
      /\ Command(w) = Head(todo) /\ ToSet(todo) = ToSet(Tail(todo)) \cup {Head(todo)}
      /\ e.about \in lost \/ Marking(e, todo)
  BY <1>1, <1>2, <1>4, WorkerIs, AdvanceFacts, OnceTail DEF FramesInv
<1>6. JobsKnown
  BY DEF FramesInv
<1>7. CASE Works(w)
  <2>1. crew' = crew /\ line' = line /\ lost' = lost
    BY <1>7 DEF Works, pipeVars
  <2>2. Proceed(w) /\ Runs(w)
    BY <1>7 DEF Works, ReadState, WriteState, Writes, PublishEvent, Turn
  <2>3. procs'[w].todo = Tail(todo)
    BY <1>1, <1>4, <2>2, ProceedFacts DEF NeedsInv, Goes, Reached
  <2>4. pending \subseteq pending'
    BY <1>7 DEF Works, timelineVars, PublishEvent
  <2>5. Passes(w, Command(w))
    <3>1. CASE ReadState(w)
      BY <3>1 DEF ReadState, Turn, Passes
    <3>2. CASE WriteState(w)
      <4>1. Command(w).do = "store" /\ Put(Command(w).key, Command(w).value)
        <5>1. Command(w).do \in {"get", "store", "publish"}
          BY <1>5, WorkerCommand
        <5> QED
          BY <3>2, <5>1 DEF WriteState, Writes, Turn
      <4>2. PICK x : x = Command(w)
        OBVIOUS
      <4>3. PICK key, value : key = x.key /\ value = x.value
        OBVIOUS
      <4>4. Put(key, value)
        BY <4>1, <4>2, <4>3
      <4>5. key \in DOMAIN items' /\ items'[key].value = value
        BY <4>4, PutFacts
      <4>6. Item(key)'.value = value
        BY <4>5 DEF Item
      <4>7. Passes(w, x)
        BY <4>1, <4>2, <4>3, <4>6 DEF Passes
      <4> QED
        BY <4>2, <4>7
    <3>3. CASE PublishEvent(w)
      BY <3>3 DEF PublishEvent, Turn, Passes
    <3> QED
      BY <1>7, <3>1, <3>2, <3>3 DEF Works
  <2>6. ASSUME NEW x \in ToSet(todo) PROVE Passes(w, x)
    <3>1. CASE x \in ToSet(Tail(todo))
      BY <1>1, <2>1, <2>3, <3>1 DEF Passes
    <3>2. CASE x = Command(w)
      BY <2>5, <3>2
    <3> QED
      BY <1>5, <3>1, <3>2
  <2>7. JobRest(e, Tail(todo)) /\ (e.about \in lost' \/ Marking(e, Tail(todo)))
    BY <1>5, <2>1, JobRestTail DEF Marking
  <2>8. EventsPass
    BY <2>1, <2>4, EventsGoOn
  <2>9. MarksPass
    BY <1>1, <1>2, <1>4, <1>6, <2>1, <2>3, WriteMarks
  <2> QED
    BY <1>1, <1>3, <1>4, <2>1, <2>3, <2>6, <2>7, <2>8, <2>9, WorkerFrames
<1>8. CASE ReadFails(w)
  <2>1. crew' = crew /\ line' = line /\ items' = items /\ pending' = pending /\ lost \subseteq lost'
    BY <1>8 DEF ReadFails, timelineVars
  <2>2. EventsPass
    BY <2>1, EventsGoOn
  <2>3. MarksPass
    BY <2>1, ItemStays DEF MarksPass, FrameKept
  <2>4. CASE procs' = [procs EXCEPT ![w].tries = @ + 1]
    <3>1. procs'[w].todo = todo
      <4> DEFINE new == [procs[w] EXCEPT !.tries = @ + 1]
      <4>1. procs = [p \in Procs |-> procs[p]] /\ DOMAIN procs[w] = ProcFields
        BY <1>1 DEF NeedsInv, ProcsShaped
      <4>2. new.todo = procs[w].todo
        BY <4>1 DEF ProcFields
      <4>3. procs' = [procs EXCEPT ![w] = new]
        BY <2>4
      <4> HIDE DEF new
      <4>4. procs'[w] = new
        BY <1>1, <4>1, <4>3
      <4> QED
        BY <1>4, <4>2, <4>4
    <3>2. \A x \in ToSet(todo) : Passes(w, x)
      BY <1>1, <2>1, <3>1 DEF Passes
    <3> QED
      BY <1>1, <1>3, <1>4, <1>5, <2>1, <2>2, <2>3, <3>1, <3>2, WorkerFrames
  <2>5. CASE Fail(w) /\ lost' = lost \cup {crew[w].job.about}
    <3>1. procs'[w].todo = <<>>
      BY <1>1, <2>5, FailFacts DEF NeedsInv, Reached
    <3> QED
      BY <1>1, <1>3, <2>1, <2>2, <2>3, <2>5, <3>1, NothingRests, WorkerFrames
  <2> QED
    BY <1>8, <2>4, <2>5 DEF ReadFails
<1>9. CASE WorkerDies(w)
  <2>1. /\ line' = line /\ pending \subseteq pending' /\ lost \subseteq lost' /\ Fail(w)
        /\ crew[w].job.about \in lost'
        /\ crew' = [crew EXCEPT ![w] = [at |-> "dead", job |-> NoEvent]]
    BY <1>9 DEF WorkerDies
  <2>2. procs'[w].todo = <<>>
    BY <1>1, <2>1, FailFacts DEF NeedsInv, Reached
  <2>3. crew = [v \in PipeWorkers |-> crew[v]]
    BY DEF NeedsInv, CrewReady
  <2>4. crew'[w].at = "dead" /\ \A v \in PipeWorkers \ {w} : crew'[v] = crew[v]
    BY <2>1, <2>3
  <2>5. EventsPass
    BY <2>1, EventsGoOn
  <2>6. MarksPass
    BY <1>1, <1>2, <1>6, <2>1, WriteMarks
  <2> QED
    BY <1>3, <2>1, <2>2, <2>4, <2>5, <2>6, WorkerFrames
<1> QED
  BY <1>7, <1>8, <1>9

LEMMA DetectFrames ==
  ASSUME NeedsInv, CallsInv, FramesInv, NEW w \in PipeWorkers, DetectFails(w),
         UNCHANGED <<scenario, started>>
  PROVE  FramesInv'
<1>1. /\ w \in Procs /\ crew[w].at = "work" /\ crew[w].job.kind = "face"
      /\ lost' = lost \cup {crew[w].job.about} /\ UNCHANGED <<items, pending, line, crew>>
  BY DetectFacts
<1>2. PICK e : e = crew[w].job
  OBVIOUS
<1>3. PICK value, a : /\ a = Save(Frame(e.about), value)
                      /\ Begins(w, <<a>>)
  BY <1>2, DetectFacts
<1>4. PICK todo : todo = <<a>>
  OBVIOUS
<1>5. procs'[w].todo = todo /\ \A q \in Procs \ {w} : procs'[q] = procs[q]
  BY <1>3, <1>4 DEF Begins, Reached, OthersStay
<1>6. JobRest(e, todo)
  <2>1. Len(todo) = 1 /\ todo[1] = a
    BY <1>4
  <2>2. StepOf(e, todo, 1)
    BY <1>1, <1>2, <1>3, <2>1 DEF StepOf
  <2>3. \A i \in 1..Len(todo) : i = 1
    BY <2>1
  <2> QED
    BY <2>2, <2>3 DEF JobRest
<1>7. EventsPass
  BY <1>1, EventsGoOn
<1>8. MarksPass
  BY <1>1, ItemStays DEF MarksPass, FrameKept
<1> QED
  BY <1>1, <1>2, <1>5, <1>6, <1>7, <1>8, WorkerFrames

LEMMA PipeFrames ==
  ASSUME NeedsInv, CallsInv, FramesInv, PipeStep, UNCHANGED <<scenario, started>>
  PROVE  FramesInv'
<1>1. CASE \E e \in pending : PutRequest(e)
  BY <1>1, PutFrames
<1>2. CASE \E w \in PipeWorkers, priority \in Priorities : Take(w, priority)
  BY <1>2, PipeTakeFrames
<1>3. CASE \E w \in PipeWorkers : TimesOut(w) \/ FindsNothing(w) \/ JobEnds(w)
  BY <1>3, TurnFrames
<1>4. CASE \E w \in PipeWorkers : Works(w) \/ ReadFails(w) \/ WorkerDies(w)
  BY <1>4, WorkFrames
<1>5. CASE \E w \in PipeWorkers : DetectFails(w)
  BY <1>5, DetectFrames
<1> QED
  BY <1>1, <1>2, <1>3, <1>4, <1>5 DEF PipeStep, WorkerStep

LEMMA FramesInit == Init => FramesInv
<1> SUFFICES ASSUME Init PROVE FramesInv
  OBVIOUS
<1>1. /\ procs = [p \in Procs |-> Idle] /\ started = {}
      /\ crew = [w \in PipeWorkers |-> [at |-> "high", job |-> NoEvent]]
  BY DEF Init, StoreInit, PipeInit
<1>2. PICK idle : idle = Idle
  OBVIOUS
<1>3. idle.todo = <<>>
  BY <1>2 DEF Idle
<1>4. \A p \in Procs : procs[p].todo = <<>>
  BY <1>1, <1>2, <1>3
<1>5. \A w \in PipeWorkers : w \in Procs /\ crew[w].at = "high"
  BY <1>1, DaprPipeAssumption
<1>6. JobsKnown
  BY <1>4, <1>5 DEF JobsKnown
<1>7. FramesOwned
  BY <1>4, EmptyList DEF FramesOwned
<1> QED
  BY <1>1, <1>6, <1>7 DEF FramesInv, RequestsKept

LEMMA FramesInvStep ==
  NeedsInv /\ CallsInv /\ FindingsInv /\ FramesInv /\ [Next]_appVars => FramesInv'
<1> SUFFICES ASSUME NeedsInv, CallsInv, FindingsInv, FramesInv, [Next]_appVars PROVE FramesInv'
  OBVIOUS
<1>1. CASE UNCHANGED appVars
  <2>1. EventsStay /\ UNCHANGED <<items, procs, pipeVars, scenario, started>>
    BY <1>1 DEF appVars, storeVars, timelineVars, EventsStay
  <2> QED
    BY <2>1, StillFrames
<1>2. CASE \E c \in Calls : SendRequest(c)
  BY <1>2, SendFrames
<1>3. CASE Step
  <2>1. UNCHANGED <<scenario, started>>
    BY <1>3 DEF Step
  <2>2. CASE SocialStep /\ UNCHANGED pipeVars
    BY <2>1, <2>2, SocialFrames
  <2>3. CASE /\ \E p \in Handlers : \/ StoreStep(p) /\ UNCHANGED timelineVars
                                    \/ PublishEvent(p) \/ PublishFails(p)
             /\ UNCHANGED pipeVars
    BY <2>1, <2>3, HandlersFrames
  <2>4. CASE PipeStep
    BY <2>1, <2>4, PipeFrames
  <2> QED
    BY <1>3, <2>2, <2>3, <2>4 DEF Step, Work
<1> QED
  BY <1>1, <1>2, <1>3 DEF Next

-----------------------------------------------------------------------------
(* What is asked for is settled when it is under way. *)

LEMMA WaitsSettles ==
  ASSUME NEW kind, NEW about, Waits(kind, about)
  PROVE  Settled(about)
BY DEF Waits, Settled, UnderWay

LEMMA InHandSettles ==
  ASSUME NeedsInv, NEW w \in PipeWorkers, crew[w].at = "work", crew[w].job.kind \in Stages
  PROVE  Settled(crew[w].job.about)
<1>1. PICK e : e = crew[w].job
  OBVIOUS
<1>2. e # NoEvent
  <2>1. PICK none : none = NoEvent
    OBVIOUS
  <2>2. none.kind = "none"
    BY <2>1 DEF NoEvent, Event
  <2> QED
    BY <1>1, <2>1, <2>2 DEF Stages
<1>3. e \in UnderWay
  BY <1>1, <1>2 DEF UnderWay, InHand
<1> QED
  BY <1>1, <1>3 DEF Settled

LEMMA AskedSettles ==
  ASSUME NeedsInv, JobsKnown, NEW kind, NEW about, Asked(kind, about)
  PROVE  \/ Settled(about)
         \/ kind = "face" /\ \E r \in DOMAIN FramesOf : about \in ToSet(FramesOf[r]) /\ Settled(r)
<1>1. CASE Waits(kind, about)
  BY <1>1, WaitsSettles
<1>2. CASE \E w \in PipeWorkers : WillAsk(w, kind, about)
  <2>1. PICK w \in PipeWorkers : WillAsk(w, kind, about)
    BY <1>2
  <2>2. PICK x \in ToSet(procs[w].todo) :
          x.do = "publish" /\ x.event.kind = kind /\ x.event.about = about
    BY <2>1 DEF WillAsk
  <2>3. /\ crew[w].at = "work" /\ IsList(procs[w].todo) /\ JobRest(crew[w].job, procs[w].todo)
        /\ EventRight(crew[w].job)
    BY <2>1, WorkerIs DEF WillAsk
  <2>4. PICK e : e = crew[w].job
    OBVIOUS
  <2>5. \/ e.kind = "meta" /\ about = e.about
        \/ e.kind = "scene" /\ kind = "face" /\ about \in ToSet(FramesOf[e.about])
    BY <2>2, <2>3, <2>4, AskIs
  <2>6. e.kind \in Stages
    BY <2>5 DEF Stages
  <2>7. Settled(e.about)
    BY <2>3, <2>4, <2>6, InHandSettles
  <2>8. e.kind = "scene" => e.about \in DOMAIN FramesOf
    BY <2>3, <2>4 DEF EventRight, Stages
  <2> QED
    BY <2>5, <2>7, <2>8
<1> QED
  BY <1>1, <1>2 DEF Asked

LEMMA FrameSettles ==
  ASSUME NeedsInv, JobsKnown, NEW r \in DOMAIN FramesOf, NEW f \in ToSet(FramesOf[r]),
         FrameKept(r, f)
  PROVE  Settled(r) \/ Settled(f) \/ Item(Frame(f)).value = "marked"
<1>1. CASE r \in lost \/ f \in lost
  BY <1>1 DEF Settled
<1>2. CASE Asked("face", f)
  <2>1. \A s \in DOMAIN FramesOf : f \in ToSet(FramesOf[s]) => s = r
    BY DaprAssumption
  <2> QED
    BY <1>2, <2>1, AskedSettles
<1>3. CASE \E w \in PipeWorkers : WillMark(w, f)
  <2>1. PICK w \in PipeWorkers : WillMark(w, f)
    BY <1>3
  <2>2. /\ crew[w].at = "work" /\ Save(Frame(f), "marked") \in ToSet(procs[w].todo)
    BY <2>1 DEF WillMark
  <2>3. crew[w].job.kind = "face" /\ f = crew[w].job.about
    BY <2>2, WorkerIs, MarkIs
  <2> QED
    BY <2>2, <2>3, InHandSettles DEF Stages
<1> QED
  BY <1>1, <1>2, <1>3 DEF FrameKept

\* The requests that reached the broker.
Requested == {r \in DOMAIN FramesOf :
  \E c \in Succeeded : \E command \in Sent(c) :
    command.do = "publish" /\ command.event.kind = "meta" /\ command.event.about = r}

LEMMA FacesAreMarked ==
  ASSUME NeedsInv, CallsInv, FramesInv
  PROVE  FacesMarked(Requested)
<1> SUFFICES ASSUME NEW r \in Requested
             PROVE  \/ Settled(r)
                    \/ \A f \in ToSet(FramesOf[r]) : Settled(f) \/ Item(Frame(f)).value = "marked"
  BY DEF FacesMarked
<1>0. PICK c \in Succeeded : \E x \in Sent(c) :
        x.do = "publish" /\ x.event.kind = "meta" /\ x.event.about = r
  BY DEF Requested
<1>1. PICK x \in Sent(c) : x.do = "publish" /\ x.event.kind = "meta" /\ x.event.about = r
  BY <1>0
<1>2. c \in started /\ procs[c].todo = <<>> /\ procs[c].ok /\ r \in DOMAIN FramesOf
  BY <1>1 DEF Succeeded, Over, Runs, Requested
<1>3. RequestKept(r)
  <2>1. x \notin ToSet(procs[c].todo)
    BY <1>2, NothingKnown
  <2>2. RequestKept(x.event.about)
    BY <1>1, <1>2, <2>1 DEF FramesInv, RequestsKept
  <2> QED
    BY <1>1, <2>2
<1>4. CASE r \in lost
  BY <1>4 DEF Settled
<1>5. CASE Asked("meta", r) \/ Asked("scene", r)
  <2>1. PICK kind \in {"meta", "scene"} : Asked(kind, r)
    BY <1>5
  <2> QED
    BY <2>1, AskedSettles DEF FramesInv
<1>6. CASE \A f \in ToSet(FramesOf[r]) : FrameKept(r, f)
  BY <1>2, <1>6, FrameSettles DEF FramesInv
<1> QED
  BY <1>3, <1>4, <1>5, <1>6 DEF RequestKept

(* What a request or the handler of an event that succeeded has edited is    *)
(* kept, whoever edits the same items at the same time, and no frame of a    *)
(* request to the pipeline is forgotten before its faces are marked.         *)
THEOREM EditsAreKept == Spec => []EditsKept
<1> DEFINE Inv == NeedsInv /\ CallsInv /\ FindingsInv /\ FramesInv
<1>1. Init => Inv
  BY NeedsInit, CallsInit, FindingsInit, FramesInit
<1>2. Inv /\ [Next]_appVars => Inv'
  BY NeedsStep, CallsStep, FindingsStep, FramesInvStep
<1>3. Inv => EditsKept
  <2> SUFFICES ASSUME Inv PROVE EditsKept
    OBVIOUS
  <2>1. CallsKept /\ FindingsKept /\ FacesMarked(Requested)
    BY CallsAreKept, FindingsAreKept, FacesAreMarked
  <2> QED
    BY <2>1 DEF CallsKept, FindingsKept, Requested, EditsKept
<1> QED
  BY <1>1, <1>2, <1>3, PTL DEF Spec

-----------------------------------------------------------------------------
(* Timelines are served.  Only the workers edit timelines, each for the    *)
(* event of a handler that waits for it; a post that was added leaves by   *)
(* its deletion, or because the timeline was cut; and no event adds a post *)
(* after one that removes it, when that one was alone.                     *)

\* A client knows of a post after it was saved.
AfterOver == \A c \in started : scenario.after[c] \subseteq overAt[c]

\* Commands that leave the timelines alone.
Elsewhere(todo) ==
  \A x \in ToSet(todo) :
    /\ x.do = "edit" => x.key[1] \notin Timelines
    /\ x.do = "publish" => x.event.kind \notin TimelineEvents
OthersElsewhere == \A p \in Procs \ (started \cup Workers) : Elsewhere(procs[p].todo)

\* What a worker does for the handler of an event.
TaskOf(job) ==
  LET u == updates[job.delivery]
  IN Edit(u.keys[job.index], IF u.event.kind = "add" THEN "post" ELSE "remove", u.event.about)
WorkersKnown ==
  \A w \in Workers :
    IF jobs[w] = NoJob THEN procs[w].todo = <<>> ELSE procs[w].todo \in {<<>>, <<TaskOf(jobs[w])>>}

IsDeleted(e) == e.kind = "remove" => e.about \in Deleted
RemovesKnown ==
  /\ \A e \in pending : IsDeleted(e)
  /\ \A d \in Deliveries : IsDeleted(updates[d].event)

\* No event tells of the post: nor will any, since who saved it is done.
Tells(e, post) == e.kind = "add" /\ e.about = post
Silent(post) ==
  /\ post \in Deleted
  /\ \A e \in pending : ~Tells(e, post)
  /\ \A d \in Deliveries : ~Tells(updates[d].event, post)
SilentAfter(e, alone) == e.kind = "remove" /\ alone => Silent(e.about)
RemovesLast ==
  /\ \A h \in handled : SilentAfter(h.event, h.alone)
  /\ \A d \in Deliveries : SilentAfter(updates[d].event, updates[d].alone)

TimelinesOnce == \A key : key[1] \in Timelines => IsInjective(Item(key).value)

\* As many posts as a timeline takes, or as it took before deletions.
Full(key) ==
  MaxTimelineLen > 0 /\ Cardinality(ToSet(Item(key).value) \cup Deleted) >= MaxTimelineLen
Served(e, alone, key) ==
  /\ e.kind \in TimelineEvents /\ key[1] \in Timelines
  /\ IF e.kind = "remove" THEN alone => e.about \notin ToSet(Item(key).value)
     ELSE e.about \in ToSet(Item(key).value) \/ e.about \in Deleted \/ Full(key)
HandledServed == \A h \in handled : \A key \in h.keys : Served(h.event, h.alone, key)
\* The results a handler has taken, and those that wait.
UpdateServed(u) ==
  /\ u.at \in {"idle", "followers", "analysis"} => u.keys = <<>>
  /\ u.ok => \A i \in 1..u.got : Served(u.event, u.alone, u.keys[i])
ResultsServed == \A d \in Deliveries : UpdateServed(updates[d])
JobServed(job) ==
  LET u == updates[job.delivery] IN Served(u.event, u.alone, u.keys[job.index])
JobsServed ==
  \A w \in Workers : jobs[w] # NoJob /\ procs[w].todo = <<>> /\ procs[w].ok => JobServed(jobs[w])

TimelinesInv ==
  /\ AfterOver /\ OthersElsewhere /\ WorkersKnown
  /\ RemovesKnown /\ RemovesLast
  /\ TimelinesOnce
  /\ HandledServed /\ ResultsServed /\ JobsServed

LEMMA OnceCounts ==
  ASSUME NEW s, IsList(s), IsInjective(s)
  PROVE  IsFiniteSet(ToSet(s)) /\ Cardinality(ToSet(s)) = Len(s)
<1>1. Len(s) \in Nat /\ DOMAIN s = 1..Len(s)
  BY ListFacts
<1>2. IsFiniteSet(1..Len(s)) /\ Cardinality(1..Len(s)) = Len(s)
  <2>1. PICK n \in Nat : n = Len(s)
    BY <1>1
  <2>2. 1 \in Int /\ n \in Int
    BY <2>1
  <2>3. IsFiniteSet(1..n) /\ Cardinality(1..n) = IF 1 > n THEN 0 ELSE n - 1 + 1
    BY <2>2, FS_Interval
  <2>4. (IF 1 > n THEN 0 ELSE n - 1 + 1) = n
    BY <2>1
  <2> QED
    BY <2>1, <2>3, <2>4
<1>3. s \in [1..Len(s) -> ToSet(s)]
  <2>1. s \in Seq(ToSet(s))
    BY DEF IsList
  <2> QED
    BY <2>1
<1>4. s \in Bijection(1..Len(s), ToSet(s))
  BY <1>1, <1>3 DEF Bijection, Injection, Surjection, IsInjective, ToSet
<1> QED
  BY <1>2, <1>4, FS_Bijection DEF ExistsBijection

LEMMA ByTimeOnce ==
  ASSUME NEW list, IsList(list), IsInjective(list), NEW l \in ByTime(list)
  PROVE  IsList(l) /\ IsInjective(l) /\ Len(l) = Len(list) /\ ToSet(l) = ToSet(list)
<1>1. IsList(l) /\ Len(l) = Len(list) /\ ToSet(l) = ToSet(list)
  BY ByTimeList
<1>2. PICK turn : /\ turn \in [1..Len(list) -> 1..Len(list)]
                  /\ \A i, j \in 1..Len(list) : turn[i] = turn[j] => i = j
                  /\ \A i \in 1..Len(list) : l[i] = list[turn[i]]
  BY ByTimeList
<1>3. DOMAIN l = 1..Len(list) /\ DOMAIN list = 1..Len(list)
  BY <1>1, ListFacts
<1>4. ASSUME NEW i \in 1..Len(list), NEW j \in 1..Len(list), l[i] = l[j] PROVE i = j
  <2>1. list[turn[i]] = list[turn[j]] /\ turn[i] \in DOMAIN list /\ turn[j] \in DOMAIN list
    BY <1>2, <1>3, <1>4
  <2>2. turn[i] = turn[j]
    BY <2>1 DEF IsInjective
  <2> QED
    BY <1>2, <2>2
<1> QED
  BY <1>1, <1>3, <1>4 DEF IsInjective

\* What is cut off leaves a timeline as long as it may be.
LEMMA CutOnce ==
  ASSUME NEW l, IsList(l), IsInjective(l)
  PROVE  /\ IsInjective(Cut(l))
         /\ \/ Cut(l) = l
            \/ MaxTimelineLen > 0 /\ Len(Cut(l)) = MaxTimelineLen
<1>1. Len(l) \in Nat /\ MaxTimelineLen \in Nat /\ DOMAIN l = 1..Len(l)
  BY ListFacts, DaprStoreAssumption
<1>2. CASE MaxTimelineLen > 0 /\ Len(l) > MaxTimelineLen
  <2>1. PICK m, r : /\ m = Len(l) - MaxTimelineLen /\ r = SubSeq(l, m + 1, Len(l))
                    /\ Cut(l) = r
    BY <1>2 DEF Cut
  <2>2. m \in Nat
    BY <1>1, <1>2, <2>1
  <2>3. l \in Seq(ToSet(l))
    BY DEF IsList
  <2>4. /\ Len(r) = MaxTimelineLen /\ DOMAIN r = 1..MaxTimelineLen
        /\ \A i \in 1..MaxTimelineLen : r[i] = l[m + i]
    BY <1>1, <1>2, <2>1, <2>2, <2>3
  <2>5. \A i \in 1..MaxTimelineLen : m + i \in 1..Len(l)
    BY <1>1, <2>1, <2>2
  <2>6. IsInjective(r)
    <3> SUFFICES ASSUME NEW i \in 1..MaxTimelineLen, NEW j \in 1..MaxTimelineLen, r[i] = r[j]
                 PROVE  i = j
      BY <2>4 DEF IsInjective
    <3>1. l[m + i] = l[m + j]
      BY <2>4
    <3>2. m + i = m + j
      BY <1>1, <2>5, <3>1 DEF IsInjective
    <3> QED
      BY <2>2, <3>2
  <2> QED
    BY <1>2, <2>1, <2>4, <2>6
<1>3. CASE ~(MaxTimelineLen > 0 /\ Len(l) > MaxTimelineLen)
  BY <1>3 DEF Cut
<1> QED
  BY <1>2, <1>3

\* What a worker makes of a timeline.
Added(post, old, new) ==
  /\ ToSet(new) \subseteq ToSet(old) \cup {post}
  /\ \/ ToSet(new) = ToSet(old) \cup {post}
     \/ MaxTimelineLen > 0 /\ Len(new) = MaxTimelineLen

LEMMA ResultTimeline ==
  ASSUME NEW p, NEW list, procs[p].seen.value = list, IsList(list), IsInjective(list),
         NEW kind \in {"post", "remove"}, Command(p).edit.kind = kind,
         NEW val, Command(p).edit.val = val, ~Needless(Command(p).edit, list),
         NEW new \in Results(p)
  PROVE  /\ IsList(new) /\ IsInjective(new)
         /\ kind = "remove" => ToSet(new) = ToSet(list) \ {val}
         /\ kind = "post" => Added(val, list, new)
<1>1. CASE kind = "remove"
  <2>1. PICK i \in Place(val, list) : new = RemoveAt(list, i)
    BY <1>1 DEF Results
  <2>2. i \in 1..Len(list) /\ list[i] = val
    BY ListFacts DEF Place
  <2> QED
    BY <1>1, <2>1, <2>2, RemoveStaysOnce, RemoveAtList
<1>2. CASE kind = "post"
  <2>1. PICK more : more = Append(list, val)
    OBVIOUS
  <2>2. PICK l \in {more} \cup ByTime(more) : new = Cut(l)
    BY <1>2, <2>1 DEF Results
  <2>3. val \notin ToSet(list)
    BY <1>2 DEF Needless, Slices
  <2>4. IsList(more) /\ IsInjective(more) /\ ToSet(more) = ToSet(list) \cup {val}
    BY <2>1, <2>3, AppendStaysOnce, ListAppend
  <2>5. IsList(l) /\ IsInjective(l) /\ ToSet(l) = ToSet(list) \cup {val}
    BY <2>2, <2>4, ByTimeOnce
  <2>6. /\ IsList(new) /\ IsInjective(new) /\ ToSet(new) \subseteq ToSet(l)
        /\ \/ new = l
           \/ MaxTimelineLen > 0 /\ Len(new) = MaxTimelineLen
    BY <2>2, <2>5, CutOnce, CutList
  <2> QED
    BY <1>2, <2>5, <2>6 DEF Added
<1> QED
  BY <1>1, <1>2

-----------------------------------------------------------------------------
(* The requests that save or delete a post. *)

\* A command that neither deletes nor tells the timelines.
Mild(x) ==
  /\ x.do # "delete"
  /\ x.do = "publish" => x.event.kind \notin TimelineEvents
AllMild(request) == \A x \in ToSet(request) : Mild(x)

\* What a command that does says of its request.
Aims(request, x) ==
  /\ x.do = "delete" => \E post \in Posts : IsDeletion(request, post)
  /\ x.do = "publish" /\ x.event.kind = "add" =>
       x.event.about \in Posts /\ IsSave(request, x.event.about)
  /\ x.do = "publish" /\ x.event.kind = "remove" =>
       x.event.about \in Posts /\ IsDeletion(request, x.event.about)

LEMMA MildCommands ==
  /\ \A key, kind, val : Mild(Edit(key, kind, val))
  /\ \A key, kind, val, score : Mild(Rate(key, kind, val, score))
  /\ \A key : Mild(Get(key)) /\ Mild(Store(key))
  /\ \A kind, u, about : kind \notin TimelineEvents => Mild(Publish(Event(kind, u, about)))
<1>1. \A key, kind, val : Edit(key, kind, val).do = "edit"
  BY DEF Edit
<1>2. \A key, kind, val, score : Rate(key, kind, val, score).do = "edit"
  BY DEF Rate
<1>3. \A key : Get(key).do = "get" /\ Store(key).do = "store"
  BY DEF Get, Store, Save
<1>4. \A kind, u, about : /\ Publish(Event(kind, u, about)).do = "publish"
                          /\ Publish(Event(kind, u, about)).event.kind = kind
  BY DEF Publish, Event
<1> QED
  BY <1>1, <1>2, <1>3, <1>4 DEF Mild

LEMMA OneMild ==
  ASSUME NEW a, Mild(a)
  PROVE  AllMild(<<a>>)
<1>1. ToSet(<<a>>) = {a}
  BY DEF ToSet
<1> QED
  BY <1>1 DEF AllMild

LEMMA TwoMild ==
  ASSUME NEW a, NEW b, Mild(a), Mild(b)
  PROVE  AllMild(<<a, b>>)
<1>1. ToSet(<<a, b>>) = {a, b}
  BY DEF ToSet
<1> QED
  BY <1>1 DEF AllMild

LEMMA FiveElements ==
  ASSUME NEW a, NEW b, NEW c, NEW d, NEW e
  PROVE  ToSet(<<a, b, c, d, e>>) = {a, b, c, d, e}
<1>1. PICK r : r = <<a, b, c, d, e>>
  OBVIOUS
<1>2. IsList(r) /\ Len(r) = 5 /\ r[1] = a /\ r[2] = b /\ r[3] = c /\ r[4] = d /\ r[5] = e
  BY <1>1, FiveList
<1>3. \A i \in 1..Len(r) : i \in {1, 2, 3, 4, 5}
  BY <1>2
<1>4. /\ \A x \in ToSet(r) : \E i \in 1..Len(r) : r[i] = x
      /\ \A i \in 1..Len(r) : r[i] \in ToSet(r)
  BY <1>2, ListFacts
<1>5. {a, b, c, d, e} \subseteq ToSet(r)
  BY <1>2, <1>4
<1>6. ToSet(r) \subseteq {a, b, c, d, e}
  BY <1>2, <1>3, <1>4
<1> QED
  BY <1>1, <1>5, <1>6

LEMMA SaveAims ==
  ASSUME NEW request, NEW post \in Posts, IsSave(request, post)
  PROVE  \A x \in ToSet(request) : Aims(request, x)
<1>1. PICK u \in Names, images \in BOOLEAN : request = SavePost(u, post, images)
  BY DEF IsSave
<1>2. PICK n \in {1, 2} :
        /\ request[n] = Store(Content(post)) /\ request[n + 1] = Publish(Event("add", u, post))
        /\ Len(request) \in {3, 5}
        /\ \A i \in 1..Len(request) :
             /\ i < n => request[i] = Store(Images(post))
             /\ i > n + 1 => request[i] \in {Publish(Event("objects", u, post)),
                                             Publish(Event("sentiment", u, post))}
  BY <1>1, SaveCommands
<1>3. IsList(request)
  BY <1>1, SaveRight DEF RequestRight
<1> SUFFICES ASSUME NEW x \in ToSet(request) PROVE Aims(request, x)
  OBVIOUS
<1>4. PICK i \in 1..Len(request) : request[i] = x
  BY <1>3, ListFacts
<1>5. \/ x = Store(Images(post)) \/ x = Store(Content(post)) \/ x = Publish(Event("add", u, post))
      \/ x = Publish(Event("objects", u, post)) \/ x = Publish(Event("sentiment", u, post))
  <2>1. i < n \/ i = n \/ i = n + 1 \/ i > n + 1
    BY <1>2
  <2> QED
    BY <1>2, <1>4, <2>1
<1>6. CASE x = Publish(Event("add", u, post))
  <2>1. x.do = "publish" /\ x.event.kind = "add" /\ x.event.about = post
    BY <1>6 DEF Publish, Event
  <2> QED
    BY <2>1 DEF Aims
<1>7. CASE Mild(x)
  BY <1>7 DEF Mild, Aims, TimelineEvents
<1> QED
  BY <1>5, <1>6, <1>7, MildCommands DEF TimelineEvents

\* A deletion names the content of its post and of no other.
LEMMA DeletionAims ==
  ASSUME NEW request, NEW post \in Posts, IsDeletion(request, post)
  PROVE  /\ \A x \in ToSet(request) : Aims(request, x)
         /\ Delete(Content(post)) \in ToSet(request)
         /\ \A other : Delete(Content(other)) \in ToSet(request) => other = post
<1>1. PICK u \in Names : request = DelPost(u, post)
  BY DEF IsDeletion
<1>2. PICK a, b, c, d, e :
        /\ a = Delete(Content(post)) /\ b = Delete(Meta(post)) /\ c = Delete(Comments(post))
        /\ d = Delete(Upvotes(post)) /\ e = Publish(Event("remove", u, post))
  OBVIOUS
<1>3. ToSet(request) = {a, b, c, d, e}
  BY <1>1, <1>2, DeletionIs, FiveElements
<1>4. /\ a.do = "delete" /\ b.do = "delete" /\ c.do = "delete" /\ d.do = "delete"
      /\ a.key = Content(post) /\ b.key = Meta(post) /\ c.key = Comments(post)
      /\ d.key = Upvotes(post)
      /\ e.do = "publish" /\ e.event.kind = "remove" /\ e.event.about = post
  BY <1>2 DEF Delete, Publish, Event
<1>5. \A x \in ToSet(request) : Aims(request, x)
  BY <1>3, <1>4 DEF Aims
<1>6. ASSUME NEW other, Delete(Content(other)) \in ToSet(request) PROVE other = post
  <2>1. PICK x, key : x = Delete(Content(other)) /\ key = Content(other)
    OBVIOUS
  <2>2. x.do = "delete" /\ x.key = key /\ key[1] = "content" /\ key[2] = other
    BY <2>1 DEF Delete, Content
  <2>3. /\ Content(post)[2] = post /\ Meta(post)[1] = "meta of post"
        /\ Comments(post)[1] = "comments" /\ Upvotes(post)[1] = "upvotes"
    BY DEF Content, Meta, Comments, Upvotes
  <2>4. x \in {a, b, c, d, e}
    BY <1>3, <1>6, <2>1
  <2>5. x.key = Content(post)
    BY <1>4, <2>2, <2>3, <2>4
  <2> QED
    BY <2>2, <2>3, <2>5
<1> QED
  BY <1>2, <1>3, <1>5, <1>6

LEMMA RequestAims ==
  ASSUME NEW request, IsRequest(request)
  PROVE  \A x \in ToSet(request) : Aims(request, x)
<1>0. ASSUME AllMild(request) PROVE \A x \in ToSet(request) : Aims(request, x)
  BY <1>0 DEF AllMild, Mild, Aims, TimelineEvents
<1>1. CASE ReadsOnly(request)
  <2>1. \A x \in ToSet(request) : x.do = "get"
    BY <1>1 DEF ReadsOnly, ToSet
  <2> QED
    BY <1>0, <2>1 DEF AllMild, Mild
<1>2. CASE Rates(request)
  <2>1. PICK u, video, score : request = RateVideo(u, video, score)
    BY <1>2 DEF Rates
  <2>2. request = <<Rate(RatingsBy(u), "rating", video, score), Rate(Rating(video), "score", video, score)>>
    BY <2>1, RatingIs
  <2> QED
    BY <1>0, <2>2, MildCommands, TwoMild
<1>3. CASE ReadsTimeline(request)
  <2> DEFINE a == [do |-> "page", key |-> request[1].key, earliest |-> request[1].earliest,
                   posts |-> request[1].posts]
             b == [do |-> "posts"]
  <2>1. Mild(a) /\ Mild(b)
    BY DEF Mild
  <2>2. request = <<a, b>>
    BY <1>3 DEF ReadsTimeline, ReadTimeline
  <2> HIDE DEF a, b
  <2> QED
    BY <1>0, <2>1, <2>2, TwoMild
<1>4. CASE \E post \in Posts : IsSave(request, post)
  BY <1>4, SaveAims
<1>5. CASE \E post \in Posts : IsDeletion(request, post)
  BY <1>5, DeletionAims
<1>6. CASE \E u, v \in Names : request \in {FollowUser(u, v), UnfollowUser(u, v)}
  BY <1>0, <1>6, MildCommands, TwoMild DEF FollowUser, UnfollowUser
<1>7. CASE \E post \in Posts, x \in Names : request \in {Comment(post, x), Upvote(post, x)}
  BY <1>0, <1>7, MildCommands, OneMild DEF Comment, Upvote
<1>8. CASE \E video, date \in Names : request \in {UploadVideo(video, date), GetVideoData(video)}
  <2>1. PICK video, date : request = UploadVideo(video, date) \/ request = GetVideoData(video)
    BY <1>8
  <2>2. AllMild(UploadVideo(video, date))
    <3>1. PICK a, b, c, d, e :
            /\ a = Store(Data(video)) /\ b = Publish(Event("scale", "none", video))
            /\ c = Publish(Event("thumbnail", "none", video)) /\ d = Store(VideoMeta(video))
            /\ e = Edit(Date(date), "add", video)
      OBVIOUS
    <3>2. Mild(a) /\ Mild(b) /\ Mild(c) /\ Mild(d) /\ Mild(e)
      BY <3>1, MildCommands DEF TimelineEvents
    <3>3. ToSet(UploadVideo(video, date)) = {a, b, c, d, e}
      BY <3>1, UploadIs, FiveElements
    <3> QED
      BY <3>2, <3>3 DEF AllMild
  <2>3. AllMild(GetVideoData(video))
    BY ViewIs, MildCommands, TwoMild
  <2> QED
    BY <1>0, <2>1, <2>2, <2>3
<1>9. CASE \E r \in DOMAIN FramesOf, priority \in Priorities : request = Request(r, priority)
  BY <1>0, <1>9, MildCommands, OneMild DEF Request, TimelineEvents
<1> QED
  BY <1>1, <1>2, <1>3, <1>4, <1>5, <1>6, <1>7, <1>8, <1>9 DEF IsRequest

LEMMA SentAims ==
  ASSUME NeedsInv, CallsRight, NEW c \in started
  PROVE  /\ c \in DOMAIN scenario.requests /\ \A x \in Sent(c) : Aims(scenario.requests[c], x)
         /\ \A post \in Posts : IsDeletion(scenario.requests[c], post) => post \in Deleted
<1>1. c \in DOMAIN scenario.requests
  BY DEF CallsRight
<1>2. PICK request : request = scenario.requests[c]
  OBVIOUS
<1>3. IsRequest(request)
  BY <1>1, <1>2, DaprAssumption DEF ScenariosAssumption, NeedsInv
<1>4. \A x \in ToSet(request) : Aims(request, x)
  BY <1>3, RequestAims
<1>5. ASSUME NEW post \in Posts, IsDeletion(request, post) PROVE post \in Deleted
  <2>1. Delete(Content(post)) \in ToSet(request)
    BY <1>5, DeletionAims
  <2> QED
    BY <1>2, <2>1 DEF Deleted, Sent, Posts
<1> QED
  BY <1>1, <1>2, <1>4, <1>5 DEF Sent

LEMMA DeletedBy ==
  ASSUME NeedsInv, CallsRight, NEW c \in started, NEW post, Delete(Content(post)) \in Sent(c)
  PROVE  IsDeletion(scenario.requests[c], post)
<1>1. PICK x : x = Delete(Content(post))
  OBVIOUS
<1>2. x.do = "delete"
  BY <1>1 DEF Delete
<1>3. Aims(scenario.requests[c], x)
  BY <1>1, SentAims
<1>4. PICK other \in Posts : IsDeletion(scenario.requests[c], other)
  BY <1>2, <1>3 DEF Aims
<1>5. post = other
  BY <1>4, DeletionAims DEF Sent
<1> QED
  BY <1>4, <1>5

LEMMA DeletedFinite ==
  ASSUME NeedsInv, CallsRight
  PROVE  IsFiniteSet(Deleted)
<1> DEFINE D == {c \in started : \E post \in Deleted : Delete(Content(post)) \in Sent(c)}
           f == [c \in D |-> CHOOSE post \in Deleted : Delete(Content(post)) \in Sent(c)]
<1>1. IsFiniteSet(D)
  <2>1. D \subseteq Calls /\ IsFiniteSet(Calls)
    BY DaprAssumption DEF CallsRight
  <2> QED
    BY <2>1, FS_Subset
<1>2. \A c \in D : f[c] \in Deleted /\ Delete(Content(f[c])) \in Sent(c)
  OBVIOUS
<1>3. ASSUME NEW post \in Deleted PROVE \E c \in D : f[c] = post
  <2>1. PICK c \in started : Delete(Content(post)) \in Sent(c)
    BY DEF Deleted
  <2>2. c \in D
    BY <2>1
  <2>3. f[c] \in Deleted /\ Delete(Content(f[c])) \in Sent(c)
    BY <1>2, <2>2
  <2> HIDE DEF f
  <2>4. f[c] = post
    <3>1. PICK other : other = f[c]
      OBVIOUS
    <3>2. /\ Delete(Content(other)) \in ToSet(scenario.requests[c])
          /\ IsDeletion(scenario.requests[c], post) /\ post \in Posts
      BY <2>1, <2>3, <3>1, DeletedBy DEF Sent, Deleted, Posts
    <3> QED
      BY <3>1, <3>2, DeletionAims
  <2> QED
    BY <2>2, <2>4
<1>4. f \in [D -> Deleted]
  BY <1>2
<1> HIDE DEF f, D
<1>5. f \in Surjection(D, Deleted)
  BY <1>3, <1>4 DEF Surjection
<1> QED
  BY <1>1, <1>5, FS_Surjection

\* Who saves a post that is being deleted is done.
LEMMA SavesOver ==
  ASSUME NeedsInv, CallsRight, AfterOver, NEW post \in Deleted, NEW d \in DOMAIN scenario.requests,
         IsSave(scenario.requests[d], post)
  PROVE  d \in started /\ ~Runs(d)
<1>1. PICK c \in started : Delete(Content(post)) \in Sent(c)
  BY DEF Deleted
<1>2. c \in Calls /\ c \in DOMAIN scenario.requests /\ IsDeletion(scenario.requests[c], post)
  BY <1>1, DeletedBy DEF CallsRight
<1>3. d \in scenario.after[c]
  BY <1>2, DaprAssumption DEF ScenariosAssumption, NeedsInv, Deleted, Posts
<1>4. d \in overAt[c]
  BY <1>1, <1>3 DEF AfterOver
<1> QED
  BY <1>2, <1>4 DEF CallsRight

-----------------------------------------------------------------------------
(* What the workers do to the timelines. *)

LEMMA JobFacts ==
  ASSUME NeedsInv, NEW job, JobRight(job, updates), NEW u, u = updates[job.delivery]
  PROVE  /\ job.delivery \in Deliveries /\ u.at \in {"push", "collect"}
         /\ job.index \in 1..Len(u.keys) /\ u.keys[job.index][1] \in Timelines
         /\ u.event.kind \in TimelineEvents
<1>1. /\ job.delivery \in Deliveries /\ job.index \in Nat /\ u.got < job.index /\ job.index <= u.sent
  BY DEF JobRight
<1>2. UpdateRight(u, There)
  BY <1>1 DEF NeedsInv, UpdatesReady
<1>3. u.at \in {"push", "collect"} /\ u.sent \in Nat /\ u.got \in Nat
  BY <1>1, <1>2 DEF UpdateRight
<1>4. /\ IsList(u.keys) /\ u.sent <= Len(u.keys)
      /\ \A i \in 1..Len(u.keys) : u.keys[i][1] \in Timelines
      /\ u.event.kind \in TimelineEvents
  BY <1>2, <1>3 DEF UpdateRight
<1>5. job.index \in 1..Len(u.keys)
  BY <1>1, <1>3, <1>4, ListFacts
<1> QED
  BY <1>1, <1>3, <1>4, <1>5

LEMMA TaskIs ==
  ASSUME NEW job, NEW u, u = updates[job.delivery], NEW task, task = TaskOf(job)
  PROVE  /\ task.do = "edit" /\ task.key = u.keys[job.index] /\ task.edit.val = u.event.about
         /\ task.edit.kind = IF u.event.kind = "add" THEN "post" ELSE "remove"
<1>1. PICK key, kind : /\ key = u.keys[job.index]
                       /\ kind = IF u.event.kind = "add" THEN "post" ELSE "remove"
  OBVIOUS
<1>2. task = Edit(key, kind, u.event.about)
  BY <1>1 DEF TaskOf
<1> QED
  BY <1>1, <1>2, EditIs

LEMMA TimelineIs ==
  ASSUME NeedsInv, TimelinesOnce, NEW key, key[1] \in Timelines
  PROVE  /\ key \notin Gone /\ IsList(Item(key).value) /\ IsInjective(Item(key).value)
<1>1. ElementsIn(key, Item(key).value, There)
  BY ItemIn DEF NeedsInv
<1>2. key[1] \in Lists
  BY DEF Timelines, Lists
<1>3. IsList(Item(key).value)
  BY <1>1, <1>2 DEF ElementsIn
<1>4. key \notin Gone
  BY GoneKinds DEF Timelines
<1> QED
  BY <1>3, <1>4 DEF TimelinesOnce

\* Only a worker edits a timeline, or tells nothing.
LEMMA TimelineEditor ==
  ASSUME NeedsInv, CallsInv, OthersElsewhere, WorkersKnown, NEW p, Advances(p),
         Command(p).do = "edit", Command(p).key[1] \in Timelines
  PROVE  p \in Workers /\ jobs[p] # NoJob /\ procs[p].todo = <<TaskOf(jobs[p])>>
<1>1. /\ p \in Procs /\ procs[p].todo # <<>> /\ Command(p) \in ToSet(procs[p].todo)
  BY AdvanceFacts
<1>2. p \notin started
  <2> SUFFICES ASSUME p \in started PROVE FALSE
    OBVIOUS
  <2>1. Command(p) \in Sent(p)
    BY <1>1 DEF CallsInv, TasksKnown
  <2>2. EditKnown(scenario.requests[p], Command(p))
    BY <2>1, SentKnown DEF CallsInv
  <2> QED
    BY <2>2 DEF EditKnown, Reserved
<1>3. p \in Workers
  BY <1>1, <1>2 DEF OthersElsewhere, Elsewhere
<1> QED
  BY <1>1, <1>3 DEF WorkersKnown

Changed(e, old, new) ==
  /\ e.kind \in TimelineEvents
  /\ e.kind = "add" => Added(e.about, old, new)
  /\ e.kind = "remove" => ToSet(new) = ToSet(old) \ {e.about}

LEMMA TimelineChanges ==
  ASSUME NeedsInv, CallsInv, OthersElsewhere, WorkersKnown, TimelinesOnce,
         NEW p, Advances(p), NEW key, key[1] \in Timelines
  PROVE  \/ Item(key)' = Item(key)
         \/ /\ IsList(Item(key)'.value) /\ IsInjective(Item(key)'.value)
            /\ p \in Workers /\ jobs[p] # NoJob /\ procs'[p].todo = <<>>
            /\ Changed(updates[jobs[p].delivery].event, Item(key).value, Item(key)'.value)
<1>1. PICK old, new : old = Item(key).value /\ new = Item(key)'.value
  OBVIOUS
<1> SUFFICES ASSUME Item(key)' # Item(key)
             PROVE  /\ IsList(new) /\ IsInjective(new)
                    /\ p \in Workers /\ jobs[p] # NoJob /\ procs'[p].todo = <<>>
                    /\ Changed(updates[jobs[p].delivery].event, old, new)
  BY <1>1
<1>2. key \notin Gone /\ IsList(old) /\ IsInjective(old)
  BY <1>1, TimelineIs
<1>3. Wrote(p, key, new)
  BY <1>1, <1>2, ItemWrites DEF CallsInv
<1>4. /\ Command(p).do = "edit" /\ new \in Results(p) /\ procs[p].seen.value = old
      /\ ~Needless(Command(p).edit, old)
      /\ Command(p).key = key /\ procs'[p].todo \in {Tail(procs[p].todo), <<>>}
  BY <1>1, <1>3 DEF Wrote, Wholes, Timelines
<1>5. p \in Workers /\ jobs[p] # NoJob /\ procs[p].todo = <<TaskOf(jobs[p])>>
  BY <1>4, TimelineEditor
<1>6. PICK job, u, task : job = jobs[p] /\ u = updates[job.delivery] /\ task = TaskOf(job)
  OBVIOUS
<1>7. Command(p) = task /\ procs'[p].todo = <<>>
  <2>1. Head(<<task>>) = task /\ Tail(<<task>>) = <<>>
    OBVIOUS
  <2> QED
    BY <1>4, <1>5, <1>6, <2>1 DEF Command
<1>8. JobRight(job, updates)
  BY <1>5, <1>6 DEF NeedsInv, JobsRight
<1>9. u.event.kind \in TimelineEvents
  BY <1>6, <1>8, JobFacts
<1>10. /\ Command(p).edit.val = u.event.about
       /\ Command(p).edit.kind = IF u.event.kind = "add" THEN "post" ELSE "remove"
  BY <1>6, <1>7, TaskIs
<1>11. PICK kind \in {"post", "remove"} :
         /\ kind = Command(p).edit.kind /\ kind = IF u.event.kind = "add" THEN "post" ELSE "remove"
  BY <1>10
<1>12. /\ IsList(new) /\ IsInjective(new)
       /\ kind = "remove" => ToSet(new) = ToSet(old) \ {u.event.about}
       /\ kind = "post" => Added(u.event.about, old, new)
  BY <1>2, <1>4, <1>10, <1>11, ResultTimeline
<1> QED
  BY <1>5, <1>6, <1>7, <1>9, <1>11, <1>12 DEF Changed, TimelineEvents

-----------------------------------------------------------------------------
(* What is served stays so. *)

LEMMA SilentIs ==
  ASSUME NEW d \in Deliveries, NEW post, Silent(post), updates[d].event.kind = "add"
  PROVE  updates[d].event.about # post
BY DEF Silent, Tells

LEMMA AlwaysFinite == NeedsInv /\ CallsRight => IsFiniteSet(Deleted)
BY DeletedFinite

LEMMA StaysFinite == NeedsInv' /\ CallsRight' => IsFiniteSet(Deleted')
<1>1. (NeedsInv /\ CallsRight => IsFiniteSet(Deleted))'
  BY AlwaysFinite, PTL
<1> QED
  BY <1>1

LEMMA FullFrom ==
  ASSUME NeedsInv, CallsRight, NeedsInv', CallsRight', Deleted \subseteq Deleted', NEW key,
         NEW old, old = Item(key).value, IsList(old), IsInjective(old),
         NEW new, new = Item(key)'.value, IsList(new), IsInjective(new),
         ToSet(old) \subseteq ToSet(new) \cup Deleted, Full(key)
  PROVE  Full(key)'
<1>1. PICK S, T : S = ToSet(old) \cup Deleted /\ T = ToSet(new) \cup Deleted'
  OBVIOUS
<1>2. IsFiniteSet(ToSet(new)) /\ IsFiniteSet(Deleted')
  BY StaysFinite, OnceCounts
<1>3. IsFiniteSet(T)
  BY <1>1, <1>2, FS_Union
<1>4. IsFiniteSet(S) /\ Cardinality(S) <= Cardinality(T)
  BY <1>1, <1>3, FS_Subset
<1>5. Cardinality(S) \in Nat /\ Cardinality(T) \in Nat /\ MaxTimelineLen \in Nat
  BY <1>3, <1>4, FS_CardinalityType, DaprStoreAssumption
<1>6. MaxTimelineLen > 0 /\ Cardinality(S) >= MaxTimelineLen
  BY <1>1 DEF Full
<1>7. Cardinality(T) >= MaxTimelineLen
  BY <1>4, <1>5, <1>6
<1> QED
  BY <1>1, <1>6, <1>7 DEF Full

LEMMA FullByCut ==
  ASSUME NeedsInv', CallsRight', NEW key, NEW new, new = Item(key)'.value,
         IsList(new), IsInjective(new), MaxTimelineLen > 0, Len(new) = MaxTimelineLen
  PROVE  Full(key)'
<1>1. PICK T : T = ToSet(new) \cup Deleted'
  OBVIOUS
<1>2. IsFiniteSet(ToSet(new)) /\ Cardinality(ToSet(new)) = MaxTimelineLen /\ IsFiniteSet(Deleted')
  BY StaysFinite, OnceCounts
<1>3. IsFiniteSet(T)
  BY <1>1, <1>2, FS_Union
<1>4. MaxTimelineLen <= Cardinality(T) /\ Cardinality(T) \in Nat /\ MaxTimelineLen \in Nat
  BY <1>1, <1>2, <1>3, FS_Subset, FS_CardinalityType, DaprStoreAssumption
<1> QED
  BY <1>1, <1>4 DEF Full

\* Who listens to an event, and what any change of its timeline leaves.
LEMMA ServedFrom ==
  ASSUME NeedsInv, CallsRight, NeedsInv', CallsRight', Deleted \subseteq Deleted',
         NEW e, NEW alone, NEW key, Served(e, alone, key),
         NEW old, old = Item(key).value, IsList(old), IsInjective(old),
         NEW new, new = Item(key)'.value, IsList(new), IsInjective(new),
         NEW other, Changed(other, old, new), other.kind = "remove" => other.about \in Deleted,
         e.kind = "remove" /\ alone /\ other.kind = "add" => other.about # e.about
  PROVE  Served(e, alone, key)'
<1>1. other.kind \in {"add", "remove"} /\ e.kind \in {"add", "remove"} /\ key[1] \in Timelines
  BY DEF Changed, TimelineEvents, Served
<1>2. CASE e.kind = "remove"
  <2>1. alone => e.about \notin ToSet(old)
    BY <1>2 DEF Served
  <2>2. alone => e.about \notin ToSet(new)
    BY <1>1, <1>2, <2>1 DEF Changed, Added
  <2> QED
    BY <1>1, <1>2, <2>2 DEF Served, TimelineEvents
<1>3. CASE e.kind = "add"
  <2>1. e.about \in ToSet(old) \/ e.about \in Deleted \/ Full(key)
    BY <1>3 DEF Served
  <2>2. ASSUME ToSet(old) \subseteq ToSet(new) \cup Deleted
        PROVE  e.about \in ToSet(new) \/ e.about \in Deleted' \/ Full(key)'
    BY <2>1, <2>2, FullFrom
  <2>3. e.about \in ToSet(new) \/ e.about \in Deleted' \/ Full(key)'
    <3>1. CASE MaxTimelineLen > 0 /\ Len(new) = MaxTimelineLen
      BY <3>1, FullByCut
    <3>2. CASE ToSet(old) \subseteq ToSet(new) \cup Deleted
      BY <2>2, <3>2
    <3> QED
      BY <1>1, <3>1, <3>2 DEF Changed, Added
  <2> QED
    BY <1>1, <1>3, <2>3 DEF Served, TimelineEvents
<1> QED
  BY <1>1, <1>2, <1>3

LEMMA ServedSame ==
  ASSUME NeedsInv, CallsRight, NeedsInv', CallsRight', Deleted \subseteq Deleted', TimelinesOnce,
         NEW e, NEW alone, NEW key, Served(e, alone, key), Item(key)' = Item(key)
  PROVE  Served(e, alone, key)'
<1>1. key[1] \in Timelines
  BY DEF Served
<1>2. PICK old : old = Item(key).value /\ old = Item(key)'.value
  OBVIOUS
<1>3. IsList(old) /\ IsInjective(old)
  BY <1>1, <1>2, TimelineIs
<1>4. Full(key) => Full(key)'
  BY <1>2, <1>3, FullFrom
<1> QED
  BY <1>2, <1>4 DEF Served

LEMMA ServedStays ==
  ASSUME NeedsInv, CallsInv, TimelinesInv, NeedsInv', CallsInv', [Next]_appVars,
         NEW e, NEW alone, NEW key, Served(e, alone, key), SilentAfter(e, alone)
  PROVE  Served(e, alone, key)'
<1>1. /\ CallsRight /\ CallsRight' /\ Deleted \subseteq Deleted'
      /\ OthersElsewhere /\ WorkersKnown /\ TimelinesOnce /\ RemovesKnown
  BY StoredStays DEF CallsInv, TimelinesInv
<1>2. key[1] \in Timelines
  BY DEF Served
<1>3. CASE Item(key)' = Item(key)
  BY <1>1, <1>3, ServedSame
<1>4. CASE UNCHANGED items
  BY <1>3, <1>4, ItemStays
<1>5. CASE \E p : Advances(p)
  <2>1. PICK p : Advances(p)
    BY <1>5
  <2>2. PICK old, new : old = Item(key).value /\ new = Item(key)'.value
    OBVIOUS
  <2>3. IsList(old) /\ IsInjective(old)
    BY <1>1, <1>2, <2>2, TimelineIs
  <2>4. CASE /\ IsList(new) /\ IsInjective(new)
             /\ p \in Workers /\ jobs[p] # NoJob
             /\ Changed(updates[jobs[p].delivery].event, old, new)
    <3>1. PICK d, other : d = jobs[p].delivery /\ other = updates[d].event
      OBVIOUS
    <3>2. d \in Deliveries
      BY <2>4, <3>1 DEF NeedsInv, JobsRight, JobRight
    <3>3. other.kind = "remove" => other.about \in Deleted
      BY <1>1, <3>1, <3>2 DEF RemovesKnown, IsDeleted
    <3>4. e.kind = "remove" /\ alone /\ other.kind = "add" => other.about # e.about
      BY <3>1, <3>2, SilentIs DEF SilentAfter
    <3> QED
      BY <1>1, <2>2, <2>3, <2>4, <3>1, <3>3, <3>4, ServedFrom
  <2> QED
    BY <1>1, <1>2, <1>3, <2>1, <2>2, <2>4, TimelineChanges
<1> QED
  BY <1>4, <1>5, StepKinds DEF Apart, SendRequest

-----------------------------------------------------------------------------
(* The steps, as the timelines see them. *)

LEMMA JobElsewhere ==
  ASSUME NEW e, IsList(Job(e)), JobRest(e, Job(e))
  PROVE  Elsewhere(Job(e))
<1>1. PICK todo : todo = Job(e)
  OBVIOUS
<1>2. ASSUME NEW x \in ToSet(todo) PROVE x.do # "edit"
  <2>1. PICK i \in 1..Len(todo) : todo[i] = x
    BY <1>1, ListFacts
  <2>2. StepOf(e, todo, i)
    BY <1>1 DEF JobRest
  <2>3. \A event, key, value : Publish(event).do = "publish" /\ Save(key, value).do = "store"
    BY DEF Publish, Save
  <2> QED
    BY <2>1, <2>2, <2>3 DEF StepOf, FaceOf
<1>3. ASSUME NEW x \in ToSet(todo), x.do = "publish" PROVE x.event.kind \notin TimelineEvents
  BY <1>1, <1>3, AskIs DEF TimelineEvents
<1> QED
  BY <1>1, <1>2, <1>3 DEF Elsewhere

LEMMA OneElsewhere ==
  ASSUME NEW a, a.do # "publish", a.do = "edit" => a.key[1] \notin Timelines
  PROVE  Elsewhere(<<a>>)
<1>1. ToSet(<<a>>) = {a}
  BY DEF ToSet
<1> QED
  BY <1>1 DEF Elsewhere

LEMMA TwoElsewhere ==
  ASSUME NEW a, a.do # "publish", a.do = "edit" => a.key[1] \notin Timelines,
         NEW b, b.do # "publish", b.do = "edit" => b.key[1] \notin Timelines
  PROVE  Elsewhere(<<a, b>>)
<1>1. ToSet(<<a, b>>) = {a, b}
  BY DEF ToSet
<1> QED
  BY <1>1 DEF Elsewhere

LEMMA AnalysesElsewhere ==
  ASSUME NEW about
  PROVE  /\ Elsewhere(SentimentAnalysis(about)) /\ Elsewhere(ObjectDetect(about))
         /\ Elsewhere(ScaleVideo(about)) /\ Elsewhere(VideoThumbnail(about))
<1>1. \A field : /\ UpdateMeta(about, field).do # "publish"
                 /\ UpdateMeta(about, field).key[1] \notin Timelines
  BY DEF UpdateMeta, Edit, Timelines
<1>2. \A key : Get(key).do = "get" /\ Need(key).do = "need" /\ Store(key).do = "store"
  BY DEF Get, Need, Store, Save
<1>3. Elsewhere(SentimentAnalysis(about))
  BY <1>1, OneElsewhere DEF SentimentAnalysis
<1>4. Elsewhere(ObjectDetect(about))
  BY <1>1, <1>2, TwoElsewhere DEF ObjectDetect
<1>5. Elsewhere(ScaleVideo(about)) /\ Elsewhere(VideoThumbnail(about))
  BY <1>2, TwoElsewhere DEF ScaleVideo, VideoThumbnail
<1> QED
  BY <1>3, <1>4, <1>5

Untouched ==
  /\ UNCHANGED <<items, procs, updates, jobs, handled, scenario, started, overAt>>
  /\ pending' \subseteq pending
GoesOn(p) ==
  /\ Advances(p)
  /\ UNCHANGED <<updates, jobs, handled, scenario, started, overAt>>
  /\ \A e \in pending' : e \in pending \/ (Command(p).do = "publish" /\ e = Command(p).event)
GetsWork(w) ==
  /\ w \in PipeWorkers
  /\ \E commands : IsList(commands) /\ Elsewhere(commands) /\ Begin(w, commands)
  /\ UNCHANGED <<items, pending, updates, jobs, handled, scenario, started, overAt>>
OfUpdates ==
  /\ UNCHANGED <<scenario, started, overAt>>
  /\ \/ \E d \in Deliveries :
          \/ \E e \in pending : Deliver(d, e)
          \/ AnalysisEnds(d) \/ AskFails(d) \/ UpdateEnds(d) \/ AskFollowers(d) \/ PushJob(d)
     \/ \E w \in Workers : TakeJob(w) \/ SendResult(w)

LEMMA PipeCases ==
  ASSUME NeedsInv, PipeStep, UNCHANGED <<missing, scenario, started, overAt>>
  PROVE  Untouched \/ (\E p : GoesOn(p)) \/ (\E w : GetsWork(w))
<1>1. UNCHANGED <<updates, jobs, handled, scenario, started, overAt>>
  BY DEF PipeStep, WorkerStep, PutRequest, Take, TimesOut, FindsNothing, Works, JobEnds,
         ReadFails, DetectFails, WorkerDies, PublishEvent, timelineVars, handlerVars
<1>2. ProcsShaped
  BY DEF NeedsInv
<1>3. CASE \/ \E e \in pending : PutRequest(e)
           \/ \E w \in PipeWorkers : TimesOut(w) \/ FindsNothing(w) \/ JobEnds(w)
  BY <1>1, <1>3 DEF PutRequest, TimesOut, FindsNothing, JobEnds, storeVars, timelineVars, Untouched
<1>4. CASE \E w \in PipeWorkers, priority \in Priorities : Take(w, priority)
  <2>1. PICK w \in PipeWorkers, priority \in Priorities : Take(w, priority)
    BY <1>4
  <2>2. PICK s, waiting, e : s = StageOf[w] /\ waiting = line[s][priority] /\ e = Head(waiting)
    OBVIOUS
  <2>3. waiting # <<>> /\ Begin(w, Job(e)) /\ UNCHANGED <<items, pending>>
    BY <2>1, <2>2 DEF Take, Waiting
  <2>4. s \in Stages
    BY <2>2, DaprPipeAssumption
  <2>5. IsList(waiting) /\ \A f \in ToSet(waiting) : f.kind = s /\ EventReady(f, There)
    BY <2>2, <2>4 DEF NeedsInv, LinesReady
  <2>6. e \in ToSet(waiting)
    BY <2>2, <2>3, <2>5, OnceTail
  <2>7. e.kind \in Stages /\ EventRight(e)
    BY <2>4, <2>5, <2>6 DEF EventReady
  <2>8. IsList(Job(e)) /\ Elsewhere(Job(e))
    BY <2>7, JobReady, JobStarts, JobElsewhere
  <2> QED
    BY <1>1, <2>3, <2>8 DEF GetsWork
<1>5. CASE \E w \in PipeWorkers : Works(w) \/ ReadFails(w) \/ WorkerDies(w)
  <2>1. PICK w \in PipeWorkers : Works(w) \/ ReadFails(w) \/ WorkerDies(w)
    BY <1>5
  <2>2. w \in Procs
    BY DaprPipeAssumption
  <2>3. CASE ReadState(w) \/ WriteState(w)
    <3>1. \A e \in pending' : e \in pending \/ (Command(w).do = "publish" /\ e = Command(w).event)
      BY <2>1, <2>3 DEF Works, ReadFails, WorkerDies, PublishEvent, Turn, timelineVars
    <3> QED
      BY <1>1, <1>2, <2>2, <2>3, <3>1, StoreStepAdvances DEF StoreStep, GoesOn
  <2>4. CASE PublishEvent(w)
    <3>1. \A e \in pending' : e \in pending \/ e = Command(w).event
      BY <2>4 DEF PublishEvent
    <3> QED
      BY <1>1, <1>2, <2>2, <2>4, <3>1, PublishingAdvances DEF GoesOn
  <2>5. CASE ReadFails(w)
    <3>1. pending' = pending
      BY <2>5 DEF ReadFails, timelineVars
    <3> QED
      BY <1>1, <1>2, <2>2, <2>5, <3>1, ReadFailsAdvances DEF GoesOn
  <2>6. CASE WorkerDies(w)
    <3>1. \A e \in pending' : e \in pending \/ (Command(w).do = "publish" /\ e = Command(w).event)
      BY <2>6 DEF WorkerDies, Turn
    <3> QED
      BY <1>1, <1>2, <2>2, <2>6, <3>1, WorkerDiesAdvances DEF GoesOn
  <2> QED
    BY <2>1, <2>3, <2>4, <2>5, <2>6 DEF Works
<1>6. CASE \E w \in PipeWorkers : DetectFails(w)
  <2>1. PICK w \in PipeWorkers : DetectFails(w)
    BY <1>6
  <2>2. PICK a : a.do = "store" /\ Begin(w, <<a>>)
    BY <2>1, DetectFacts
  <2>3. UNCHANGED <<items, pending>> /\ IsList(<<a>>) /\ Elsewhere(<<a>>)
    BY <2>1, <2>2, DetectFacts, OneList, OneElsewhere
  <2> QED
    BY <1>1, <2>2, <2>3 DEF GetsWork
<1> QED
  BY <1>3, <1>4, <1>5, <1>6 DEF PipeStep, WorkerStep

LEMMA StepCases ==
  ASSUME NeedsInv, [Next]_appVars
  PROVE  \/ Untouched \/ (\E p : GoesOn(p)) \/ (\E w : GetsWork(w))
         \/ (\E c \in Calls : SendRequest(c)) \/ OfUpdates
<1>1. ProcsShaped
  BY DEF NeedsInv
<1>2. CASE UNCHANGED appVars
  BY <1>2 DEF appVars, storeVars, timelineVars, Untouched
<1>3. CASE Step
  <2>1. UNCHANGED <<scenario, started, overAt>>
    BY <1>3 DEF Step
  <2>2. CASE TimelineStep
    BY <2>1, <2>2 DEF TimelineStep, OfUpdates
  <2>3. CASE \E p \in Procs : ReadPage(p) \/ ReadPosts(p)
    <3>1. PICK p \in Procs : ReadPage(p) \/ ReadPosts(p)
      BY <2>3
    <3>2. UNCHANGED <<pending, updates, jobs, handled>>
      BY <3>1 DEF ReadPage, ReadPosts, timelineVars
    <3>3. Advances(p)
      BY <3>1, ReadPageAdvances, ReadPostsAdvances DEF NeedsInv
    <3> QED
      BY <2>1, <3>2, <3>3 DEF GoesOn
  <2>4. CASE \E p \in Procs : StoreStep(p) /\ UNCHANGED timelineVars
    <3>1. PICK p \in Procs : StoreStep(p) /\ UNCHANGED timelineVars
      BY <2>4
    <3>2. Advances(p)
      BY <1>1, <3>1, StoreStepAdvances
    <3> QED
      BY <2>1, <3>1, <3>2 DEF GoesOn, timelineVars
  <2>5. CASE \E p \in Procs : PublishEvent(p) \/ PublishFails(p)
    <3>1. PICK p \in Procs : PublishEvent(p) \/ PublishFails(p)
      BY <2>5
    <3>2. UNCHANGED <<updates, jobs, handled>>
      BY <3>1 DEF PublishEvent, PublishFails, handlerVars
    <3>3. \A e \in pending' : e \in pending \/ e = Command(p).event
      BY <3>1 DEF PublishEvent, PublishFails
    <3>4. Advances(p) /\ Command(p).do = "publish"
      BY <1>1, <3>1, PublishingAdvances
    <3> QED
      BY <2>1, <3>2, <3>3, <3>4 DEF GoesOn
  <2>6. CASE PipeStep /\ UNCHANGED missing
    BY <2>1, <2>6, PipeCases
  <2> QED
    BY <1>3, <2>2, <2>3, <2>4, <2>5, <2>6 DEF Step, Work, SocialStep, Handlers
<1> QED
  BY <1>2, <1>3 DEF Next

\* What becomes of an update.
Keeps(d) ==
  /\ updates'[d].event = updates[d].event /\ updates'[d].alone = updates[d].alone
  /\ updates'[d].keys = updates[d].keys /\ updates'[d].got = updates[d].got
  /\ updates'[d].ok = updates[d].ok /\ updates'[d].at \in {updates[d].at, "push", "collect"}
Asks(d) ==
  /\ updates[d].at = "followers" /\ updates'[d].at = "push" /\ updates'[d].got = 0
  /\ updates'[d].event = updates[d].event /\ updates'[d].alone = updates[d].alone
Takes(d) ==
  /\ updates[d].at = "collect" /\ updates'[d].at = "collect"
  /\ updates'[d].event = updates[d].event /\ updates'[d].alone = updates[d].alone
  /\ updates'[d].keys = updates[d].keys /\ updates'[d].got = updates[d].got + 1
  /\ \E w \in Workers :
       /\ jobs[w] # NoJob /\ jobs[w].delivery = d /\ jobs[w].index = updates[d].got + 1
       /\ procs[w].todo = <<>> /\ (updates'[d].ok => updates[d].ok /\ procs[w].ok)
Ends(d) ==
  /\ updates'[d] = NoUpdate
  /\ \/ updates[d].at \in {"analysis", "followers"}
     \/ updates[d].at = "collect" /\ updates[d].got = Len(updates[d].keys)
Starts(d) ==
  /\ updates[d].at = "idle" /\ updates'[d].at \in {"followers", "analysis"}
  /\ updates'[d].keys = <<>> /\ updates'[d].got = 0
  /\ \E e \in pending :
       updates'[d].event = e /\ (updates'[d].alone => Alone(d, e))

LEMMA UpdateSame ==
  ASSUME NEW d, updates'[d] = updates[d]
  PROVE  Keeps(d)
BY DEF Keeps

LEMMA UpdateShape ==
  ASSUME NeedsInv
  PROVE  /\ updates = [d \in Deliveries |-> updates[d]]
         /\ \A d \in Deliveries :
              DOMAIN updates[d] = {"event", "at", "keys", "sent", "got", "ok", "alone"}
BY DEF NeedsInv, UpdatesReady, UpdateRight

LEMMA DeliverMoves ==
  ASSUME NeedsInv, NEW c \in Deliveries, NEW e \in pending, Deliver(c, e), NEW d \in Deliveries
  PROVE  Keeps(d) \/ Starts(d)
<1> DEFINE new == [NoUpdate EXCEPT !.event = e, !.alone = Alone(c, e),
                     !.at = IF e.kind \in TimelineEvents THEN "followers" ELSE "analysis"]
<1>1. /\ new.event = e /\ new.alone = Alone(c, e) /\ new.keys = <<>> /\ new.got = 0
      /\ new.at \in {"followers", "analysis"}
  BY DEF NoUpdate
<1>2. updates' = [updates EXCEPT ![c] = new] /\ updates[c].at = "idle"
  BY DEF Deliver, IdleDeliveries
<1> HIDE DEF new
<1>3. d # c => updates'[d] = updates[d]
  BY <1>2, UpdateShape
<1>4. updates'[c] = new
  BY <1>2, UpdateShape
<1> QED
  BY <1>1, <1>2, <1>3, <1>4, UpdateSame DEF Starts

LEMMA EndMoves ==
  ASSUME NeedsInv, NEW c \in Deliveries, AnalysisEnds(c) \/ AskFails(c) \/ UpdateEnds(c),
         NEW d \in Deliveries
  PROVE  Keeps(d) \/ Ends(d)
<1>1. updates' = [updates EXCEPT ![c] = NoUpdate]
  BY DEF AnalysisEnds, AskFails, UpdateEnds, Acknowledge
<1>2. d # c => updates'[d] = updates[d]
  BY <1>1, UpdateShape
<1>3. updates'[c] = NoUpdate
  BY <1>1, UpdateShape
<1> QED
  BY <1>2, <1>3, UpdateSame DEF Ends, AnalysisEnds, AskFails, UpdateEnds

LEMMA AskMoves ==
  ASSUME NeedsInv, NEW c \in Deliveries, AskFollowers(c), NEW d \in Deliveries
  PROVE  Keeps(d) \/ Asks(d)
<1>1. PICK keys : updates' = [updates EXCEPT ![c].at = "push", ![c].keys = keys]
  BY DEF AskFollowers
<1>2. updates[c].at = "followers" /\ updates[c].got = 0
  <2>1. updates[c].at = "followers" /\ UpdateRight(updates[c], There)
    BY DEF AskFollowers, NeedsInv, UpdatesReady
  <2> QED
    BY <2>1 DEF UpdateRight
<1>3. d # c => updates'[d] = updates[d]
  BY <1>1, UpdateShape
<1>4. /\ updates'[c].event = updates[c].event /\ updates'[c].alone = updates[c].alone
      /\ updates'[c].at = "push" /\ updates'[c].got = updates[c].got
  BY <1>1, UpdateShape
<1> QED
  BY <1>2, <1>3, <1>4, UpdateSame DEF Asks

LEMMA PushMoves ==
  ASSUME NeedsInv, NEW c \in Deliveries, PushJob(c), NEW d \in Deliveries
  PROVE  Keeps(d)
<1>1. PICK next, at : /\ updates' = [updates EXCEPT ![c].sent = next, ![c].at = at]
                      /\ at \in {updates[c].at, "push", "collect"}
  <2>1. PICK next, at :
          /\ next = updates[c].sent + 1
          /\ at = IF next = Len(updates[c].keys) THEN "collect" ELSE updates[c].at
    OBVIOUS
  <2> QED
    BY <2>1 DEF PushJob
<1>2. d # c => updates'[d] = updates[d]
  BY <1>1, UpdateShape
<1>3. /\ updates'[c].event = updates[c].event /\ updates'[c].alone = updates[c].alone
      /\ updates'[c].keys = updates[c].keys /\ updates'[c].got = updates[c].got
      /\ updates'[c].ok = updates[c].ok /\ updates'[c].at = at
  BY <1>1, UpdateShape
<1> QED
  BY <1>1, <1>2, <1>3, UpdateSame DEF Keeps

LEMMA ResultMoves ==
  ASSUME NeedsInv, NEW w \in Workers, SendResult(w), NEW d \in Deliveries
  PROVE  Keeps(d) \/ Takes(d)
<1>1. PICK c : c = jobs[w].delivery
  OBVIOUS
<1>2. PICK got, ok : /\ updates' = [updates EXCEPT ![c].got = got, ![c].ok = ok]
                     /\ got = updates[c].got + 1 /\ (ok => updates[c].ok /\ procs[w].ok)
  BY <1>1 DEF SendResult
<1>3. /\ jobs[w] # NoJob /\ procs[w].todo = <<>> /\ updates[c].at = "collect"
      /\ jobs[w].index = updates[c].got + 1
  BY <1>1 DEF SendResult, Runs
<1>4. c \in Deliveries
  BY <1>1, <1>3 DEF NeedsInv, JobsRight, JobRight
<1>5. d # c => updates'[d] = updates[d]
  BY <1>2, UpdateShape
<1>6. /\ updates'[c].event = updates[c].event /\ updates'[c].alone = updates[c].alone
      /\ updates'[c].keys = updates[c].keys /\ updates'[c].got = got
      /\ updates'[c].ok = ok /\ updates'[c].at = updates[c].at
  BY <1>2, <1>4, UpdateShape
<1> QED
  BY <1>1, <1>2, <1>3, <1>5, <1>6, UpdateSame DEF Takes

LEMMA UpdateMoves ==
  ASSUME NeedsInv, [Next]_appVars, NEW d \in Deliveries
  PROVE  Keeps(d) \/ Asks(d) \/ Takes(d) \/ Ends(d) \/ Starts(d)
<1>1. CASE UNCHANGED updates
  BY <1>1, UpdateSame
<1>2. CASE OfUpdates
  <2>1. CASE \E w \in Workers : TakeJob(w)
    BY <1>1, <2>1 DEF TakeJob
  <2> QED
    BY <1>2, <2>1, DeliverMoves, EndMoves, AskMoves, PushMoves, ResultMoves DEF OfUpdates
<1> QED
  BY <1>1, <1>2, StepCases DEF Untouched, GoesOn, GetsWork, SendRequest, timelineVars

\* What becomes of the job of a worker.
LEMMA JobStays ==
  ASSUME NeedsInv, [Next]_appVars, NEW job, JobRight(job, updates),
         NEW d, d = job.delivery
  PROVE  /\ d \in Deliveries /\ job # NoJob
         /\ updates'[d].event = updates[d].event /\ updates'[d].alone = updates[d].alone
         /\ updates'[d].keys = updates[d].keys
<1>1. PICK u : u = updates[d]
  OBVIOUS
<1>2. /\ d \in Deliveries /\ u.at \in {"push", "collect"} /\ job.index \in 1..Len(u.keys)
  BY <1>1, JobFacts
<1>3. /\ u.got \in Nat /\ u.sent \in Nat /\ u.sent <= Len(u.keys) /\ Len(u.keys) \in Nat
      /\ job.index \in Nat /\ u.got < job.index /\ job.index <= u.sent
  <2>1. UpdateRight(u, There)
    BY <1>1, <1>2 DEF NeedsInv, UpdatesReady
  <2>2. IsList(u.keys) /\ u.sent <= Len(u.keys) /\ u.got \in Nat /\ u.sent \in Nat
    BY <1>2, <2>1 DEF UpdateRight
  <2>3. Len(u.keys) \in Nat
    BY <2>2, ListFacts
  <2> QED
    BY <1>1, <2>2, <2>3 DEF JobRight
<1>4. job # NoJob
  BY <1>3 DEF NoJob
<1>5. u.got # Len(u.keys)
  BY <1>3
<1>6. Keeps(d) \/ Takes(d)
  BY <1>1, <1>2, <1>5, UpdateMoves DEF Asks, Ends, Starts
<1> QED
  BY <1>2, <1>4, <1>6 DEF Keeps, Takes

GetsJob(w) ==
  \E job : /\ jobs'[w] = job /\ JobRight(job, updates) /\ UNCHANGED updates
           /\ procs'[w].todo = <<TaskOf(job)>>

LEMMA TakeMoves ==
  ASSUME NeedsInv, NEW v \in Workers, TakeJob(v), NEW w \in Workers
  PROVE  IF w = v THEN GetsJob(w) ELSE jobs'[w] = jobs[w] /\ procs'[w] = procs[w]
<1>1. PICK job, task : job = Head(queue) /\ task = TaskOf(job)
  OBVIOUS
<1>2. /\ queue # <<>> /\ jobs' = [jobs EXCEPT ![v] = job] /\ UNCHANGED updates
  BY <1>1 DEF TakeJob
<1>3. Begin(v, <<task>>)
  BY <1>1 DEF TakeJob, TaskOf
<1>4. JobRight(job, updates)
  <2>1. IsList(queue) /\ \A k \in 1..Len(queue) : JobRight(queue[k], updates)
    BY DEF NeedsInv, JobsRight
  <2>2. Len(queue) \in Nat \ {0} /\ job = queue[1] /\ 1 \in 1..Len(queue)
    BY <1>1, <1>2, <2>1, ListFacts
  <2> QED
    BY <2>1, <2>2
<1>5. v \in Procs /\ w \in Procs
  BY DaprTimelinesAssumption
<1>6. OthersStay(v) /\ Reached(v, <<task>>, <<>>, TRUE)
  BY <1>3, <1>5, OneList, BeginFacts DEF NeedsInv
<1>7. procs'[v].todo = <<task>> /\ (w # v => procs'[w] = procs[w])
  BY <1>5, <1>6 DEF OthersStay, Reached
<1>8. jobs = [x \in Workers |-> jobs[x]]
  BY DEF NeedsInv, JobsRight
<1>9. jobs'[v] = job /\ (w # v => jobs'[w] = jobs[w])
  BY <1>2, <1>8
<1> QED
  BY <1>1, <1>2, <1>4, <1>7, <1>9 DEF GetsJob

LEMMA WorkerMoves ==
  ASSUME NeedsInv, [Next]_appVars, NEW w \in Workers
  PROVE  \/ jobs'[w] = jobs[w] /\ (procs'[w] = procs[w] \/ Advances(w))
         \/ jobs'[w] = NoJob /\ procs'[w].todo = <<>>
         \/ GetsJob(w)
<1>1. w \in Procs /\ w \notin Deliveries /\ w \notin PipeWorkers /\ w \notin Calls
  BY DaprTimelinesAssumption, DaprPipeAssumption, DaprAssumption
<1>2. ASSUME NEW p \in Procs \ {w}, NEW commands, IsList(commands), Begin(p, commands)
      PROVE  procs'[w] = procs[w]
  BY <1>1, <1>2, BeginFacts DEF NeedsInv, OthersStay
<1>3. CASE Untouched
  BY <1>3 DEF Untouched
<1>4. CASE \E p : GoesOn(p)
  BY <1>1, <1>4 DEF GoesOn, Advances, OthersStay
<1>5. CASE \E p : GetsWork(p)
  <2>1. PICK p : GetsWork(p)
    BY <1>5
  <2>2. p \in Procs \ {w}
    BY <1>1, <2>1, DaprPipeAssumption DEF GetsWork
  <2> QED
    BY <1>2, <2>1, <2>2 DEF GetsWork
<1>6. CASE \E c \in Calls : SendRequest(c)
  <2>1. PICK c \in Calls : SendRequest(c)
    BY <1>6
  <2>2. c \in Procs \ {w} /\ c \in DOMAIN scenario.requests
    BY <1>1, <2>1, DaprAssumption DEF SendRequest
  <2>3. IsList(scenario.requests[c])
    BY <2>2, DaprAssumption, RequestsRight DEF ScenariosAssumption, NeedsInv, RequestRight
  <2> QED
    BY <1>2, <2>1, <2>2, <2>3 DEF SendRequest, timelineVars
<1>7. CASE OfUpdates
  <2>1. CASE \E d \in Deliveries, e \in pending : Deliver(d, e)
    <3>1. PICK d \in Deliveries, e \in pending : Deliver(d, e)
      BY <2>1
    <3>2. d \in Procs \ {w} /\ UNCHANGED jobs
      BY <1>1, <3>1, DaprTimelinesAssumption DEF Deliver
    <3>3. \/ UNCHANGED procs
          \/ Begin(d, SentimentAnalysis(e.about)) \/ Begin(d, ObjectDetect(e.about))
          \/ Begin(d, ScaleVideo(e.about)) \/ Begin(d, VideoThumbnail(e.about))
      BY <3>1 DEF Deliver, SubscribedEvents
    <3> QED
      BY <1>2, <3>2, <3>3, AnalysesReady
  <2>2. CASE \E d \in Deliveries :
               AnalysisEnds(d) \/ AskFails(d) \/ UpdateEnds(d) \/ AskFollowers(d) \/ PushJob(d)
    BY <2>2 DEF AnalysisEnds, AskFails, UpdateEnds, AskFollowers, PushJob, storeVars
  <2>3. CASE \E v \in Workers : TakeJob(v)
    BY <2>3, TakeMoves
  <2>4. CASE \E v \in Workers : SendResult(v)
    <3>1. PICK v \in Workers : SendResult(v)
      BY <2>4
    <3>2. /\ jobs' = [jobs EXCEPT ![v] = NoJob] /\ UNCHANGED procs /\ procs[v].todo = <<>>
      BY <3>1 DEF SendResult, Runs, storeVars
    <3>3. jobs = [x \in Workers |-> jobs[x]]
      BY DEF NeedsInv, JobsRight
    <3> QED
      BY <3>2, <3>3
  <2> QED
    BY <1>7, <2>1, <2>2, <2>3, <2>4 DEF OfUpdates
<1> QED
  BY <1>3, <1>4, <1>5, <1>6, <1>7, StepCases

LEMMA ElsewhereTail ==
  ASSUME NEW todo, Elsewhere(todo), NEW less, ToSet(less) \subseteq ToSet(todo)
  PROVE  Elsewhere(less)
BY DEF Elsewhere

LEMMA OthersStep ==
  ASSUME NeedsInv, OthersElsewhere, [Next]_appVars
  PROVE  OthersElsewhere'
<1>1. started \subseteq started'
  BY StepKinds DEF Apart, SendRequest
<1> SUFFICES ASSUME NEW q \in Procs, q \notin started', q \notin Workers
             PROVE  Elsewhere(procs'[q].todo)
  BY DEF OthersElsewhere
<1>2. Elsewhere(procs[q].todo)
  BY <1>1 DEF OthersElsewhere
<1>3. CASE procs'[q] = procs[q]
  BY <1>2, <1>3
<1>4. CASE Advances(q)
  BY <1>2, <1>4, TodoChanges, ElsewhereTail
<1>5. ASSUME NEW p \in Procs, NEW commands, IsList(commands), Begin(p, commands),
             p = q => Elsewhere(commands)
      PROVE  Elsewhere(procs'[q].todo)
  <2>1. OthersStay(p) /\ procs'[p].todo = commands
    BY <1>5, BeginFacts DEF NeedsInv, Reached
  <2> QED
    BY <1>3, <1>5, <2>1 DEF OthersStay
<1>6. CASE Untouched
  BY <1>3, <1>6 DEF Untouched
<1>7. CASE \E p : GoesOn(p)
  BY <1>3, <1>4, <1>7 DEF GoesOn, Advances, OthersStay
<1>8. CASE \E p : GetsWork(p)
  BY <1>5, <1>8, DaprPipeAssumption DEF GetsWork
<1>9. CASE \E c \in Calls : SendRequest(c)
  <2>1. PICK c \in Calls : SendRequest(c)
    BY <1>9
  <2>2. c \in Procs \ {q} /\ c \in DOMAIN scenario.requests
    BY <2>1, DaprAssumption DEF SendRequest
  <2>3. IsList(scenario.requests[c])
    BY <2>2, DaprAssumption, RequestsRight DEF ScenariosAssumption, NeedsInv, RequestRight
  <2> QED
    BY <1>5, <2>1, <2>2, <2>3 DEF SendRequest
<1>10. CASE OfUpdates
  <2>1. CASE \E d \in Deliveries, e \in pending : Deliver(d, e)
    <3>1. PICK d \in Deliveries, e \in pending : Deliver(d, e)
      BY <2>1
    <3>2. d \in Procs
      BY DaprTimelinesAssumption
    <3>3. \/ UNCHANGED procs
          \/ Begin(d, SentimentAnalysis(e.about)) \/ Begin(d, ObjectDetect(e.about))
          \/ Begin(d, ScaleVideo(e.about)) \/ Begin(d, VideoThumbnail(e.about))
      BY <3>1 DEF Deliver, SubscribedEvents
    <3> QED
      BY <1>3, <1>5, <3>2, <3>3, AnalysesReady, AnalysesElsewhere
  <2>2. CASE \E d \in Deliveries :
               AnalysisEnds(d) \/ AskFails(d) \/ UpdateEnds(d) \/ AskFollowers(d) \/ PushJob(d)
    BY <1>3, <2>2 DEF AnalysisEnds, AskFails, UpdateEnds, AskFollowers, PushJob, storeVars
  <2>3. CASE \E v \in Workers : TakeJob(v)
    <3>1. PICK v \in Workers : \E command : Begin(v, <<command>>)
      BY <2>3 DEF TakeJob
    <3>2. PICK command : Begin(v, <<command>>)
      BY <3>1
    <3> QED
      BY <1>5, <3>2, OneList, DaprTimelinesAssumption
  <2>4. CASE \E v \in Workers : SendResult(v)
    BY <1>3, <2>4 DEF SendResult, storeVars
  <2> QED
    BY <1>10, <2>1, <2>2, <2>3, <2>4 DEF OfUpdates
<1> QED
  BY <1>6, <1>7, <1>8, <1>9, <1>10, StepCases

LEMMA WorkersStep ==
  ASSUME NeedsInv, WorkersKnown, [Next]_appVars
  PROVE  WorkersKnown'
<1> SUFFICES ASSUME NEW w \in Workers
             PROVE  IF jobs'[w] = NoJob THEN procs'[w].todo = <<>>
                    ELSE procs'[w].todo \in {<<>>, <<TaskOf(jobs[w])'>>}
  BY DEF WorkersKnown
<1>1. IF jobs[w] = NoJob THEN procs[w].todo = <<>> ELSE procs[w].todo \in {<<>>, <<TaskOf(jobs[w])>>}
  BY DEF WorkersKnown
<1>2. CASE jobs'[w] = jobs[w] /\ (procs'[w] = procs[w] \/ Advances(w))
  <2>1. CASE jobs[w] = NoJob
    BY <1>1, <1>2, <2>1 DEF Advances, Runs
  <2>2. CASE jobs[w] # NoJob
    <3>1. PICK job : job = jobs[w] /\ job = jobs'[w]
      BY <1>2
    <3>2. JobRight(job, updates)
      BY <2>2, <3>1 DEF NeedsInv, JobsRight
    <3>3. TaskOf(jobs[w])' = TaskOf(jobs[w])
      <4>1. PICK d : d = job.delivery
        OBVIOUS
      <4>2. updates'[d].event = updates[d].event /\ updates'[d].keys = updates[d].keys
        BY <3>2, <4>1, JobStays
      <4> QED
        BY <3>1, <4>1, <4>2 DEF TaskOf
    <3>4. PICK task : task = TaskOf(jobs[w])
      OBVIOUS
    <3>5. Tail(<<task>>) = <<>>
      OBVIOUS
    <3>6. procs'[w].todo \in {procs[w].todo, Tail(procs[w].todo), <<>>}
          /\ (procs[w].todo = <<>> => procs'[w].todo = <<>>)
      <4>1. CASE procs'[w] = procs[w]
        BY <4>1
      <4>2. CASE Advances(w)
        BY <4>2, TodoChanges DEF Advances, Runs
      <4> QED
        BY <1>2, <4>1, <4>2
    <3>7. procs'[w].todo \in {<<>>, <<task>>}
      BY <1>1, <2>2, <3>4, <3>5, <3>6
    <3> QED
      BY <2>2, <3>1, <3>3, <3>4, <3>7
  <2> QED
    BY <2>1, <2>2
<1>3. CASE jobs'[w] = NoJob /\ procs'[w].todo = <<>>
  BY <1>3
<1>4. CASE GetsJob(w)
  <2>1. PICK job : /\ jobs'[w] = job /\ JobRight(job, updates) /\ UNCHANGED updates
                   /\ procs'[w].todo = <<TaskOf(job)>>
    BY <1>4 DEF GetsJob
  <2>2. job # NoJob
    BY <2>1, JobStays
  <2>3. TaskOf(jobs[w])' = TaskOf(job)
    BY <2>1 DEF TaskOf
  <2> QED
    BY <2>1, <2>2, <2>3
<1> QED
  BY <1>2, <1>3, <1>4, WorkerMoves

\* Only clients tell the timelines of posts.
LEMMA EventsTold ==
  ASSUME NeedsInv, OthersElsewhere, WorkersKnown, [Next]_appVars,
         NEW e \in pending', e \notin pending, e.kind \in TimelineEvents
  PROVE  \E c \in started : \E x \in ToSet(procs[c].todo) : x.do = "publish" /\ x.event = e
<1>1. CASE \E p : GoesOn(p)
  <2>1. PICK p : GoesOn(p)
    BY <1>1
  <2>2. Advances(p) /\ Command(p).do = "publish" /\ e = Command(p).event
    BY <2>1 DEF GoesOn
  <2>3. /\ p \in Procs /\ Command(p) \in ToSet(procs[p].todo) /\ procs[p].todo # <<>>
        /\ Command(p) = Head(procs[p].todo)
    BY <2>2, AdvanceFacts
  <2>4. p \notin Workers
    <3> SUFFICES ASSUME p \in Workers PROVE FALSE
      OBVIOUS
    <3>1. jobs[p] # NoJob /\ procs[p].todo = <<TaskOf(jobs[p])>>
      BY <2>3 DEF WorkersKnown
    <3>2. PICK task : task = TaskOf(jobs[p])
      OBVIOUS
    <3>3. task.do = "edit"
      BY <3>2, TaskIs
    <3>4. Head(<<task>>) = task
      OBVIOUS
    <3> QED
      BY <2>2, <2>3, <3>1, <3>2, <3>3, <3>4
  <2>5. p \in started
    BY <2>2, <2>3, <2>4 DEF OthersElsewhere, Elsewhere
  <2> QED
    BY <2>2, <2>3, <2>5
<1>2. ~Untouched /\ ~\E w : GetsWork(w)
  BY DEF Untouched, GetsWork
<1>3. ~\E c \in Calls : SendRequest(c)
  BY DEF SendRequest, timelineVars
<1>4. ~OfUpdates
  BY DEF OfUpdates, Deliver, AnalysisEnds, AskFails, UpdateEnds, Acknowledge, AskFollowers, PushJob,
         TakeJob, SendResult
<1> QED
  BY <1>1, <1>2, <1>3, <1>4, StepCases

\* What is handled was an update that ended.
LEMMA HandledMoves ==
  ASSUME NeedsInv, [Next]_appVars, NEW h \in handled', h \notin handled
  PROVE  \E d \in Deliveries :
           /\ h.event = updates[d].event /\ h.alone = updates[d].alone
           /\ h.keys = ToSet(updates[d].keys) /\ updates'[d] = NoUpdate
           /\ \/ updates[d].at = "analysis"
              \/ /\ updates[d].at = "collect" /\ updates[d].ok
                 /\ updates[d].got = Len(updates[d].keys)
<1>1. OfUpdates
  BY StepCases DEF Untouched, GoesOn, GetsWork, SendRequest, timelineVars
<1>2. PICK d \in Deliveries : AnalysisEnds(d) \/ UpdateEnds(d)
  BY <1>1 DEF OfUpdates, Deliver, AskFails, AskFollowers, PushJob, TakeJob, SendResult
<1>3. h = Handled(d)
  BY <1>2 DEF AnalysisEnds, UpdateEnds
<1>4. h.event = updates[d].event /\ h.alone = updates[d].alone /\ h.keys = ToSet(updates[d].keys)
  BY <1>3 DEF Handled
<1>5. updates'[d] = NoUpdate
  BY <1>2, UpdateShape DEF AnalysisEnds, UpdateEnds, Acknowledge
<1>6. \/ updates[d].at = "analysis"
      \/ updates[d].at = "collect" /\ updates[d].ok /\ updates[d].got = Len(updates[d].keys)
  BY <1>2 DEF AnalysisEnds, UpdateEnds
<1> QED
  BY <1>4, <1>5, <1>6

-----------------------------------------------------------------------------
(* Each part of the invariant is kept. *)

LEMMA AfterStep ==
  ASSUME NeedsInv, CallsInv, AfterOver, [Next]_appVars
  PROVE  AfterOver'
<1>1. CASE UNCHANGED <<scenario, started, overAt>>
  BY <1>1 DEF AfterOver
<1>2. CASE \E c \in Calls : SendRequest(c)
  <2>1. PICK c \in Calls : SendRequest(c)
    BY <1>2
  <2>2. /\ scenario' = scenario /\ started' = started \cup {c} /\ c \notin started
        /\ overAt' = [overAt EXCEPT ![c] = Over] /\ scenario.after[c] \subseteq Over
    BY <2>1 DEF SendRequest
  <2>3. overAt = [d \in Calls |-> overAt[d]] /\ started \subseteq Calls
    BY DEF CallsInv, CallsRight
  <2>4. overAt'[c] = Over /\ \A d \in started : overAt'[d] = overAt[d]
    BY <2>2, <2>3
  <2> QED
    BY <2>2, <2>4 DEF AfterOver
<1> QED
  BY <1>1, <1>2, StepKinds DEF Apart

LEMMA TellerAims ==
  ASSUME NeedsInv, CallsInv, NEW c \in started, NEW x \in ToSet(procs[c].todo), x.do = "publish"
  PROVE  /\ x.event.kind = "add" =>
              /\ x.event.about \in Posts /\ c \in DOMAIN scenario.requests
              /\ IsSave(scenario.requests[c], x.event.about)
         /\ x.event.kind = "remove" => x.event.about \in Deleted
<1>1. x \in Sent(c)
  BY DaprAssumption DEF CallsInv, CallsRight, TasksKnown
<1>2. /\ c \in DOMAIN scenario.requests /\ Aims(scenario.requests[c], x)
      /\ \A post \in Posts : IsDeletion(scenario.requests[c], post) => post \in Deleted
  BY <1>1, SentAims DEF CallsInv
<1> QED
  BY <1>2 DEF Aims

LEMMA NothingTold == NoUpdate.event.kind = "none" /\ NoUpdate.keys = <<>> /\ NoUpdate.got = 0
BY DEF NoUpdate, NoEvent, Event

LEMMA RemovesKnownStep ==
  ASSUME NeedsInv, CallsInv, TimelinesInv, [Next]_appVars
  PROVE  RemovesKnown'
<1>1. Deleted \subseteq Deleted'
  BY StoredStays
<1>2. OthersElsewhere /\ WorkersKnown /\ RemovesKnown
  BY DEF TimelinesInv
<1>3. ASSUME NEW e \in pending', e.kind = "remove" PROVE e.about \in Deleted'
  <2>1. CASE e \in pending
    BY <1>1, <1>2, <1>3, <2>1 DEF RemovesKnown, IsDeleted
  <2>2. CASE e \notin pending
    <3>1. PICK c \in started : \E x \in ToSet(procs[c].todo) : x.do = "publish" /\ x.event = e
      BY <1>2, <1>3, <2>2, EventsTold DEF TimelineEvents
    <3> QED
      BY <1>1, <1>3, <3>1, TellerAims
  <2> QED
    BY <2>1, <2>2
<1>4. ASSUME NEW d \in Deliveries, updates'[d].event.kind = "remove"
      PROVE  updates'[d].event.about \in Deleted'
  <2>1. CASE updates'[d].event = updates[d].event
    BY <1>1, <1>2, <1>4, <2>1 DEF RemovesKnown, IsDeleted
  <2>2. CASE Ends(d)
    BY <1>4, <2>2, NothingTold DEF Ends
  <2>3. CASE Starts(d)
    BY <1>1, <1>2, <1>4, <2>3 DEF Starts, RemovesKnown, IsDeleted
  <2> QED
    BY <2>1, <2>2, <2>3, UpdateMoves DEF Keeps, Asks, Takes
<1> QED
  BY <1>3, <1>4 DEF RemovesKnown, IsDeleted

\* After a step nothing tells of the post if nothing did that stays.
LEMMA SilentFrom ==
  ASSUME NeedsInv, CallsInv, TimelinesInv, [Next]_appVars, NEW post \in Deleted,
         \A e \in pending : ~Tells(e, post),
         \A d \in Deliveries : updates'[d].event = updates[d].event /\ ~Starts(d) =>
                                 ~Tells(updates[d].event, post)
  PROVE  Silent(post)'
<1>1. Deleted \subseteq Deleted'
  BY StoredStays
<1>2. OthersElsewhere /\ WorkersKnown /\ AfterOver
  BY DEF TimelinesInv
<1>3. ASSUME NEW e \in pending', Tells(e, post) PROVE FALSE
  <2>1. e \notin pending /\ e.kind = "add" /\ e.about = post
    BY <1>3 DEF Tells
  <2>2. PICK c \in started : \E x \in ToSet(procs[c].todo) : x.do = "publish" /\ x.event = e
    BY <1>2, <2>1, EventsTold DEF TimelineEvents
  <2>3. c \in DOMAIN scenario.requests /\ IsSave(scenario.requests[c], post)
    BY <2>1, <2>2, TellerAims
  <2>4. procs[c].todo = <<>>
    BY <1>2, <2>3, SavesOver DEF CallsInv, Runs
  <2> QED
    BY <2>2, <2>4 DEF ToSet
<1>4. ASSUME NEW d \in Deliveries PROVE ~Tells(updates'[d].event, post)
  <2>1. CASE Ends(d)
    BY <2>1, NothingTold DEF Ends, Tells
  <2>2. CASE Starts(d)
    BY <2>2 DEF Starts
  <2>3. CASE updates'[d].event = updates[d].event /\ ~Starts(d)
    BY <2>3
  <2> QED
    BY <2>1, <2>2, <2>3, UpdateMoves DEF Keeps, Asks, Takes
<1> QED
  BY <1>1, <1>3, <1>4 DEF Silent, Tells

LEMMA SilentStays ==
  ASSUME NeedsInv, CallsInv, TimelinesInv, [Next]_appVars, NEW post, Silent(post)
  PROVE  Silent(post)'
BY SilentFrom DEF Silent

LEMMA RemovesLastStep ==
  ASSUME NeedsInv, CallsInv, TimelinesInv, [Next]_appVars
  PROVE  RemovesLast'
<1>1. RemovesLast /\ RemovesKnown
  BY DEF TimelinesInv
<1>2. ASSUME NEW h \in handled', h.event.kind = "remove", h.alone PROVE Silent(h.event.about)'
  <2>1. Silent(h.event.about)
    BY <1>1, <1>2, HandledMoves DEF RemovesLast, SilentAfter
  <2> QED
    BY <2>1, SilentStays
<1>3. ASSUME NEW d \in Deliveries, NEW e, e = updates'[d].event, e.kind = "remove",
             updates'[d].alone
      PROVE  Silent(e.about)'
  <2>1. CASE updates'[d].event = updates[d].event /\ updates'[d].alone = updates[d].alone
    <3>1. Silent(e.about)
      BY <1>1, <1>3, <2>1 DEF RemovesLast, SilentAfter
    <3> QED
      BY <3>1, SilentStays
  <2>2. CASE Ends(d)
    BY <1>3, <2>2, NothingTold DEF Ends
  <2>3. CASE Starts(d)
    <3>1. e \in pending /\ Alone(d, e)
      BY <1>3, <2>3 DEF Starts
    <3>2. e.about \in Deleted
      BY <1>1, <1>3, <3>1 DEF RemovesKnown, IsDeleted
    <3>3. \A other \in pending : ~Tells(other, e.about)
      BY <1>3, <3>1 DEF Alone, Tells, TimelineEvents
    <3>4. \A other \in Deliveries \ {d} : ~Tells(updates[other].event, e.about)
      BY <3>1 DEF Alone, Tells, TimelineEvents
    <3> QED
      BY <2>3, <3>2, <3>3, <3>4, SilentFrom
  <2> QED
    BY <2>1, <2>2, <2>3, UpdateMoves DEF Keeps, Asks, Takes
<1>4. \A h \in handled' : SilentAfter(h.event, h.alone)'
  BY <1>2 DEF SilentAfter
<1>5. \A d \in Deliveries : SilentAfter(updates[d].event, updates[d].alone)'
  BY <1>3 DEF SilentAfter
<1> QED
  BY <1>4, <1>5 DEF RemovesLast

LEMMA TimelinesOnceStep ==
  ASSUME NeedsInv, CallsInv, TimelinesInv, [Next]_appVars
  PROVE  TimelinesOnce'
<1>1. OthersElsewhere /\ WorkersKnown /\ TimelinesOnce
  BY DEF TimelinesInv
<1> SUFFICES ASSUME NEW key, key[1] \in Timelines PROVE IsInjective(Item(key)'.value)
  BY DEF TimelinesOnce
<1>2. CASE Item(key)' = Item(key)
  BY <1>1, <1>2 DEF TimelinesOnce
<1>3. CASE UNCHANGED items
  BY <1>2, <1>3, ItemStays
<1>4. CASE \E p : Advances(p)
  BY <1>1, <1>2, <1>4, TimelineChanges
<1> QED
  BY <1>3, <1>4, StepKinds DEF Apart, SendRequest

-----------------------------------------------------------------------------
(* What is served, and when. *)

\* A worker that is done has served the timeline.
LEMMA WorkerServes ==
  ASSUME NeedsInv, CallsInv, TimelinesInv, NeedsInv', CallsInv', [Next]_appVars,
         NEW w \in Workers, Advances(w), jobs[w] # NoJob,
         procs'[w].todo = <<>>, procs'[w].ok,
         NEW u, u = updates[jobs[w].delivery], NEW key, key = u.keys[jobs[w].index],
         SilentAfter(u.event, u.alone)
  PROVE  Served(u.event, u.alone, key)'
<1>1. OthersElsewhere /\ WorkersKnown /\ TimelinesOnce
  BY DEF TimelinesInv
<1>2. PICK job, task : job = jobs[w] /\ task = TaskOf(job)
  OBVIOUS
<1>3. JobRight(job, updates)
  BY <1>2 DEF NeedsInv, JobsRight
<1>4. key[1] \in Timelines /\ u.event.kind \in {"add", "remove"}
  BY <1>2, <1>3, JobFacts DEF TimelineEvents
<1>5. procs[w].todo = <<task>> /\ Command(w) = task
  <2>1. procs[w].todo # <<>> /\ Command(w) = Head(procs[w].todo)
    BY AdvanceFacts
  <2>2. procs[w].todo = <<task>>
    BY <1>1, <1>2, <2>1 DEF WorkersKnown
  <2>3. Head(<<task>>) = task
    OBVIOUS
  <2> QED
    BY <2>1, <2>2, <2>3
<1>6. /\ Command(w).do = "edit" /\ Command(w).key = key /\ Command(w).edit.val = u.event.about
      /\ Command(w).edit.kind = IF u.event.kind = "add" THEN "post" ELSE "remove"
  BY <1>2, <1>5, TaskIs
<1>7. CASE HasSkipped(w)
  <2>1. PICK edit, value : edit = Command(w).edit /\ value = Item(key).value
    OBVIOUS
  <2>2. (edit.kind = "remove") = (u.event.about \notin ToSet(value))
    BY <1>6, <1>7, <2>1 DEF HasSkipped, Needless
  <2>3. IF u.event.kind = "remove" THEN u.event.about \notin ToSet(value)
        ELSE u.event.about \in ToSet(value)
    BY <1>4, <1>6, <2>1, <2>2
  <2>4. Served(u.event, u.alone, key)
    BY <1>4, <2>1, <2>3 DEF Served, TimelineEvents
  <2> QED
    BY <2>4, ServedStays
<1>8. CASE HasSaved(w)
  <2>1. PICK old, new : old = Item(key).value /\ new = Item(key)'.value
    OBVIOUS
  <2>2. Item(key)' # Item(key)
    <3>1. PICK value : Put(key, value)
      BY <1>6, <1>8 DEF HasSaved, Saves
    <3>2. key \in DOMAIN items' /\ items'[key].etag = Item(key).etag + 1
      BY <3>1, PutFacts
    <3>3. Item(key)'.etag = Item(key).etag + 1
      BY <3>2 DEF Item
    <3>4. Item(key).etag \in Nat
      <4>1. ASSUME key \notin DOMAIN items PROVE Item(key).etag = 0
        BY <4>1 DEF Item
      <4>2. ASSUME key \in DOMAIN items PROVE Item(key).etag \in Nat
        BY <4>2 DEF Item, CallsInv, EtagsRight
      <4> QED
        BY <4>1, <4>2
    <3> QED
      BY <3>3, <3>4
  <2>3. IsList(new) /\ IsInjective(new) /\ Changed(u.event, old, new)
    BY <1>1, <1>4, <2>1, <2>2, TimelineChanges
  <2>4. CASE u.event.kind = "remove"
    BY <1>4, <2>1, <2>3, <2>4 DEF Changed, Served, TimelineEvents
  <2>5. CASE u.event.kind = "add"
    <3>1. CASE MaxTimelineLen > 0 /\ Len(new) = MaxTimelineLen
      <4>1. Full(key)'
        BY <2>1, <2>3, <3>1, FullByCut DEF CallsInv
      <4> QED
        BY <1>4, <2>5, <4>1 DEF Served, TimelineEvents
    <3>2. CASE u.event.about \in ToSet(new)
      BY <1>4, <2>1, <2>5, <3>2 DEF Served, TimelineEvents
    <3> QED
      BY <2>3, <2>5, <3>1, <3>2 DEF Changed, Added
  <2> QED
    BY <1>4, <2>4, <2>5
<1>9. ~HasRead(w) /\ ~TriesAgain(w)
  BY <1>5 DEF HasRead, TriesAgain
<1>10. ~HasWritten(w) /\ ~HasPassed(w) /\ ~HasTurned(w) /\ ~HasStopped(w)
  BY <1>6 DEF HasWritten, Writes, Turn, HasPassed, HasTurned, HasStopped, Reached
<1> QED
  BY <1>7, <1>8, <1>9, <1>10 DEF Advances

LEMMA JobsStep ==
  ASSUME NeedsInv, CallsInv, TimelinesInv, NeedsInv', CallsInv', [Next]_appVars
  PROVE  JobsServed'
<1>1. JobsServed /\ RemovesLast
  BY DEF TimelinesInv
<1> SUFFICES ASSUME NEW w \in Workers, jobs'[w] # NoJob, procs'[w].todo = <<>>, procs'[w].ok
             PROVE  JobServed(jobs[w])'
  BY DEF JobsServed
<1>2. ~GetsJob(w)
  <2>1. ASSUME NEW job, procs'[w].todo = <<TaskOf(job)>> PROVE FALSE
    <3>1. PICK task : task = TaskOf(job)
      OBVIOUS
    <3>2. <<task>> # <<>>
      OBVIOUS
    <3> QED
      BY <2>1, <3>1, <3>2
  <2> QED
    BY <2>1 DEF GetsJob
<1>3. jobs'[w] = jobs[w] /\ (procs'[w] = procs[w] \/ Advances(w))
  BY <1>2, WorkerMoves
<1>4. PICK job, d : job = jobs[w] /\ d = job.delivery
  OBVIOUS
<1>5. PICK u, key : u = updates[d] /\ key = u.keys[job.index]
  OBVIOUS
<1>6. JobRight(job, updates)
  BY <1>3, <1>4 DEF NeedsInv, JobsRight
<1>7. /\ d \in Deliveries /\ job # NoJob
      /\ updates'[d].event = u.event /\ updates'[d].alone = u.alone /\ updates'[d].keys = u.keys
  BY <1>4, <1>5, <1>6, JobStays
<1>8. SilentAfter(u.event, u.alone)
  BY <1>1, <1>5, <1>7 DEF RemovesLast
<1>9. CASE Served(u.event, u.alone, key)'
  <2>1. JobServed(jobs[w])' = Served(u.event, u.alone, key)'
    BY <1>3, <1>4, <1>5, <1>7 DEF JobServed
  <2> QED
    BY <1>9, <2>1
<1>10. CASE procs'[w] = procs[w]
  <2>1. Served(u.event, u.alone, key)
    BY <1>1, <1>3, <1>4, <1>5, <1>10 DEF JobsServed, JobServed
  <2> QED
    BY <1>8, <1>9, <2>1, ServedStays
<1>11. CASE Advances(w)
  BY <1>3, <1>4, <1>5, <1>7, <1>8, <1>9, <1>11, WorkerServes
<1> QED
  BY <1>3, <1>10, <1>11

LEMMA ResultsStep ==
  ASSUME NeedsInv, CallsInv, TimelinesInv, NeedsInv', CallsInv', [Next]_appVars
  PROVE  ResultsServed'
<1>1. JobsServed /\ ResultsServed /\ RemovesLast
  BY DEF TimelinesInv
<1> SUFFICES ASSUME NEW d \in Deliveries PROVE UpdateServed(updates[d])'
  BY DEF ResultsServed
<1>2. PICK u, new : u = updates[d] /\ new = updates'[d]
  OBVIOUS
<1>3. UpdateServed(u) /\ SilentAfter(u.event, u.alone) /\ u.got \in Nat
  <2>1. UpdateRight(u, There)
    BY <1>2 DEF NeedsInv, UpdatesReady
  <2> QED
    BY <1>1, <1>2, <2>1 DEF ResultsServed, RemovesLast, UpdateRight
<1> SUFFICES /\ new.at \in {"idle", "followers", "analysis"} => new.keys = <<>>
             /\ new.ok => \A i \in 1..new.got : Served(new.event, new.alone, new.keys[i])'
  BY <1>2 DEF UpdateServed
<1>4. CASE Keeps(d)
  <2>1. /\ new.event = u.event /\ new.alone = u.alone /\ new.keys = u.keys /\ new.got = u.got
        /\ new.ok = u.ok /\ new.at \in {u.at, "push", "collect"}
    BY <1>2, <1>4 DEF Keeps
  <2>2. ASSUME new.ok, NEW i \in 1..new.got PROVE Served(new.event, new.alone, new.keys[i])'
    BY <1>3, <2>1, <2>2, ServedStays DEF UpdateServed
  <2> QED
    BY <1>3, <2>1, <2>2 DEF UpdateServed
<1>5. CASE Takes(d)
  <2>1. /\ new.at = "collect" /\ new.event = u.event /\ new.alone = u.alone
        /\ new.keys = u.keys /\ new.got = u.got + 1
    BY <1>2, <1>5 DEF Takes
  <2>2. PICK w \in Workers :
          /\ jobs[w] # NoJob /\ jobs[w].delivery = d /\ jobs[w].index = u.got + 1
          /\ procs[w].todo = <<>> /\ (new.ok => u.ok /\ procs[w].ok)
    BY <1>2, <1>5 DEF Takes
  <2>3. ASSUME new.ok, NEW i \in 1..new.got PROVE Served(new.event, new.alone, new.keys[i])'
    <3>1. CASE i = u.got + 1
      <4>1. Served(u.event, u.alone, u.keys[i])
        BY <1>1, <1>2, <2>2, <2>3, <3>1 DEF JobsServed, JobServed
      <4> QED
        BY <1>3, <2>1, <4>1, ServedStays
    <3>2. CASE i # u.got + 1
      <4>1. i \in 1..u.got
        BY <1>3, <2>1, <3>2
      <4>2. Served(u.event, u.alone, u.keys[i])
        BY <1>3, <2>2, <2>3, <4>1 DEF UpdateServed
      <4> QED
        BY <1>3, <2>1, <4>2, ServedStays
    <3> QED
      BY <3>1, <3>2
  <2> QED
    BY <2>1, <2>3
<1>6. CASE Asks(d)
  BY <1>2, <1>6 DEF Asks
<1>7. CASE Ends(d)
  BY <1>2, <1>7, NothingTold DEF Ends
<1>8. CASE Starts(d)
  BY <1>2, <1>8 DEF Starts
<1> QED
  BY <1>4, <1>5, <1>6, <1>7, <1>8, UpdateMoves

LEMMA HandledStep ==
  ASSUME NeedsInv, CallsInv, TimelinesInv, NeedsInv', CallsInv', [Next]_appVars
  PROVE  HandledServed'
<1>1. HandledServed /\ ResultsServed /\ RemovesLast
  BY DEF TimelinesInv
<1> SUFFICES ASSUME NEW h \in handled', NEW key \in h.keys
             PROVE  Served(h.event, h.alone, key)'
  BY DEF HandledServed
<1>2. CASE h \in handled
  <2>1. Served(h.event, h.alone, key) /\ SilentAfter(h.event, h.alone)
    BY <1>1, <1>2 DEF HandledServed, RemovesLast
  <2> QED
    BY <2>1, ServedStays
<1>3. CASE h \notin handled
  <2>1. PICK d \in Deliveries :
          /\ h.event = updates[d].event /\ h.alone = updates[d].alone
          /\ h.keys = ToSet(updates[d].keys)
          /\ \/ updates[d].at = "analysis"
             \/ /\ updates[d].at = "collect" /\ updates[d].ok
                /\ updates[d].got = Len(updates[d].keys)
    BY <1>3, HandledMoves
  <2>2. PICK u : u = updates[d]
    OBVIOUS
  <2>3. UpdateServed(u) /\ SilentAfter(u.event, u.alone) /\ UpdateRight(u, There)
    BY <1>1, <2>2 DEF ResultsServed, RemovesLast, NeedsInv, UpdatesReady
  <2>4. u.at # "analysis"
    BY <2>1, <2>2, <2>3 DEF UpdateServed, ToSet
  <2>5. IsList(u.keys)
    BY <2>1, <2>2, <2>3, <2>4 DEF UpdateRight
  <2>6. PICK i \in 1..Len(u.keys) : u.keys[i] = key
    BY <2>1, <2>2, <2>5, ListFacts
  <2>7. Served(h.event, h.alone, key)
    BY <2>1, <2>2, <2>3, <2>4, <2>6 DEF UpdateServed
  <2> QED
    BY <2>1, <2>2, <2>3, <2>7, ServedStays
<1> QED
  BY <1>2, <1>3

-----------------------------------------------------------------------------
(* The theorem. *)

LEMMA TimelinesStart == Init => TimelinesInv
<1> SUFFICES ASSUME Init PROVE TimelinesInv
  OBVIOUS
<1>1. /\ scenario \in Scenarios /\ items = scenario.stored /\ procs = [p \in Procs |-> Idle]
      /\ started = {} /\ pending = {} /\ handled = {}
      /\ updates = [d \in Deliveries |-> NoUpdate] /\ jobs = [w \in Workers |-> NoJob]
  BY DEF Init, StoreInit, SocialInit, TimelinesInit
<1>2. \A p \in Procs : procs[p].todo = <<>>
  <2>1. Idle.todo = <<>>
    BY DEF Idle
  <2> QED
    BY <1>1, <2>1
<1>3. \A todo : todo = <<>> => Elsewhere(todo)
  BY DEF Elsewhere, ToSet
<1>4. AfterOver /\ OthersElsewhere
  BY <1>1, <1>2, <1>3 DEF AfterOver, OthersElsewhere
<1>5. WorkersKnown /\ JobsServed
  <2>1. \A w \in Workers : jobs[w] = NoJob /\ procs[w].todo = <<>>
    BY <1>1, <1>2, DaprTimelinesAssumption
  <2> QED
    BY <2>1 DEF WorkersKnown, JobsServed
<1>6. RemovesKnown /\ RemovesLast /\ HandledServed /\ ResultsServed
  BY <1>1, NothingTold
     DEF RemovesKnown, IsDeleted, RemovesLast, SilentAfter, HandledServed, ResultsServed, UpdateServed
<1>7. TimelinesOnce
  <2> SUFFICES ASSUME NEW key, key[1] \in Timelines PROVE IsInjective(Item(key).value)
    BY DEF TimelinesOnce
  <2>1. CASE key \in DOMAIN items
    <3>1. StoredRight(items)
      BY <1>1, DaprAssumption DEF ScenariosAssumption
    <3>2. IsInjective(items[key].value)
      BY <2>1, <3>1 DEF StoredRight, Timelines, Lists
    <3>3. Item(key).value = items[key].value
      BY <2>1, ItemIs
    <3> QED
      BY <3>2, <3>3
  <2>2. CASE key \notin DOMAIN items
    <3>1. Item(key).value = Empty(key)
      BY <2>2, ItemIs
    <3>2. Empty(key) = <<>>
      BY DEF Empty, Timelines
    <3> QED
      BY <3>1, <3>2 DEF IsInjective
  <2> QED
    BY <2>1, <2>2
<1> QED
  BY <1>4, <1>5, <1>6, <1>7 DEF TimelinesInv

LEMMA TimelinesInvStep ==
  ASSUME NeedsInv, CallsInv, TimelinesInv, NeedsInv', CallsInv', [Next]_appVars
  PROVE  TimelinesInv'
<1>1. AfterOver /\ OthersElsewhere /\ WorkersKnown
  BY DEF TimelinesInv
<1>2. AfterOver' /\ OthersElsewhere' /\ WorkersKnown'
  BY <1>1, AfterStep, OthersStep, WorkersStep
<1>3. RemovesKnown' /\ RemovesLast' /\ TimelinesOnce'
  BY RemovesKnownStep, RemovesLastStep, TimelinesOnceStep
<1>4. HandledServed' /\ ResultsServed' /\ JobsServed'
  BY HandledStep, ResultsStep, JobsStep
<1> QED
  BY <1>2, <1>3, <1>4 DEF TimelinesInv

\* A full timeline has as many posts as it takes, but for the deleted ones.
LEMMA FullCounts ==
  ASSUME NeedsInv, CallsInv, TimelinesOnce, NEW key, key[1] \in Timelines, Full(key)
  PROVE  MaxTimelineLen > 0 /\ Len(Value(key)) + Cardinality(Deleted) >= MaxTimelineLen
<1>1. PICK list, T : list = Item(key).value /\ T = ToSet(list)
  OBVIOUS
<1>2. IsList(list) /\ IsInjective(list)
  BY <1>1, TimelineIs
<1>3. IsFiniteSet(T) /\ Cardinality(T) = Len(list)
  BY <1>1, <1>2, OnceCounts
<1>4. IsFiniteSet(Deleted)
  BY DeletedFinite DEF CallsInv
<1>5. IsFiniteSet(T \cap Deleted)
  BY <1>3, FS_Subset
<1>6. Cardinality(T \cup Deleted) = Cardinality(T) + Cardinality(Deleted) - Cardinality(T \cap Deleted)
  BY <1>3, <1>4, FS_Union
<1>7. /\ Cardinality(T) \in Nat /\ Cardinality(Deleted) \in Nat /\ MaxTimelineLen \in Nat
      /\ Cardinality(T \cap Deleted) \in Nat
  BY <1>3, <1>4, <1>5, FS_CardinalityType, DaprStoreAssumption
<1>8. MaxTimelineLen > 0 /\ Cardinality(T \cup Deleted) >= MaxTimelineLen
  BY <1>1 DEF Full
<1>9. Cardinality(T) + Cardinality(Deleted) >= MaxTimelineLen
  BY <1>6, <1>7, <1>8
<1> QED
  BY <1>1, <1>3, <1>8, <1>9 DEF Value

LEMMA TimelinesAreThere == NeedsInv /\ CallsInv /\ TimelinesInv => TimelinesServed
<1> SUFFICES ASSUME NeedsInv, CallsInv, TimelinesInv,
                    NEW h \in handled, NEW key \in h.keys, NEW times,
                    times = Occurrences(h.event.about, Value(key))
             PROVE  IF h.event.kind = "remove" THEN h.alone => times = 0
                    ELSE \/ times = 1 \/ h.event.about \in Deleted
                         \/ MaxTimelineLen > 0 /\ Len(Value(key)) + Cardinality(Deleted) >= MaxTimelineLen
  BY DEF TimelinesServed
<1>1. Served(h.event, h.alone, key) /\ TimelinesOnce
  BY DEF TimelinesInv, HandledServed
<1>2. key[1] \in Timelines
  BY <1>1 DEF Served
<1>3. IsList(Value(key)) /\ IsInjective(Value(key))
  BY <1>1, <1>2, TimelineIs DEF Value
<1>4. times = IF h.event.about \in ToSet(Value(key)) THEN 1 ELSE 0
  BY <1>3, OccursOnce
<1>5. CASE h.event.kind = "remove"
  BY <1>1, <1>4, <1>5 DEF Served, Value
<1>6. CASE h.event.kind # "remove"
  BY <1>1, <1>2, <1>4, <1>6, FullCounts DEF Served, Value
<1> QED
  BY <1>5, <1>6

(* When the handler of a new post has succeeded, the post is once on each   *)
(* timeline it wrote, unless the post is deleted or the timeline had no     *)
(* room; when that of a removal has, and ran alone, it is on none of them:  *)
(* however many workers, deliveries and retries there are.                  *)
THEOREM TimelinesAreServed == Spec => []TimelinesServed
<1> DEFINE Inv == NeedsInv /\ CallsInv /\ TimelinesInv
<1>1. Init => Inv
  BY NeedsInit, CallsInit, TimelinesStart
<1>2. Inv /\ [Next]_appVars => Inv'
  BY NeedsStep, CallsStep, TimelinesInvStep
<1>3. Inv => TimelinesServed
  BY TimelinesAreThere
<1> QED
  BY <1>1, <1>2, <1>3, PTL DEF Spec
=============================================================================
