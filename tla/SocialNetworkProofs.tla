------------------------- MODULE SocialNetworkProofs -------------------------
(***************************************************************************)
(* Proofs about SocialNetwork: for any users, scenarios and number of      *)
(* calls.                                                                  *)
(***************************************************************************)
EXTENDS SocialNetwork, FiniteSetTheorems, SequenceTheorems, WellFoundedInduction, TLAPS

LEMMA SmallestOfSet ==
  ASSUME NEW T \in SUBSET Nat, T # {}
  PROVE  \E m \in T : \A k \in T : m <= k
<1> DEFINE R == {p \in Nat \X Nat : p[1] < p[2]}
<1>1. IsWellFoundedOn(R, Nat)
  BY NatLessThanWellFounded DEF OpToRel
<1>2. PICK m \in T : \A k \in T : <<k, m>> \notin R
  BY <1>1, WFMin
<1>3. \A k \in Nat : k < m => <<k, m>> \in R
  OBVIOUS
<1> HIDE DEF R
<1>4. \A k \in T : k \in Nat /\ m \in Nat /\ ~(k < m)
  BY <1>2, <1>3
<1>5. \A k \in T : m <= k
  BY <1>4
<1> QED
  BY <1>5

-----------------------------------------------------------------------------
(* Ids. *)

\* The calls that made an id in a millisecond.
Stamped(s) == {c \in WithId : idCall[c].stamp = s}

\* The calls of a millisecond, as long as there are no more of them than the
\* counter has values, took the first places, each another.
PlacesDiffer(s) ==
  Cardinality(Stamped(s)) <= Span =>
    \A c \in Stamped(s) :
      /\ idCall[c].place < Cardinality(Stamped(s))
      /\ \A d \in Stamped(s) : idCall[c].place = idCall[d].place => c = d

\* While nobody sets the clock back: one call at a time holds the lock, it
\* never finds the clock behind the last id, and the counter is the number
\* of ids of the last millisecond.
IdInv ==
  /\ IdTypeOK
  /\ clock <= MaxClock
  /\ \A c \in Calls : idCall[c].stamp <= MaxClock
  /\ setBacks = 0 =>
       /\ lastStamp <= clock
       /\ \A c \in Calls : idCall[c].at = "locked" => idCall[c].stamp \in lastStamp..clock
       /\ \A c, d \in Calls : idCall[c].at = "locked" /\ idCall[d].at = "locked" => c = d
       /\ \A c \in WithId : idCall[c].stamp <= lastStamp
       /\ \A s \in 0..MaxClock : PlacesDiffer(s)
       /\ lastStamp >= 0 => counter = Cardinality(Stamped(lastStamp))

LEMMA StampedFacts ==
  ASSUME NEW s
  PROVE  IsFiniteSet(Stamped(s)) /\ Cardinality(Stamped(s)) \in Nat
<1>1. Stamped(s) \subseteq Calls
  BY DEF Stamped, WithId
<1> QED
  BY <1>1, ServicesAssumption, FS_Subset, FS_CardinalityType

\* The times of two equal ids are equal.
LEMMA DigitsDiffer ==
  ASSUME NEW a \in Nat, NEW b \in Nat, NEW p \in 0..(Span - 1), NEW q \in 0..(Span - 1),
         a * Span + p = b * Span + q
  PROVE  a = b
<1> SUFFICES ASSUME NEW x \in Nat, NEW y \in Nat, NEW i \in 0..(Span - 1), NEW j \in 0..(Span - 1),
                    x < y
             PROVE  x * Span + i < y * Span + j
  BY UniqueIdAssumption
<1>1. PICK k \in Nat : y = x + 1 + k
  <2>1. y - x - 1 \in Nat /\ y = x + 1 + (y - x - 1)
    OBVIOUS
  <2> QED
    BY <2>1
<1>2. y * Span = x * Span + Span + k * Span
  BY <1>1, UniqueIdAssumption
<1>3. k * Span \in Nat /\ x * Span \in Nat
  BY UniqueIdAssumption
<1> QED
  BY <1>2, <1>3, UniqueIdAssumption

LEMMA IdStart == IdInit => IdInv
<1> SUFFICES ASSUME IdInit PROVE IdInv
  OBVIOUS
<1>1. WithId = {}
  BY DEF IdInit, WithId, NoId
<1>2. IdTypeOK
  BY UniqueIdAssumption DEF IdInit, IdTypeOK, NoId
<1>3. \A s : Stamped(s) = {}
  BY <1>1 DEF Stamped
<1>4. \A s : PlacesDiffer(s)
  BY <1>3 DEF PlacesDiffer
<1> QED
  BY <1>1, <1>2, <1>4, UniqueIdAssumption DEF IdInit, IdInv, NoId

LEMMA ReadClockKeepsIds ==
  ASSUME IdInv, NEW c \in Calls, ReadClock(c)
  PROVE  IdInv'
<1> USE DEF ReadClock
<1>1. IdTypeOK'
  BY DEF IdInv, IdTypeOK
<1>2. \A d \in Calls : idCall'[d] = IF d = c THEN [idCall[c] EXCEPT !.at = "locked", !.stamp = clock]
                                    ELSE idCall[d]
  BY DEF IdInv, IdTypeOK
<1>3. WithId' = WithId
  BY <1>2 DEF WithId, IdInv, IdTypeOK
<1>4. \A d \in WithId : d # c /\ d \in Calls
  BY DEF WithId
<1>5. \A s : Stamped(s)' = Stamped(s)
  BY <1>2, <1>3, <1>4 DEF Stamped
<1>6. \A s : PlacesDiffer(s) => PlacesDiffer(s)'
  <2>1. \A s : \A e \in Stamped(s) : e # c /\ e \in Calls
    BY <1>4 DEF Stamped
  <2> QED
    <3> SUFFICES ASSUME NEW s, PlacesDiffer(s) PROVE PlacesDiffer(s)'
      OBVIOUS
    <3>1. Stamped(s)' = Stamped(s) /\ \A e \in Stamped(s) : idCall'[e] = idCall[e]
      BY <1>2, <1>5, <2>1
    <3> QED
      BY <3>1 DEF PlacesDiffer
<1>7. \A d \in Calls : idCall'[d].stamp <= MaxClock
  BY <1>2 DEF IdInv, IdTypeOK
<1>8. ASSUME setBacks = 0
      PROVE  /\ \A d \in Calls : idCall'[d].at = "locked" => idCall'[d].stamp \in lastStamp..clock
             /\ \A d, e \in Calls : idCall'[d].at = "locked" /\ idCall'[e].at = "locked" => d = e
             /\ \A d \in WithId : idCall'[d].stamp <= lastStamp
  BY <1>2, <1>4, <1>8 DEF IdInv, IdTypeOK
<1>9. ASSUME setBacks = 0, lastStamp >= 0 PROVE counter' = Cardinality(Stamped(lastStamp)')
  BY <1>3, <1>2, <1>4, <1>9 DEF IdInv, Stamped
<1> QED
  BY <1>1, <1>3, <1>6, <1>7, <1>8, <1>9 DEF IdInv

\* The counter of a call that finds its millisecond to be the last one, or a
\* new one, is the number of ids of that millisecond.
LEMMA NextPlace ==
  ASSUME IdInv, setBacks = 0, NEW c \in Calls, idCall[c].at = "locked"
  PROVE  /\ idCall[c].stamp \in Nat /\ lastStamp <= idCall[c].stamp
         /\ (IF lastStamp = idCall[c].stamp THEN counter ELSE 0)
              = Cardinality(Stamped(idCall[c].stamp))
<1>1. idCall[c].stamp \in Nat /\ lastStamp \in Int /\ idCall[c].stamp >= lastStamp
  BY DEF IdInv, IdTypeOK
<1>2. CASE lastStamp = idCall[c].stamp
  BY <1>1, <1>2 DEF IdInv
<1>3. CASE lastStamp < idCall[c].stamp
  <2>1. \A d \in WithId : idCall[d].stamp \in Nat
    BY DEF WithId, IdInv, IdTypeOK
  <2>2. Stamped(idCall[c].stamp) = {}
    BY <1>1, <1>3, <2>1 DEF IdInv, Stamped
  <2> QED
    BY <1>1, <1>3, <2>2, FS_EmptySet
<1> QED
  BY <1>1, <1>2, <1>3

LEMMA GetCounterKeepsIds ==
  ASSUME IdInv, NEW c \in Calls, GetCounter(c)
  PROVE  IdInv'
<1> PICK stamp : stamp = idCall[c].stamp
  OBVIOUS
<1> PICK count : count = IF lastStamp = stamp THEN counter ELSE 0
  OBVIOUS
<1>1. /\ idCall[c].at = "locked" /\ lastStamp <= stamp
      /\ lastStamp' = stamp /\ counter' = count + 1
      /\ idCall' = [idCall EXCEPT ![c].at = "done", ![c].place = count % Span]
      /\ clock' = clock /\ setBacks' = setBacks
  BY DEF GetCounter
<1>2. /\ idCall \in [Calls -> [at : {"idle", "locked", "done", "lost"},
                               stamp : Nat, place : 0..(Span - 1)]]
      /\ stamp \in Nat /\ count \in Nat /\ count % Span \in 0..(Span - 1) /\ stamp <= MaxClock
  BY UniqueIdAssumption DEF IdInv, IdTypeOK
<1>3. IdTypeOK'
  <2>1. clock' \in Nat /\ setBacks' \in Nat /\ lastStamp' \in Nat /\ counter' \in Nat
    BY <1>1, <1>2 DEF IdInv, IdTypeOK
  <2>2. idCall' \in [Calls -> [at : {"idle", "locked", "done", "lost"},
                               stamp : Nat, place : 0..(Span - 1)]]
    BY <1>1, <1>2
  <2> QED
    BY <2>1, <2>2 DEF IdTypeOK
<1>4. \A d \in Calls : d # c => idCall'[d] = idCall[d]
  BY <1>1, <1>2
<1>5. idCall'[c].at = "done" /\ idCall'[c].stamp = stamp /\ idCall'[c].place = count % Span
  BY <1>1, <1>2
<1>6. \A d \in Calls : idCall'[d].stamp = idCall[d].stamp
  BY <1>4, <1>5
<1>7. WithId' = WithId \cup {c} /\ c \notin WithId /\ WithId \subseteq Calls
  BY <1>1, <1>4, <1>5 DEF WithId
<1>8. CASE setBacks = 0
  <2>1. count = Cardinality(Stamped(stamp))
    BY <1>1, <1>8, NextPlace
  <2>2. Stamped(stamp)' = Stamped(stamp) \cup {c} /\ c \notin Stamped(stamp)
    BY <1>6, <1>7 DEF Stamped
  <2>3. \A s : s # stamp => Stamped(s)' = Stamped(s)
    BY <1>6, <1>7 DEF Stamped
  <2>4. Cardinality(Stamped(stamp)') = count + 1
    BY <2>1, <2>2, StampedFacts, FS_AddElement
  <2>5. PlacesDiffer(stamp)
    BY <1>2, <1>8, UniqueIdAssumption DEF IdInv
  <2>6. PlacesDiffer(stamp)'
    <3> SUFFICES ASSUME count + 1 <= Span
                 PROVE  \A d \in Stamped(stamp)' :
                          /\ idCall'[d].place < count + 1
                          /\ \A e \in Stamped(stamp)' : idCall'[d].place = idCall'[e].place => d = e
      BY <2>4 DEF PlacesDiffer
    <3>1. count % Span = count
      BY <1>2, UniqueIdAssumption
    <3>2. \A d \in Stamped(stamp) :
            /\ idCall[d].place < count
            /\ \A e \in Stamped(stamp) : idCall[d].place = idCall[e].place => d = e
      BY <1>2, <2>1, <2>5, UniqueIdAssumption DEF PlacesDiffer
    <3>3. \A d \in Stamped(stamp) : d \in Calls /\ d # c /\ idCall'[d] = idCall[d]
                                    /\ idCall[d].place \in Nat
      BY <1>2, <1>4, <1>7 DEF Stamped
    <3> QED
      BY <1>2, <1>5, <2>2, <3>1, <3>2, <3>3
  <2>7. \A s : s # stamp /\ PlacesDiffer(s) => PlacesDiffer(s)'
    <3>1. \A s : s # stamp => \A d \in Stamped(s) : idCall'[d] = idCall[d]
      BY <1>4, <1>7 DEF Stamped
    <3> QED
      BY <2>3, <3>1 DEF PlacesDiffer
  <2>8. \A d \in WithId' : idCall'[d].stamp <= stamp
    <3>1. \A d \in WithId : idCall[d].stamp \in Nat /\ idCall[d].stamp <= lastStamp
      BY <1>2, <1>7, <1>8 DEF IdInv
    <3>2. lastStamp \in Int
      BY DEF IdInv, IdTypeOK
    <3> QED
      BY <1>1, <1>2, <1>5, <1>6, <1>7, <3>1, <3>2
  <2>9. \A d \in Calls : idCall'[d].at # "locked"
    BY <1>1, <1>4, <1>5, <1>8 DEF IdInv
  <2>10. stamp <= clock
    BY <1>1, <1>8 DEF IdInv, IdTypeOK
  <2>11. \A s \in 0..MaxClock : PlacesDiffer(s)'
    BY <1>8, <2>6, <2>7 DEF IdInv
  <2>12. clock <= MaxClock /\ \A d \in Calls : idCall[d].stamp <= MaxClock
    BY DEF IdInv
  <2>13. counter' = Cardinality(Stamped(lastStamp)')
    BY <1>1, <2>4 DEF Stamped
  <2> QED
    BY <1>1, <1>3, <1>6, <2>8, <2>9, <2>10, <2>11, <2>12, <2>13 DEF IdInv
<1>9. CASE setBacks # 0
  BY <1>1, <1>3, <1>6, <1>9 DEF IdInv
<1> QED
  BY <1>8, <1>9

\* A process that exits found the clock set back.
LEMMA ExitKeepsIds ==
  ASSUME IdInv, NEW c \in Calls, ExitAndRestart(c)
  PROVE  IdInv'
<1> USE DEF ExitAndRestart
<1>1. setBacks # 0
  BY DEF IdInv, IdTypeOK
<1>2. \A d \in Calls : idCall'[d] = IF idCall[d].at = "locked" THEN [NoId EXCEPT !.at = "lost"]
                                    ELSE idCall[d]
  OBVIOUS
<1>3. IdTypeOK'
  BY UniqueIdAssumption DEF IdInv, IdTypeOK, NoId
<1>4. \A d \in Calls : idCall'[d].stamp <= MaxClock
  BY <1>2, UniqueIdAssumption DEF IdInv, NoId
<1> QED
  BY <1>1, <1>3, <1>4 DEF IdInv

LEMMA IdsStay == IdInv /\ [IdNext]_idVars => IdInv'
<1> SUFFICES ASSUME IdInv, [IdNext]_idVars PROVE IdInv'
  OBVIOUS
<1>0. ASSUME UNCHANGED <<lastStamp, counter, idCall>> PROVE \A s : PlacesDiffer(s)' = PlacesDiffer(s)
  BY <1>0 DEF PlacesDiffer, Stamped, WithId
<1>1. CASE TimePasses
  <2>1. UNCHANGED <<lastStamp, counter, idCall, setBacks>> /\ clock' = clock + 1 /\ clock < MaxClock
    BY <1>1 DEF TimePasses
  <2>2. \A s : PlacesDiffer(s)' = PlacesDiffer(s) /\ Stamped(s)' = Stamped(s)
    BY <1>0, <2>1 DEF Stamped, WithId
  <2> QED
    BY <2>1, <2>2, UniqueIdAssumption DEF IdInv, IdTypeOK, WithId
<1>2. CASE ClockIsSetBack
  BY <1>2, UniqueIdAssumption DEF IdInv, IdTypeOK, ClockIsSetBack
<1>3. CASE UNCHANGED idVars
  BY <1>3, <1>0 DEF IdInv, IdTypeOK, idVars, WithId, Stamped
<1> QED
  BY <1>1, <1>2, <1>3, ReadClockKeepsIds, GetCounterKeepsIds, ExitKeepsIds DEF IdNext

LEMMA IdsFollow == IdInv => IdsDistinct
<1> SUFFICES ASSUME IdInv, setBacks = 0, NEW c \in WithId, NEW d \in WithId,
                    c # d, Id(c) = Id(d)
             PROVE  Cardinality({e \in WithId : idCall[e].stamp = idCall[c].stamp}) > Span
  BY DEF IdsDistinct
<1>1. /\ idCall[c].stamp \in Nat /\ idCall[d].stamp \in Nat
      /\ idCall[c].place \in 0..(Span - 1) /\ idCall[d].place \in 0..(Span - 1)
  BY DEF IdInv, IdTypeOK, WithId
<1>2. idCall[c].stamp = idCall[d].stamp /\ idCall[c].stamp \in 0..MaxClock
  <2>1. idCall[c].stamp = idCall[d].stamp
    BY <1>1, DigitsDiffer DEF Id
  <2> QED
    BY <1>1, <2>1, UniqueIdAssumption DEF IdInv, WithId
<1>3. idCall[c].stamp * Span \in Int
  BY <1>1, UniqueIdAssumption
<1>4. idCall[c].place = idCall[d].place
  BY <1>1, <1>2, <1>3 DEF Id
<1>5. c \in Stamped(idCall[c].stamp) /\ d \in Stamped(idCall[c].stamp)
  BY <1>2 DEF Stamped
<1>6. PlacesDiffer(idCall[c].stamp)
  BY <1>2 DEF IdInv
<1>7. ~(Cardinality(Stamped(idCall[c].stamp)) <= Span)
  BY <1>4, <1>5, <1>6 DEF PlacesDiffer
<1> QED
  BY <1>7, StampedFacts, UniqueIdAssumption DEF Stamped

\* The registrations make their ids the way a service that does nothing else
\* does.
LEMMA OnlyIdSteps == [SocialNext]_socialVars => [IdNext]_idVars
<1> SUFFICES ASSUME [SocialNext]_socialVars PROVE [IdNext]_idVars
  OBVIOUS
<1>1. ASSUME NEW c \in Calls, Arrives(c) PROVE UNCHANGED idVars
  BY <1>1 DEF Arrives, Register, FollowByName, UnfollowByName, ReadGraph, Compose, Read
<1>2. ASSUME NEW c \in Calls, MakesId(c) PROVE IdNext
  BY <1>2 DEF MakesId, IdNext
<1>3. ASSUME NEW c \in Calls, ComposeStep(c) PROVE UNCHANGED idVars
  BY <1>3 DEF ComposeStep, HaveParts, MissMentions, UploadPost, UploadUserTimeline, UploadHomeTimeline,
              WriteHomeTimeline, PartFails, graphAndAccounts
<1>4. ASSUME NEW c \in Calls, Works(c), ~MakesId(c) PROVE UNCHANGED idVars
  BY <1>3, <1>4 DEF Works, GraphWorks, Accounts, RegistersInGraph, RegistrationStops, TimelinesWork,
              AsksForPosts, ReadsPosts, GetsPosts, ReadStops, TimelineStops, PushFails, ComposeWorks
<1>5. CASE ServersRestart
  BY <1>5 DEF ServersRestart
<1>6. CASE Clock
  BY <1>6 DEF Clock, IdNext
<1>7. CASE Finished \/ UNCHANGED socialVars
  BY <1>7 DEF Finished, socialVars, otherState
<1> QED
  BY <1>1, <1>2, <1>4, <1>5, <1>6, <1>7 DEF SocialNext

\* Whatever the other services do, the registrations' ids are made as
\* UniqueId has it.
THEOREM IdsMadeAsSpecified == SocialSpec => IdSpec
<1>1. SocialInit => IdInit
  BY DEF SocialInit
<1> QED
  BY <1>1, OnlyIdSteps, PTL DEF SocialSpec, IdSpec

\* While nobody sets the clock back, no two calls of UniqueId get the same
\* id, unless a millisecond sees more of them than the counter has values.
THEOREM IdsAreDistinct == SocialSpec => []IdsDistinct
<1>1. IdSpec => []IdsDistinct
  BY IdStart, IdsStay, IdsFollow, PTL DEF IdSpec
<1> QED
  BY <1>1, IdsMadeAsSpecified, PTL

-----------------------------------------------------------------------------
(* Edges. *)

\* The list of side s that pair <<u, v>> is in, and its entry there.
Own(s, u, v) == IF s = "followees" THEN u ELSE v
Other(s, u, v) == IF s = "followees" THEN v ELSE u

Wanted(u, v) == <<u, v>> \in wanted
Editing(c, u, v) == graphCall[c].op \in Edits /\ Pair(c) = <<u, v>> /\ GraphBusy(c)

\* What a call may still have to do.
Tasks(op) == IF op \in Edits THEN DocumentTasks \cup RedisTasks
             ELSE IF op \in Sides THEN {"range", "find", "fill"} ELSE {}

\* A document holds an entry once or not at all, and a user without a
\* document has none.
Documented ==
  \A s \in Sides, u, v \in Users :
    edges[s][u][v] \in {0, 1} /\ (edges[s][u][v] = 1 => u \in known)

\* The calls that edit a pair that went well do what the last request wants.
EditsAgree(u, v) ==
  \A c \in Calls : Editing(c, u, v) => {u, v} \subseteq known /\ (graphCall[c].op = "follow" <=> Wanted(u, v))

\* A document holds what is wanted, or a task is about to see to it.
DocumentAgrees(s, u, v) ==
  \/ edges[s][Own(s, u, v)][Other(s, u, v)] = IF Wanted(u, v) THEN 1 ELSE 0
  \/ \E c \in Calls : Editing(c, u, v) /\ DocumentTask(s) \in graphCall[c].todo

OwnTasks == \A c \in Calls : graphCall[c].todo \subseteq Tasks(graphCall[c].op)

InRedis(s, u, v) == Other(s, u, v) \in cachedEdges[s][Own(s, u, v)]
RedisTaskLeft(s, u, v) ==
  \E c \in Calls : Editing(c, u, v) /\ RedisTask(s) \in graphCall[c].todo

\* Redis shows all that is wanted until it restarts, and nothing else as far
\* as no list was filled again with what it was before, or a task is about to
\* see to it.
RedisComplete(s, u, v) ==
  Wanted(u, v) /\ "social-graph-redis" \notin restarted => InRedis(s, u, v) \/ RedisTaskLeft(s, u, v)
RedisSound(s, u, v) ==
  /\ InRedis(s, u, v) => Wanted(u, v) \/ RedisTaskLeft(s, u, v)
  /\ \A c \in FillsUnderWay(s, Own(s, u, v)) : Other(s, u, v) \in graphCall[c].answer => Wanted(u, v)

CallRecords ==
  [op : {"none"} \cup Edits \cup Sides, user : Users, other : Users,
   todo : SUBSET (DocumentTasks \cup RedisTasks \cup {"range", "find", "fill"}),
   answer : SUBSET Users, ok : BOOLEAN]

USE DEF CallRecords

LEMMA GraphTypeFacts ==
  ASSUME GraphTypeOK
  PROVE  /\ DOMAIN graphCall = Calls /\ graphCall = [c \in Calls |-> graphCall[c]]
         /\ \A c \in Calls :
              /\ graphCall[c].op \in {"none"} \cup Edits \cup Sides
              /\ graphCall[c].user \in Users /\ graphCall[c].other \in Users
              /\ graphCall[c].todo \subseteq DocumentTasks \cup RedisTasks \cup {"range", "find", "fill"}
              /\ graphCall[c].answer \subseteq Users /\ graphCall[c].ok \in BOOLEAN
              /\ graphCall[c] = [op |-> graphCall[c].op, user |-> graphCall[c].user,
                                 other |-> graphCall[c].other, todo |-> graphCall[c].todo,
                                 answer |-> graphCall[c].answer, ok |-> graphCall[c].ok]
         /\ \A s \in Sides, u, v \in Users : edges[s][u][v] \in Nat
         /\ \A s \in Sides, u \in Users : cachedEdges[s][u] \subseteq Users
BY DEF GraphTypeOK

LEMMA IdleFacts ==
  /\ Idle.user \in Users /\ Idle.other \in Users /\ Idle.answer = {} /\ Idle.ok = TRUE
  /\ Idle.op = "none" /\ Idle.todo = {}
  /\ Idle = [op |-> "none", user |-> Idle.user, other |-> Idle.other,
             todo |-> {}, answer |-> {}, ok |-> TRUE]
<1>1. (CHOOSE u \in Users : TRUE) \in Users
  BY ServicesAssumption
<1> QED
  BY <1>1 DEF Idle

\* What a step gives a call: the fields it names, and the others as they were.
LEMMA CallBecomes ==
  ASSUME GraphTypeOK, NEW c \in Calls, NEW call,
         call \in CallRecords,
         graphCall' = [graphCall EXCEPT ![c] = call]
  PROVE  /\ graphCall' \in [Calls -> CallRecords]
         /\ graphCall'[c] = call
         /\ \A d \in Calls : d # c => graphCall'[d] = graphCall[d]
BY DEF GraphTypeOK

LEMMA TaskDoneFacts ==
  ASSUME GraphTypeOK, OwnTasks, NEW c \in Calls, NEW t, TaskDone(c, t)
  PROVE  /\ graphCall' \in [Calls -> CallRecords]
         /\ \A d \in Calls :
              /\ graphCall'[d].op = graphCall[d].op
              /\ graphCall'[d].user = graphCall[d].user /\ graphCall'[d].other = graphCall[d].other
              /\ graphCall'[d].answer = graphCall[d].answer
              /\ graphCall'[d].todo = graphCall[d].todo \ (IF d = c THEN {t} ELSE {})
         /\ OwnTasks'
<1> DEFINE call == [graphCall[c] EXCEPT !.todo = @ \ {t}]
<1>1. graphCall' = [graphCall EXCEPT ![c] = call]
  BY DEF TaskDone
<1>2. call = [op |-> graphCall[c].op, user |-> graphCall[c].user, other |-> graphCall[c].other,
              todo |-> graphCall[c].todo \ {t}, answer |-> graphCall[c].answer, ok |-> graphCall[c].ok]
  BY GraphTypeFacts
<1> HIDE DEF call
<1>3. /\ call \in CallRecords
      /\ call.op = graphCall[c].op /\ call.user = graphCall[c].user /\ call.other = graphCall[c].other
      /\ call.todo = graphCall[c].todo \ {t} /\ call.answer = graphCall[c].answer
  BY <1>2, GraphTypeFacts
<1>4. /\ graphCall' \in [Calls -> CallRecords]
      /\ graphCall'[c] = call
      /\ \A d \in Calls : d # c => graphCall'[d] = graphCall[d]
  BY <1>1, <1>3, CallBecomes
<1>5. \A d \in Calls :
         /\ graphCall'[d].op = graphCall[d].op
         /\ graphCall'[d].user = graphCall[d].user /\ graphCall'[d].other = graphCall[d].other
         /\ graphCall'[d].answer = graphCall[d].answer
         /\ graphCall'[d].todo = graphCall[d].todo \ (IF d = c THEN {t} ELSE {})
  BY <1>3, <1>4
<1>6. OwnTasks'
  BY <1>5 DEF OwnTasks, Tasks
<1> QED
  BY <1>4, <1>5, <1>6

\* A read of a list that goes on, or ends with an answer.
LEMMA ReadFacts ==
  ASSUME GraphTypeOK, OwnTasks, NEW c \in Calls, graphCall[c].op \in Sides,
         NEW todo \in SUBSET {"range", "find", "fill"}, NEW list \in SUBSET Users, NEW ok \in BOOLEAN,
         graphCall' = [graphCall EXCEPT ![c].todo = todo, ![c].answer = list, ![c].ok = ok]
  PROVE  /\ graphCall' \in [Calls -> CallRecords]
         /\ \A d \in Calls : d # c => graphCall'[d] = graphCall[d]
         /\ graphCall'[c].op = graphCall[c].op /\ graphCall'[c].user = graphCall[c].user
         /\ graphCall'[c].other = graphCall[c].other
         /\ graphCall'[c].todo = todo /\ graphCall'[c].answer = list /\ graphCall'[c].ok = ok
         /\ OwnTasks'
<1> DEFINE call == [graphCall[c] EXCEPT !.todo = todo, !.answer = list, !.ok = ok]
<1>1. graphCall' = [graphCall EXCEPT ![c] = call]
  OBVIOUS
<1>0. graphCall[c] \in CallRecords
  BY DEF GraphTypeOK
<1>2. /\ call.op = graphCall[c].op /\ call.user = graphCall[c].user /\ call.other = graphCall[c].other
      /\ call.todo = todo /\ call.answer = list /\ call.ok = ok
  BY <1>0
<1>3. call \in CallRecords
  BY <1>0
<1> HIDE DEF call
<1>4. /\ graphCall' \in [Calls -> CallRecords]
      /\ graphCall'[c] = call
      /\ \A d \in Calls : d # c => graphCall'[d] = graphCall[d]
  BY <1>1, <1>3, CallBecomes
<1>5. OwnTasks'
  <2>1. graphCall[c].op \notin Edits
    BY DEF Edits, Sides
  <2>2. \A d \in Calls : graphCall'[d].op = graphCall[d].op
    BY <1>2, <1>4
  <2>3. \A d \in Calls : d # c => graphCall'[d].todo \subseteq Tasks(graphCall'[d].op)
    BY <1>4 DEF OwnTasks
  <2>4. graphCall'[c].todo \subseteq Tasks(graphCall'[c].op)
    BY <1>2, <1>4, <2>1, <2>2 DEF Tasks
  <2> QED
    BY <2>3, <2>4 DEF OwnTasks
<1> QED
  BY <1>2, <1>4, <1>5

\* A new follow or unfollow.
LEMMA EditStartFacts ==
  ASSUME GraphTypeOK, OwnTasks, NEW c \in Calls, NEW op \in Edits, NEW u \in Users, NEW v \in Users,
         graphCall[c].op = "none",
         graphCall' = [graphCall EXCEPT ![c] =
           [Idle EXCEPT !.op = op, !.user = u, !.other = v, !.todo = DocumentTasks \cup RedisTasks]]
  PROVE  /\ graphCall' \in [Calls -> CallRecords]
         /\ \A d \in Calls : d # c => graphCall'[d] = graphCall[d]
         /\ graphCall'[c].op = op /\ graphCall'[c].user = u /\ graphCall'[c].other = v
         /\ graphCall'[c].todo = DocumentTasks \cup RedisTasks
         /\ OwnTasks'
<1> DEFINE call == [Idle EXCEPT !.op = op, !.user = u, !.other = v,
                                !.todo = DocumentTasks \cup RedisTasks]
<1>1. graphCall' = [graphCall EXCEPT ![c] = call]
  OBVIOUS
<1>0. Idle \in CallRecords
  BY IdleFacts
<1>2. /\ call.op = op /\ call.user = u /\ call.other = v
      /\ call.todo = DocumentTasks \cup RedisTasks
  BY <1>0
<1>3. call \in CallRecords
  BY <1>0
<1> HIDE DEF call
<1>4. /\ graphCall' \in [Calls -> CallRecords]
      /\ graphCall'[c] = call
      /\ \A d \in Calls : d # c => graphCall'[d] = graphCall[d]
  BY <1>1, <1>3, CallBecomes
<1>5. OwnTasks'
  <2>1. \A d \in Calls : d # c => graphCall'[d].todo \subseteq Tasks(graphCall'[d].op)
    BY <1>4 DEF OwnTasks
  <2>2. graphCall'[c].todo \subseteq Tasks(graphCall'[c].op)
    BY <1>2, <1>4 DEF Tasks
  <2> QED
    BY <2>1, <2>2 DEF OwnTasks
<1> QED
  BY <1>2, <1>4, <1>5

HIDE DEF CallRecords

\* What is said of the edges of one pair.
PairAgrees(u, v) ==
  <<u, v>> \notin crossed =>
    /\ EditsAgree(u, v)
    /\ \A s \in Sides :
         /\ DocumentAgrees(s, u, v)
         /\ RedisComplete(s, u, v)
         /\ <<u, v>> \notin stale => RedisSound(s, u, v)

EdgeInv ==
  /\ GraphTypeOK /\ Documented /\ OwnTasks
  /\ \A u, v \in Users : PairAgrees(u, v)

\* What is said of a pair stays true when its edits and its entries stay.
LEMMA PairKept ==
  ASSUME NEW p \in Users, NEW q \in Users, PairAgrees(p, q),
         Wanted(p, q)' = Wanted(p, q),
         known \subseteq known', crossed \subseteq crossed', stale \subseteq stale',
         restarted \subseteq restarted',
         \A d \in Calls : Editing(d, p, q)' = Editing(d, p, q),
         \A d \in Calls : Editing(d, p, q) =>
           graphCall'[d].op = graphCall[d].op /\ graphCall'[d].todo = graphCall[d].todo,
         \A s \in Sides : edges'[s][Own(s, p, q)][Other(s, p, q)] = edges[s][Own(s, p, q)][Other(s, p, q)],
         \A s \in Sides : Wanted(p, q) /\ "social-graph-redis" \notin restarted' /\ InRedis(s, p, q)
                            => InRedis(s, p, q)',
         <<p, q>> \notin stale' \cup crossed' => \A s \in Sides :
           /\ InRedis(s, p, q)' => InRedis(s, p, q) \/ Wanted(p, q)
           /\ \A d \in FillsUnderWay(s, Own(s, p, q))' :
                Other(s, p, q) \in graphCall'[d].answer =>
                  \/ Wanted(p, q)
                  \/ d \in FillsUnderWay(s, Own(s, p, q)) /\ Other(s, p, q) \in graphCall[d].answer
  PROVE  PairAgrees(p, q)'
<1> SUFFICES ASSUME <<p, q>> \notin crossed' PROVE PairAgrees(p, q)'
  BY DEF PairAgrees
<1>1. <<p, q>> \notin crossed
  OBVIOUS
<1>2. EditsAgree(p, q)'
  BY <1>1 DEF PairAgrees, EditsAgree
<1>3. ASSUME NEW s \in Sides PROVE DocumentAgrees(s, p, q)'
  BY <1>1 DEF PairAgrees, DocumentAgrees
<1>4. ASSUME NEW s \in Sides PROVE RedisTaskLeft(s, p, q)' = RedisTaskLeft(s, p, q)
  BY DEF RedisTaskLeft
<1>5. ASSUME NEW s \in Sides PROVE RedisComplete(s, p, q)'
  BY <1>1, <1>4 DEF PairAgrees, RedisComplete
<1>6. ASSUME NEW s \in Sides, <<p, q>> \notin stale' PROVE RedisSound(s, p, q)'
  BY <1>1, <1>4, <1>6 DEF PairAgrees, RedisSound
<1> QED
  BY <1>2, <1>3, <1>5, <1>6 DEF PairAgrees

LEMMA EditStartKeeps ==
  ASSUME EdgeInv, NEW c \in Calls, NEW op \in Edits, NEW u \in Users, NEW v \in Users,
         graphCall[c].op = "none",
         graphCall' = [graphCall EXCEPT ![c] =
           [Idle EXCEPT !.op = op, !.user = u, !.other = v, !.todo = DocumentTasks \cup RedisTasks]],
         NoteEdit(op, u, v), UNCHANGED <<edgeStores, faults>>
  PROVE  EdgeInv'
<1>1. /\ graphCall' \in [Calls -> CallRecords]
      /\ \A d \in Calls : d # c => graphCall'[d] = graphCall[d]
      /\ graphCall'[c].op = op /\ graphCall'[c].user = u /\ graphCall'[c].other = v
      /\ graphCall'[c].todo = DocumentTasks \cup RedisTasks
      /\ OwnTasks'
  BY EditStartFacts DEF EdgeInv
<1>2. graphCall[c].todo = {} /\ graphCall[c].op \notin Edits \cup Sides
  BY DEF EdgeInv, OwnTasks, Tasks, Edits, Sides
<1>3. UNCHANGED <<known, edges, cachedEdges, failures, faulted, restarted, misled>>
  BY DEF edgeStores, faults
<1>4. wanted' = IF op = "follow" THEN wanted \cup {<<u, v>>} ELSE wanted \ {<<u, v>>}
  BY DEF NoteEdit
<1>5. crossed \subseteq crossed' /\ crossed' \subseteq Users \X Users
  BY DEF NoteEdit, EdgeInv, GraphTypeOK
<1>6. stale \subseteq stale' /\ stale' \subseteq Users \X Users
  BY DEF NoteEdit, EdgeInv, GraphTypeOK
<1>7. GraphTypeOK' /\ Documented'
  BY <1>1, <1>3, <1>4, <1>5, <1>6 DEF EdgeInv, GraphTypeOK, FaultsTypeOK, Documented, CallRecords
<1>8. ASSUME NEW p \in Users, NEW q \in Users, <<p, q>> \notin crossed', <<p, q>> # <<u, v>>
      PROVE  PairAgrees(p, q)'
  <2>1. Wanted(p, q)' = Wanted(p, q)
    BY <1>4, <1>8 DEF Wanted
  <2>2. ~Editing(c, p, q) /\ ~Editing(c, p, q)'
    BY <1>1, <1>2, <1>8 DEF Editing, Pair
  <2>3. \A d \in Calls : Editing(d, p, q)' = Editing(d, p, q)
    BY <1>1, <2>2 DEF Editing, Pair, GraphBusy
  <2>4. \A d \in Calls : Editing(d, p, q) => graphCall'[d] = graphCall[d]
    BY <1>1, <2>2
  <2>5. \A s \in Sides : FillsUnderWay(s, Own(s, p, q))' \subseteq FillsUnderWay(s, Own(s, p, q))
    BY <1>1 DEF FillsUnderWay, Edits, Sides
  <2>6. \A s \in Sides : \A d \in FillsUnderWay(s, Own(s, p, q)) :
         d \in Calls /\ graphCall'[d] = graphCall[d]
    BY <1>1, <1>2 DEF FillsUnderWay
  <2>7. PairAgrees(p, q) /\ <<p, q>> \notin crossed
    BY <1>5, <1>8 DEF EdgeInv
  <2>8. EditsAgree(p, q)'
    BY <1>3, <2>1, <2>3, <2>4, <2>7 DEF PairAgrees, EditsAgree
  <2>9. ASSUME NEW s \in Sides
        PROVE  DocumentAgrees(s, p, q)' /\ RedisComplete(s, p, q)'
    BY <1>3, <2>1, <2>3, <2>4, <2>7 DEF PairAgrees, DocumentAgrees, RedisComplete, InRedis, RedisTaskLeft
  <2>10. ASSUME NEW s \in Sides, <<p, q>> \notin stale'
         PROVE  RedisSound(s, p, q)'
    <3>1. RedisSound(s, p, q)
      BY <1>6, <2>7, <2>10 DEF PairAgrees
    <3> QED
      BY <1>3, <2>1, <2>3, <2>4, <2>5, <2>6, <3>1 DEF RedisSound, InRedis, RedisTaskLeft
  <2> QED
    BY <2>8, <2>9, <2>10 DEF PairAgrees
<1>9. ASSUME <<u, v>> \notin crossed'
      PROVE  PairAgrees(u, v)'
  <2>1. Wanted(u, v)' <=> op = "follow"
    BY <1>4 DEF Wanted
  <2>2. Editing(c, u, v)' /\ \A d \in Calls : d # c => Editing(d, u, v)' = Editing(d, u, v)
    BY <1>1 DEF Editing, Pair, GraphBusy, DocumentTasks
  <2>3. {u, v} \subseteq known
    BY <1>9 DEF NoteEdit
  <2>4. \A d \in Calls : Editing(d, u, v) => graphCall[d].op = op
    BY <1>9 DEF NoteEdit, EditsUnderWay, Editing, Edits
  <2>5. EditsAgree(u, v)'
    BY <1>1, <1>3, <2>1, <2>2, <2>3, <2>4 DEF EditsAgree, Edits
  <2>6. ASSUME NEW s \in Sides
        PROVE  DocumentAgrees(s, u, v)' /\ RedisTaskLeft(s, u, v)'
    BY <1>1, <2>2 DEF DocumentAgrees, RedisTaskLeft, DocumentTask, RedisTask, DocumentTasks, RedisTasks
  <2>7. ASSUME NEW s \in Sides, <<u, v>> \notin stale'
        PROVE  FillsUnderWay(s, Own(s, u, v))' = {}
    <3>1. FillsUnderWay(s, Own(s, u, v)) = {}
      BY <2>7 DEF NoteEdit, Own, Sides
    <3> QED
      BY <1>1, <3>1 DEF FillsUnderWay, Edits, Sides
  <2> QED
    BY <2>5, <2>6, <2>7 DEF PairAgrees, RedisComplete, RedisSound
<1>10. \A p, q \in Users : PairAgrees(p, q)'
  BY <1>8, <1>9 DEF PairAgrees
<1> QED
  BY <1>1, <1>7, <1>10 DEF EdgeInv

LEMMA DocumentTaskKeeps ==
  ASSUME EdgeInv, NEW c \in Calls, NEW s \in Sides, PushEntry(c, s) \/ PullEntry(c, s)
  PROVE  EdgeInv'
<1> PICK t : t = DocumentTask(s)
  OBVIOUS
<1>1. /\ graphCall[c].op \in Edits /\ t \in graphCall[c].todo /\ TaskDone(c, t)
      /\ UNCHANGED <<known, cachedEdges, wanted, crossed, stale, failures, faulted, restarted, misled>>
  BY DEF PushEntry, PullEntry, Edits, edgeHistory, faults
<1>2. /\ graphCall' \in [Calls -> CallRecords]
      /\ \A d \in Calls :
           /\ graphCall'[d].op = graphCall[d].op
           /\ graphCall'[d].user = graphCall[d].user /\ graphCall'[d].other = graphCall[d].other
           /\ graphCall'[d].answer = graphCall[d].answer
           /\ graphCall'[d].todo = graphCall[d].todo \ (IF d = c THEN {t} ELSE {})
      /\ OwnTasks'
  BY <1>1, TaskDoneFacts DEF EdgeInv
<1> PICK u \in Users, v \in Users : u = graphCall[c].user /\ v = graphCall[c].other
  BY GraphTypeFacts DEF EdgeInv
<1>3. Own(s, u, v) \in Users /\ Other(s, u, v) \in Users
  BY DEF Own, Other
<1>4. edges \in [Sides -> [Users -> [Users -> Nat]]] /\ known \subseteq Users
  BY DEF EdgeInv, GraphTypeOK
<1>5. edges' = IF Own(s, u, v) \in known
               THEN [edges EXCEPT ![s][Own(s, u, v)][Other(s, u, v)] =
                      IF graphCall[c].op = "follow" THEN 1 ELSE 0]
               ELSE edges
  <2>1. CASE PushEntry(c, s)
    <3>1. edges[s][Own(s, u, v)][Other(s, u, v)] \in {0, 1}
      BY <1>3 DEF EdgeInv, Documented
    <3>2. edges[s][Own(s, u, v)][Other(s, u, v)] = 1 =>
            edges = [edges EXCEPT ![s][Own(s, u, v)][Other(s, u, v)] = 1]
      BY <1>3, <1>4
    <3> QED
      BY <2>1, <3>1, <3>2 DEF PushEntry, ListOwner, Entry, Own, Other
  <2>2. CASE PullEntry(c, s)
    BY <2>2 DEF PullEntry, ListOwner, Entry, Own, Other
  <2> QED
    BY <2>1, <2>2
<1>6. edges' \in [Sides -> [Users -> [Users -> Nat]]]
  BY <1>3, <1>4, <1>5
<1>7. \A z \in Sides, x, y \in Users :
        edges'[z][x][y] = IF z = s /\ x = Own(s, u, v) /\ y = Other(s, u, v) /\ x \in known
                          THEN IF graphCall[c].op = "follow" THEN 1 ELSE 0
                          ELSE edges[z][x][y]
  BY <1>3, <1>4, <1>5
<1>8. GraphTypeOK' /\ Documented'
  <2>1. GraphTypeOK'
    BY <1>1, <1>2, <1>6 DEF EdgeInv, GraphTypeOK, FaultsTypeOK, CallRecords
  <2>2. Documented'
    BY <1>1, <1>7 DEF EdgeInv, Documented
  <2> QED
    BY <2>1, <2>2
<1>9. ASSUME NEW p \in Users, NEW q \in Users, <<p, q>> # <<u, v>>
      PROVE  PairAgrees(p, q)'
  <2>1. /\ PairAgrees(p, q) /\ ~Editing(c, p, q)
        /\ \A d \in Calls : Editing(d, p, q)' = Editing(d, p, q)
        /\ \A d \in Calls : Editing(d, p, q) =>
             graphCall'[d].op = graphCall[d].op /\ graphCall'[d].todo = graphCall[d].todo
    BY <1>2, <1>9 DEF EdgeInv, Editing, Pair, GraphBusy
  <2>2. \A z \in Sides : edges'[z][Own(z, p, q)][Other(z, p, q)] = edges[z][Own(z, p, q)][Other(z, p, q)]
    BY <1>7, <1>9 DEF Own, Other
  <2>3. Wanted(p, q)' = Wanted(p, q) /\ \A z \in Sides : InRedis(z, p, q)' = InRedis(z, p, q)
    BY <1>1 DEF Wanted, InRedis
  <2>4. \A z \in Sides : FillsUnderWay(z, Own(z, p, q))' \subseteq FillsUnderWay(z, Own(z, p, q))
    BY <1>1, <1>2 DEF FillsUnderWay, Sides, Edits
  <2>5. \A z \in Sides : \A d \in FillsUnderWay(z, Own(z, p, q))' :
          d \in FillsUnderWay(z, Own(z, p, q)) /\ graphCall'[d].answer = graphCall[d].answer
    BY <1>2, <2>4 DEF FillsUnderWay
  <2> QED
    BY <1>1, <2>1, <2>2, <2>3, <2>5, PairKept
<1>10. ASSUME <<u, v>> \notin crossed PROVE PairAgrees(u, v)'
  <2>1. Editing(c, u, v)
    BY <1>1 DEF Editing, Pair, GraphBusy
  <2>2. {u, v} \subseteq known /\ (graphCall[c].op = "follow" <=> Wanted(u, v)) /\ PairAgrees(u, v)
    BY <1>10, <2>1 DEF EdgeInv, PairAgrees, EditsAgree
  <2>3. \A d \in Calls : Editing(d, u, v)' => Editing(d, u, v)
    BY <1>2 DEF Editing, Pair, GraphBusy
  <2>4. \A d \in Calls : \A r \in graphCall[d].todo \ {t} : Editing(d, u, v) =>
          Editing(d, u, v)' /\ r \in graphCall'[d].todo
    BY <1>2 DEF Editing, Pair, GraphBusy
  <2>5. Wanted(u, v)' = Wanted(u, v) /\ \A z \in Sides : InRedis(z, u, v)' = InRedis(z, u, v)
    BY <1>1 DEF Wanted, InRedis
  <2>6. EditsAgree(u, v)'
    BY <1>1, <1>2, <1>10, <2>2, <2>3, <2>5 DEF PairAgrees, EditsAgree
  <2>7. DocumentAgrees(s, u, v)'
    <3>1. Own(s, u, v) \in known
      BY <2>2 DEF Own
    <3> QED
      BY <1>3, <1>7, <2>2, <2>5, <3>1 DEF DocumentAgrees
  <2>8. ASSUME NEW z \in Sides, z # s PROVE DocumentAgrees(z, u, v)'
    <3>1. DocumentTask(z) # t
      <4>1. (z = "followees" /\ s = "followers") \/ (z = "followers" /\ s = "followees")
        BY <2>8 DEF Sides
      <4> QED
        BY <4>1 DEF DocumentTask
    <3>2. edges'[z][Own(z, u, v)][Other(z, u, v)] = edges[z][Own(z, u, v)][Other(z, u, v)]
      BY <1>7, <2>8 DEF Own, Other
    <3>3. DocumentAgrees(z, u, v)
      BY <1>10, <2>2 DEF PairAgrees
    <3> QED
      BY <2>4, <2>5, <3>1, <3>2, <3>3 DEF DocumentAgrees
  <2>9. ASSUME NEW z \in Sides PROVE RedisTaskLeft(z, u, v)' = RedisTaskLeft(z, u, v)
    <3>1. RedisTask(z) # t
      BY DEF RedisTask, DocumentTask
    <3> QED
      BY <1>2, <2>3, <2>4, <3>1 DEF RedisTaskLeft
  <2>10. ASSUME NEW z \in Sides PROVE RedisComplete(z, u, v)'
    BY <1>1, <1>10, <2>2, <2>5, <2>9 DEF PairAgrees, RedisComplete
  <2>11. ASSUME NEW z \in Sides, <<u, v>> \notin stale' PROVE RedisSound(z, u, v)'
    <3>1. \A d \in FillsUnderWay(z, Own(z, u, v))' :
            d \in FillsUnderWay(z, Own(z, u, v)) /\ graphCall'[d].answer = graphCall[d].answer
      BY <1>1, <1>2 DEF FillsUnderWay, Sides, Edits
    <3>2. RedisSound(z, u, v)
      BY <1>1, <1>10, <2>2, <2>11 DEF PairAgrees
    <3> QED
      BY <2>5, <2>9, <3>1, <3>2 DEF RedisSound
  <2> QED
    BY <2>6, <2>7, <2>8, <2>10, <2>11 DEF PairAgrees
<1>11. \A p, q \in Users : PairAgrees(p, q)'
  BY <1>1, <1>9, <1>10 DEF PairAgrees
<1> QED
  BY <1>2, <1>8, <1>11 DEF EdgeInv

LEMMA CacheTaskKeeps ==
  ASSUME EdgeInv, NEW c \in Calls, NEW s \in Sides, CacheEntry(c, s) \/ UncacheEntry(c, s)
  PROVE  EdgeInv'
<1> PICK t : t = RedisTask(s)
  OBVIOUS
<1>1. /\ graphCall[c].op \in Edits /\ t \in graphCall[c].todo /\ TaskDone(c, t)
      /\ UNCHANGED <<known, edges, wanted, crossed, stale, failures, faulted, restarted, misled>>
  BY DEF CacheEntry, UncacheEntry, CacheTurn, Edits, edgeHistory, faults
<1>2. /\ graphCall' \in [Calls -> CallRecords]
      /\ \A d \in Calls :
           /\ graphCall'[d].op = graphCall[d].op
           /\ graphCall'[d].user = graphCall[d].user /\ graphCall'[d].other = graphCall[d].other
           /\ graphCall'[d].answer = graphCall[d].answer
           /\ graphCall'[d].todo = graphCall[d].todo \ (IF d = c THEN {t} ELSE {})
      /\ OwnTasks'
  BY <1>1, TaskDoneFacts DEF EdgeInv
<1> PICK u \in Users, v \in Users : u = graphCall[c].user /\ v = graphCall[c].other
  BY GraphTypeFacts DEF EdgeInv
<1>3. Own(s, u, v) \in Users /\ Other(s, u, v) \in Users
  BY DEF Own, Other
<1>4. cachedEdges \in [Sides -> [Users -> SUBSET Users]]
  BY DEF EdgeInv, GraphTypeOK
<1>5. cachedEdges' = [cachedEdges EXCEPT ![s][Own(s, u, v)] =
                       IF graphCall[c].op = "follow" THEN @ \cup {Other(s, u, v)}
                       ELSE @ \ {Other(s, u, v)}]
  BY DEF CacheEntry, UncacheEntry, ListOwner, Entry, Own, Other
<1>6. cachedEdges' \in [Sides -> [Users -> SUBSET Users]]
  BY <1>3, <1>4, <1>5
<1>7. \A z \in Sides, x, y \in Users :
        y \in cachedEdges'[z][x] <=> IF z = s /\ x = Own(s, u, v) /\ y = Other(s, u, v)
                                     THEN graphCall[c].op = "follow"
                                     ELSE y \in cachedEdges[z][x]
  BY <1>3, <1>4, <1>5
<1>8. GraphTypeOK' /\ Documented'
  BY <1>1, <1>2, <1>6 DEF EdgeInv, GraphTypeOK, FaultsTypeOK, Documented, CallRecords
<1>9. \A z \in Sides, x \in Users : \A d \in FillsUnderWay(z, x)' :
        d \in FillsUnderWay(z, x) /\ graphCall'[d].answer = graphCall[d].answer
  BY <1>1, <1>2 DEF FillsUnderWay, Sides, Edits
<1>10. ASSUME NEW p \in Users, NEW q \in Users, <<p, q>> # <<u, v>>
       PROVE  PairAgrees(p, q)'
  <2>1. /\ PairAgrees(p, q) /\ ~Editing(c, p, q)
        /\ \A d \in Calls : Editing(d, p, q)' = Editing(d, p, q)
        /\ \A d \in Calls : Editing(d, p, q) =>
             graphCall'[d].op = graphCall[d].op /\ graphCall'[d].todo = graphCall[d].todo
    BY <1>2, <1>10 DEF EdgeInv, Editing, Pair, GraphBusy
  <2>2. \A z \in Sides : InRedis(z, p, q)' = InRedis(z, p, q)
    BY <1>7, <1>10 DEF Own, Other, InRedis
  <2>3. \A z \in Sides : \A d \in FillsUnderWay(z, Own(z, p, q))' :
          d \in FillsUnderWay(z, Own(z, p, q)) /\ graphCall'[d].answer = graphCall[d].answer
    BY <1>9 DEF Own
  <2>4. Wanted(p, q)' = Wanted(p, q)
    BY <1>1 DEF Wanted
  <2> QED
    BY <1>1, <2>1, <2>2, <2>3, <2>4, PairKept
<1>11. ASSUME <<u, v>> \notin crossed PROVE PairAgrees(u, v)'
  <2>1. Editing(c, u, v)
    BY <1>1 DEF Editing, Pair, GraphBusy
  <2>2. {u, v} \subseteq known /\ (graphCall[c].op = "follow" <=> Wanted(u, v)) /\ PairAgrees(u, v)
    BY <1>11, <2>1 DEF EdgeInv, PairAgrees, EditsAgree
  <2>3. \A d \in Calls : Editing(d, u, v)' => Editing(d, u, v)
    BY <1>2 DEF Editing, Pair, GraphBusy
  <2>4. \A d \in Calls : \A r \in graphCall[d].todo \ {t} : Editing(d, u, v) =>
          Editing(d, u, v)' /\ r \in graphCall'[d].todo
    BY <1>2 DEF Editing, Pair, GraphBusy
  <2>5. Wanted(u, v)' = Wanted(u, v)
    BY <1>1 DEF Wanted
  <2>6. EditsAgree(u, v)'
    BY <1>1, <1>2, <1>11, <2>2, <2>3, <2>5 DEF PairAgrees, EditsAgree
  <2>7. ASSUME NEW z \in Sides PROVE DocumentAgrees(z, u, v)'
    <3>1. DocumentTask(z) # t
      BY DEF RedisTask, DocumentTask
    <3>2. DocumentAgrees(z, u, v)
      BY <1>11, <2>2 DEF PairAgrees
    <3> QED
      BY <1>1, <2>4, <2>5, <3>1, <3>2 DEF DocumentAgrees
  <2>8. InRedis(s, u, v)' <=> Wanted(u, v)
    BY <1>3, <1>7, <2>2 DEF InRedis
  <2>9. ASSUME NEW z \in Sides, z # s
        PROVE  InRedis(z, u, v)' = InRedis(z, u, v) /\ RedisTaskLeft(z, u, v)' = RedisTaskLeft(z, u, v)
    <3>1. RedisTask(z) # t
      <4>1. (z = "followees" /\ s = "followers") \/ (z = "followers" /\ s = "followees")
        BY <2>9 DEF Sides
      <4> QED
        BY <4>1 DEF RedisTask
    <3>2. RedisTaskLeft(z, u, v)' = RedisTaskLeft(z, u, v)
      BY <1>2, <2>3, <2>4, <3>1 DEF RedisTaskLeft
    <3>3. InRedis(z, u, v)' = InRedis(z, u, v)
      BY <1>7, <2>9 DEF InRedis, Own, Other
    <3> QED
      BY <3>2, <3>3
  <2>10. ASSUME NEW z \in Sides PROVE RedisComplete(z, u, v)'
    BY <1>1, <1>11, <2>2, <2>5, <2>8, <2>9 DEF PairAgrees, RedisComplete
  <2>11. ASSUME NEW z \in Sides, <<u, v>> \notin stale' PROVE RedisSound(z, u, v)'
    <3>1. \A d \in FillsUnderWay(z, Own(z, u, v))' :
            d \in FillsUnderWay(z, Own(z, u, v)) /\ graphCall'[d].answer = graphCall[d].answer
      BY <1>9 DEF Own
    <3>2. RedisSound(z, u, v)
      BY <1>1, <1>11, <2>2, <2>11 DEF PairAgrees
    <3> QED
      BY <2>5, <2>8, <2>9, <3>1, <3>2 DEF RedisSound
  <2> QED
    BY <2>6, <2>7, <2>10, <2>11 DEF PairAgrees
<1>12. \A p, q \in Users : PairAgrees(p, q)'
  BY <1>1, <1>10, <1>11 DEF PairAgrees
<1> QED
  BY <1>2, <1>8, <1>12 DEF EdgeInv

\* A task that failed says nothing about its own pair any more.
LEMMA EditFailsKeeps ==
  ASSUME EdgeInv, NEW c \in Calls, NEW t, EditFails(c, t)
  PROVE  EdgeInv'
<1> DEFINE left == IF t \in RedisTasks THEN graphCall[c].todo \ RedisTasks ELSE graphCall[c].todo \ {t}
           call == [graphCall[c] EXCEPT !.todo = left, !.ok = FALSE]
<1>1. /\ graphCall[c].op \in Edits /\ graphCall' = [graphCall EXCEPT ![c] = call]
      /\ crossed' = crossed \cup {Pair(c)}
      /\ UNCHANGED <<known, edges, cachedEdges, wanted, stale, restarted, misled>>
      /\ failures' = failures + 1 /\ faulted' = faulted \cup {c}
  BY DEF EditFails, edgeStores, CommandFails, CursorFails
<1>2. graphCall[c] \in CallRecords
  BY DEF EdgeInv, GraphTypeOK, CallRecords
<1>3. /\ call.op = graphCall[c].op /\ call.user = graphCall[c].user /\ call.other = graphCall[c].other
      /\ call.todo = left
  BY <1>2 DEF CallRecords
<1>4. call \in CallRecords /\ left \subseteq graphCall[c].todo
  BY <1>2 DEF CallRecords
<1> HIDE DEF call, left
<1>5. /\ graphCall' \in [Calls -> CallRecords] /\ graphCall'[c] = call
      /\ \A d \in Calls : d # c => graphCall'[d] = graphCall[d]
  BY <1>1, <1>4, CallBecomes DEF EdgeInv, CallRecords
<1>6. OwnTasks'
  <2>1. \A d \in Calls : graphCall'[d].op = graphCall[d].op /\ graphCall'[d].todo \subseteq graphCall[d].todo
    BY <1>3, <1>4, <1>5
  <2> QED
    BY <2>1 DEF EdgeInv, OwnTasks, Tasks
<1>7. Pair(c) \in Users \X Users
  BY <1>2 DEF CallRecords, Pair
<1>8. GraphTypeOK' /\ Documented'
  BY <1>1, <1>5, <1>7 DEF EdgeInv, GraphTypeOK, FaultsTypeOK, Documented, CallRecords
<1>9. ASSUME NEW p \in Users, NEW q \in Users, <<p, q>> \notin crossed' PROVE PairAgrees(p, q)'
  <2>1. ~Editing(c, p, q) /\ ~Editing(c, p, q)'
    BY <1>1, <1>3, <1>5, <1>9 DEF Editing, Pair
  <2>2. /\ PairAgrees(p, q)
        /\ \A d \in Calls : Editing(d, p, q)' = Editing(d, p, q)
        /\ \A d \in Calls : Editing(d, p, q) =>
             graphCall'[d].op = graphCall[d].op /\ graphCall'[d].todo = graphCall[d].todo
    BY <1>5, <2>1 DEF EdgeInv, Editing, Pair, GraphBusy
  <2>3. Wanted(p, q)' = Wanted(p, q) /\ \A z \in Sides : InRedis(z, p, q)' = InRedis(z, p, q)
    BY <1>1 DEF Wanted, InRedis
  <2>4. \A z \in Sides : \A d \in FillsUnderWay(z, Own(z, p, q))' :
          d \in FillsUnderWay(z, Own(z, p, q)) /\ graphCall'[d].answer = graphCall[d].answer
    BY <1>1, <1>3, <1>5 DEF FillsUnderWay, Sides, Edits
  <2> QED
    BY <1>1, <2>2, <2>3, <2>4, PairKept
<1>10. \A p, q \in Users : PairAgrees(p, q)'
  BY <1>9 DEF PairAgrees
<1> QED
  BY <1>6, <1>8, <1>10 DEF EdgeInv

\* A step of a read: Redis loses nothing and is given no more than what is
\* wanted, and a list that is read from a document is what is wanted.
LEMMA ReadStepKeeps ==
  ASSUME EdgeInv, NEW c \in Calls, graphCall[c].op \notin Edits, graphCall'[c].op \notin Edits,
         graphCall' \in [Calls -> CallRecords], OwnTasks',
         \A d \in Calls : d # c => graphCall'[d] = graphCall[d],
         UNCHANGED <<known, edges, wanted, crossed, restarted>>, FaultsTypeOK',
         stale \subseteq stale', stale' \subseteq Users \X Users,
         cachedEdges' \in [Sides -> [Users -> SUBSET Users]],
         \A z \in Sides, x \in Users : cachedEdges[z][x] \subseteq cachedEdges'[z][x],
         \A p, q \in Users, z \in Sides :
           <<p, q>> \notin stale' \cup crossed =>
             /\ InRedis(z, p, q)' => InRedis(z, p, q) \/ Wanted(p, q)
             /\ c \in FillsUnderWay(z, Own(z, p, q))' /\ Other(z, p, q) \in graphCall'[c].answer
                  => Wanted(p, q)
  PROVE  EdgeInv'
<1>1. GraphTypeOK' /\ Documented'
  BY DEF EdgeInv, GraphTypeOK, Documented, CallRecords
<1>2. ASSUME NEW p \in Users, NEW q \in Users PROVE PairAgrees(p, q)'
  <2>1. /\ PairAgrees(p, q) /\ ~Editing(c, p, q) /\ ~Editing(c, p, q)'
        /\ Wanted(p, q)' = Wanted(p, q)
    BY DEF EdgeInv, Editing, Wanted
  <2>2. /\ \A d \in Calls : Editing(d, p, q)' = Editing(d, p, q)
        /\ \A d \in Calls : Editing(d, p, q) =>
             graphCall'[d].op = graphCall[d].op /\ graphCall'[d].todo = graphCall[d].todo
    BY <2>1 DEF Editing, Pair, GraphBusy
  <2>3. \A z \in Sides : InRedis(z, p, q) => InRedis(z, p, q)'
    BY DEF InRedis, Own, Other
  <2>4. \A z \in Sides : \A d \in FillsUnderWay(z, Own(z, p, q))' : d # c =>
          d \in FillsUnderWay(z, Own(z, p, q)) /\ graphCall'[d].answer = graphCall[d].answer
    BY DEF FillsUnderWay
  <2>5. <<p, q>> \notin stale' \cup crossed' => \A z \in Sides :
          /\ InRedis(z, p, q)' => InRedis(z, p, q) \/ Wanted(p, q)
          /\ \A d \in FillsUnderWay(z, Own(z, p, q))' :
               Other(z, p, q) \in graphCall'[d].answer =>
                 \/ Wanted(p, q)
                 \/ d \in FillsUnderWay(z, Own(z, p, q)) /\ Other(z, p, q) \in graphCall[d].answer
    BY <2>4
  <2> QED
    BY <2>1, <2>2, <2>3, <2>5, PairKept
<1> QED
  BY <1>1, <1>2 DEF EdgeInv

LEMMA GetListKeeps ==
  ASSUME EdgeInv, NEW c \in Calls, NEW s \in Sides, NEW u \in Users, GetList(c, s, u)
  PROVE  EdgeInv'
<1> DEFINE call == [Idle EXCEPT !.op = s, !.user = u, !.todo = {"range"}]
<1>1. /\ graphCall[c].op = "none" /\ graphCall' = [graphCall EXCEPT ![c] = call]
      /\ UNCHANGED <<known, edges, cachedEdges, wanted, crossed, stale, failures, faulted, restarted, misled>>
  BY DEF GetList, edgeStores, edgeHistory, faults
<1>2. Idle \in CallRecords
  BY IdleFacts DEF CallRecords
<1>3. call.op = s /\ call.todo = {"range"} /\ call \in CallRecords
  BY <1>2 DEF CallRecords
<1> HIDE DEF call
<1>4. /\ graphCall' \in [Calls -> CallRecords] /\ graphCall'[c] = call
      /\ \A d \in Calls : d # c => graphCall'[d] = graphCall[d]
  BY <1>1, <1>3, CallBecomes DEF EdgeInv, CallRecords
<1>5. s \notin Edits /\ graphCall[c].op \notin Edits
  BY <1>1 DEF Edits, Sides
<1>6. OwnTasks'
  <2>1. \A d \in Calls : d # c => graphCall'[d].todo \subseteq Tasks(graphCall'[d].op)
    BY <1>4 DEF EdgeInv, OwnTasks
  <2>2. graphCall'[c].todo \subseteq Tasks(graphCall'[c].op)
    BY <1>3, <1>4, <1>5 DEF Tasks
  <2> QED
    BY <2>1, <2>2 DEF OwnTasks
<1>7. \A z \in Sides, x \in Users : c \notin FillsUnderWay(z, x)'
  BY <1>3, <1>4 DEF FillsUnderWay
<1>8. \A p, q \in Users, z \in Sides : InRedis(z, p, q)' = InRedis(z, p, q)
  BY <1>1 DEF InRedis
<1>9. FaultsTypeOK' /\ stale' \subseteq Users \X Users
      /\ cachedEdges' \in [Sides -> [Users -> SUBSET Users]]
  BY <1>1 DEF EdgeInv, GraphTypeOK, FaultsTypeOK
<1>10. \A p, q \in Users, z \in Sides : Own(z, p, q) \in Users
  BY DEF Own
<1> QED
  BY <1>1, <1>3, <1>4, <1>5, <1>6, <1>7, <1>8, <1>9, <1>10, ReadStepKeeps

\* A read finds its list, or goes on to the document.
LEMMA RangeListKeeps ==
  ASSUME EdgeInv, NEW c \in Calls, NEW s \in Sides, RangeList(c, s)
  PROVE  EdgeInv'
<1> PICK list : list = cachedEdges[s][graphCall[c].user]
  OBVIOUS
<1>1. /\ graphCall[c].op = s
      /\ UNCHANGED <<known, edges, cachedEdges, wanted, crossed, stale, failures, faulted, restarted, misled>>
      /\ IF list # {} THEN Answers(c, list, TRUE)
         ELSE graphCall' = [graphCall EXCEPT ![c].todo = {"find"}]
  BY DEF RangeList, edgeStores, edgeHistory, faults
<1>2. GraphTypeOK /\ OwnTasks /\ graphCall[c] \in CallRecords /\ graphCall[c].op \in Sides
      /\ graphCall[c].answer \subseteq Users /\ graphCall[c].ok \in BOOLEAN /\ list \subseteq Users
  BY <1>1, GraphTypeFacts DEF EdgeInv, CallRecords, GraphTypeOK
<1>3. PICK todo \in SUBSET {"range", "find", "fill"}, answer \in SUBSET Users, ok \in BOOLEAN :
        /\ graphCall' = [graphCall EXCEPT ![c].todo = todo, ![c].answer = answer, ![c].ok = ok]
        /\ todo # {"fill"}
  <2>1. CASE list # {}
    BY <1>1, <1>2, <2>1 DEF Answers
  <2>2. CASE list = {}
    <3>1. graphCall' = [graphCall EXCEPT ![c].todo = {"find"}, ![c].answer = graphCall[c].answer,
                                         ![c].ok = graphCall[c].ok]
      <4>1. [graphCall[c] EXCEPT !.todo = {"find"}] =
              [graphCall[c] EXCEPT !.todo = {"find"}, !.answer = graphCall[c].answer,
                                   !.ok = graphCall[c].ok]
        BY <1>2 DEF CallRecords
      <4> QED
        BY <1>1, <1>2, <2>2, <4>1 DEF GraphTypeOK
    <3> QED
      BY <1>2, <3>1
  <2> QED
    BY <2>1, <2>2
<1>4. /\ graphCall' \in [Calls -> CallRecords]
      /\ \A d \in Calls : d # c => graphCall'[d] = graphCall[d]
      /\ graphCall'[c].op = graphCall[c].op /\ graphCall'[c].todo = todo
      /\ OwnTasks'
  BY <1>2, <1>3, ReadFacts
<1>5. graphCall[c].op \notin Edits /\ graphCall'[c].op \notin Edits
  BY <1>1, <1>4 DEF Edits, Sides
<1>7. \A z \in Sides, x \in Users : c \notin FillsUnderWay(z, x)'
  BY <1>3, <1>4 DEF FillsUnderWay
<1>8. \A p, q \in Users, z \in Sides : InRedis(z, p, q)' = InRedis(z, p, q)
  BY <1>1 DEF InRedis
<1>9. FaultsTypeOK' /\ stale' \subseteq Users \X Users
      /\ cachedEdges' \in [Sides -> [Users -> SUBSET Users]]
  BY <1>1 DEF EdgeInv, GraphTypeOK, FaultsTypeOK
<1>10. \A p, q \in Users, z \in Sides : Own(z, p, q) \in Users
  BY DEF Own
<1>11. \A p, q \in Users, z \in Sides :
         <<p, q>> \notin stale' \cup crossed =>
           /\ InRedis(z, p, q)' => InRedis(z, p, q) \/ Wanted(p, q)
           /\ c \in FillsUnderWay(z, Own(z, p, q))' /\ Other(z, p, q) \in graphCall'[c].answer
                => Wanted(p, q)
  BY <1>7, <1>8, <1>10
<1> QED
  BY <1>1, <1>4, <1>5, <1>9, <1>11, ReadStepKeeps

LEMMA GetFailsKeeps ==
  ASSUME EdgeInv, NEW c \in Calls, GetFails(c) \/ FindFollowersErrs(c)
  PROVE  EdgeInv'
<1>0. PICK ok \in BOOLEAN :
        graphCall' = [graphCall EXCEPT ![c].todo = {}, ![c].answer = {}, ![c].ok = ok]
  BY DEF FindFollowersErrs, GetFails, Answers
<1>1. /\ graphCall[c].op \in Sides
      /\ UNCHANGED <<known, edges, cachedEdges, wanted, crossed, stale, restarted>>
      /\ failures' = failures + 1 /\ faulted' = faulted \cup {c}
      /\ misled' = misled \/ misled' = misled \cup {c}
  BY DEF FindFollowersErrs, GetFails, edgeStores, edgeHistory, CommandFails, CursorFails, Sides
<1>2. GraphTypeOK /\ OwnTasks
  BY DEF EdgeInv
<1>4. /\ graphCall' \in [Calls -> CallRecords]
      /\ \A d \in Calls : d # c => graphCall'[d] = graphCall[d]
      /\ graphCall'[c].op = graphCall[c].op /\ graphCall'[c].todo = {}
      /\ OwnTasks'
  BY <1>0, <1>1, <1>2, ReadFacts
<1>5. graphCall[c].op \notin Edits /\ graphCall'[c].op \notin Edits
  BY <1>1, <1>4 DEF Edits, Sides
<1>7. \A z \in Sides, x \in Users : c \notin FillsUnderWay(z, x)'
  BY <1>4 DEF FillsUnderWay
<1>8. \A p, q \in Users, z \in Sides : InRedis(z, p, q)' = InRedis(z, p, q)
  BY <1>1 DEF InRedis
<1>9. FaultsTypeOK' /\ stale' \subseteq Users \X Users
      /\ cachedEdges' \in [Sides -> [Users -> SUBSET Users]]
  BY <1>1 DEF EdgeInv, GraphTypeOK, FaultsTypeOK
<1>10. \A p, q \in Users, z \in Sides : Own(z, p, q) \in Users
  BY DEF Own
<1>11. \A p, q \in Users, z \in Sides :
         <<p, q>> \notin stale' \cup crossed =>
           /\ InRedis(z, p, q)' => InRedis(z, p, q) \/ Wanted(p, q)
           /\ c \in FillsUnderWay(z, Own(z, p, q))' /\ Other(z, p, q) \in graphCall'[c].answer
                => Wanted(p, q)
  BY <1>7, <1>8, <1>10
<1> QED
  BY <1>1, <1>4, <1>5, <1>9, <1>11, ReadStepKeeps

\* A document that is read has what is wanted, except for the pairs that are
\* being edited; those it makes stale.
LEMMA FindListKeeps ==
  ASSUME EdgeInv, NEW c \in Calls, NEW s \in Sides, FindList(c, s)
  PROVE  EdgeInv'
<1> PICK u \in Users : u = graphCall[c].user
  BY GraphTypeFacts DEF EdgeInv
<1> DEFINE list == {v \in Users : edges[s][u][v] > 0}
<1>1. /\ graphCall[c].op = s
      /\ UNCHANGED <<known, edges, cachedEdges, wanted, crossed, failures, faulted, restarted, misled>>
      /\ stale' = stale \cup {Pair(e) : e \in {e \in Calls :
                    GraphBusy(e) /\ graphCall[e].op \in Edits /\ ListOwner(e, s) = u}}
  BY DEF FindList, edgeStores, faults
<1>2. GraphTypeOK /\ OwnTasks /\ graphCall[c] \in CallRecords /\ graphCall[c].op \in Sides
      /\ graphCall[c].ok \in BOOLEAN /\ list \subseteq Users
  BY <1>1 DEF EdgeInv, CallRecords, GraphTypeOK
<1>3. PICK todo \in SUBSET {"range", "find", "fill"}, answer \in SUBSET Users, ok \in BOOLEAN :
        /\ graphCall' = [graphCall EXCEPT ![c].todo = todo, ![c].answer = answer, ![c].ok = ok]
        /\ todo = {"fill"} => answer = list
  <2>1. CASE u \in known
    <3>1. graphCall' = [graphCall EXCEPT ![c].todo = {"fill"}, ![c].answer = list]
      BY <2>1 DEF FindList
    <3>2. graphCall' = [graphCall EXCEPT ![c].todo = {"fill"}, ![c].answer = list,
                                         ![c].ok = graphCall[c].ok]
      <4>1. [graphCall[c] EXCEPT !.todo = {"fill"}, !.answer = list] =
              [graphCall[c] EXCEPT !.todo = {"fill"}, !.answer = list, !.ok = graphCall[c].ok]
        BY <1>2 DEF CallRecords
      <4> QED
        BY <1>2, <3>1, <4>1 DEF GraphTypeOK
    <3> QED
      BY <1>2, <3>2
  <2>2. CASE u \notin known
    <3>1. graphCall' = [graphCall EXCEPT ![c].todo = {}, ![c].answer = {}, ![c].ok = (s = "followers")]
      BY <2>2 DEF FindList, Answers
    <3>2. (s = "followers") \in BOOLEAN /\ {} # {"fill"}
      OBVIOUS
    <3> QED
      BY <3>1, <3>2
  <2> QED
    BY <2>1, <2>2
<1>4. /\ graphCall' \in [Calls -> CallRecords]
      /\ \A d \in Calls : d # c => graphCall'[d] = graphCall[d]
      /\ graphCall'[c].op = graphCall[c].op /\ graphCall'[c].todo = todo
      /\ graphCall'[c].user = u /\ graphCall'[c].answer = answer
      /\ OwnTasks'
  <2>1. /\ graphCall' = [graphCall EXCEPT ![c].todo = todo, ![c].answer = answer, ![c].ok = ok]
        /\ graphCall \in [Calls -> CallRecords]
    BY <1>2, <1>3 DEF GraphTypeOK, CallRecords
  <2>2. graphCall' \in [Calls -> CallRecords] /\ OwnTasks'
    BY <1>2, <2>1, ReadFacts
  <2>3. /\ graphCall'[c].op = graphCall[c].op /\ graphCall'[c].user = graphCall[c].user
        /\ graphCall'[c].todo = todo /\ graphCall'[c].answer = answer
        /\ \A d \in Calls : d # c => graphCall'[d] = graphCall[d]
    BY <2>1 DEF CallRecords
  <2> QED
    BY <2>2, <2>3
<1>5. graphCall[c].op \notin Edits /\ graphCall'[c].op \notin Edits
  BY <1>1, <1>4 DEF Edits, Sides
<1>6. \A e \in Calls : Pair(e) \in Users \X Users
  BY <1>2, GraphTypeFacts DEF Pair
<1>7. FaultsTypeOK' /\ stale' \subseteq Users \X Users
      /\ cachedEdges' \in [Sides -> [Users -> SUBSET Users]]
  BY <1>1, <1>6 DEF EdgeInv, GraphTypeOK, FaultsTypeOK
<1>8. \A p, q \in Users, z \in Sides : InRedis(z, p, q)' = InRedis(z, p, q)
  BY <1>1 DEF InRedis
<1>9. ASSUME NEW p \in Users, NEW q \in Users, NEW z \in Sides, <<p, q>> \notin stale' \cup crossed,
             c \in FillsUnderWay(z, Own(z, p, q))', Other(z, p, q) \in graphCall'[c].answer
      PROVE  Wanted(p, q)
  <2>1. z = s /\ Own(s, p, q) = u /\ edges[s][Own(s, p, q)][Other(s, p, q)] > 0
    BY <1>1, <1>3, <1>4, <1>9 DEF FillsUnderWay
  <2>2. \A e \in Calls : ~Editing(e, p, q)
    BY <1>1, <1>9, <2>1 DEF Editing, Pair, ListOwner, Own
  <2>3. DocumentAgrees(s, p, q)
    BY <1>9 DEF EdgeInv, PairAgrees
  <2> QED
    BY <2>1, <2>2, <2>3 DEF DocumentAgrees
<1>10. \A p, q \in Users, z \in Sides :
         <<p, q>> \notin stale' \cup crossed =>
           /\ InRedis(z, p, q)' => InRedis(z, p, q) \/ Wanted(p, q)
           /\ c \in FillsUnderWay(z, Own(z, p, q))' /\ Other(z, p, q) \in graphCall'[c].answer
                => Wanted(p, q)
  BY <1>8, <1>9
<1> QED
  BY <1>1, <1>4, <1>5, <1>7, <1>10, ReadStepKeeps

LEMMA FillListKeeps ==
  ASSUME EdgeInv, NEW c \in Calls, NEW s \in Sides, FillList(c, s)
  PROVE  EdgeInv'
<1> PICK u \in Users : u = graphCall[c].user
  BY GraphTypeFacts DEF EdgeInv
<1> PICK list \in SUBSET Users : list = graphCall[c].answer
  BY GraphTypeFacts DEF EdgeInv
<1>1. /\ graphCall[c].op = s /\ graphCall[c].todo = {"fill"}
      /\ cachedEdges' = [cachedEdges EXCEPT ![s][u] = @ \cup list]
      /\ graphCall' = [graphCall EXCEPT ![c].todo = {}, ![c].answer = list, ![c].ok = list # {}]
      /\ UNCHANGED <<known, edges, wanted, crossed, stale, failures, faulted, restarted, misled>>
  BY DEF FillList, Answers, edgeHistory, faults
<1>2. GraphTypeOK /\ OwnTasks /\ graphCall[c].op \in Sides
  BY <1>1 DEF EdgeInv
<1>3. (list # {}) \in BOOLEAN
  OBVIOUS
<1>4. /\ graphCall' \in [Calls -> CallRecords]
      /\ \A d \in Calls : d # c => graphCall'[d] = graphCall[d]
      /\ graphCall'[c].op = graphCall[c].op /\ graphCall'[c].todo = {}
      /\ OwnTasks'
  BY <1>1, <1>2, <1>3, ReadFacts
<1>5. graphCall[c].op \notin Edits /\ graphCall'[c].op \notin Edits
  BY <1>1, <1>4 DEF Edits, Sides
<1>6. cachedEdges' \in [Sides -> [Users -> SUBSET Users]]
      /\ \A z \in Sides, x \in Users :
           cachedEdges'[z][x] = cachedEdges[z][x] \cup (IF z = s /\ x = u THEN list ELSE {})
  BY <1>1, <1>2 DEF GraphTypeOK
<1>7. FaultsTypeOK' /\ stale' \subseteq Users \X Users
  BY <1>1, <1>2 DEF GraphTypeOK, FaultsTypeOK
<1>8. \A z \in Sides, x \in Users : c \notin FillsUnderWay(z, x)'
  BY <1>4 DEF FillsUnderWay
<1>9. ASSUME NEW p \in Users, NEW q \in Users, NEW z \in Sides, <<p, q>> \notin stale' \cup crossed,
             InRedis(z, p, q)', ~InRedis(z, p, q)
      PROVE  Wanted(p, q)
  <2>1. Own(z, p, q) \in Users
    BY DEF Own
  <2>2. z = s /\ Own(s, p, q) = u /\ Other(s, p, q) \in list
    BY <1>6, <1>9, <2>1 DEF InRedis
  <2>3. c \in FillsUnderWay(s, Own(s, p, q))
    BY <1>1, <2>2 DEF FillsUnderWay
  <2>4. RedisSound(s, p, q)
    BY <1>1, <1>9 DEF EdgeInv, PairAgrees
  <2> QED
    BY <2>2, <2>3, <2>4 DEF RedisSound
<1>10. \A p, q \in Users, z \in Sides : Own(z, p, q) \in Users
  BY DEF Own
<1>11. \A p, q \in Users, z \in Sides :
         <<p, q>> \notin stale' \cup crossed =>
           /\ InRedis(z, p, q)' => InRedis(z, p, q) \/ Wanted(p, q)
           /\ c \in FillsUnderWay(z, Own(z, p, q))' /\ Other(z, p, q) \in graphCall'[c].answer
                => Wanted(p, q)
  BY <1>8, <1>9, <1>10
<1> QED
  <2>1. \A z \in Sides, x \in Users : cachedEdges[z][x] \subseteq cachedEdges'[z][x]
    BY <1>6
  <2>2. cachedEdges' \in [Sides -> [Users -> SUBSET Users]]
    BY <1>6
  <2> QED
    BY <1>1, <1>4, <1>5, <2>1, <2>2, <1>7, <1>11, ReadStepKeeps

\* A new document holds no entry, and nothing wrote to it before.
LEMMA InsertUserKeeps ==
  ASSUME EdgeInv, NEW u \in Users, InsertUser(u)
  PROVE  EdgeInv'
<1>1. /\ u \notin known /\ known' = known \cup {u}
      /\ UNCHANGED <<cachedEdges, graphCall, wanted, crossed, stale, failures, faulted, restarted, misled>>
  BY DEF InsertUser, edgeHistory, faults
<1>2. edges \in [Sides -> [Users -> [Users -> Nat]]]
  BY DEF EdgeInv, GraphTypeOK
<1>3. /\ edges' \in [Sides -> [Users -> [Users -> Nat]]]
      /\ \A z \in Sides, x, y \in Users : edges'[z][x][y] = IF x = u THEN 0 ELSE edges[z][x][y]
  BY <1>2 DEF InsertUser
<1>4. \A z \in Sides, x, y \in Users : edges'[z][x][y] = edges[z][x][y]
  BY <1>1, <1>3 DEF EdgeInv, Documented
<1>5. GraphTypeOK' /\ Documented' /\ OwnTasks'
  BY <1>1, <1>3, <1>4 DEF EdgeInv, GraphTypeOK, FaultsTypeOK, Documented, OwnTasks
<1>6. ASSUME NEW p \in Users, NEW q \in Users PROVE PairAgrees(p, q)'
  <2>1. \A z \in Sides : Own(z, p, q) \in Users /\ Other(z, p, q) \in Users
    BY DEF Own, Other
  <2>2. \A d \in Calls : Editing(d, p, q)' = Editing(d, p, q)
    BY <1>1 DEF Editing, Pair, GraphBusy
  <2>3. /\ Wanted(p, q)' = Wanted(p, q)
        /\ \A z \in Sides : InRedis(z, p, q)' = InRedis(z, p, q)
        /\ \A z \in Sides : FillsUnderWay(z, Own(z, p, q))' = FillsUnderWay(z, Own(z, p, q))
    BY <1>1 DEF Wanted, InRedis, FillsUnderWay
  <2>4. PairAgrees(p, q)
    BY DEF EdgeInv
  <2>5. \A z \in Sides : edges'[z][Own(z, p, q)][Other(z, p, q)] = edges[z][Own(z, p, q)][Other(z, p, q)]
    BY <1>4, <2>1
  <2> QED
    BY <1>1, <2>2, <2>3, <2>4, <2>5, PairKept
<1> QED
  BY <1>5, <1>6 DEF EdgeInv

LEMMA RestartGraphRedisKeeps ==
  ASSUME EdgeInv, RestartGraphRedis
  PROVE  EdgeInv'
<1>1. /\ restarted' = restarted \cup {"social-graph-redis"}
      /\ cachedEdges' = [s \in Sides |-> [u \in Users |-> {}]]
      /\ UNCHANGED <<known, edges, graphCall, wanted, crossed, stale, failures, faulted, misled>>
  BY DEF RestartGraphRedis, ServerRestarts, edgeHistory
<1>2. GraphTypeOK' /\ Documented' /\ OwnTasks'
  BY <1>1 DEF EdgeInv, GraphTypeOK, FaultsTypeOK, Documented, OwnTasks, Servers
<1>3. ASSUME NEW p \in Users, NEW q \in Users PROVE PairAgrees(p, q)'
  <2>1. \A z \in Sides : ~InRedis(z, p, q)'
    BY <1>1 DEF Own, InRedis
  <2>2. \A d \in Calls : Editing(d, p, q)' = Editing(d, p, q)
    BY <1>1 DEF Editing, Pair, GraphBusy
  <2>3. /\ Wanted(p, q)' = Wanted(p, q)
        /\ \A z \in Sides : FillsUnderWay(z, Own(z, p, q))' = FillsUnderWay(z, Own(z, p, q))
    BY <1>1 DEF Wanted, FillsUnderWay
  <2>4. PairAgrees(p, q)
    BY DEF EdgeInv
  <2> QED
    BY <1>1, <2>1, <2>2, <2>3, <2>4, PairKept
<1> QED
  BY <1>2, <1>3 DEF EdgeInv

\* The other services' servers restart, and their commands fail.
LEMMA ElsewhereKeeps ==
  ASSUME EdgeInv, UNCHANGED graphState, FaultsTypeOK', restarted \subseteq restarted'
  PROVE  EdgeInv'
<1>1. UNCHANGED <<known, edges, cachedEdges, graphCall, wanted, crossed, stale>>
  BY DEF graphState, edgeStores, edgeHistory
<1>2. GraphTypeOK' /\ Documented' /\ OwnTasks'
  BY <1>1 DEF EdgeInv, GraphTypeOK, Documented, OwnTasks
<1>3. ASSUME NEW p \in Users, NEW q \in Users PROVE PairAgrees(p, q)'
  <2>1. \A d \in Calls : Editing(d, p, q)' = Editing(d, p, q)
    BY <1>1 DEF Editing, Pair, GraphBusy
  <2>2. /\ Wanted(p, q)' = Wanted(p, q)
        /\ \A z \in Sides : InRedis(z, p, q)' = InRedis(z, p, q)
        /\ \A z \in Sides : FillsUnderWay(z, Own(z, p, q))' = FillsUnderWay(z, Own(z, p, q))
    BY <1>1 DEF Wanted, InRedis, FillsUnderWay
  <2>3. PairAgrees(p, q)
    BY DEF EdgeInv
  <2> QED
    BY <1>1, <2>1, <2>2, <2>3, PairKept
<1> QED
  BY <1>2, <1>3 DEF EdgeInv

LEMMA GraphStepKeeps == EdgeInv /\ GraphNext => EdgeInv'
<1> SUFFICES ASSUME EdgeInv, GraphNext PROVE EdgeInv'
  OBVIOUS
<1>1. ASSUME NEW c \in Calls, NEW u \in Users, NEW v \in Users, Follow(c, u, v) PROVE EdgeInv'
  BY <1>1, EditStartKeeps DEF Follow, Edits
<1>2. ASSUME NEW c \in Calls, NEW u \in Users, NEW v \in Users, Unfollow(c, u, v) PROVE EdgeInv'
  BY <1>2, EditStartKeeps DEF Unfollow, Edits
<1>3. ASSUME NEW c \in Calls, GraphStep(c) PROVE EdgeInv'
  BY <1>3, DocumentTaskKeeps, CacheTaskKeeps, RangeListKeeps, FindListKeeps, FillListKeeps,
     EditFailsKeeps, GetFailsKeeps DEF GraphStep
<1> QED
  BY <1>1, <1>2, <1>3, GetListKeeps, InsertUserKeeps, RestartGraphRedisKeeps DEF GraphNext

LEMMA EdgesFollow == EdgeInv => EdgesAgree /\ RedisMirrorsDocuments
<1> SUFFICES ASSUME EdgeInv, NEW u \in Users, NEW v \in Users, PairQuiet(u, v), <<u, v>> \notin crossed
             PROVE  /\ edges["followees"][u][v] = IF Wanted(u, v) THEN 1 ELSE 0
                    /\ edges["followers"][v][u] = IF Wanted(u, v) THEN 1 ELSE 0
                    /\ <<u, v>> \notin stale =>
                         /\ v \in cachedEdges["followees"][u] => Wanted(u, v)
                         /\ u \in cachedEdges["followers"][v] => Wanted(u, v)
                         /\ Wanted(u, v) /\ "social-graph-redis" \notin restarted =>
                              v \in cachedEdges["followees"][u] /\ u \in cachedEdges["followers"][v]
  BY DEF EdgesAgree, RedisMirrorsDocuments, Wanted
<1>1. \A c \in Calls : ~Editing(c, u, v)
  BY DEF PairQuiet, EditsUnderWay, Editing
<1>2. \A s \in Sides :
        /\ DocumentAgrees(s, u, v) /\ RedisComplete(s, u, v)
        /\ <<u, v>> \notin stale => RedisSound(s, u, v)
  BY DEF EdgeInv, PairAgrees
<1>3. {"followees", "followers"} \subseteq Sides
  BY DEF Sides
<1>4. \A s \in Sides : edges[s][Own(s, u, v)][Other(s, u, v)] = IF Wanted(u, v) THEN 1 ELSE 0
  BY <1>1, <1>2 DEF DocumentAgrees
<1>5. \A s \in Sides : ~RedisTaskLeft(s, u, v)
  BY <1>1 DEF RedisTaskLeft
<1>6. /\ Own("followees", u, v) = u /\ Other("followees", u, v) = v
      /\ Own("followers", u, v) = v /\ Other("followers", u, v) = u
  BY DEF Own, Other
<1> QED
  BY <1>2, <1>3, <1>4, <1>5, <1>6 DEF RedisComplete, RedisSound, InRedis

-----------------------------------------------------------------------------
(* Accounts. *)

Places == {"idle", "id", "lookup", "insert", "graph", "done", "refused", "failed", "no document"}

\* A call that does not register has a name, "none", that no request needs to
\* have.
Names == STRING \cup {"none"}

\* Whoever registers, follows or composes is a user.
ActorsInv ==
  /\ scenario \in Scenarios
  /\ accounts \in Seq([user : Users, name : Names])
  /\ registration \in [Calls -> [at : Places, name : Names, user : Users]]
  /\ ComposeTypeOK

\* Nobody inserts a name that is there, or that another one inserts, unless
\* the name has twins.
AccountsInv ==
  /\ AccountsAgree
  /\ \A c \in Calls : registration[c].at = "insert" =>
       /\ Taken(registration[c].name) => registration[c].name \in twins
       /\ \A d \in Calls : registration[d].at = "insert" /\ registration[d].name = registration[c].name
            => c = d \/ registration[c].name \in twins

LEMMA IdsAreUsers ==
  ASSUME NEW stamp \in 0..MaxClock, NEW place \in 0..(Span - 1)
  PROVE  stamp * Span + place \in Users
<1>1. PICK k \in Nat : MaxClock = stamp + k
  <2>1. MaxClock - stamp \in Nat /\ MaxClock = stamp + (MaxClock - stamp)
    BY UniqueIdAssumption
  <2> QED
    BY <2>1
<1>2. (MaxClock + 1) * Span = stamp * Span + k * Span + Span
  BY <1>1, UniqueIdAssumption
<1>3. stamp * Span \in Nat /\ k * Span \in Nat
  BY UniqueIdAssumption
<1>4. stamp * Span + place \in 0..((MaxClock + 1) * Span - 1)
  BY <1>2, <1>3, UniqueIdAssumption
<1> QED
  BY <1>4, UsersAssumption

\* An account is found by each of its names, and users have accounts.
LEMMA UserOfFacts ==
  ASSUME accounts \in Seq([user : Users, name : Names])
  PROVE  /\ \A i \in DOMAIN accounts : i \in Nat /\ accounts[i].user \in Users
         /\ \A names : UsersOf(names) \subseteq Users
         /\ \A name : Taken(name) => UserOf(name) \in Users
<1>1. DOMAIN accounts = 1..Len(accounts) /\ Len(accounts) \in Nat
      /\ \A i \in DOMAIN accounts : accounts[i] \in [user : Users, name : Names]
  <2>1. DOMAIN accounts = 1..Len(accounts) /\ Len(accounts) \in Nat
    OBVIOUS
  <2>2. \A i \in 1..Len(accounts) : accounts[i] \in [user : Users, name : Names]
    <3> DEFINE S == [user : Users, name : Names]
    <3>1. accounts \in Seq(S)
      OBVIOUS
    <3> HIDE DEF S
    <3>2. \A i \in 1..Len(accounts) : accounts[i] \in S
      BY <3>1
    <3> QED
      BY <3>2 DEF S
  <2> QED
    BY <2>1, <2>2
<1>2. ASSUME NEW name, Taken(name) PROVE UserOf(name) \in Users
  <2> DEFINE Found == {i \in DOMAIN accounts : accounts[i].name = name}
  <2>1. Found \in SUBSET Nat /\ Found # {}
    BY <1>1, <1>2 DEF Taken
  <2>2. PICK m \in Found : \A k \in Found : m <= k
    BY <2>1, SmallestOfSet
  <2>3. /\ m \in DOMAIN accounts /\ accounts[m].name = name
        /\ \A j \in 1..(m - 1) : accounts[j].name # name
    BY <1>1, <2>2
  <2>4. (CHOOSE i \in DOMAIN accounts :
           /\ accounts[i].name = name
           /\ \A j \in 1..(i - 1) : accounts[j].name # name) \in DOMAIN accounts
    BY <2>3
  <2> QED
    BY <1>1, <2>4 DEF UserOf
<1>3. \A names : UsersOf(names) \subseteq Users
  BY <1>1 DEF UsersOf
<1> QED
  BY <1>1, <1>2, <1>3

\* What a request may ask for.
LEMMA RequestFacts ==
  ASSUME scenario \in Scenarios, NEW c, NEW op, Starts(c, op)
  PROVE  /\ c \in Calls /\ scenario' = scenario /\ Request(c).op = op
         /\ Request(c).user \in Users \cup {-1}
         /\ Request(c).name \in Names /\ Request(c).names \in SUBSET STRING
         /\ op \in {"followees", "followers", "compose", "read user", "read home"}
              => Request(c).user \in Users
<1>1. c \in DOMAIN scenario.requests /\ Request(c).op = op /\ scenario' = scenario
  BY DEF Starts
<1>2. /\ DOMAIN scenario.requests \subseteq Calls
      /\ Request(c) \in [op : STRING, name : STRING, other : STRING, user : Users \cup {-1},
                         names : SUBSET STRING, start : Int, stop : Int, after : SUBSET Calls]
      /\ Request(c).op \in {"followees", "followers", "compose", "read user", "read home"}
           => Request(c).user \in Users
  BY <1>1, ScenariosAssumption DEF Request
<1> QED
  BY <1>1, <1>2 DEF Names

LEMMA ActorsStart == SocialInit => ActorsInv
<1> SUFFICES ASSUME NEW s \in Scenarios, scenario = s, AccountsStart(s.accounts), ComposeInit
             PROVE  ActorsInv
  BY DEF SocialInit
<1>1. accounts \in Seq([user : Users, name : Names])
  <2> DEFINE S == [user : Users, name : STRING]
             T == [user : Users, name : Names]
  <2>1. accounts \in Seq(S) /\ S \subseteq T
    BY ScenariosAssumption DEF AccountsStart, Names
  <2> HIDE DEF S, T
  <2>2. accounts \in Seq(T)
    BY <2>1
  <2> QED
    BY <2>2 DEF T
<1>2. 0 \in Users
  <2>1. 0 \in 0..MaxClock /\ 0 \in 0..(Span - 1) /\ 0 * Span + 0 = 0
    BY UniqueIdAssumption
  <2> QED
    BY <2>1, IdsAreUsers
<1>3. registration \in [Calls -> [at : Places, name : Names, user : Users]]
  <2>1. NotRegistering \in [at : Places, name : Names, user : Users]
    BY <1>2 DEF NotRegistering, Places, Names
  <2> QED
    BY <2>1 DEF AccountsStart
<1>4. ComposeTypeOK
  <2>1. (CHOOSE u \in Users : TRUE) \in Users
    BY ServicesAssumption
  <2> QED
    BY <2>1 DEF ComposeInit, ComposeTypeOK, NotComposing
<1> QED
  BY <1>1, <1>3, <1>4 DEF ActorsInv

\* A registration goes on.
LEMMA RegistrationGoesOn ==
  ASSUME ActorsInv, IdInv', NEW c \in Calls,
         \/ HaveId(c)
         \/ LookUp(c)
         \/ \E ok : InGraph(c, ok)
         \/ RegistrationFails(c)
         \/ RegistrationsLost
  PROVE  /\ accounts' = accounts
         /\ registration' \in [Calls -> [at : Places, name : Names, user : Users]]
<1>1. registration \in [Calls -> [at : Places, name : Names, user : Users]]
  BY DEF ActorsInv
<1>2. Id(c)' \in Users
  <2>1. idCall'[c].stamp \in 0..MaxClock /\ idCall'[c].place \in 0..(Span - 1)
    BY UniqueIdAssumption DEF IdInv, IdTypeOK
  <2> QED
    BY <2>1, IdsAreUsers DEF Id
<1>3. CASE HaveId(c)
  BY <1>1, <1>2, <1>3 DEF HaveId, Places
<1>4. CASE LookUp(c)
  BY <1>1, <1>4 DEF LookUp, Places
<1>5. CASE \E ok : InGraph(c, ok)
  BY <1>1, <1>5 DEF InGraph, Places
<1>6. CASE RegistrationFails(c)
  BY <1>1, <1>6 DEF RegistrationFails, Places
<1>7. CASE RegistrationsLost
  BY <1>1, <1>7 DEF RegistrationsLost, Places
<1> QED
  BY <1>3, <1>4, <1>5, <1>6, <1>7

\* A new account comes last.
LEMMA InsertAccountFacts ==
  ASSUME ActorsInv, NEW c \in Calls, InsertAccount(c)
  PROVE  LET n == Len(accounts)
             new == [user |-> registration[c].user, name |-> registration[c].name]
         IN /\ registration[c].at = "insert" /\ twins' = twins
            /\ \/ /\ accounts' = accounts
                  /\ registration' = [registration EXCEPT ![c].at = "refused"]
               \/ /\ registration' = [registration EXCEPT ![c].at = "graph"]
                  /\ n \in Nat /\ DOMAIN accounts = 1..n /\ DOMAIN accounts' = 1..(n + 1)
                  /\ \A i \in 1..n : accounts'[i] = accounts[i]
                  /\ accounts'[n + 1] = new
            /\ accounts' \in Seq([user : Users, name : Names])
            /\ registration' \in [Calls -> [at : Places, name : Names, user : Users]]
<1> DEFINE S == [user : Users, name : Names]
           n == Len(accounts)
           new == [user |-> registration[c].user, name |-> registration[c].name]
<1>1. registration \in [Calls -> [at : Places, name : Names, user : Users]]
  BY DEF ActorsInv
<1>2. accounts \in Seq(S) /\ new \in S
  BY <1>1 DEF ActorsInv
<1>3. /\ registration[c].at = "insert" /\ twins' = twins
      /\ accounts' = IF Used(new.user) THEN accounts ELSE Append(accounts, new)
      /\ registration' = [registration EXCEPT ![c].at =
           IF Used(new.user) THEN "refused" ELSE "graph"]
  BY DEF InsertAccount
<1>4. registration' \in [Calls -> [at : Places, name : Names, user : Users]]
  BY <1>1, <1>3 DEF Places
<1> HIDE DEF S, new
<1>5. /\ n \in Nat /\ DOMAIN accounts = 1..n
      /\ Append(accounts, new) \in Seq(S)
      /\ DOMAIN Append(accounts, new) = 1..(n + 1)
      /\ \A i \in 1..n : Append(accounts, new)[i] = accounts[i]
      /\ Append(accounts, new)[n + 1] = new
  BY <1>2
<1>6. accounts' \in Seq(S)
  BY <1>2, <1>3, <1>5
<1>7. CASE Used(new.user)
  BY <1>3, <1>4, <1>6, <1>7 DEF S, new
<1>8. CASE ~Used(new.user)
  BY <1>3, <1>4, <1>5, <1>6, <1>8 DEF S, new
<1> QED
  BY <1>7, <1>8

\* The call composes for a user, and mentions users.
LEMMA ComposeStays ==
  ASSUME ActorsInv, NEW c \in Calls, ComposeStep(c)
  PROVE  ComposeTypeOK' /\ UNCHANGED accountVars
<1> USE DEF Goto
<1>1. ComposeTypeOK /\ \A names : UsersOf(names) \subseteq Users
  BY UserOfFacts DEF ActorsInv
<1>2. CASE HaveParts(c)
  <2>1. compose' \in [Calls -> [at : {"idle", "parts", "post", "stored", "user timeline",
                                     "followers", "home timelines", "failed"},
                     user : Users, time : 0..now, names : SUBSET STRING, mentions : SUBSET Users]]
    BY <1>1, <1>2 DEF HaveParts, MissMentions, ComposeTypeOK
  <2> QED
    BY <1>1, <1>2, <2>1 DEF HaveParts, MissMentions, ComposeTypeOK, graphAndAccounts
<1>3. CASE UploadPost(c)
  BY <1>1, <1>3 DEF UploadPost, ComposeTypeOK, graphAndAccounts
<1>4. CASE UploadUserTimeline(c)
  BY <1>1, <1>4 DEF UploadUserTimeline, ComposeTypeOK, graphAndAccounts
<1>5. CASE UploadHomeTimeline(c)
  BY <1>1, <1>5 DEF UploadHomeTimeline, ComposeTypeOK
<1>6. CASE WriteHomeTimeline(c)
  BY <1>1, <1>6 DEF WriteHomeTimeline, ComposeTypeOK, graphAndAccounts
<1>7. CASE PartFails(c)
  BY <1>1, <1>7 DEF PartFails, ComposeTypeOK, graphAndAccounts
<1>8. CASE MissMentions(c)
  <2>1. PICK found \in SUBSET UsersOf(compose[c].names) :
          compose' = [compose EXCEPT ![c].at = "post", ![c].mentions = found]
    BY <1>8 DEF MissMentions
  <2>2. found \in SUBSET Users /\ UNCHANGED <<now, accountVars>>
    BY <1>1, <1>8 DEF MissMentions, graphAndAccounts
  <2>3. compose' \in [Calls -> [at : {"idle", "parts", "post", "stored", "user timeline",
                                     "followers", "home timelines", "failed"},
                     user : Users, time : 0..now, names : SUBSET STRING, mentions : SUBSET Users]]
    BY <1>1, <2>1, <2>2 DEF ComposeTypeOK
  <2> QED
    BY <1>1, <2>2, <2>3 DEF ComposeTypeOK
<1> QED
  BY <1>2, <1>3, <1>4, <1>5, <1>6, <1>7, <1>8 DEF ComposeStep

LEMMA ActorsStay == ActorsInv /\ IdInv' /\ [SocialNext]_socialVars => ActorsInv'
<1> SUFFICES ASSUME ActorsInv, IdInv', [SocialNext]_socialVars PROVE ActorsInv'
  OBVIOUS
<1>1. ASSUME scenario' = scenario, UNCHANGED accountVars, UNCHANGED composeVars PROVE ActorsInv'
  BY <1>1 DEF ActorsInv, accountVars, composeVars, ComposeTypeOK
<1>2. ASSUME NEW c \in Calls, Register(c) PROVE ActorsInv'
  <2>1. UNCHANGED composeVars
    BY <1>2 DEF Register
  <2>2. /\ Request(c).user \in Users \cup {-1} /\ Request(c).name \in Names /\ scenario' = scenario
    BY <1>2, RequestFacts DEF Register, ActorsInv
  <2>3. /\ accounts' = accounts
        /\ registration' \in [Calls -> [at : Places, name : Names, user : Users]]
    <3>1. CASE Request(c).user >= 0
      <4>1. RegisterUserWithId(c, Request(c).name, Request(c).user) /\ Request(c).user \in Users
        BY <1>2, <2>2, <3>1 DEF Register
      <4> QED
        BY <2>2, <4>1 DEF RegisterUserWithId, ActorsInv, Places
    <3>2. CASE ~(Request(c).user >= 0)
      <4>1. RegisterUser(c, Request(c).name)
        BY <1>2, <3>2 DEF Register
      <4> QED
        BY <2>2, <4>1 DEF RegisterUser, ActorsInv, Places
    <3> QED
      BY <3>1, <3>2
  <2> QED
    BY <2>1, <2>2, <2>3 DEF ActorsInv, composeVars, ComposeTypeOK
<1>3. ASSUME NEW c \in Calls, Compose(c) PROVE ActorsInv'
  <2>1. UNCHANGED accountVars /\ StartCompose(c, Request(c).user, Request(c).names)
    BY <1>3 DEF Compose
  <2>2. Request(c).user \in Users /\ Request(c).names \in SUBSET STRING /\ scenario' = scenario
    BY <1>3, RequestFacts DEF Compose, ActorsInv
  <2>3. ComposeTypeOK'
    <3> DEFINE Moments == {"idle", "parts", "post", "stored", "user timeline", "followers",
                           "home timelines", "failed"}
    <3> PICK u \in Users, names \in SUBSET STRING : u = Request(c).user /\ names = Request(c).names
      BY <2>2
    <3>0. now \in Nat
      BY DEF ActorsInv, ComposeTypeOK
    <3> PICK m \in Nat : m = now + 1
      BY <3>0
    <3> DEFINE new == [at |-> "parts", user |-> u, time |-> m, names |-> names, mentions |-> {}]
    <3>1. compose \in [Calls -> [at : Moments, user : Users, time : 0..now,
                                 names : SUBSET STRING, mentions : SUBSET Users]]
      BY DEF ActorsInv, ComposeTypeOK
    <3>2. now' = m /\ compose' = [compose EXCEPT ![c] = new]
      BY <2>1 DEF StartCompose
    <3>3. new \in [at : Moments, user : Users, time : 0..m,
                   names : SUBSET STRING, mentions : SUBSET Users]
      OBVIOUS
    <3>4. 0..now \subseteq 0..m
      BY <3>0
    <3> HIDE DEF Moments, new
    <3>5. \A d \in Calls : compose[d] \in [at : Moments, user : Users, time : 0..m,
                                           names : SUBSET STRING, mentions : SUBSET Users]
      <4>1. ASSUME NEW d \in Calls
            PROVE  compose[d] \in [at : Moments, user : Users, time : 0..now,
                                   names : SUBSET STRING, mentions : SUBSET Users]
        BY <3>1
      <4> QED
        BY <3>4, <4>1
    <3>6. compose' \in [Calls -> [at : Moments, user : Users, time : 0..m,
                                  names : SUBSET STRING, mentions : SUBSET Users]]
      BY <3>1, <3>2, <3>3, <3>5
    <3>7. compose' \in [Calls -> [at : Moments, user : Users, time : 0..now',
                                  names : SUBSET STRING, mentions : SUBSET Users]]
      BY <3>2, <3>6
    <3> QED
      BY <3>2, <3>7 DEF ComposeTypeOK, Moments
  <2> QED
    BY <2>1, <2>2, <2>3 DEF ActorsInv, accountVars
<1>4. ASSUME NEW c \in Calls, FollowByName(c) \/ UnfollowByName(c) \/ ReadGraph(c) \/ Read(c)
      PROVE  ActorsInv'
  BY <1>1, <1>4 DEF FollowByName, UnfollowByName, ReadGraph, Read, Starts
<1>5. ASSUME NEW c \in Calls, MakesId(c) PROVE ActorsInv'
  <2>1. scenario' = scenario /\ UNCHANGED composeVars
    BY <1>5 DEF MakesId, social
  <2>2. CASE UNCHANGED accountVars
    BY <1>1, <2>1, <2>2
  <2>3. CASE HaveId(c) \/ RegistrationsLost
    BY <2>1, <2>3, RegistrationGoesOn DEF ActorsInv, composeVars, ComposeTypeOK
  <2> QED
    BY <1>5, <2>2, <2>3 DEF MakesId
<1>6. ASSUME NEW c \in Calls, Accounts(c) PROVE ActorsInv'
  <2>1. scenario' = scenario /\ UNCHANGED composeVars
    BY <1>6 DEF Accounts, social
  <2>2. CASE LookUp(c)
    BY <2>1, <2>2, RegistrationGoesOn DEF ActorsInv, composeVars, ComposeTypeOK
  <2>3. CASE InsertAccount(c)
    BY <2>1, <2>3, InsertAccountFacts DEF ActorsInv, composeVars, ComposeTypeOK
  <2> QED
    BY <1>6, <2>2, <2>3 DEF Accounts
<1>7. ASSUME NEW c \in Calls, RegistersInGraph(c) \/ RegistrationStops(c) PROVE ActorsInv'
  <2>1. scenario' = scenario /\ UNCHANGED composeVars
    BY <1>7 DEF RegistersInGraph, RegistrationStops, social
  <2>2. (\E ok : InGraph(c, ok)) \/ RegistrationFails(c)
    BY <1>7 DEF RegistersInGraph, RegistrationStops
  <2> QED
    BY <2>1, <2>2, RegistrationGoesOn DEF ActorsInv, composeVars, ComposeTypeOK
<1>8. ASSUME NEW c \in Calls, ComposeWorks(c) PROVE ActorsInv'
  BY <1>8, ComposeStays DEF ComposeWorks, social, ActorsInv, accountVars
<1>9. ASSUME NEW c \in Calls, GraphWorks(c) \/ TimelinesWork(c) \/ AsksForPosts(c) \/ ReadsPosts(c)
                              \/ GetsPosts(c) \/ ReadStops(c) \/ TimelineStops(c) \/ PushFails(c)
      PROVE  ActorsInv'
  BY <1>1, <1>9 DEF GraphWorks, TimelinesWork, AsksForPosts, ReadsPosts, GetsPosts, ReadStops,
                    TimelineStops, PushFails, social
<1>10. CASE ServersRestart \/ Clock
  BY <1>1, <1>10 DEF ServersRestart, Clock, social
<1>11. CASE Finished \/ UNCHANGED socialVars
  BY <1>1, <1>11 DEF Finished, socialVars, otherState, social
<1> QED
  BY <1>2, <1>3, <1>4, <1>5, <1>6, <1>7, <1>8, <1>9, <1>10, <1>11 DEF SocialNext, Arrives, Works

\* Every step of the social network is one of the graph service, or leaves it
\* alone.
LEMMA GraphSteps ==
  ASSUME ActorsInv, FaultsTypeOK, [SocialNext]_socialVars
  PROVE  GraphNext \/ (/\ UNCHANGED graphState /\ FaultsTypeOK'
                       /\ restarted \subseteq restarted' /\ misled \subseteq misled')
<1> DEFINE Elsewhere == /\ UNCHANGED graphState /\ FaultsTypeOK'
                        /\ restarted \subseteq restarted' /\ misled \subseteq misled'
<1> SUFFICES ASSUME ~Elsewhere PROVE GraphNext
  OBVIOUS
<1>1. ~(UNCHANGED <<graphState, faults>>)
  BY DEF faults, FaultsTypeOK
<1>2. ASSUME NEW c \in Calls, CommandFails(c) \/ CursorFails(c) PROVE ~(UNCHANGED graphState)
  BY <1>2 DEF CommandFails, CursorFails, FaultsTypeOK
<1>3. ASSUME NEW server, ServerRestarts(server) PROVE ~(UNCHANGED graphState)
  BY <1>3, ServicesAssumption DEF ServerRestarts, FaultsTypeOK
<1> HIDE DEF Elsewhere
<1>4. ASSUME NEW c \in Calls, Register(c) \/ Compose(c) \/ Read(c) PROVE FALSE
  BY <1>1, <1>4 DEF Register, Compose, Read
<1>5. ASSUME NEW c \in Calls, FollowByName(c) PROVE GraphNext
  <2>1. Taken(Request(c).name) /\ Taken(Request(c).other)
        /\ Follow(c, UserOf(Request(c).name), UserOf(Request(c).other))
    BY <1>1, <1>5 DEF FollowByName
  <2> QED
    BY <2>1, UserOfFacts DEF GraphNext, ActorsInv
<1>6. ASSUME NEW c \in Calls, UnfollowByName(c) PROVE GraphNext
  <2>1. Taken(Request(c).name) /\ Taken(Request(c).other)
        /\ Unfollow(c, UserOf(Request(c).name), UserOf(Request(c).other))
    BY <1>1, <1>6 DEF UnfollowByName
  <2> QED
    BY <2>1, UserOfFacts DEF GraphNext, ActorsInv
<1>7. ASSUME NEW c \in Calls, ReadGraph(c) PROVE GraphNext
  <2>1. PICK s \in Sides : Starts(c, s) /\ GetList(c, s, Request(c).user)
    BY <1>7 DEF ReadGraph
  <2>2. Request(c).user \in Users
    BY <2>1, RequestFacts DEF Sides, ActorsInv
  <2> QED
    BY <2>1, <2>2 DEF GraphNext
<1>8. ASSUME NEW c \in Calls, GraphWorks(c) PROVE GraphNext
  BY <1>8 DEF GraphWorks, GraphNext
<1>9. ASSUME NEW c \in Calls, MakesId(c) \/ Accounts(c) \/ TimelinesWork(c) \/ AsksForPosts(c)
                             \/ ReadsPosts(c) \/ GetsPosts(c)
      PROVE  FALSE
  BY <1>1, <1>9 DEF MakesId, Accounts, TimelinesWork, AsksForPosts, ReadsPosts, GetsPosts
<1>10. ASSUME NEW c \in Calls, RegistrationStops(c) \/ ReadStops(c) \/ TimelineStops(c) \/ PushFails(c) PROVE FALSE
  BY <1>2, <1>10 DEF RegistrationStops, RegistrationFails, ReadStops, ReadPostsFails, TimelineStops, PushFails,
                     TimelineFails, FindTimelineErrs, PushErrs
<1>11. ASSUME NEW c \in Calls, RegistersInGraph(c) PROVE GraphNext
  <2>1. InsertUser(registration[c].user)
    BY <1>1, <1>11 DEF RegistersInGraph
  <2>2. registration[c].user \in Users
    BY DEF ActorsInv
  <2> QED
    BY <2>1, <2>2 DEF GraphNext
<1>12. ASSUME NEW c \in Calls, ComposeStep(c) PROVE GraphNext
  <2>1. UploadHomeTimeline(c)
    <3>1. ~PartFails(c) /\ ~MissMentions(c)
      BY <1>2 DEF PartFails, MissMentions, graphAndAccounts
    <3> QED
      BY <1>1, <1>12, <3>1 DEF ComposeStep, HaveParts, MissMentions, UploadPost, UploadUserTimeline,
                               WriteHomeTimeline, graphAndAccounts
  <2>2. compose[c].user \in Users
    BY DEF ActorsInv, ComposeTypeOK
  <2> QED
    BY <2>1, <2>2 DEF UploadHomeTimeline, GraphNext, Sides
<1>13. CASE ServersRestart
  <2>1. RestartGraphRedis
    BY <1>3, <1>13 DEF ServersRestart, RestartHomeRedis, RestartTimelineRedis
  <2> QED
    BY <2>1 DEF GraphNext
<1>14. CASE Clock \/ Finished \/ UNCHANGED socialVars
  BY <1>1, <1>14 DEF Clock, Finished, socialVars, otherState
<1> QED
  BY <1>4, <1>5, <1>6, <1>7, <1>8, <1>9, <1>10, <1>11, <1>12, <1>13, <1>14
  DEF SocialNext, Arrives, Works, ComposeWorks

LEMMA KnownGrows == GraphNext \/ UNCHANGED graphState => known \subseteq known'
<1>1. ASSUME NEW c \in Calls, GraphStep(c) PROVE known' = known
  BY <1>1 DEF GraphStep, PushEntry, PullEntry, CacheEntry, UncacheEntry, RangeList, FindList, FillList,
              EditFails, FindFollowersErrs, GetFails, edgeStores
<1> QED
  BY <1>1 DEF GraphNext, Follow, Unfollow, GetList, InsertUser, RestartGraphRedis, graphState, edgeStores

LEMMA EdgesStart == SocialInit => EdgeInv
<1> SUFFICES ASSUME NEW s \in Scenarios, AccountsStart(s.accounts), NoFaultsYet,
                    GraphStart({s.accounts[i].user : i \in DOMAIN s.accounts}, s.edges)
             PROVE  EdgeInv
  BY DEF SocialInit
<1> DEFINE registered == {s.accounts[i].user : i \in DOMAIN s.accounts}
           L == ListsOf(s.edges)
<1>1. registered \subseteq Users /\ s.edges \subseteq registered \X registered
  <2> DEFINE S == [user : Users, name : STRING]
  <2>1. s.accounts \in Seq(S) /\ s.edges \subseteq registered \X registered
    BY ScenariosAssumption
  <2> HIDE DEF S
  <2>2. \A i \in DOMAIN s.accounts : s.accounts[i] \in S
    BY <2>1
  <2> QED
    BY <2>1, <2>2 DEF S
<1>2. /\ known = registered /\ cachedEdges = L /\ wanted = s.edges /\ crossed = {} /\ stale = {}
      /\ edges = [z \in Sides |-> [u \in Users |-> [v \in Users |-> IF v \in L[z][u] THEN 1 ELSE 0]]]
      /\ graphCall = [c \in Calls |-> Idle]
  BY DEF GraphStart
<1> HIDE DEF registered
<1>3. /\ L \in [Sides -> [Users -> SUBSET Users]]
      /\ \A u, v \in Users, z \in Sides : Other(z, u, v) \in L[z][Own(z, u, v)] <=> <<u, v>> \in s.edges
  <2>1. \A z \in Sides, x \in Users :
          L[z][x] = IF z = "followees" THEN {v \in Users : <<x, v>> \in s.edges}
                                       ELSE {v \in Users : <<v, x>> \in s.edges}
    BY DEF ListsOf
  <2>2. L \in [Sides -> [Users -> SUBSET Users]]
    BY DEF ListsOf
  <2> QED
    BY <2>1, <2>2 DEF Own, Other
<1> HIDE DEF L
<1>4. \A z \in Sides, x, y \in Users : edges[z][x][y] = IF y \in L[z][x] THEN 1 ELSE 0
  BY <1>2
<1>5. GraphTypeOK
  <2>1. edges \in [Sides -> [Users -> [Users -> Nat]]]
    BY <1>2
  <2>2. graphCall \in [Calls -> CallRecords]
    BY <1>2, IdleFacts DEF CallRecords
  <2> QED
    BY <1>1, <1>2, <1>3, <2>1, <2>2 DEF GraphTypeOK, CallRecords, FaultsTypeOK, NoFaultsYet
<1>6. OwnTasks /\ \A c \in Calls, u, v \in Users : ~Editing(c, u, v)
  BY <1>2, IdleFacts DEF OwnTasks, Editing, GraphBusy
<1>7. Documented
  <2>1. ASSUME NEW z \in Sides, NEW x \in Users, NEW y \in Users, y \in L[z][x] PROVE x \in known
    <3>1. <<x, y>> \in s.edges \/ <<y, x>> \in s.edges
      BY <1>3, <2>1 DEF Own, Other, Sides
    <3> QED
      BY <1>1, <1>2, <3>1
  <2> QED
    BY <1>4, <2>1 DEF Documented
<1>8. ASSUME NEW u \in Users, NEW v \in Users PROVE PairAgrees(u, v)
  <2>1. EditsAgree(u, v)
    BY <1>6 DEF EditsAgree
  <2>2. ASSUME NEW z \in Sides PROVE DocumentAgrees(z, u, v) /\ (InRedis(z, u, v) <=> Wanted(u, v))
    <3>1. Own(z, u, v) \in Users /\ Other(z, u, v) \in Users
      BY DEF Own, Other
    <3> QED
      BY <1>2, <1>3, <1>4, <3>1 DEF DocumentAgrees, InRedis, Wanted
  <2>3. \A z \in Sides, x \in Users : FillsUnderWay(z, x) = {}
    BY <1>2, IdleFacts DEF FillsUnderWay
  <2>4. \A z \in Sides : Own(z, u, v) \in Users
    BY DEF Own
  <2> QED
    BY <2>1, <2>2, <2>3, <2>4 DEF PairAgrees, RedisComplete, RedisSound
<1> QED
  BY <1>5, <1>6, <1>7, <1>8 DEF EdgeInv

LEMMA EdgesStay == EdgeInv /\ ActorsInv /\ [SocialNext]_socialVars => EdgeInv'
BY GraphSteps, GraphStepKeeps, ElsewhereKeeps DEF EdgeInv, GraphTypeOK

LEMMA AccountsAtFirst == SocialInit => AccountsInv
<1> SUFFICES ASSUME NEW s \in Scenarios, AccountsStart(s.accounts),
                    known = {s.accounts[i].user : i \in DOMAIN s.accounts}
             PROVE  AccountsInv
  BY DEF SocialInit, GraphStart
<1>1. accounts = s.accounts /\ \A c \in Calls : registration[c].at = "idle"
  BY DEF AccountsStart, NotRegistering
<1>2. \A i, j \in DOMAIN accounts : accounts[i].name = accounts[j].name => i = j
  BY <1>1, ScenariosAssumption
<1> QED
  BY <1>1, <1>2 DEF AccountsInv, AccountsAgree

LEMMA AccountsUntouched ==
  ASSUME AccountsInv, UNCHANGED accountVars, known \subseteq known'
  PROVE  AccountsInv'
BY DEF AccountsInv, AccountsAgree, Taken, accountVars

\* A registration that does not come to its insertion, and is not dropped
\* after it.
LEMMA RegistrationsKeepAccounts ==
  ASSUME AccountsInv, known \subseteq known', accounts' = accounts, twins \subseteq twins',
         \A d \in Calls : registration'[d].at = "insert" =>
           registration[d].at = "insert" /\ registration'[d].name = registration[d].name,
         \A d \in Calls : registration[d].at \in {"graph", "no document"} =>
           \/ /\ registration'[d].at \in {"graph", "no document"}
              /\ registration'[d].user = registration[d].user
           \/ registration[d].user \in known'
  PROVE  AccountsInv'
<1>1. \A i, j \in DOMAIN accounts :
        i /= j /\ accounts[i].name = accounts[j].name => accounts[i].name \in twins'
  BY DEF AccountsInv, AccountsAgree
<1>2. ASSUME NEW i \in DOMAIN accounts, accounts[i].user \notin known'
      PROVE  \E d \in Calls : /\ registration'[d].user = accounts[i].user
                              /\ registration'[d].at \in {"graph", "no document"}
  <2>1. PICK d \in Calls : /\ registration[d].user = accounts[i].user
                           /\ registration[d].at \in {"graph", "no document"}
    BY <1>2 DEF AccountsInv, AccountsAgree
  <2> QED
    BY <1>2, <2>1
<1>3. AccountsAgree'
  BY <1>1, <1>2 DEF AccountsAgree
<1>4. \A name : Taken(name)' = Taken(name)
  BY DEF Taken
<1>5. ASSUME NEW d \in Calls, registration'[d].at = "insert"
      PROVE  /\ Taken(registration[d].name)' => registration'[d].name \in twins'
             /\ \A e \in Calls : registration'[e].at = "insert" /\ registration'[e].name = registration'[d].name
                  => d = e \/ registration'[d].name \in twins'
  <2>1. registration[d].at = "insert" /\ registration'[d].name = registration[d].name
    BY <1>5
  <2>2. Taken(registration[d].name)' => registration'[d].name \in twins'
    BY <2>1 DEF AccountsInv, Taken
  <2>3. ASSUME NEW e \in Calls, registration'[e].at = "insert", registration'[e].name = registration'[d].name,
               d # e
        PROVE  registration'[d].name \in twins'
    BY <2>1, <2>3 DEF AccountsInv
  <2> QED
    BY <2>2, <2>3
<1> QED
  BY <1>3, <1>5 DEF AccountsInv

LEMMA LookUpKeepsAccounts ==
  ASSUME ActorsInv, AccountsInv, NEW c \in Calls, LookUp(c), known \subseteq known'
  PROVE  AccountsInv'
<1>1. registration \in [Calls -> [at : Places, name : Names, user : Users]]
  BY DEF ActorsInv
<1>2. /\ registration[c].at = "lookup" /\ accounts' = accounts
      /\ registration' = [registration EXCEPT ![c].at =
           IF Taken(registration[c].name) THEN "refused" ELSE "insert"]
      /\ twins \subseteq twins'
      /\ (\E d \in Calls : registration[d].at = "insert" /\ registration[d].name = registration[c].name)
           => registration[c].name \in twins'
  BY DEF LookUp
<1>3. /\ \A d \in Calls : d # c => registration'[d] = registration[d]
      /\ registration'[c].name = registration[c].name
      /\ registration'[c].at = IF Taken(registration[c].name) THEN "refused" ELSE "insert"
  BY <1>1, <1>2
<1>4. AccountsAgree'
  BY <1>2, <1>3 DEF AccountsInv, AccountsAgree
<1>5. \A name : Taken(name)' = Taken(name)
  BY <1>2 DEF Taken
<1>6. ASSUME NEW d \in Calls, registration'[d].at = "insert"
      PROVE  \A i \in DOMAIN accounts : accounts[i].name = registration'[d].name =>
               registration'[d].name \in twins'
  BY <1>2, <1>3, <1>6 DEF AccountsInv, Taken
<1>7. ASSUME NEW d \in Calls, registration'[d].at = "insert",
             NEW e \in Calls, registration'[e].at = "insert", d # e,
             registration'[e].name = registration'[d].name
      PROVE  registration'[d].name \in twins'
  BY <1>2, <1>3, <1>7 DEF AccountsInv
<1> QED
  BY <1>2, <1>4, <1>6, <1>7 DEF AccountsInv, Taken

LEMMA InsertKeepsAccounts ==
  ASSUME ActorsInv, AccountsInv, NEW c \in Calls, InsertAccount(c), known \subseteq known'
  PROVE  AccountsInv'
<1> DEFINE n == Len(accounts)
           new == [user |-> registration[c].user, name |-> registration[c].name]
<1>1. registration \in [Calls -> [at : Places, name : Names, user : Users]]
  BY DEF ActorsInv
<1>2. /\ registration[c].at = "insert" /\ twins' = twins
      /\ \/ /\ accounts' = accounts
            /\ registration' = [registration EXCEPT ![c].at = "refused"]
         \/ /\ registration' = [registration EXCEPT ![c].at = "graph"]
            /\ n \in Nat /\ DOMAIN accounts = 1..n /\ DOMAIN accounts' = 1..(n + 1)
            /\ \A i \in 1..n : accounts'[i] = accounts[i]
            /\ accounts'[n + 1] = new
  BY InsertAccountFacts
<1>3. /\ \A d \in Calls : d # c => registration'[d] = registration[d]
      /\ registration'[c].name = registration[c].name
      /\ registration'[c].user = registration[c].user
      /\ registration'[c].at # "insert"
      /\ accounts' # accounts => registration'[c].at = "graph"
  BY <1>1, <1>2
<1>4. CASE accounts' = accounts
  BY <1>2, <1>3, <1>4, RegistrationsKeepAccounts
<1>5. CASE accounts' # accounts
  <2>1. /\ n \in Nat /\ DOMAIN accounts = 1..n /\ DOMAIN accounts' = 1..(n + 1)
        /\ \A i \in 1..n : accounts'[i] = accounts[i]
        /\ accounts'[n + 1].user = registration[c].user
        /\ accounts'[n + 1].name = registration[c].name
    BY <1>2, <1>5
  <2> HIDE DEF n
  <2>2. \A i \in 1..(n + 1) : i \in 1..n \/ i = n + 1
    BY <2>1
  <2>3. \A i \in 1..n : accounts[i].name = registration[c].name => registration[c].name \in twins
    BY <1>2, <2>1 DEF AccountsInv, Taken
  <2>4. ASSUME NEW i \in 1..(n + 1), NEW j \in 1..(n + 1), i # j, accounts'[i].name = accounts'[j].name
        PROVE  accounts'[i].name \in twins
    <3>1. CASE i \in 1..n /\ j \in 1..n
      BY <2>1, <2>4, <3>1 DEF AccountsInv, AccountsAgree
    <3>2. CASE i = n + 1 \/ j = n + 1
      BY <2>1, <2>2, <2>3, <2>4, <3>2
    <3> QED
      BY <2>2, <3>1, <3>2
  <2>5. ASSUME NEW i \in 1..(n + 1)
        PROVE  \/ accounts'[i].user \in known'
               \/ \E d \in Calls : /\ registration'[d].user = accounts'[i].user
                                   /\ registration'[d].at \in {"graph", "no document"}
    <3>1. CASE i \in 1..n
      <4>1. accounts[i].user \in known
              \/ \E d \in Calls : /\ registration[d].user = accounts[i].user
                                  /\ registration[d].at \in {"graph", "no document"}
        BY <2>1, <3>1 DEF AccountsInv, AccountsAgree
      <4> QED
        BY <1>2, <1>3, <2>1, <3>1, <4>1
    <3>2. CASE i = n + 1
      BY <1>3, <1>5, <2>1, <3>2
    <3> QED
      BY <2>2, <3>1, <3>2
  <2>6. AccountsAgree'
    BY <1>2, <2>1, <2>4, <2>5 DEF AccountsAgree
  <2>7. ASSUME NEW d \in Calls, registration'[d].at = "insert"
        PROVE  /\ \A i \in 1..(n + 1) : accounts'[i].name = registration'[d].name =>
                    registration'[d].name \in twins'
               /\ \A e \in Calls : registration'[e].at = "insert" /\ registration'[e].name = registration'[d].name
                    => d = e \/ registration'[d].name \in twins'
    <3>1. d # c /\ registration'[d] = registration[d]
      BY <1>3, <2>7
    <3>2. registration[d].name = registration[c].name => registration[d].name \in twins
      BY <1>2, <2>7, <3>1 DEF AccountsInv
    <3>3. ASSUME NEW i \in 1..(n + 1), accounts'[i].name = registration[d].name
          PROVE  registration[d].name \in twins
      BY <2>1, <2>2, <2>7, <3>1, <3>2, <3>3 DEF AccountsInv, Taken
    <3>4. ASSUME NEW e \in Calls, registration'[e].at = "insert", registration'[e].name = registration'[d].name,
                 d # e
          PROVE  registration[d].name \in twins
      <4>1. e # c /\ registration'[e] = registration[e]
        BY <1>3, <3>4
      <4> QED
        BY <2>7, <3>1, <3>4, <4>1 DEF AccountsInv
    <3> QED
      BY <1>2, <3>1, <3>3, <3>4
  <2>8. ASSUME NEW d \in Calls, registration'[d].at = "insert"
        PROVE  Taken(registration[d].name)' => registration'[d].name \in twins'
    BY <2>1, <2>7, <2>8 DEF Taken
  <2> QED
    BY <2>6, <2>7, <2>8 DEF AccountsInv
<1> QED
  BY <1>4, <1>5

LEMMA AccountsStay ==
  ASSUME ActorsInv, ActorsInv', AccountsInv, FaultsTypeOK, [SocialNext]_socialVars
  PROVE  AccountsInv'
<1>1. known \subseteq known'
  BY GraphSteps, KnownGrows
<1>2. registration \in [Calls -> [at : Places, name : Names, user : Users]]
  BY DEF ActorsInv
<1>3. CASE UNCHANGED accountVars
  BY <1>1, <1>3, AccountsUntouched
<1>4. ASSUME NEW c \in Calls, Register(c) PROVE AccountsInv'
  <2>1. \/ RegisterUser(c, Request(c).name)
        \/ RegisterUserWithId(c, Request(c).name, Request(c).user)
    BY <1>4 DEF Register
  <2>2. /\ registration[c].at = "idle" /\ registration'[c].at \in {"id", "lookup"}
        /\ \A d \in Calls : d # c => registration'[d] = registration[d]
        /\ UNCHANGED <<accounts, twins>>
    BY <1>2, <2>1 DEF RegisterUser, RegisterUserWithId
  <2> QED
    BY <1>1, <2>2, RegistrationsKeepAccounts
<1>5. ASSUME NEW c \in Calls, MakesId(c) PROVE AccountsInv'
  <2>1. CASE HaveId(c)
    <3>1. /\ registration[c].at = "id" /\ registration'[c].at = "lookup"
          /\ \A d \in Calls : d # c => registration'[d] = registration[d]
          /\ UNCHANGED <<accounts, twins>>
      BY <1>2, <2>1 DEF HaveId
    <3> QED
      BY <1>1, <3>1, RegistrationsKeepAccounts
  <2>2. CASE RegistrationsLost
    <3>1. /\ UNCHANGED <<accounts, twins>>
          /\ \A d \in Calls : /\ registration'[d].at # "insert"
                              /\ registration'[d].user = registration[d].user
                              /\ registration[d].at \in {"graph", "no document"} =>
                                   registration'[d].at = "no document"
      BY <1>2, <2>2 DEF RegistrationsLost
    <3> QED
      BY <1>1, <3>1, RegistrationsKeepAccounts
  <2> QED
    BY <1>3, <1>5, <2>1, <2>2 DEF MakesId
<1>6. ASSUME NEW c \in Calls, Accounts(c) PROVE AccountsInv'
  BY <1>1, <1>6, LookUpKeepsAccounts, InsertKeepsAccounts DEF Accounts
<1>7. ASSUME NEW c \in Calls, RegistersInGraph(c) PROVE AccountsInv'
  <2>1. /\ registration[c].at = "graph" /\ registration[c].user \in known'
        /\ registration'[c].at \in {"done", "no document"}
        /\ \A d \in Calls : d # c => registration'[d] = registration[d]
        /\ UNCHANGED <<accounts, twins>>
    BY <1>2, <1>7 DEF RegistersInGraph, InGraph, InsertUser, graphState, edgeStores
  <2> QED
    BY <1>1, <2>1, RegistrationsKeepAccounts
<1>8. ASSUME NEW c \in Calls, RegistrationStops(c) PROVE AccountsInv'
  <2>1. /\ registration'[c].at \in {"failed", "no document"}
        /\ registration'[c].user = registration[c].user
        /\ registration[c].at \in {"graph", "no document"} => registration'[c].at = "no document"
        /\ \A d \in Calls : d # c => registration'[d] = registration[d]
        /\ UNCHANGED <<accounts, twins>>
    BY <1>2, <1>8 DEF RegistrationStops, RegistrationFails
  <2> QED
    BY <1>1, <2>1, RegistrationsKeepAccounts
<1>9. ASSUME NEW c \in Calls, Arrives(c), ~Register(c) PROVE UNCHANGED accountVars
  BY <1>9 DEF Arrives, FollowByName, UnfollowByName, ReadGraph, Compose, Read
<1>10. ASSUME NEW c \in Calls, GraphWorks(c) \/ TimelinesWork(c) \/ AsksForPosts(c) \/ ReadsPosts(c)
                               \/ GetsPosts(c) \/ ReadStops(c) \/ TimelineStops(c) \/ PushFails(c) \/ ComposeWorks(c)
       PROVE  UNCHANGED accountVars
  BY <1>10, ComposeStays DEF GraphWorks, TimelinesWork, AsksForPosts, ReadsPosts, GetsPosts, ReadStops,
                             TimelineStops, PushFails, ComposeWorks
<1>11. ASSUME ServersRestart \/ Clock \/ Finished \/ UNCHANGED socialVars PROVE UNCHANGED accountVars
  BY <1>11 DEF ServersRestart, Clock, Finished, socialVars, otherState
<1> QED
  BY <1>3, <1>4, <1>5, <1>6, <1>7, <1>8, <1>9, <1>10, <1>11 DEF SocialNext, Arrives, Works

\* The ids, the actors, the edges and the accounts together.
CoreInv == IdInv /\ ActorsInv /\ EdgeInv /\ AccountsInv

LEMMA CoreAlways == SocialSpec => []CoreInv
<1>1. SocialInit => CoreInv
  BY IdStart, ActorsStart, EdgesStart, AccountsAtFirst DEF SocialInit, CoreInv
<1>2. CoreInv /\ [SocialNext]_socialVars => CoreInv'
  <2> SUFFICES ASSUME CoreInv, [SocialNext]_socialVars PROVE CoreInv'
    OBVIOUS
  <2>1. IdInv'
    BY OnlyIdSteps, IdsStay DEF CoreInv
  <2>2. ActorsInv'
    BY <2>1, ActorsStay DEF CoreInv
  <2>3. EdgeInv'
    BY EdgesStay DEF CoreInv
  <2>4. AccountsInv'
    BY <2>2, AccountsStay DEF CoreInv, EdgeInv, GraphTypeOK
  <2> QED
    BY <2>1, <2>2, <2>3, <2>4 DEF CoreInv
<1> QED
  BY <1>1, <1>2, PTL DEF SocialSpec

\* Two accounts share a name only when two registrations looked it up before
\* either inserted, and an account without a document in the social graph is
\* one whose registration has not got there, or failed.
THEOREM AccountsAlwaysAgree == SocialSpec => []AccountsAgree
<1>1. CoreInv => AccountsAgree
  BY DEF CoreInv, AccountsInv
<1> QED
  BY <1>1, CoreAlways, PTL

\* Follows and unfollows leave the two documents of a pair in agreement,
\* however many of them overlap on other pairs and on their documents.
THEOREM EdgesAlwaysAgree == SocialSpec => []EdgesAgree
<1>1. CoreInv => EdgesAgree
  BY EdgesFollow DEF CoreInv
<1> QED
  BY <1>1, CoreAlways, PTL

\* What Redis shows of an unchanging pair is what the documents hold, through
\* every restart and every list that is filled again.
THEOREM RedisAlwaysMirrors == SocialSpec => []RedisMirrorsDocuments
<1>1. CoreInv => RedisMirrorsDocuments
  BY EdgesFollow DEF CoreInv
<1> QED
  BY <1>1, CoreAlways, PTL

-----------------------------------------------------------------------------
(* Delivery. *)

RedisKept == restarted \cap {"social-graph-redis", "home-timeline-redis"} = {}

\* What the delivery of a compose relies on.
Reliable(c) == RedisKept /\ c \notin misled

\* A follower that the author's list in Redis has, and keeps.
StaysFollower(v, u) ==
  /\ EditsUnderWay("unfollow", <<v, u>>) = {}
  /\ v \in cachedEdges["followers"][u]

Mentioned(c, v) ==
  IF compose[c].at = "parts" THEN v \in UsersOf(compose[c].names) ELSE v \in compose[c].mentions

Early == {"parts", "post", "stored", "user timeline"}

\* Where somebody a compose should reach is: among the mentioned, among the
\* followers that Redis has until they are read, and then in the answer.
WillReach(c, v) ==
  \/ Mentioned(c, v)
  \/ compose[c].at \in Early /\ StaysFollower(v, compose[c].user)
  \/ /\ compose[c].at = "followers"
     /\ \/ graphCall[c].todo = {"range"} /\ StaysFollower(v, compose[c].user)
        \/ graphCall[c].todo = {} /\ (v \in graphCall[c].answer \/ ~graphCall[c].ok)

Reached(c, v) ==
  \/ PostEntry(c) \in home[v] \/ ~timelineCall[c].ok
  \/ "deliver" \in timelineCall[c].todo /\ v \in timelineCall[c].to

\* A fan-out, as WriteHomeTimeline starts it and Deliver goes on with it.
FanOuts(c) ==
  [op : {"fan out"}, user : Users, start : {0}, stop : {0}, todo : SUBSET {"deliver"},
   entry : {PostEntry(c)}, page : {<<>>}, slice : {{}}, to : SUBSET Users, ok : BOOLEAN]

CallServed(c) ==
  /\ compose[c].at /= "idle" => c \in running
  /\ compose[c].at = "followers" =>
       graphCall[c].op = "followers" /\ graphCall[c].user = compose[c].user
  /\ compose[c].at = "home timelines" => timelineCall[c] \in FanOuts(c)
  /\ Reliable(c) => \A v \in owed[c] :
       /\ compose[c].at \in Early \cup {"followers"} => WillReach(c, v)
       /\ compose[c].at = "home timelines" => Reached(c, v)

ServedInv ==
  /\ running \subseteq Calls /\ owed \in [Calls -> SUBSET Users]
  /\ DOMAIN timelineCall = Calls /\ DOMAIN home = Users
  /\ \A c \in Calls : CallServed(c)

\* What no step takes back: calls that have started, entries of home
\* timelines while their server runs, accounts, and what is owed.
LEMMA RunningGrows ==
  [SocialNext]_socialVars => running \subseteq running' /\ running' \subseteq running \cup Calls
BY DEF SocialNext, Arrives, Works, Register, FollowByName, UnfollowByName, ReadGraph, Compose, Read,
       Starts, GraphWorks, MakesId, Accounts, RegistersInGraph, RegistrationStops, TimelinesWork,
       AsksForPosts, ReadsPosts, GetsPosts, ReadStops, TimelineStops, PushFails, ComposeWorks, ServersRestart,
       Clock, Finished, social, socialVars

LEMMA RestartsGrow ==
  ASSUME ActorsInv, FaultsTypeOK, [SocialNext]_socialVars
  PROVE  restarted \subseteq restarted' /\ misled \subseteq misled' /\ FaultsTypeOK'
<1>1. CASE GraphNext
  <2>1. ASSUME NEW c \in Calls, GraphStep(c)
        PROVE  restarted \subseteq restarted' /\ misled \subseteq misled' /\ FaultsTypeOK'
    <3>1. CommandFails(c) \/ CursorFails(c) \/ UNCHANGED faults
      BY <2>1 DEF GraphStep, PushEntry, PullEntry, CacheEntry, UncacheEntry, RangeList, FindList, FillList,
                  EditFails, FindFollowersErrs, GetFails
    <3> QED
      BY <3>1 DEF CommandFails, CursorFails, faults, FaultsTypeOK
  <2> QED
    BY <1>1, <2>1, ServicesAssumption
    DEF GraphNext, Follow, Unfollow, GetList, InsertUser, RestartGraphRedis, ServerRestarts, faults,
        FaultsTypeOK
<1> QED
  BY <1>1, GraphSteps

LEMMA AccountsGrow ==
  ASSUME ActorsInv, [SocialNext]_socialVars
  PROVE  \A names : UsersOf(names) \subseteq UsersOf(names)'
<1>1. CASE accounts' = accounts
  BY <1>1 DEF UsersOf
<1>2. ASSUME NEW c \in Calls, InsertAccount(c) PROVE \A names : UsersOf(names) \subseteq UsersOf(names)'
  <2>1. CASE accounts' # accounts
    <3>1. /\ Len(accounts) \in Nat
          /\ DOMAIN accounts = 1..Len(accounts) /\ DOMAIN accounts' = 1..(Len(accounts) + 1)
          /\ \A i \in 1..Len(accounts) : accounts'[i] = accounts[i]
      BY <1>2, <2>1, InsertAccountFacts
    <3>2. \A i \in DOMAIN accounts : i \in DOMAIN accounts' /\ accounts'[i] = accounts[i]
      BY <3>1
    <3> QED
      BY <3>2 DEF UsersOf
  <2> QED
    BY <1>1, <2>1
<1>3. ASSUME NEW c \in Calls, Arrives(c) PROVE accounts' = accounts
  BY <1>3 DEF Arrives, Register, RegisterUser, RegisterUserWithId, FollowByName, UnfollowByName,
              ReadGraph, Compose, Read, accountVars
<1>4. ASSUME NEW c \in Calls, Works(c), ~InsertAccount(c) PROVE accounts' = accounts
  <2>1. ASSUME ComposeWorks(c) PROVE accounts' = accounts
    BY <2>1, ComposeStays DEF ComposeWorks, accountVars
  <2>2. ASSUME ~ComposeWorks(c) PROVE accounts' = accounts
    BY <1>4, <2>2
    DEF Works, GraphWorks, MakesId, HaveId, RegistrationsLost, Accounts, LookUp, RegistersInGraph, InGraph,
        RegistrationStops, RegistrationFails, TimelinesWork, AsksForPosts, ReadsPosts, GetsPosts,
        ReadStops, TimelineStops, PushFails, accountVars
  <2> QED
    BY <2>1, <2>2
<1>5. ASSUME ServersRestart \/ Clock \/ Finished \/ UNCHANGED socialVars PROVE accounts' = accounts
  BY <1>5 DEF ServersRestart, Clock, Finished, socialVars, otherState, accountVars
<1> QED
  BY <1>1, <1>2, <1>3, <1>4, <1>5 DEF SocialNext

\* A step of a call leaves what the call is about as it was.
LEMMA GraphStepFacts ==
  ASSUME GraphTypeOK, OwnTasks, NEW c \in Calls, GraphStep(c)
  PROVE  \A d \in Calls :
           /\ graphCall'[d].op = graphCall[d].op /\ graphCall'[d].user = graphCall[d].user
           /\ graphCall'[d].other = graphCall[d].other
           /\ graphCall[d].op \in Edits => graphCall'[d].todo \subseteq graphCall[d].todo
           /\ d # c => graphCall'[d] = graphCall[d]
<1> DEFINE Kept == \A d \in Calls :
           /\ graphCall'[d].op = graphCall[d].op /\ graphCall'[d].user = graphCall[d].user
           /\ graphCall'[d].other = graphCall[d].other
           /\ graphCall[d].op \in Edits => graphCall'[d].todo \subseteq graphCall[d].todo
           /\ d # c => graphCall'[d] = graphCall[d]
<1>1. graphCall \in [Calls -> CallRecords]
  BY DEF GraphTypeOK, CallRecords
<1>2. ASSUME NEW t, TaskDone(c, t) PROVE Kept
  BY <1>1, <1>2 DEF TaskDone, CallRecords
<1>3. ASSUME NEW t, EditFails(c, t) PROVE Kept
  BY <1>1, <1>3 DEF EditFails, CallRecords
<1>4. ASSUME NEW s \in Sides, RangeList(c, s) PROVE Kept
  BY <1>1, <1>4 DEF RangeList, Answers, CallRecords, Edits, Sides
<1>5. ASSUME NEW s \in Sides, FindList(c, s) PROVE Kept
  BY <1>1, <1>5 DEF FindList, Answers, CallRecords, Edits, Sides
<1>6. ASSUME NEW s \in Sides, FillList(c, s) PROVE Kept
  BY <1>1, <1>6 DEF FillList, Answers, CallRecords, Edits, Sides
<1>7. ASSUME GetFails(c) \/ FindFollowersErrs(c) PROVE Kept
  BY <1>1, <1>7 DEF FindFollowersErrs, GetFails, Answers, CallRecords, Edits, Sides
<1> QED
  BY <1>2, <1>3, <1>4, <1>5, <1>6, <1>7
  DEF GraphStep, PushEntry, PullEntry, CacheEntry, UncacheEntry

\* A follower whose unfollow does not start stays one, while Redis runs.
LEMMA FollowerStays ==
  ASSUME EdgeInv, GraphNext \/ UNCHANGED graphState, NEW u \in Users, NEW v \in Users,
         StaysFollower(v, u), "social-graph-redis" \notin restarted',
         \A c \in Calls : ~Unfollow(c, v, u)
  PROVE  StaysFollower(v, u)'
<1>1. /\ v \in cachedEdges["followers"][u] /\ {"followers", "followees"} = Sides
      /\ \A c \in Calls : ~(GraphBusy(c) /\ graphCall[c].op = "unfollow" /\ Pair(c) = <<v, u>>)
  BY DEF StaysFollower, EditsUnderWay, Sides
<1>2. SUFFICES ASSUME \/ v \notin cachedEdges'["followers"][u]
                      \/ \E c \in Calls : (GraphBusy(c) /\ graphCall[c].op = "unfollow" /\ Pair(c) = <<v, u>>)'
               PROVE  FALSE
  BY DEF StaysFollower, EditsUnderWay
<1>3. GraphTypeOK /\ OwnTasks /\ cachedEdges \in [Sides -> [Users -> SUBSET Users]]
      /\ graphCall \in [Calls -> CallRecords]
  BY DEF EdgeInv, GraphTypeOK, CallRecords
<1>4. ASSUME NEW c \in Calls, NEW x \in Users, NEW y \in Users, Follow(c, x, y) PROVE FALSE
  <2>1. /\ \A d \in Calls : d # c => graphCall'[d] = graphCall[d]
        /\ graphCall'[c].op = "follow" /\ cachedEdges' = cachedEdges
    BY <1>3, <1>4, EditStartFacts DEF Follow, Edits, edgeStores
  <2> QED
    BY <1>1, <1>2, <2>1 DEF GraphBusy, Pair
<1>5. ASSUME NEW c \in Calls, NEW x \in Users, NEW y \in Users, Unfollow(c, x, y) PROVE FALSE
  <2>1. /\ \A d \in Calls : d # c => graphCall'[d] = graphCall[d]
        /\ graphCall'[c].user = x /\ graphCall'[c].other = y /\ cachedEdges' = cachedEdges
    BY <1>3, <1>5, EditStartFacts DEF Unfollow, Edits, edgeStores
  <2>2. <<x, y>> = <<v, u>>
    BY <1>1, <1>2, <2>1 DEF GraphBusy, Pair
  <2> QED
    BY <1>5, <2>2
<1>6. ASSUME NEW c \in Calls, NEW s \in Sides, NEW x \in Users, GetList(c, s, x) PROVE FALSE
  <2>1. Idle \in CallRecords
    BY IdleFacts DEF CallRecords
  <2>2. /\ \A d \in Calls : d # c => graphCall'[d] = graphCall[d]
        /\ graphCall'[c].op = s /\ cachedEdges' = cachedEdges
    BY <1>3, <1>6, <2>1 DEF GetList, edgeStores, CallRecords
  <2> QED
    BY <1>1, <1>2, <2>2 DEF GraphBusy, Pair
<1>7. ASSUME NEW c \in Calls, GraphStep(c) PROVE FALSE
  <2>1. \A d \in Calls :
          /\ graphCall'[d].op = graphCall[d].op /\ graphCall'[d].user = graphCall[d].user
          /\ graphCall'[d].other = graphCall[d].other
          /\ graphCall[d].op \in Edits => graphCall'[d].todo \subseteq graphCall[d].todo
    BY <1>7, GraphStepFacts DEF EdgeInv
  <2>2. v \notin cachedEdges'["followers"][u]
    BY <1>1, <1>2, <2>1 DEF GraphBusy, Pair, Edits
  <2>3. PICK s \in Sides : UncacheEntry(c, s)
    <3>1. cachedEdges' # cachedEdges
      BY <1>1, <2>2
    <3>2. ASSUME NEW s \in Sides, CacheEntry(c, s) PROVE FALSE
      BY <1>1, <1>3, <2>2, <3>2 DEF CacheEntry
    <3>3. ASSUME NEW s \in Sides, FillList(c, s) PROVE FALSE
      BY <1>1, <1>3, <2>2, <3>3 DEF FillList
    <3> QED
      BY <1>7, <3>1, <3>2, <3>3
      DEF GraphStep, PushEntry, PullEntry, RangeList, FindList, EditFails, FindFollowersErrs, GetFails, edgeStores
  <2> QED
    BY <1>1, <1>3, <2>2, <2>3 DEF UncacheEntry, CacheTurn, ListOwner, Entry, Pair, GraphBusy
<1>8. ASSUME NEW x \in Users, InsertUser(x) PROVE FALSE
  BY <1>1, <1>2, <1>8 DEF InsertUser, GraphBusy, Pair
<1>9. CASE RestartGraphRedis
  BY <1>9 DEF RestartGraphRedis, ServerRestarts
<1>10. CASE UNCHANGED graphState
  BY <1>1, <1>2, <1>10 DEF graphState, edgeStores, GraphBusy, Pair
<1> QED
  BY <1>4, <1>5, <1>6, <1>7, <1>8, <1>9, <1>10 DEF GraphNext

\* A step is of one call, and nobody else's records change.
LEMMA OwnRecords ==
  ASSUME ActorsInv, EdgeInv, DOMAIN timelineCall = Calls, NEW c \in Calls, Arrives(c) \/ Works(c)
  PROVE  /\ DOMAIN timelineCall' = Calls
         /\ \A d \in Calls : d # c => /\ compose'[d] = compose[d] /\ graphCall'[d] = graphCall[d]
                                      /\ timelineCall'[d] = timelineCall[d]
<1> DEFINE ComposeKept == \A d \in Calls : d # c => compose'[d] = compose[d]
           GraphKept == \A d \in Calls : d # c => graphCall'[d] = graphCall[d]
           TimelineKept == /\ DOMAIN timelineCall' = Calls
                           /\ \A d \in Calls : d # c => timelineCall'[d] = timelineCall[d]
<1>1. DOMAIN compose = Calls /\ DOMAIN graphCall = Calls
  BY GraphTypeFacts DEF ActorsInv, ComposeTypeOK, EdgeInv
<1>2. ASSUME UNCHANGED composeVars PROVE ComposeKept
  BY <1>2 DEF composeVars
<1>3. ASSUME UNCHANGED graphState PROVE GraphKept
  BY <1>3 DEF graphState
<1>4. ASSUME UNCHANGED timelineVars PROVE TimelineKept
  BY <1>4 DEF timelineVars
<1>5. ASSUME NEW u, NEW v, Follow(c, u, v) \/ Unfollow(c, u, v) PROVE GraphKept
  BY <1>1, <1>5 DEF Follow, Unfollow
<1>6. ASSUME NEW s, NEW u, GetList(c, s, u) PROVE GraphKept
  BY <1>1, <1>6 DEF GetList
<1>7. ASSUME GraphStep(c) PROVE GraphKept
  BY <1>7, GraphStepFacts DEF EdgeInv
<1>8. ASSUME NEW u, InsertUser(u) PROVE GraphKept
  BY <1>8 DEF InsertUser
<1>9. ASSUME NEW u, NEW names, StartCompose(c, u, names) PROVE ComposeKept
  BY <1>1, <1>9 DEF StartCompose
<1>10. ASSUME NEW op, NEW u, NEW start, NEW stop, ReadTimeline(c, op, u, start, stop) PROVE TimelineKept
  BY <1>10 DEF ReadTimeline
<1>11. ASSUME \/ TimelineWrites(c) \/ TimelineReads(c) \/ HavePosts(c)
              \/ TimelineFails(c) \/ FindTimelineErrs(c) \/ PushErrs(c)
       PROVE  TimelineKept
  BY <1>11 DEF TimelineWrites, PushPost, RepeatPush, CachePost, Deliver, TimelineReads, RangeTimeline, FindTimeline,
               FillTimeline, RangeHome, HavePosts, TimelineFails, FindTimelineErrs, PushErrs, Did
<1>12. ASSUME ComposeStep(c) PROVE ComposeKept /\ GraphKept /\ TimelineKept
  <2>1. ComposeKept
    BY <1>1, <1>12 DEF ComposeStep, HaveParts, MissMentions, UploadPost, UploadUserTimeline, UploadHomeTimeline,
                       WriteHomeTimeline, PartFails, Goto
  <2>2. GraphKept
    BY <1>3, <1>6, <1>12 DEF ComposeStep, HaveParts, MissMentions, UploadPost, UploadUserTimeline, UploadHomeTimeline,
                             WriteHomeTimeline, PartFails, graphAndAccounts
  <2>3. TimelineKept
    BY <1>4, <1>12 DEF ComposeStep, HaveParts, MissMentions, UploadPost, UploadUserTimeline, UploadHomeTimeline,
                       WriteHomeTimeline, PartFails, WriteUserTimeline, FanOut
  <2> QED
    BY <2>1, <2>2, <2>3
<1> HIDE DEF ComposeKept, GraphKept, TimelineKept
<1>13. ASSUME Arrives(c) PROVE ComposeKept /\ GraphKept /\ TimelineKept
  <2>1. CASE Register(c)
    BY <1>2, <1>3, <1>4, <2>1 DEF Register
  <2>2. CASE FollowByName(c) \/ UnfollowByName(c)
    BY <1>2, <1>3, <1>4, <1>5, <2>2 DEF FollowByName, UnfollowByName
  <2>3. CASE ReadGraph(c)
    BY <1>2, <1>4, <1>6, <2>3 DEF ReadGraph
  <2>4. CASE Compose(c)
    BY <1>3, <1>4, <1>9, <2>4 DEF Compose
  <2>5. CASE Read(c)
    BY <1>2, <1>3, <1>10, <2>5 DEF Read
  <2> QED
    BY <1>13, <2>1, <2>2, <2>3, <2>4, <2>5 DEF Arrives
<1>14. ASSUME Works(c) PROVE ComposeKept /\ GraphKept /\ TimelineKept
  <2>1. CASE GraphWorks(c)
    BY <1>2, <1>4, <1>7, <2>1 DEF GraphWorks
  <2>2. CASE MakesId(c) \/ Accounts(c) \/ RegistrationStops(c) \/ AsksForPosts(c) \/ ReadsPosts(c) \/ ReadStops(c)
    BY <1>2, <1>3, <1>4, <2>2 DEF MakesId, Accounts, RegistrationStops, AsksForPosts, ReadsPosts, ReadStops
  <2>3. CASE RegistersInGraph(c)
    BY <1>2, <1>3, <1>4, <1>8, <2>3 DEF RegistersInGraph
  <2>4. CASE TimelinesWork(c) \/ GetsPosts(c) \/ TimelineStops(c) \/ PushFails(c)
    BY <1>2, <1>3, <1>11, <2>4 DEF TimelinesWork, GetsPosts, TimelineStops, PushFails
  <2>5. CASE ComposeWorks(c)
    BY <1>12, <2>5 DEF ComposeWorks
  <2> QED
    BY <1>14, <2>1, <2>2, <2>3, <2>4, <2>5 DEF Works
<1> QED
  BY <1>13, <1>14 DEF ComposeKept, GraphKept, TimelineKept

\* What is owed only shrinks, but for the compose that starts, and shrinks by
\* those who unfollow.
LEMMA OwedShrinks ==
  ASSUME owed \in [Calls -> SUBSET Users], NEW d \in Calls, [SocialNext]_socialVars, ~Compose(d)
  PROVE  /\ owed'[d] \subseteq owed[d]
         /\ \A e \in Calls : UnfollowByName(e) => owed'[d] \subseteq owed[d] \ {v \in Users :
              compose[d].user = UserOf(Request(e).other) /\ v = UserOf(Request(e).name)
                /\ Taken(Request(e).name) /\ Taken(Request(e).other)}
<1>1. ASSUME NEW e \in Calls, Compose(e) PROVE owed'[d] \subseteq owed[d]
  BY <1>1 DEF Compose
<1>2. ASSUME NEW e \in Calls, UnfollowByName(e)
      PROVE  owed'[d] \subseteq owed[d] \ {v \in Users :
               compose[d].user = UserOf(Request(e).other) /\ v = UserOf(Request(e).name)
                 /\ Taken(Request(e).name) /\ Taken(Request(e).other)}
  BY <1>2 DEF UnfollowByName
<1>3. ASSUME NEW e \in Calls, Arrives(e), ~Compose(e), ~UnfollowByName(e) PROVE owed' = owed
  BY <1>3 DEF Arrives, Register, FollowByName, ReadGraph, Read
<1>4. ASSUME NEW e \in Calls, Works(e) PROVE owed' = owed
  BY <1>4 DEF Works, GraphWorks, MakesId, Accounts, RegistersInGraph, RegistrationStops, TimelinesWork,
              AsksForPosts, ReadsPosts, GetsPosts, ReadStops, TimelineStops, PushFails, ComposeWorks, social
<1>5. ASSUME ServersRestart \/ Clock \/ Finished \/ UNCHANGED socialVars PROVE owed' = owed
  BY <1>5 DEF ServersRestart, Clock, Finished, socialVars, social
<1> QED
  BY <1>1, <1>2, <1>3, <1>4, <1>5 DEF SocialNext

LEMMA OwedType ==
  ASSUME ActorsInv, owed \in [Calls -> SUBSET Users], [SocialNext]_socialVars
  PROVE  owed' \in [Calls -> SUBSET Users]
<1>1. ASSUME NEW c \in Calls, Compose(c) PROVE owed' \in [Calls -> SUBSET Users]
  <2>1. UsersOf(Request(c).names) \subseteq Users
    BY UserOfFacts DEF ActorsInv
  <2> QED
    BY <1>1, <2>1 DEF Compose
<1>2. ASSUME NEW c \in Calls, UnfollowByName(c) PROVE owed' \in [Calls -> SUBSET Users]
  BY <1>2 DEF UnfollowByName
<1>3. ASSUME ~\E c \in Calls : Compose(c) \/ UnfollowByName(c) PROVE owed' = owed
  BY <1>3 DEF SocialNext, Arrives, Register, FollowByName, ReadGraph, Read,
              Works, GraphWorks, MakesId, Accounts, RegistersInGraph, RegistrationStops, TimelinesWork,
              AsksForPosts, ReadsPosts, GetsPosts, ReadStops, TimelineStops, PushFails, ComposeWorks, social,
              ServersRestart, Clock, Finished, socialVars
<1> QED
  BY <1>1, <1>2, <1>3

LEMMA HomeGrows ==
  ASSUME ActorsInv, FaultsTypeOK, DOMAIN home = Users, [SocialNext]_socialVars
  PROVE  /\ DOMAIN home' = Users
         /\ "home-timeline-redis" \notin restarted' => \A u \in Users : home[u] \subseteq home'[u]
<1>1. CASE home' = home
  BY <1>1
<1>2. ASSUME NEW c \in Calls, NEW u \in Users, Deliver(c, u) PROVE DOMAIN home' = Users /\ \A v \in Users : home[v] \subseteq home'[v]
  BY <1>2 DEF Deliver
<1>3. CASE RestartHomeRedis
  BY <1>3 DEF RestartHomeRedis, ServerRestarts
<1>4. ASSUME NEW c \in Calls, Arrives(c) PROVE home' = home
  BY <1>4 DEF Arrives, Register, FollowByName, UnfollowByName, ReadGraph, Compose, Read, ReadTimeline,
              timelineVars, timelineStores
<1>5. ASSUME NEW c \in Calls, Works(c), ~\E u \in Users : Deliver(c, u) PROVE home' = home
  <2>1. ASSUME ComposeWorks(c) PROVE home' = home
    BY <2>1 DEF ComposeWorks, ComposeStep, HaveParts, MissMentions, UploadPost, UploadUserTimeline, UploadHomeTimeline,
                WriteHomeTimeline, PartFails, WriteUserTimeline, FanOut, timelineVars, timelineStores
  <2>2. ASSUME TimelinesWork(c) \/ GetsPosts(c) \/ TimelineStops(c) \/ PushFails(c) PROVE home' = home
    BY <1>5, <2>2 DEF TimelinesWork, GetsPosts, TimelineStops, PushFails, TimelineWrites, TimelineReads, PushPost, RepeatPush, CachePost,
                RangeTimeline, FindTimeline, FillTimeline, RangeHome, HavePosts, TimelineFails, FindTimelineErrs, PushErrs, timelineStores
  <2> QED
    BY <1>5, <2>1, <2>2 DEF Works, GraphWorks, MakesId, Accounts, RegistersInGraph, RegistrationStops,
                       AsksForPosts, ReadsPosts, ReadStops, timelineVars, timelineStores
<1>6. CASE ServersRestart \/ Clock \/ Finished \/ UNCHANGED socialVars
  <2>1. home' = home \/ RestartHomeRedis
    BY <1>6 DEF ServersRestart, Clock, Finished, socialVars, otherState, timelineVars, timelineStores,
                RestartTimelineRedis
  <2> QED
    BY <1>1, <1>3, <2>1
<1> QED
  BY <1>1, <1>2, <1>4, <1>5, <1>6 DEF SocialNext

\* Whoever is still owed a post has not just unfollowed its author.
LEMMA OwedStillFollow ==
  ASSUME ActorsInv, EdgeInv, DOMAIN timelineCall = Calls, owed \in [Calls -> SUBSET Users],
         [SocialNext]_socialVars, NEW d \in Calls, ~Compose(d), NEW v \in owed'[d], NEW u \in Users,
         u = compose[d].user
  PROVE  \A c \in Calls : ~Unfollow(c, v, u)
<1> SUFFICES ASSUME NEW c \in Calls, Unfollow(c, v, u) PROVE FALSE
  OBVIOUS
<1>1. GraphTypeOK /\ OwnTasks /\ v \in Users
  BY OwedType DEF EdgeInv
<1>2. /\ graphCall[c].op = "none" /\ graphCall'[c].op = "unfollow"
      /\ graphCall'[c].user = v /\ graphCall'[c].other = u
  BY <1>1, EditStartFacts DEF Unfollow, Edits
<1>3. ~(UNCHANGED graphState) /\ graphCall' # graphCall
  BY <1>2 DEF graphState
<1>4. ASSUME NEW x, NEW y, Follow(c, x, y) PROVE FALSE
  BY <1>1, <1>2, <1>4 DEF Follow, GraphTypeOK
<1>5. ASSUME NEW s \in Sides, NEW x, GetList(c, s, x) PROVE FALSE
  BY <1>1, <1>2, <1>5 DEF GetList, GraphTypeOK, Sides
<1>6. CASE UnfollowByName(c)
  <2>1. Taken(Request(c).name) /\ Taken(Request(c).other)
    BY <1>3, <1>6 DEF UnfollowByName
  <2> PICK x \in Users, y \in Users : x = UserOf(Request(c).name) /\ y = UserOf(Request(c).other)
    BY <2>1, UserOfFacts DEF ActorsInv
  <2>2. Unfollow(c, x, y)
    BY <1>6, <2>1 DEF UnfollowByName
  <2>3. x = v /\ y = u
    <3>1. graphCall' = [graphCall EXCEPT ![c] =
            [Idle EXCEPT !.op = "unfollow", !.user = x, !.other = y, !.todo = DocumentTasks \cup RedisTasks]]
      BY <2>2 DEF Unfollow
    <3>2. /\ [Idle EXCEPT !.op = "unfollow", !.user = x, !.other = y, !.todo = DocumentTasks \cup RedisTasks].user = x
          /\ [Idle EXCEPT !.op = "unfollow", !.user = x, !.other = y, !.todo = DocumentTasks \cup RedisTasks].other = y
      BY DEF Idle
    <3>3. graphCall'[c].user = x /\ graphCall'[c].other = y
      BY <1>1, <3>1, <3>2 DEF GraphTypeOK
    <3> QED
      BY <1>2, <3>3
  <2> QED
    BY <1>1, <1>6, <2>1, <2>3, OwedShrinks
<1>7. CASE Arrives(c)
  BY <1>3, <1>4, <1>5, <1>6, <1>7 DEF Arrives, Register, FollowByName, ReadGraph, Compose, Read
<1>8. CASE Works(c)
  <2>1. CASE GraphWorks(c)
    BY <1>1, <1>2, <2>1, GraphStepFacts DEF GraphWorks
  <2>2. CASE RegistersInGraph(c)
    BY <1>3, <2>2 DEF RegistersInGraph, InsertUser
  <2>3. CASE ComposeWorks(c)
    BY <1>3, <1>5, <2>3 DEF ComposeWorks, ComposeStep, HaveParts, MissMentions, UploadPost, UploadUserTimeline,
                            UploadHomeTimeline, WriteHomeTimeline, PartFails, graphAndAccounts, Sides
  <2> QED
    BY <1>3, <1>8, <2>1, <2>2, <2>3
    DEF Works, MakesId, Accounts, RegistrationStops, TimelinesWork, AsksForPosts, ReadsPosts, GetsPosts,
        ReadStops, TimelineStops, PushFails
<1>9. CASE ServersRestart \/ Clock \/ Finished \/ UNCHANGED socialVars
  BY <1>3, <1>9 DEF ServersRestart, RestartGraphRedis, Clock, Finished, socialVars, otherState
<1>10. ASSUME NEW e \in Calls, e # c, Arrives(e) \/ Works(e) PROVE FALSE
  BY <1>2, <1>10, OwnRecords
<1> QED
  BY <1>7, <1>8, <1>9, <1>10 DEF SocialNext

\* What a step keeps of a compose.
LEMMA FollowerKept ==
  ASSUME ActorsInv, EdgeInv, DOMAIN timelineCall = Calls, owed \in [Calls -> SUBSET Users],
         [SocialNext]_socialVars, NEW d \in Calls, ~Compose(d), NEW v \in owed'[d], NEW u \in Users,
         u = compose[d].user, StaysFollower(v, u), RedisKept'
  PROVE  StaysFollower(v, u)'
<1>1. v \in Users /\ \A c \in Calls : ~Unfollow(c, v, u)
  BY OwedType, OwedStillFollow
<1>2. GraphNext \/ UNCHANGED graphState
  BY GraphSteps DEF EdgeInv, GraphTypeOK
<1>3. "social-graph-redis" \notin restarted'
  BY DEF RedisKept
<1> QED
  BY <1>1, <1>2, <1>3, FollowerStays

LEMMA MentionKept ==
  ASSUME ActorsInv, [SocialNext]_socialVars, NEW d \in Calls, NEW v, Mentioned(d, v),
         compose'[d].names = compose[d].names, compose'[d].mentions = compose[d].mentions,
         compose[d].at = "parts" <=> compose'[d].at = "parts"
  PROVE  Mentioned(d, v)'
<1> PICK names : names = compose[d].names
  OBVIOUS
<1>1. v \in UsersOf(names) => v \in UsersOf(names)'
  BY AccountsGrow
<1>2. UsersOf(compose[d].names) = UsersOf(names) /\ UsersOf(compose[d].names)' = UsersOf(names)'
  BY DEF UsersOf
<1> QED
  BY <1>1, <1>2 DEF Mentioned

LEMMA ServedKept ==
  ASSUME ActorsInv, EdgeInv, ServedInv, [SocialNext]_socialVars, NEW d \in Calls, ~Compose(d),
         compose'[d] = compose[d],
         compose[d].at = "followers" => graphCall'[d] = graphCall[d],
         compose[d].at = "home timelines" => timelineCall'[d] = timelineCall[d]
  PROVE  CallServed(d)'
<1>1. /\ owed \in [Calls -> SUBSET Users] /\ DOMAIN timelineCall = Calls /\ DOMAIN home = Users
      /\ CallServed(d) /\ FaultsTypeOK /\ compose[d].user \in Users
  BY DEF ServedInv, EdgeInv, GraphTypeOK, ActorsInv, ComposeTypeOK
<1>2. owed'[d] \subseteq owed[d] /\ owed'[d] \subseteq Users /\ running \subseteq running'
  BY <1>1, OwedShrinks, OwedType, RunningGrows
<1>3. Reliable(d)' => Reliable(d) /\ RedisKept' /\ \A v \in Users : home[v] \subseteq home'[v]
  BY <1>1, RestartsGrow, HomeGrows DEF RedisKept, Reliable
<1>4. PostEntry(d)' = PostEntry(d)
  BY DEF PostEntry
<1>5. compose'[d].at /= "idle" => d \in running'
  BY <1>1, <1>2 DEF CallServed
<1>6. compose'[d].at = "followers" =>
        graphCall'[d].op = "followers" /\ graphCall'[d].user = compose'[d].user
  BY <1>1 DEF CallServed
<1>7. compose'[d].at = "home timelines" => timelineCall'[d] \in FanOuts(d)'
  BY <1>1, <1>4 DEF CallServed, FanOuts
<1>8. ASSUME Reliable(d)', NEW v \in owed'[d]
      PROVE  /\ compose'[d].at \in Early \cup {"followers"} => WillReach(d, v)'
             /\ compose'[d].at = "home timelines" => Reached(d, v)'
  <2> PICK u \in Users : u = compose[d].user
    BY <1>1
  <2>1. StaysFollower(v, u) => StaysFollower(v, u)'
    BY <1>1, <1>3, <1>8, FollowerKept
  <2>2. /\ StaysFollower(v, compose[d].user) <=> StaysFollower(v, u)
        /\ StaysFollower(v, u)' => StaysFollower(v, compose[d].user)'
    BY DEF StaysFollower, EditsUnderWay
  <2>3. Mentioned(d, v) => Mentioned(d, v)'
    BY MentionKept
  <2>4. v \in owed[d] /\ Reliable(d)
    BY <1>2, <1>3, <1>8
  <2>5. ASSUME compose'[d].at \in Early \cup {"followers"} PROVE WillReach(d, v)'
    <3>1. WillReach(d, v)
      BY <1>1, <2>4, <2>5 DEF CallServed
    <3> QED
      BY <2>1, <2>2, <2>3, <3>1 DEF WillReach, Early
  <2>6. ASSUME compose'[d].at = "home timelines" PROVE Reached(d, v)'
    <3>1. Reached(d, v)
      BY <1>1, <2>4, <2>6 DEF CallServed
    <3> QED
      BY <1>2, <1>3, <1>4, <1>8, <2>6, <3>1 DEF Reached
  <2> QED
    BY <2>5, <2>6
<1> QED
  BY <1>5, <1>6, <1>7, <1>8 DEF CallServed

\* A compose starts: Redis has every follower the documents have.
LEMMA ComposeStartServed ==
  ASSUME ActorsInv, EdgeInv, ServedInv, [SocialNext]_socialVars, NEW d \in Calls, Compose(d)
  PROVE  CallServed(d)'
<1>1. Request(d).user \in Users /\ Starts(d, "compose")
  BY RequestFacts DEF Compose, ActorsInv
<1> PICK u \in Users : u = Request(d).user
  BY <1>1
<1> PICK names : names = Request(d).names
  OBVIOUS
<1>2. /\ compose'[d].at = "parts" /\ compose'[d].user = u /\ compose'[d].names = names
      /\ owed'[d] = UsersOf(names) \cup {v \in Users : <<v, u>> \in wanted \ crossed /\ PairQuiet(v, u)}
      /\ UNCHANGED <<graphState, accountVars, faults>>
  <2>1. DOMAIN compose = Calls /\ DOMAIN owed = Calls
    BY DEF ActorsInv, ComposeTypeOK, ServedInv
  <2>2. StartCompose(d, u, names)
    BY DEF Compose
  <2>3. owed' = [owed EXCEPT ![d] = UsersOf(names) \cup
                   {v \in Users : <<v, u>> \in wanted \ crossed /\ PairQuiet(v, u)}]
    BY DEF Compose, UsersOf
  <2> QED
    BY <2>1, <2>2, <2>3 DEF StartCompose, Compose
<1>3. ASSUME Reliable(d)', NEW v \in owed'[d] PROVE WillReach(d, v)'
  <2>1. CASE v \in UsersOf(names)
    <3>1. v \in UsersOf(compose[d].names)'
      BY <1>2, <2>1 DEF UsersOf, accountVars
    <3> QED
      BY <1>2, <3>1 DEF WillReach, Mentioned
  <2>2. CASE v \notin UsersOf(names)
    <3>1. v \in Users /\ <<v, u>> \in wanted \ crossed /\ PairQuiet(v, u)
      BY <1>2, <1>3, <2>2
    <3>2. RedisComplete("followers", v, u) /\ "followers" \in Sides
      BY <3>1 DEF EdgeInv, PairAgrees, Sides
    <3>3. ~RedisTaskLeft("followers", v, u)
      BY <3>1 DEF RedisTaskLeft, Editing, PairQuiet, EditsUnderWay
    <3>4. "social-graph-redis" \notin restarted
      BY <1>2, <1>3 DEF RedisKept, Reliable, faults
    <3>5. v \in cachedEdges["followers"][u] /\ EditsUnderWay("unfollow", <<v, u>>) = {}
      BY <3>1, <3>2, <3>3, <3>4 DEF RedisComplete, InRedis, Own, Other, Wanted, PairQuiet, Edits
    <3>6. StaysFollower(v, compose[d].user)'
      BY <1>2, <3>5 DEF StaysFollower, EditsUnderWay, GraphBusy, Pair, graphState, edgeStores
    <3> QED
      BY <1>2, <3>6 DEF WillReach, Early
  <2> QED
    BY <2>1, <2>2
<1>4. d \in running'
  BY <1>1 DEF Starts
<1> QED
  BY <1>2, <1>3, <1>4 DEF CallServed

\* The steps of the compose itself, up to its fan-out.
LEMMA ComposeStepServed ==
  ASSUME ActorsInv, EdgeInv, ServedInv, [SocialNext]_socialVars, NEW d \in Calls, ComposeWorks(d)
  PROVE  CallServed(d)'
<1>1. /\ owed \in [Calls -> SUBSET Users] /\ DOMAIN timelineCall = Calls /\ CallServed(d)
      /\ ComposeTypeOK /\ compose[d].user \in Users /\ UNCHANGED social /\ ComposeStep(d)
  BY DEF ServedInv, ActorsInv, ComposeTypeOK, ComposeWorks
<1> PICK u \in Users : u = compose[d].user
  BY <1>1
<1>2. /\ compose'[d].user = u /\ compose'[d].time = compose[d].time /\ compose'[d].names = compose[d].names
      /\ compose[d].at # "idle"
  BY <1>1 DEF ComposeStep, HaveParts, MissMentions, UploadPost, UploadUserTimeline, UploadHomeTimeline, WriteHomeTimeline,
              PartFails, Goto, ComposeTypeOK
<1>3. d \in running /\ running' = running /\ owed' = owed /\ ~Compose(d)
  BY <1>1, <1>2 DEF CallServed, social, Compose, StartCompose
<1>4. Reliable(d)' => Reliable(d) /\ RedisKept'
  BY RestartsGrow DEF RedisKept, Reliable, EdgeInv, GraphTypeOK
<1>5. ASSUME NEW v \in owed'[d], Reliable(d)', StaysFollower(v, compose[d].user)
      PROVE  StaysFollower(v, compose[d].user)'
  <2>1. StaysFollower(v, u)
    BY <1>5 DEF StaysFollower, EditsUnderWay
  <2>2. StaysFollower(v, u)'
    BY <1>1, <1>3, <1>4, <1>5, <2>1, FollowerKept
  <2> QED
    BY <1>2, <2>2 DEF StaysFollower, EditsUnderWay
<1>6. CASE HaveParts(d)
  <2>1. /\ compose[d].at = "parts" /\ compose'[d].at = "post"
        /\ compose'[d].mentions = UsersOf(compose[d].names)
    BY <1>1, <1>6 DEF HaveParts, MissMentions, ComposeTypeOK
  <2>2. \A v : Mentioned(d, v) => Mentioned(d, v)'
    BY <2>1 DEF Mentioned
  <2> QED
    BY <1>1, <1>3, <1>4, <1>5, <2>1, <2>2 DEF CallServed, WillReach, Early
<1>7. CASE PartFails(d)
  <2>1. compose'[d].at = "failed"
    BY <1>1, <1>7 DEF PartFails, Goto, ComposeTypeOK
  <2> QED
    BY <1>3, <2>1 DEF CallServed, Early
<1>8. CASE UploadPost(d) \/ UploadUserTimeline(d)
  <2>1. /\ compose[d].at \in Early \ {"parts"} /\ compose'[d].at \in Early \ {"parts"}
        /\ compose'[d].mentions = compose[d].mentions
    BY <1>1, <1>8 DEF UploadPost, UploadUserTimeline, Goto, ComposeTypeOK, Early
  <2>2. \A v : Mentioned(d, v) => Mentioned(d, v)'
    BY <2>1 DEF Mentioned
  <2> QED
    BY <1>1, <1>3, <1>4, <1>5, <2>1, <2>2 DEF CallServed, WillReach, Early
<1>9. CASE UploadHomeTimeline(d)
  <2>1. /\ compose[d].at = "user timeline" /\ compose'[d].at = "followers"
        /\ compose'[d].mentions = compose[d].mentions
    BY <1>1, <1>9 DEF UploadHomeTimeline, Goto, ComposeTypeOK
  <2>2. graphCall'[d].op = "followers" /\ graphCall'[d].user = u /\ graphCall'[d].todo = {"range"}
    BY <1>9, IdleFacts DEF UploadHomeTimeline, GetList, EdgeInv, GraphTypeOK, Idle
  <2>3. \A v : Mentioned(d, v) => Mentioned(d, v)'
    BY <2>1 DEF Mentioned
  <2> QED
    BY <1>1, <1>2, <1>3, <1>4, <1>5, <2>1, <2>2, <2>3 DEF CallServed, WillReach, Early
<1>10. CASE WriteHomeTimeline(d)
  <2>1. /\ compose[d].at = "followers" /\ compose'[d].at = "home timelines"
        /\ graphCall[d].todo = {} /\ graphCall[d].ok
        /\ FanOut(d, u, PostEntry(d), graphCall[d].answer \cup compose[d].mentions)
    BY <1>1, <1>10 DEF WriteHomeTimeline, Goto, ComposeTypeOK, GraphBusy
  <2> PICK to \in SUBSET Users : to = graphCall[d].answer \cup compose[d].mentions
    BY <1>1, GraphTypeFacts DEF EdgeInv, ComposeTypeOK
  <2> PICK entry : entry = PostEntry(d)
    OBVIOUS
  <2>2. entry = PostEntry(d)'
    BY <1>2 DEF PostEntry
  <2> DEFINE call == [NoTimelineCall EXCEPT !.op = "fan out", !.user = u, !.entry = entry, !.to = to,
                                            !.todo = IF to = {} THEN {} ELSE {"deliver"}]
  <2>3. timelineCall'[d] = call
    BY <1>1, <2>1 DEF FanOut
  <2>4. /\ call.to = to /\ call.todo = IF to = {} THEN {} ELSE {"deliver"}
        /\ call \in [op : {"fan out"}, user : Users, start : {0}, stop : {0}, todo : SUBSET {"deliver"},
                     entry : {entry}, page : {<<>>}, slice : {{}}, to : SUBSET Users, ok : BOOLEAN]
    BY DEF NoTimelineCall
  <2> HIDE DEF call
  <2>5. timelineCall'[d] \in FanOuts(d)'
    BY <2>2, <2>3, <2>4 DEF FanOuts
  <2>6. ASSUME Reliable(d)', NEW v \in owed'[d] PROVE Reached(d, v)'
    <3>1. WillReach(d, v)
      BY <1>1, <1>3, <1>4, <2>1, <2>6 DEF CallServed
    <3>2. v \in to
      BY <2>1, <3>1 DEF WillReach, Mentioned, Early
    <3> QED
      BY <2>3, <2>4, <3>2 DEF Reached
  <2> QED
    BY <1>3, <2>1, <2>5, <2>6 DEF CallServed, Early
<1>11. CASE MissMentions(d)
  <2>1. compose'[d].at = "post"
    BY <1>1, <1>11 DEF MissMentions, ComposeTypeOK
  <2>2. ~Reliable(d)'
    BY <1>11 DEF MissMentions, CursorFails, Reliable
  <2> QED
    BY <1>3, <2>1, <2>2 DEF CallServed
<1> QED
  BY <1>1, <1>6, <1>7, <1>8, <1>9, <1>10, <1>11 DEF ComposeStep

\* The social graph service answers with what Redis has of the followers.
LEMMA AskStepServed ==
  ASSUME ActorsInv, EdgeInv, ServedInv, [SocialNext]_socialVars, NEW d \in Calls, GraphWorks(d),
         compose[d].at = "followers"
  PROVE  CallServed(d)'
<1>1. /\ owed \in [Calls -> SUBSET Users] /\ DOMAIN timelineCall = Calls /\ CallServed(d)
      /\ ComposeTypeOK /\ compose[d].user \in Users /\ UNCHANGED social /\ UNCHANGED composeVars
      /\ GraphStep(d) /\ GraphTypeOK /\ OwnTasks
  BY DEF ServedInv, ActorsInv, ComposeTypeOK, GraphWorks, EdgeInv
<1> PICK u \in Users : u = compose[d].user
  BY <1>1
<1>2. /\ d \in running' /\ owed' = owed /\ compose' = compose
      /\ graphCall[d].op = "followers" /\ graphCall[d].user = u
      /\ graphCall'[d].op = "followers" /\ graphCall'[d].user = compose'[d].user
  BY <1>1, GraphStepFacts DEF CallServed, social, composeVars
<1>3. Reliable(d)' => Reliable(d)
  BY RestartsGrow DEF RedisKept, Reliable, EdgeInv, GraphTypeOK
<1>4. \/ RangeList(d, "followers") \/ FindList(d, "followers") \/ FillList(d, "followers")
      \/ GetFails(d) \/ FindFollowersErrs(d)
  BY <1>1, <1>2 DEF GraphStep, PushEntry, PullEntry, CacheEntry, UncacheEntry, RangeList, FindList, FillList,
                    EditFails, Edits, Sides
<1>5. ASSUME Reliable(d)', NEW v \in owed'[d] PROVE WillReach(d, v)'
  <2>0. ~FindFollowersErrs(d)
    BY <1>5 DEF FindFollowersErrs, CursorFails, Reliable
  <2>1. WillReach(d, v)
    BY <1>1, <1>2, <1>3, <1>5 DEF CallServed
  <2>2. CASE Mentioned(d, v)
    BY <1>2, <2>2 DEF WillReach, Mentioned
  <2>3. CASE ~Mentioned(d, v)
    <3>1. graphCall[d].todo = {"range"} /\ v \in cachedEdges["followers"][u]
      BY <1>2, <1>4, <2>0, <2>1, <2>3
      DEF WillReach, Early, StaysFollower, RangeList, FindList, FillList, GetFails, GraphBusy
    <3>2. CASE RangeList(d, "followers")
      <4>1. Answers(d, cachedEdges["followers"][u], TRUE)
        BY <1>2, <3>1, <3>2 DEF RangeList
      <4>2. graphCall'[d].todo = {} /\ graphCall'[d].answer = cachedEdges["followers"][u]
        BY <1>1, <4>1 DEF Answers, GraphTypeOK
      <4> QED
        BY <1>2, <3>1, <4>2 DEF WillReach
    <3>3. CASE GetFails(d)
      <4>1. graphCall'[d].todo = {} /\ ~graphCall'[d].ok
        BY <1>1, <3>3 DEF FindFollowersErrs, GetFails, Answers, GraphTypeOK
      <4> QED
        BY <1>2, <4>1 DEF WillReach
    <3> QED
      BY <1>4, <2>0, <3>1, <3>2, <3>3 DEF FindList, FillList
  <2> QED
    BY <2>2, <2>3
<1> QED
  BY <1>2, <1>5 DEF CallServed

\* The entries are written one by one, or the pipeline fails.
LEMMA FanOutStepServed ==
  ASSUME ActorsInv, EdgeInv, ServedInv, [SocialNext]_socialVars, NEW d \in Calls,
         compose[d].at = "home timelines",
         (\E x \in Users : Deliver(d, x) /\ UNCHANGED <<social, faults>>)
           \/ (TimelineFails(d) /\ UNCHANGED <<running, owed>>),
         UNCHANGED composeVars
  PROVE  CallServed(d)'
<1>1. /\ owed \in [Calls -> SUBSET Users] /\ DOMAIN timelineCall = Calls /\ DOMAIN home = Users
      /\ CallServed(d) /\ UNCHANGED <<running, owed>> /\ compose' = compose
  BY DEF ServedInv, social, composeVars
<1>2. d \in running' /\ compose'[d].at = "home timelines" /\ owed'[d] = owed[d]
  BY <1>1 DEF CallServed
<1> PICK entry : entry = PostEntry(d)
  OBVIOUS
<1>3. PostEntry(d)' = entry
  BY <1>1 DEF PostEntry
<1> PICK call : call = timelineCall[d]
  OBVIOUS
<1>4. /\ call \in [op : {"fan out"}, user : Users, start : {0}, stop : {0}, todo : SUBSET {"deliver"},
                   entry : {entry}, page : {<<>>}, slice : {{}}, to : SUBSET Users, ok : BOOLEAN]
      /\ call.entry = entry /\ call.todo \subseteq {"deliver"}
  BY <1>1 DEF CallServed, FanOuts
<1>5. Reliable(d)' => Reliable(d)
  BY RestartsGrow DEF RedisKept, Reliable, EdgeInv, GraphTypeOK
<1>6. Reliable(d) => \A v \in owed[d] :
        entry \in home[v] \/ ~call.ok \/ ("deliver" \in call.todo /\ v \in call.to)
  <2> SUFFICES ASSUME Reliable(d), NEW v \in owed[d]
               PROVE  entry \in home[v] \/ ~call.ok \/ ("deliver" \in call.todo /\ v \in call.to)
    OBVIOUS
  <2>1. Reached(d, v)
    BY <1>1 DEF CallServed
  <2>2. PostEntry(d) \in home[v] \/ ~timelineCall[d].ok
          \/ ("deliver" \in timelineCall[d].todo /\ v \in timelineCall[d].to)
    BY <2>1 DEF Reached
  <2> QED
    BY <1>4, <2>2
<1>7. ASSUME NEW x \in Users, Deliver(d, x) PROVE CallServed(d)'
  <2> DEFINE new == [call EXCEPT !.to = @ \ {x}, !.todo = IF call.to = {x} THEN {} ELSE @]
  <2>1. timelineCall'[d] = new
    BY <1>1, <1>7 DEF Deliver
  <2>2. home' = [home EXCEPT ![x] = @ \cup {entry}]
    BY <1>4, <1>7 DEF Deliver
  <2>3. /\ new \in [op : {"fan out"}, user : Users, start : {0}, stop : {0}, todo : SUBSET {"deliver"},
                    entry : {entry}, page : {<<>>}, slice : {{}}, to : SUBSET Users, ok : BOOLEAN]
        /\ new.to = call.to \ {x} /\ new.todo = IF call.to = {x} THEN {} ELSE call.todo
        /\ new.ok = call.ok
    BY <1>4
  <2> HIDE DEF new
  <2>4. ASSUME Reliable(d)', NEW v \in owed'[d] PROVE Reached(d, v)'
    <3>1. entry \in home[v] \/ ~call.ok \/ ("deliver" \in call.todo /\ v \in call.to)
      BY <1>2, <1>5, <1>6, <2>4
    <3>2. v \in Users
      BY <1>1, <1>2, <2>4
    <3>3. entry \in home'[v] \/ ~new.ok \/ ("deliver" \in new.todo /\ v \in new.to)
      <4>1. home[v] \subseteq home'[v] /\ (v = x => entry \in home'[v])
        BY <1>1, <2>2, <3>2
      <4>2. CASE entry \in home[v] \/ ~call.ok
        BY <1>4, <2>3, <4>1, <4>2
      <4>3. CASE "deliver" \in call.todo /\ v \in call.to
        BY <1>4, <2>3, <4>1, <4>3
      <4> QED
        BY <3>1, <4>2, <4>3
    <3> QED
      BY <1>3, <2>1, <3>3 DEF Reached
  <2> QED
    BY <1>2, <1>3, <2>1, <2>3, <2>4 DEF CallServed, FanOuts, Early
<1>8. CASE TimelineFails(d)
  <2> DEFINE new == [call EXCEPT !.todo = @ \cap {"posts"}, !.ok = FALSE]
  <2>1. timelineCall'[d] = new
    BY <1>1, <1>8 DEF TimelineFails, FindTimelineErrs, PushErrs
  <2>2. /\ new \in [op : {"fan out"}, user : Users, start : {0}, stop : {0}, todo : SUBSET {"deliver"},
                    entry : {entry}, page : {<<>>}, slice : {{}}, to : SUBSET Users, ok : BOOLEAN]
        /\ new.ok = FALSE
    BY <1>4
  <2> HIDE DEF new
  <2> QED
    BY <1>2, <1>3, <2>1, <2>2 DEF CallServed, FanOuts, Reached, Early
<1> QED
  BY <1>7, <1>8

\* Nothing else happens to a compose that writes home timelines.
LEMMA OtherStepsOfACall ==
  ASSUME ActorsInv, EdgeInv, ServedInv, NEW d \in Calls, Arrives(d) \/ Works(d)
  PROVE  \/ Compose(d) \/ ComposeWorks(d)
         \/ GraphWorks(d) /\ compose[d].at = "followers"
         \/ /\ compose[d].at = "home timelines" /\ UNCHANGED composeVars
            /\ \/ \E x \in Users : Deliver(d, x) /\ UNCHANGED <<social, faults>>
               \/ TimelineFails(d) /\ UNCHANGED <<running, owed>>
         \/ /\ compose'[d] = compose[d]
            /\ compose[d].at = "followers" => graphCall'[d] = graphCall[d]
            /\ compose[d].at = "home timelines" => timelineCall'[d] = timelineCall[d]
<1> SUFFICES ASSUME ~Compose(d), ~ComposeWorks(d),
                    ~(GraphWorks(d) /\ compose[d].at = "followers"),
                    ~(/\ compose[d].at = "home timelines" /\ UNCHANGED composeVars
                      /\ \/ \E x \in Users : Deliver(d, x) /\ UNCHANGED <<social, faults>>
                         \/ TimelineFails(d) /\ UNCHANGED <<running, owed>>)
             PROVE  /\ compose'[d] = compose[d]
                    /\ compose[d].at = "followers" => graphCall'[d] = graphCall[d]
                    /\ compose[d].at = "home timelines" => timelineCall'[d] = timelineCall[d]
  OBVIOUS
<1>1. CallServed(d)
  BY DEF ServedInv
<1>2. UNCHANGED composeVars
  BY DEF Arrives, Register, FollowByName, UnfollowByName, ReadGraph, Read, Works, GraphWorks, MakesId,
         Accounts, RegistersInGraph, RegistrationStops, TimelinesWork, AsksForPosts, ReadsPosts, GetsPosts,
         ReadStops, TimelineStops, PushFails
<1>3. CASE Arrives(d)
  <2>1. d \notin running
    BY <1>3 DEF Arrives, Register, FollowByName, UnfollowByName, ReadGraph, Compose, Read, Starts
  <2> QED
    BY <1>1, <1>2, <2>1 DEF CallServed, composeVars
<1>4. CASE Works(d)
  <2>1. ASSUME compose[d].at = "followers" PROVE graphCall' = graphCall
    BY <1>4, <2>1 DEF Works, MakesId, Accounts, RegistersInGraph, InsertUser, RegistrationStops,
                      TimelinesWork, AsksForPosts, ReadsPosts, GetsPosts, ReadStops, TimelineStops, PushFails, graphState
  <2>2. ASSUME compose[d].at = "home timelines" PROVE timelineCall' = timelineCall
    <3>1. timelineCall[d].op = "fan out" /\ timelineCall[d].todo \subseteq {"deliver"}
      BY <1>1, <2>2 DEF CallServed, FanOuts
    <3>2. ~TimelinesWork(d)
      BY <1>2, <2>2, <3>1 DEF TimelinesWork, TimelineWrites, TimelineReads, PushPost, RepeatPush, CachePost, RangeTimeline,
                              FindTimeline, FillTimeline, RangeHome, At
    <3>3. ~GetsPosts(d) /\ ~TimelineStops(d) /\ ~PushFails(d)
      BY <1>2, <2>2, <3>1 DEF GetsPosts, HavePosts, TimelineStops, PushFails, FindTimelineErrs, PushErrs, At
    <3> QED
      BY <1>4, <3>2, <3>3 DEF Works, GraphWorks, MakesId, Accounts, RegistersInGraph, RegistrationStops,
                              AsksForPosts, ReadsPosts, ReadStops, timelineVars
  <2> QED
    BY <1>2, <2>1, <2>2 DEF composeVars
<1> QED
  BY <1>3, <1>4

LEMMA ServedStays == CoreInv /\ ServedInv /\ [SocialNext]_socialVars => ServedInv'
<1> SUFFICES ASSUME ActorsInv, EdgeInv, ServedInv, [SocialNext]_socialVars PROVE ServedInv'
  BY DEF CoreInv
<1>1. /\ owed \in [Calls -> SUBSET Users] /\ DOMAIN timelineCall = Calls /\ DOMAIN home = Users
      /\ FaultsTypeOK
  BY DEF ServedInv, EdgeInv, GraphTypeOK
<1>2. owed' \in [Calls -> SUBSET Users] /\ DOMAIN home' = Users /\ running' \subseteq Calls
  BY <1>1, OwedType, HomeGrows, RunningGrows DEF ServedInv
<1>3. CASE \E c \in Calls : Arrives(c) \/ Works(c)
  <2> PICK c \in Calls : Arrives(c) \/ Works(c)
    BY <1>3
  <2>1. ASSUME NEW d \in Calls PROVE CallServed(d)'
    <3>1. CASE d # c /\ ~Compose(d)
      BY <1>1, <3>1, OwnRecords, ServedKept
    <3>2. CASE Compose(d)
      BY <3>2, ComposeStartServed
    <3>3. CASE d = c /\ ~Compose(d)
      <4>1. CASE ComposeWorks(d)
        BY <4>1, ComposeStepServed
      <4>2. CASE GraphWorks(d) /\ compose[d].at = "followers"
        BY <4>2, AskStepServed
      <4>3. CASE /\ compose[d].at = "home timelines" /\ UNCHANGED composeVars
                 /\ \/ \E x \in Users : Deliver(d, x) /\ UNCHANGED <<social, faults>>
                    \/ TimelineFails(d) /\ UNCHANGED <<running, owed>>
        <5>1. ASSUME NEW x \in Users, Deliver(d, x), UNCHANGED <<social, faults>> PROVE CallServed(d)'
          BY <4>3, <5>1, FanOutStepServed
        <5>2. ASSUME TimelineFails(d), UNCHANGED <<running, owed>> PROVE CallServed(d)'
          BY <4>3, <5>2, FanOutStepServed
        <5> QED
          BY <4>3, <5>1, <5>2
      <4>4. CASE /\ compose'[d] = compose[d]
                 /\ compose[d].at = "followers" => graphCall'[d] = graphCall[d]
                 /\ compose[d].at = "home timelines" => timelineCall'[d] = timelineCall[d]
        BY <3>3, <4>4, ServedKept
      <4>5. Arrives(d) \/ Works(d)
        BY <3>3
      <4> QED
        BY <3>3, <4>1, <4>2, <4>3, <4>4, <4>5, OtherStepsOfACall
    <3> QED
      BY <3>1, <3>2, <3>3
  <2> QED
    BY <1>1, <1>2, <2>1, OwnRecords DEF ServedInv
<1>4. CASE ServersRestart \/ Clock \/ Finished \/ UNCHANGED socialVars
  <2>1. UNCHANGED <<running, compose, graphCall, timelineCall>>
    BY <1>4 DEF ServersRestart, RestartGraphRedis, RestartHomeRedis, RestartTimelineRedis, Clock, Finished,
                socialVars, social, otherState, composeVars, graphState, timelineVars
  <2>2. \A d \in Calls : ~Compose(d)
    BY <2>1 DEF Compose, Starts
  <2> QED
    BY <1>1, <1>2, <2>1, <2>2, ServedKept DEF ServedInv
<1> QED
  BY <1>3, <1>4 DEF SocialNext

LEMMA ServedStart == SocialInit => ServedInv
<1> SUFFICES ASSUME SocialInit PROVE ServedInv
  OBVIOUS
<1>1. \A c \in Calls : compose[c].at = "idle"
  BY DEF SocialInit, ComposeInit, NotComposing
<1> QED
  BY <1>1 DEF SocialInit, TimelinesInit, ServedInv, CallServed, Early

\* A compose that succeeds has written the post to the home timeline of every
\* mentioned user and of every follower its author had when it began and who
\* has not unfollowed since, unless a Redis server it relies on restarted or
\* it took the error of a cursor for the end of the mentioned or of the
\* followers.
THEOREM FollowersAreServed == SocialSpec => []FollowersServed
<1>1. ServedInv => FollowersServed
  <2> SUFFICES ASSUME ServedInv, NEW c \in running, compose[c].at /= "idle", ComposeSucceeded(c),
                      Reliable(c), NEW v \in owed[c]
               PROVE  PostEntry(c) \in home[v]
    BY DEF FollowersServed, RedisKept, Reliable
  <2>1. Reached(c, v)
    BY DEF ServedInv, CallServed, ComposeSucceeded
  <2> QED
    BY <2>1 DEF Reached, ComposeSucceeded, TimelineDone
<1> QED
  BY <1>1, ServedStart, ServedStays, CoreAlways, PTL DEF SocialSpec

-----------------------------------------------------------------------------
(* Lists in order. *)

\* A finite set can be listed in the order of any key its elements have for
\* themselves.
Listed(S, k) ==
  \E e \in [1..Cardinality(S) -> S] :
    \A i, j \in 1..Cardinality(S) : i < j => k[e[i]] < k[e[j]]

LEMMA ListedWithOneMore ==
  ASSUME NEW S, IsFiniteSet(S), NEW k \in [S -> Int],
         \A x, y \in S : k[x] = k[y] => x = y,
         NEW x \in S, Listed(S \ {x}, k)
  PROVE  Listed(S, k)
<1> DEFINE R == S \ {x}
<1> DEFINE m == Cardinality(R)
<1>1. m \in Nat /\ Cardinality(S) = m + 1
  <2>1. IsFiniteSet(R) /\ Cardinality(R) = Cardinality(S) - 1
    BY FS_RemoveElement
  <2>2. Cardinality(S) \in Nat /\ Cardinality(R) \in Nat
    BY <2>1, FS_CardinalityType
  <2> QED
    BY <2>1, <2>2
<1>2. PICK e \in [1..m -> R] : \A i, j \in 1..m : i < j => k[e[i]] < k[e[j]]
  BY DEF Listed
<1>3. \A i \in 1..m : e[i] \in S /\ e[i] /= x /\ k[e[i]] \in Int /\ k[e[i]] /= k[x]
  <2> TAKE i \in 1..m
  <2>1. e[i] \in R
    BY <1>2
  <2> QED
    BY <2>1
<1> DEFINE Above == {p \in 1..(m + 1) : p = m + 1 \/ k[x] < k[e[p]]}
<1>4. PICK p \in Above : \A q \in Above : p <= q
  <2>1. Above \in SUBSET Nat /\ m + 1 \in Above
    BY <1>1
  <2> QED
    BY <2>1, SmallestOfSet
<1> HIDE DEF m
<1>10. p \in 1..(m + 1) /\ (p = m + 1 \/ k[x] < k[e[p]])
  BY <1>4
<1>11. \A q \in 1..(m + 1) : (q = m + 1 \/ k[x] < k[e[q]]) => p <= q
  BY <1>4
<1> HIDE DEF Above
<1>5. \A i \in 1..m : i < p => k[e[i]] < k[x]
  <2> SUFFICES ASSUME NEW i \in 1..m, i < p
               PROVE  k[e[i]] < k[x]
    OBVIOUS
  <2>1. ~(k[x] < k[e[i]])
    BY <1>1, <1>10, <1>11
  <2> QED
    BY <1>3, <2>1
<1>6. \A i \in 1..m : p <= i => k[x] < k[e[i]]
  <2> SUFFICES ASSUME NEW i \in 1..m, p <= i
               PROVE  k[x] < k[e[i]]
    OBVIOUS
  <2>1. p \in 1..m /\ k[x] < k[e[p]]
    BY <1>1, <1>10
  <2>2. p = i \/ p < i
    BY <1>1, <2>1
  <2>3. p = i \/ k[e[p]] < k[e[i]]
    BY <1>2, <2>1, <2>2
  <2> QED
    BY <1>3, <2>1, <2>3
<1> DEFINE f == [i \in 1..(m + 1) |-> IF i < p THEN e[i] ELSE IF i = p THEN x ELSE e[i - 1]]
<1>7. f \in [1..(m + 1) -> S]
  <2> SUFFICES ASSUME NEW i \in 1..(m + 1)
               PROVE  (IF i < p THEN e[i] ELSE IF i = p THEN x ELSE e[i - 1]) \in S
    OBVIOUS
  <2>1. p \in 1..(m + 1)
    BY <1>10
  <2>2. i < p => i \in 1..m
    BY <1>1, <2>1
  <2>3. ~(i < p) /\ i /= p => i - 1 \in 1..m
    BY <1>1, <2>1
  <2> QED
    BY <1>3, <2>2, <2>3
<1>8. \A i, j \in 1..(m + 1) : i < j => k[f[i]] < k[f[j]]
  <2> SUFFICES ASSUME NEW i \in 1..(m + 1), NEW j \in 1..(m + 1), i < j
               PROVE  k[f[i]] < k[f[j]]
    OBVIOUS
  <2>1. p \in 1..(m + 1)
    BY <1>10
  <2>2. CASE j < p
    <3>1. i < p /\ i \in 1..m /\ j \in 1..m
      BY <1>1, <2>1, <2>2
    <3> QED
      BY <1>2, <2>2, <3>1
  <2>3. CASE j = p
    <3>1. i < p /\ i \in 1..m /\ ~(j < p)
      BY <1>1, <2>1, <2>3
    <3> QED
      BY <1>5, <2>3, <3>1
  <2>4. CASE p < j /\ i < p
    <3>1. i \in 1..m /\ j - 1 \in 1..m /\ p <= j - 1 /\ ~(j < p) /\ j /= p
      BY <1>1, <2>1, <2>4
    <3>2. k[e[i]] < k[x] /\ k[x] < k[e[j - 1]]
      BY <1>5, <1>6, <2>4, <3>1
    <3>3. k[e[i]] < k[e[j - 1]]
      BY <1>3, <3>1, <3>2
    <3> QED
      BY <2>4, <3>1, <3>3
  <2>5. CASE p < j /\ i = p
    <3>1. j - 1 \in 1..m /\ p <= j - 1 /\ ~(j < p) /\ j /= p /\ ~(i < p)
      BY <1>1, <2>1, <2>5
    <3> QED
      BY <1>6, <2>5, <3>1
  <2>6. CASE p < i
    <3>1. /\ i - 1 \in 1..m /\ j - 1 \in 1..m /\ i - 1 < j - 1
          /\ ~(j < p) /\ j /= p /\ ~(i < p) /\ i /= p
      BY <1>1, <2>1, <2>6
    <3> QED
      BY <1>2, <3>1
  <2> QED
    BY <1>1, <2>1, <2>2, <2>3, <2>4, <2>5, <2>6
<1> QED
  BY <1>1, <1>7, <1>8 DEF Listed, m

LEMMA FiniteSetsListed ==
  ASSUME NEW S, IsFiniteSet(S), NEW k \in [S -> Int],
         \A x, y \in S : k[x] = k[y] => x = y
  PROVE  Listed(S, k)
<1> SUFFICES ASSUME ~Listed(S, k)
             PROVE  FALSE
  OBVIOUS
<1> DEFINE Sizes == {n \in Nat : \E T \in SUBSET S : Cardinality(T) = n /\ ~Listed(T, k)}
<1>1. \A T \in SUBSET S : IsFiniteSet(T) /\ Cardinality(T) \in Nat
  BY FS_Subset, FS_CardinalityType
<1>2. Sizes \in SUBSET Nat /\ Cardinality(S) \in Sizes
  BY <1>1
<1>3. PICK m \in Sizes : \A n \in Sizes : m <= n
  BY <1>2, SmallestOfSet
<1>4. PICK T \in SUBSET S : Cardinality(T) = m /\ ~Listed(T, k)
  BY <1>3
<1>5. CASE T = {}
  <2>1. Cardinality(T) = 0 /\ 1..0 = {}
    BY <1>5, FS_EmptySet
  <2>2. [i \in 1..0 |-> 0] \in [1..Cardinality(T) -> T]
    BY <2>1
  <2>3. \A i, j \in 1..Cardinality(T) : FALSE
    BY <2>1
  <2> QED
    BY <1>4, <2>2, <2>3 DEF Listed
<1>6. CASE T /= {}
  <2>1. PICK x \in T : TRUE
    BY <1>6
  <2> DEFINE R == T \ {x}
  <2>2. R \in SUBSET S /\ Cardinality(R) = m - 1
    BY <1>1, <1>4, FS_RemoveElement
  <2>3. Cardinality(R) \notin Sizes
    BY <1>2, <1>3, <2>2
  <2>4. Listed(R, k)
    BY <1>1, <2>2, <2>3
  <2> DEFINE kT == [y \in T |-> k[y]]
  <2>5. kT \in [T -> Int] /\ \A y, z \in T : kT[y] = kT[z] => y = z
    OBVIOUS
  <2>6. Listed(R, kT)
    <3>1. PICK e \in [1..Cardinality(R) -> R] :
             \A i, j \in 1..Cardinality(R) : i < j => k[e[i]] < k[e[j]]
      BY <2>4 DEF Listed
    <3>2. \A i \in 1..Cardinality(R) : kT[e[i]] = k[e[i]]
      BY <3>1
    <3>3. \A i, j \in 1..Cardinality(R) : i < j => kT[e[i]] < kT[e[j]]
      BY <3>1, <3>2
    <3> QED
      BY <3>3 DEF Listed
  <2> HIDE DEF kT
  <2>7. Listed(T, kT)
    BY <1>1, <2>1, <2>5, <2>6, ListedWithOneMore
  <2>8. PICK e \in [1..Cardinality(T) -> T] :
           \A i, j \in 1..Cardinality(T) : i < j => kT[e[i]] < kT[e[j]]
    BY <2>7 DEF Listed
  <2>9. \A i \in 1..Cardinality(T) : kT[e[i]] = k[e[i]]
    BY <2>8 DEF kT
  <2>10. \A i, j \in 1..Cardinality(T) : i < j => k[e[i]] < k[e[j]]
    BY <2>8, <2>9
  <2> QED
    BY <1>4, <2>10 DEF Listed
<1> QED
  BY <1>5, <1>6

\* The list of a set in time order is one, if no two of its entries have the
\* same time, and so is the list of a set of places.
LEMMA NewestListed ==
  ASSUME NEW S, IsFiniteSet(S), \A x \in S : x.at \in Int,
         \A x, y \in S : x.at = y.at => x = y
  PROVE  /\ Newest(S) \in [1..Cardinality(S) -> S]
         /\ InTimeOrder(Newest(S))
<1> DEFINE k == [x \in S |-> -x.at]
<1>1. k \in [S -> Int] /\ \A x, y \in S : k[x] = k[y] => x = y
  OBVIOUS
<1>2. PICK e \in [1..Cardinality(S) -> S] :
         \A i, j \in 1..Cardinality(S) : i < j => k[e[i]] < k[e[j]]
  <2> HIDE DEF k
  <2>1. Listed(S, k)
    BY <1>1, FiniteSetsListed
  <2> QED
    BY <2>1 DEF Listed
<1>3. InTimeOrder(e)
  <2> SUFFICES ASSUME NEW i \in 1..Cardinality(S), NEW j \in 1..Cardinality(S), i < j
               PROVE  e[i].at > e[j].at
    BY DEF InTimeOrder
  <2>1. k[e[i]] < k[e[j]] /\ e[i] \in S /\ e[j] \in S
    BY <1>2
  <2>2. e[i].at \in Int /\ e[j].at \in Int /\ -e[i].at < -e[j].at
    BY <2>1
  <2> QED
    BY <2>2
<1> QED
  BY <1>3 DEF Newest

LEMMA PlacesListed ==
  ASSUME NEW S \in SUBSET Nat, IsFiniteSet(S)
  PROVE  InTurn(S) \in [1..Cardinality(S) -> S] /\ Rising(InTurn(S))
<1> DEFINE k == [x \in S |-> x]
<1>1. k \in [S -> Int] /\ \A x, y \in S : k[x] = k[y] => x = y
  OBVIOUS
<1>2. PICK e \in [1..Cardinality(S) -> S] :
         \A i, j \in 1..Cardinality(S) : i < j => k[e[i]] < k[e[j]]
  <2> HIDE DEF k
  <2>1. Listed(S, k)
    BY <1>1, FiniteSetsListed
  <2> QED
    BY <2>1 DEF Listed
<1>3. Rising(e)
  <2> SUFFICES ASSUME NEW i \in 1..Cardinality(S), NEW j \in 1..Cardinality(S), i < j
               PROVE  e[i] < e[j]
    BY DEF Rising
  <2>1. k[e[i]] < k[e[j]] /\ e[i] \in S /\ e[j] \in S
    BY <1>2
  <2> QED
    BY <2>1
<1> QED
  BY <1>3 DEF InTurn

-----------------------------------------------------------------------------
(* Composes, timelines and reads. *)

\* A post is stored from here on.
StoredPlaces == {"stored", "user timeline", "followers", "home timelines"}

\* Each compose has a time of its own.
TimesInv ==
  /\ posts = {c \in Calls : compose[c].at \in StoredPlaces}
  /\ \A c \in Calls : compose[c].at /= "idle" => compose[c].time \in 1..now
  /\ \A c, d \in Calls :
       compose[c].at /= "idle" /\ compose[d].at /= "idle" /\ compose[c].time = compose[d].time => c = d

\* The composes that are done with MongoDB, those that have sent it their
\* entry, and the entries a user timeline and a home timeline can have.
Pushed(c) ==
  /\ compose[c].at \in {"user timeline", "followers", "home timelines"}
  /\ "push" \notin timelineCall[c].todo
Sent(c) ==
  /\ compose[c].at \in {"user timeline", "followers", "home timelines"}
  /\ "push" \in timelineCall[c].todo => "again" \in timelineCall[c].todo
OwnEntries(u) == {PostEntry(c) : c \in {d \in Calls : Sent(d) /\ compose[d].user = u}}
PostedEntries == {PostEntry(c) : c \in posts}

\* No element twice.
Once(list) == \A i, j \in DOMAIN list : list[i] = list[j] => i = j

ListsInv ==
  /\ DOMAIN timeline = Users /\ DOMAIN cachedTimeline = Users /\ DOMAIN home = Users
  /\ \A u \in Users : /\ timeline[u] \in Seq(OwnEntries(u))
                      /\ cachedTimeline[u] \subseteq OwnEntries(u)
                      /\ home[u] \subseteq PostedEntries

WriteLeft == {{"push", "cache"}, {"push", "again", "cache"}, {"cache"}, {}}
WriteCalls(c) ==
  [op : {"write"}, user : {compose[c].user}, start : {0}, stop : {0}, todo : WriteLeft, entry : {PostEntry(c)}, page : {<<>>}, slice : {{}}, to : {{}}, ok : BOOLEAN]

ReadTodos == {{}, {"range"}, {"find"}, {"posts"}, {"fill"}, {"posts", "fill"}}
ReadCalls ==
  [op : {"read user", "read home"}, user : Users, start : Int, stop : Int, todo : ReadTodos,
   entry : {NoTimelineCall.entry}, page : Seq(Calls), slice : SUBSET [post : Calls, at : Nat],
   to : {{}}, ok : BOOLEAN]

\* A read that goes on has found posts that are stored, each once, and the
\* read of these posts is for its page.  It fails with a command of its own.
ReadRight(c) ==
  LET call == timelineCall[c]
  IN /\ call \in ReadCalls /\ c \in running
     /\ Members(call.page) \subseteq posts /\ Once(call.page)
     /\ \A u \in Users : call.op = "read user" /\ call.user = u => call.slice \subseteq OwnEntries(u)
     /\ call.op = "read home" => call.todo \notin {{"find"}, {"fill"}, {"posts", "fill"}}
     /\ call.todo \in {{"range"}, {"find"}} => 0 <= call.start /\ postRead[c].at = "idle"
     /\ ~call.ok => c \in faulted

PostReads == [at : {"idle", "mget", "find", "done", "failed"}, ids : Seq(Calls),
              missing : SUBSET Calls]
PostReadRight(c) ==
  /\ postRead[c] \in PostReads
  /\ postRead[c].at /= "idle" => /\ timelineCall[c] \in ReadCalls
                                 /\ postRead[c].ids = timelineCall[c].page
                                 /\ postRead[c].missing \subseteq Members(timelineCall[c].page)
  /\ postRead[c].at = "failed" => c \in faulted

CallRight(c) ==
  /\ c \notin running => timelineCall[c] = NoTimelineCall
  /\ compose[c].at = "idle" => timelineCall[c] = NoTimelineCall \/ ReadRight(c)
  /\ compose[c].at \in {"parts", "post", "stored", "failed"} => timelineCall[c] = NoTimelineCall
  /\ compose[c].at \in {"user timeline", "followers"} => timelineCall[c] \in WriteCalls(c)
  /\ compose[c].at = "followers" => timelineCall[c].todo = {}
  /\ PostReadRight(c)

ReadsInv ==
  /\ cachedPosts \subseteq posts
  /\ DOMAIN timelineCall = Calls /\ DOMAIN postRead = Calls
  /\ \A c \in Calls : CallRight(c)

-----------------------------------------------------------------------------
(* Pages. *)

\* The composes that may still write the timeline of their user, and the one
\* whose entry is in MongoDB and not yet in Redis.
Writing(c) ==
  \/ compose[c].at \in {"parts", "post", "stored"}
  \/ compose[c].at = "user timeline" /\ (timelineCall[c].todo /= {} \/ timelineCall[c].ok)
Halfway(c) == compose[c].at = "user timeline" /\ timelineCall[c].todo = {"cache"}

WritersOf(u) == {c \in Calls : compose[c].user = u /\ Writing(c)}

\* The entry that is on its way, and a set of entries without gaps: with an
\* entry of a list it has all that come before, but for those that are late.
OnTheWay(u) == {PostEntry(c) : c \in {d \in WritersOf(u) : Halfway(d)}}
NoGaps(list, entries, late) ==
  \A i, j \in DOMAIN list : i < j /\ list[j] \in entries => list[i] \in entries \cup late

Fills(c, u) == timelineCall[c].user = u /\ timelineCall[c].op = "read user" /\ "fill" \in timelineCall[c].todo

OrderRight(u) ==
  /\ \A c, d \in WritersOf(u) : c = d
  /\ InTimeOrder(timeline[u])
  /\ \A c \in WritersOf(u) : ~Pushed(c) =>
       \A i \in DOMAIN timeline[u] : timeline[u][i].at < compose[c].time
  /\ \A e \in OnTheWay(u) : timeline[u] /= <<>> /\ timeline[u][1] = e
  /\ cachedTimeline[u] \subseteq Members(timeline[u])
  /\ NoGaps(timeline[u], cachedTimeline[u], OnTheWay(u))
  /\ \A c \in Calls : Fills(c, u) =>
       /\ timelineCall[c].slice \subseteq Members(timeline[u])
       /\ NoGaps(timeline[u], cachedTimeline[u] \cup timelineCall[c].slice, OnTheWay(u))
OrderInv == \A u \in Users \ blurred : OrderRight(u)

\* A push that is sent again finds the document, or its user is blurred.
RepeatInv ==
  \A c \in Calls : compose[c].at = "user timeline" /\ "again" \in timelineCall[c].todo =>
    compose[c].user \in blurred \/ timeline[compose[c].user] /= <<>>

\* What an undisturbed read has of its page: a part that Redis began, or all.
PageMade(call, list) ==
  /\ call.todo = {"find"} =>
       /\ call.start + Len(call.page) < call.stop
       /\ \A i \in DOMAIN call.page : /\ call.start + i \in DOMAIN list
                                      /\ call.page[i] = list[call.start + i].post
  /\ call.todo \notin {{"range"}, {"find"}} /\ call.ok /\ 0 <= call.start =>
       call.page = Page(PostsOf(list), call.start, call.stop)
PageRight(c) == PageMade(timelineCall[c], timeline[timelineCall[c].user])
AloneInv ==
  /\ alone \subseteq Calls
  /\ \A c \in alone : /\ compose[c].at = "idle" /\ timelineCall[c].op = "read user"
                      /\ \A u \in Users : timelineCall[c].user = u =>
                           WritersOf(u) = {} /\ (u \notin blurred /\ c \notin misled => PageRight(c))

\* What is left of a write of a user timeline and of a fan-out.
LEMMA WriteTodos ==
  /\ \A todo \in WriteLeft :
       /\ todo \subseteq {"push", "again", "cache"} /\ "posts" \notin todo
       /\ todo \cap {"posts"} = {}
       /\ "push" \in todo => "cache" \in todo
       /\ "again" \in todo => "push" \in todo
       /\ "push" \in todo /\ "again" \notin todo => todo \ {"push"} = {"cache"}
       /\ "push" \in todo => todo \cup {"again"} = {"push", "again", "cache"}
       /\ "push" \in todo => todo \ {"push", "again"} = {"cache"}
       /\ "push" \notin todo => todo \ {"cache"} = {}
       /\ "push" \notin todo /\ "cache" \in todo => todo = {"cache"}
  /\ {"push", "again", "cache"} \in WriteLeft /\ {"cache"} \in WriteLeft /\ {} \in WriteLeft
BY DEF WriteLeft

LEMMA WriteFacts ==
  ASSUME NEW c, NEW call \in WriteCalls(c)
  PROVE  /\ call.op = "write" /\ call.todo \in WriteLeft
         /\ call.todo \subseteq {"push", "again", "cache"} /\ "posts" \notin call.todo
<1>1. call.op = "write" /\ call.todo \in WriteLeft
  BY DEF WriteCalls
<1> QED
  BY <1>1, WriteTodos

LEMMA FaultedGrows ==
  ASSUME ActorsInv, FaultsTypeOK, [SocialNext]_socialVars
  PROVE  faulted \subseteq faulted'
<1>1. CASE GraphNext
  <2>1. ASSUME NEW c \in Calls, GraphStep(c) PROVE faulted \subseteq faulted'
    BY <2>1 DEF GraphStep, PushEntry, PullEntry, CacheEntry, UncacheEntry, RangeList, FindList, FillList,
                EditFails, FindFollowersErrs, GetFails, CommandFails, CursorFails, faults
  <2> QED
    BY <1>1, <2>1
    DEF GraphNext, Follow, Unfollow, GetList, InsertUser, RestartGraphRedis, ServerRestarts, faults
<1>2. CASE UNCHANGED graphState
  <2>1. ASSUME NEW c \in Calls, CommandFails(c) \/ CursorFails(c) PROVE faulted \subseteq faulted'
    BY <2>1 DEF CommandFails, CursorFails
  <2>2. ASSUME NEW server, ServerRestarts(server) PROVE faulted' = faulted
    BY <2>2 DEF ServerRestarts
  <2>3. ASSUME NEW c \in Calls, Arrives(c), ~GraphNext PROVE faulted' = faulted
    <3>1. ASSUME NEW u, NEW v, Follow(c, u, v) \/ Unfollow(c, u, v) PROVE faulted' = faulted
      BY <3>1 DEF Follow, Unfollow, faults
    <3>2. ASSUME NEW s, NEW u, GetList(c, s, u) PROVE faulted' = faulted
      BY <3>2 DEF GetList, faults
    <3> QED
      BY <2>3, <3>1, <3>2 DEF Arrives, Register, FollowByName, UnfollowByName, ReadGraph, Compose, Read, faults
  <2>4. ASSUME NEW c \in Calls, Works(c), ~GraphNext PROVE faulted \subseteq faulted'
    <3>1. ASSUME NEW s, NEW u, GetList(c, s, u) PROVE faulted' = faulted
      BY <3>1 DEF GetList, faults
    <3>2. ASSUME ComposeWorks(c) PROVE faulted \subseteq faulted'
      BY <2>1, <3>1, <3>2 DEF ComposeWorks, ComposeStep, HaveParts, MissMentions, UploadPost, UploadUserTimeline,
                         UploadHomeTimeline, WriteHomeTimeline, PartFails, faults
    <3>3. ~GraphWorks(c)
      BY <2>4 DEF GraphWorks, GraphNext
    <3>4. ASSUME RegistersInGraph(c) PROVE faulted' = faulted
      BY <3>4 DEF RegistersInGraph, InsertUser, faults
    <3> QED
      BY <2>1, <2>4, <3>2, <3>3, <3>4
      DEF Works, MakesId, Accounts, RegistrationStops, RegistrationFails,
          TimelinesWork, AsksForPosts, ReadsPosts, GetsPosts, ReadStops, ReadPostsFails, TimelineStops, PushFails,
          TimelineFails, FindTimelineErrs, PushErrs, faults
  <2> QED
    BY <1>1, <2>2, <2>3, <2>4 DEF SocialNext, ServersRestart, RestartGraphRedis, RestartHomeRedis,
       RestartTimelineRedis, Clock, Finished, socialVars, faults
<1> QED
  BY <1>1, <1>2, GraphSteps

\* A compose that has begun stays the compose of its user, with its time, and
\* once stored stays so.
BegunKept(c) ==
  compose[c].at /= "idle" =>
    /\ compose'[c].at /= "idle"
    /\ compose'[c].user = compose[c].user /\ compose'[c].time = compose[c].time
    /\ compose[c].at \in StoredPlaces => compose'[c].at \in StoredPlaces
    /\ compose[c].at \in {"user timeline", "followers", "home timelines"}
         => compose'[c].at \in {"user timeline", "followers", "home timelines"}

LEMMA BegunStays ==
  ASSUME ActorsInv, [SocialNext]_socialVars, NEW d \in Calls
  PROVE  BegunKept(d)
<1>1. compose \in [Calls -> [at : {"idle", "parts", "post", "stored", "user timeline",
                                  "followers", "home timelines", "failed"},
       user : Users, time : 0..now, names : SUBSET STRING, mentions : SUBSET Users]]
  BY DEF ActorsInv, ComposeTypeOK
<1>2. ASSUME UNCHANGED composeVars PROVE BegunKept(d)
  BY <1>2 DEF composeVars, BegunKept
<1>3. ASSUME NEW c \in Calls, ComposeStep(c) PROVE BegunKept(d)
  <2>1. CASE d /= c
    <3>1. compose'[d] = compose[d]
      BY <1>1, <1>3, <2>1 DEF ComposeStep, HaveParts, MissMentions, UploadPost, UploadUserTimeline, UploadHomeTimeline,
                       WriteHomeTimeline, PartFails, Goto
    <3> QED
      BY <3>1 DEF BegunKept
  <2>2. CASE d = c
    <3>1. CASE HaveParts(c)
      BY <1>1, <2>2, <3>1 DEF HaveParts, MissMentions, BegunKept, StoredPlaces
    <3>2. CASE UploadPost(c)
      BY <1>1, <2>2, <3>2 DEF UploadPost, Goto, BegunKept, StoredPlaces
    <3>3. CASE UploadUserTimeline(c)
      BY <1>1, <2>2, <3>3 DEF UploadUserTimeline, Goto, BegunKept, StoredPlaces
    <3>4. CASE UploadHomeTimeline(c)
      BY <1>1, <2>2, <3>4 DEF UploadHomeTimeline, Goto, BegunKept, StoredPlaces
    <3>5. CASE WriteHomeTimeline(c)
      BY <1>1, <2>2, <3>5 DEF WriteHomeTimeline, Goto, BegunKept, StoredPlaces
    <3>6. CASE PartFails(c)
      BY <1>1, <2>2, <3>6 DEF PartFails, Goto, BegunKept, StoredPlaces
    <3>7. CASE MissMentions(c)
      BY <1>1, <2>2, <3>7 DEF MissMentions, BegunKept, StoredPlaces
    <3> QED
      BY <1>3, <3>1, <3>2, <3>3, <3>4, <3>5, <3>6, <3>7 DEF ComposeStep
  <2> QED
    BY <2>1, <2>2
<1>4. ASSUME NEW c \in Calls, NEW u, NEW names, StartCompose(c, u, names) PROVE BegunKept(d)
  <2>1. CASE d /= c
    BY <1>1, <1>4, <2>1 DEF StartCompose, BegunKept
  <2>2. CASE d = c
    BY <1>1, <1>4, <2>2 DEF StartCompose, BegunKept
  <2> QED
    BY <2>1, <2>2
<1>5. ASSUME NEW c \in Calls, Arrives(c) PROVE BegunKept(d)
  BY <1>2, <1>4, <1>5 DEF Arrives, Register, FollowByName, UnfollowByName, ReadGraph, Compose, Read
<1>6. ASSUME NEW c \in Calls, Works(c) PROVE BegunKept(d)
  BY <1>2, <1>3, <1>6 DEF Works, GraphWorks, MakesId, Accounts, RegistersInGraph, RegistrationStops,
     TimelinesWork, AsksForPosts, ReadsPosts, GetsPosts, ReadStops, TimelineStops, PushFails, ComposeWorks
<1>7. ASSUME ServersRestart \/ Clock \/ Finished \/ UNCHANGED socialVars PROVE BegunKept(d)
  BY <1>2, <1>7 DEF ServersRestart, Clock, Finished, socialVars, otherState
<1> QED
  BY <1>5, <1>6, <1>7 DEF SocialNext

\* The steps that do something to posts, timelines and composes; the others
\* leave them alone.
PostSteps(c) == AsksForPosts(c) \/ ReadsPosts(c) \/ GetsPosts(c) \/ ReadStops(c)
Quiet == UNCHANGED <<timelineVars, composeVars, postVars, alone, blurred>>

LEMMA TimelineSteps ==
  ASSUME [SocialNext]_socialVars, ~Quiet
  PROVE  \/ \E c \in Calls : \/ Compose(c) \/ Read(c) \/ ComposeWorks(c) \/ TimelinesWork(c)
                             \/ PostSteps(c) \/ TimelineStops(c) \/ PushFails(c)
         \/ /\ UNCHANGED <<timeline, cachedTimeline, timelineCall, composeVars, postVars, running, alone, blurred>>
            /\ RestartHomeRedis
         \/ /\ UNCHANGED <<composeVars, postVars, running, alone>>
            /\ RestartTimelineRedis
            /\ blurred' = blurred \cup {u \in Users : ComposesOf(u) \cup ReadsOf(u) /= {}}
<1> USE DEF Quiet, PostSteps
<1>1. ASSUME NEW c \in Calls, Arrives(c) PROVE Compose(c) \/ Read(c)
  BY <1>1 DEF Arrives, Register, FollowByName, UnfollowByName, ReadGraph
<1>2. ASSUME NEW c \in Calls, Works(c)
      PROVE  ComposeWorks(c) \/ TimelinesWork(c) \/ PostSteps(c) \/ TimelineStops(c) \/ PushFails(c)
  BY <1>2 DEF Works, GraphWorks, MakesId, Accounts, RegistersInGraph, RegistrationStops, social
<1>3. CASE ServersRestart
  <2>1. CASE RestartTimelineRedis
    BY <1>3, <2>1 DEF ServersRestart, social, RestartHomeRedis, RestartGraphRedis, ServerRestarts, timelineVars,
                      timelineStores
  <2> QED
    BY <1>3, <2>1 DEF ServersRestart, social, RestartHomeRedis
<1>4. ~(Clock \/ Finished \/ UNCHANGED socialVars)
  BY DEF Clock, Finished, socialVars, otherState, social
<1> QED
  BY <1>1, <1>2, <1>3, <1>4 DEF SocialNext

LEMMA TimesStay ==
  ASSUME ActorsInv, TimesInv, [SocialNext]_socialVars
  PROVE  TimesInv'
<1>1. /\ now \in Nat
      /\ compose \in [Calls -> [at : {"idle", "parts", "post", "stored", "user timeline",
                                  "followers", "home timelines", "failed"},
       user : Users, time : 0..now, names : SUBSET STRING, mentions : SUBSET Users]]
  BY DEF ActorsInv, ComposeTypeOK
<1>2. ASSUME UNCHANGED composeVars, posts' = posts PROVE TimesInv'
  BY <1>2 DEF TimesInv, composeVars
<1>3. ASSUME NEW c \in Calls, Compose(c) PROVE TimesInv'
  <2>1. StartCompose(c, Request(c).user, Request(c).names) /\ posts' = posts
    BY <1>3 DEF Compose, postVars
  <2>2. /\ compose[c].at = "idle" /\ now' = now + 1
        /\ compose'[c].at = "parts" /\ compose'[c].time = now + 1
        /\ \A d \in Calls : d /= c => compose'[d] = compose[d]
    BY <1>1, <2>1 DEF StartCompose
  <2>3. \A d \in Calls : compose'[d].at \in StoredPlaces <=> compose[d].at \in StoredPlaces
    BY <2>2 DEF StoredPlaces
  <2>4. \A d \in Calls : compose'[d].at /= "idle" =>
          \/ d = c /\ compose'[d].time = now + 1
          \/ d /= c /\ compose[d].at /= "idle" /\ compose'[d].time = compose[d].time
             /\ compose[d].time \in 1..now
    BY <2>2 DEF TimesInv
  <2>0. now \in Nat /\ now' = now + 1 /\ compose'[c].time = now + 1
    BY <1>1, <2>2
  <2>5. ASSUME NEW d \in Calls, compose'[d].at /= "idle" PROVE compose'[d].time \in 1..now'
    <3>1. CASE d = c
      BY <2>0, <3>1
    <3>2. CASE d /= c
      <4>1. compose'[d].time \in 1..now
        BY <2>4, <2>5, <3>2
      <4> QED
        BY <2>0, <4>1
    <3> QED
      BY <3>1, <3>2
  <2>6. ASSUME NEW d \in Calls, NEW e \in Calls, compose'[d].at /= "idle", compose'[e].at /= "idle",
               compose'[d].time = compose'[e].time
        PROVE  d = e
    <3>1. ASSUME NEW f \in Calls, f /= c, compose'[f].at /= "idle" PROVE compose'[f].time /= now + 1
      <4>1. compose'[f].time \in 1..now
        BY <2>4, <3>1
      <4> QED
        BY <2>0, <4>1
    <3>2. CASE d = c \/ e = c
      BY <2>2, <2>6, <3>1, <3>2
    <3>3. CASE d /= c /\ e /= c
      <4>1. compose[d].at /= "idle" /\ compose[e].at /= "idle" /\ compose[d].time = compose[e].time
        BY <2>2, <2>6, <3>3
      <4> QED
        BY <4>1 DEF TimesInv
    <3> QED
      BY <3>2, <3>3
  <2>7. posts' = {d \in Calls : compose'[d].at \in StoredPlaces}
    BY <2>1, <2>3 DEF TimesInv
  <2> QED
    BY <2>5, <2>6, <2>7 DEF TimesInv
<1>4. ASSUME NEW c \in Calls, ComposeStep(c) PROVE TimesInv'
  <2> DEFINE Moved(from, to) ==
        /\ compose[c].at = from /\ compose'[c].at = to
        /\ \A d \in Calls : d /= c => compose'[d] = compose[d]
        /\ \A d \in Calls : compose'[d].time = compose[d].time
        /\ now' = now
  <2>1. ASSUME NEW from, NEW to, from /= "idle", Moved(from, to),
               posts' = {d \in Calls : compose'[d].at \in StoredPlaces}
        PROVE  TimesInv'
    <3>1. \A d \in Calls : compose'[d].at /= "idle" => compose[d].at /= "idle"
      BY <2>1
    <3> QED
      BY <2>1, <3>1 DEF TimesInv
  <2>2. ASSUME NEW from, NEW to, Moved(from, to), from \in StoredPlaces <=> to \in StoredPlaces, posts' = posts
        PROVE  posts' = {d \in Calls : compose'[d].at \in StoredPlaces}
    BY <2>2 DEF TimesInv
  <2>3. CASE HaveParts(c) \/ MissMentions(c)
    <3>3. PICK found : /\ compose[c].at = "parts" /\ now' = now /\ posts' = posts
                       /\ compose' = [compose EXCEPT ![c].at = "post", ![c].mentions = found]
      BY <2>3 DEF HaveParts, MissMentions, postVars
    <3>1. Moved("parts", "post") /\ posts' = posts
      BY <1>1, <3>3
    <3>2. posts' = {d \in Calls : compose'[d].at \in StoredPlaces}
      BY <2>2, <3>1 DEF StoredPlaces
    <3> QED
      BY <2>1, <3>1, <3>2
  <2>4. CASE UploadPost(c)
    <3>1. Moved("post", "stored") /\ posts' = posts \cup {c}
      BY <1>1, <2>4 DEF UploadPost, Goto, StorePost
    <3>2. posts' = {d \in Calls : compose'[d].at \in StoredPlaces}
      BY <3>1 DEF TimesInv, StoredPlaces
    <3> QED
      BY <2>1, <3>1, <3>2
  <2>5. CASE UploadUserTimeline(c)
    <3>1. Moved("stored", "user timeline") /\ posts' = posts
      BY <1>1, <2>5 DEF UploadUserTimeline, Goto, postVars
    <3>2. posts' = {d \in Calls : compose'[d].at \in StoredPlaces}
      BY <2>2, <3>1 DEF StoredPlaces
    <3> QED
      BY <2>1, <3>1, <3>2
  <2>6. CASE UploadHomeTimeline(c)
    <3>1. Moved("user timeline", "followers") /\ posts' = posts
      BY <1>1, <2>6 DEF UploadHomeTimeline, Goto, postVars
    <3>2. posts' = {d \in Calls : compose'[d].at \in StoredPlaces}
      BY <2>2, <3>1 DEF StoredPlaces
    <3> QED
      BY <2>1, <3>1, <3>2
  <2>7. CASE WriteHomeTimeline(c)
    <3>1. Moved("followers", "home timelines") /\ posts' = posts
      BY <1>1, <2>7 DEF WriteHomeTimeline, Goto, postVars
    <3>2. posts' = {d \in Calls : compose'[d].at \in StoredPlaces}
      BY <2>2, <3>1 DEF StoredPlaces
    <3> QED
      BY <2>1, <3>1, <3>2
  <2>8. CASE PartFails(c)
    <3>1. PICK from \in {"parts", "post"} : Moved(from, "failed") /\ posts' = posts
      BY <1>1, <2>8 DEF PartFails, Goto, postVars
    <3>2. posts' = {d \in Calls : compose'[d].at \in StoredPlaces}
      BY <2>2, <3>1 DEF StoredPlaces
    <3> QED
      BY <2>1, <3>1, <3>2
  <2> QED
    BY <1>4, <2>3, <2>4, <2>5, <2>6, <2>7, <2>8 DEF ComposeStep
<1>5. ASSUME NEW c \in Calls, Read(c) \/ TimelinesWork(c) \/ TimelineStops(c) \/ PushFails(c) PROVE TimesInv'
  BY <1>2, <1>5 DEF Read, TimelinesWork, TimelineStops, PushFails, postVars
<1>6. ASSUME NEW c \in Calls, PostSteps(c) PROVE TimesInv'
  BY <1>2, <1>6 DEF PostSteps, AsksForPosts, ReadPosts, ReadsPosts, MultiGet, FindPosts, GetsPosts, ReadStops, ReadPostsFails,
                    postVars
<1>7. CASE Quiet
  BY <1>2, <1>7 DEF Quiet, postVars
<1> QED
  BY <1>2, <1>3, <1>4, <1>5, <1>6, <1>7, TimelineSteps DEF ComposeWorks, postVars

\* What an entry says does not change, and more posts are stored and pushed.
LEMMA EntriesGrow ==
  ASSUME ActorsInv, TimesInv, EdgeInv, ServedInv, ReadsInv, [SocialNext]_socialVars
  PROVE  /\ posts \subseteq posts' /\ PostedEntries \subseteq PostedEntries'
         /\ \A c \in Calls : (Pushed(c) => Pushed(c)') /\ (Sent(c) => Sent(c)')
         /\ \A c \in posts : PostEntry(c)' = PostEntry(c)
         /\ \A u \in Users : OwnEntries(u) \subseteq OwnEntries(u)'
<1>1. \A c \in Calls : BegunKept(c)
  BY BegunStays
<1>2. posts \subseteq posts' /\ posts \subseteq Calls
  BY <1>1, TimesStay DEF TimesInv, BegunKept, StoredPlaces
<1>3. \A c \in posts : PostEntry(c)' = PostEntry(c)
  BY <1>1 DEF TimesInv, BegunKept, PostEntry, StoredPlaces
<1>4. PostedEntries \subseteq PostedEntries'
  BY <1>2, <1>3 DEF PostedEntries
<1>5. ASSUME NEW c \in Calls, Sent(c)
      PROVE  Sent(c)' /\ ("push" \notin timelineCall[c].todo => "push" \notin timelineCall'[c].todo)
  <2>1. /\ compose[c].at \in {"user timeline", "followers", "home timelines"}
        /\ compose'[c].at \in {"user timeline", "followers", "home timelines"}
        /\ "push" \in timelineCall[c].todo => "again" \in timelineCall[c].todo
    BY <1>1, <1>5 DEF Sent, BegunKept
  <2>2. CASE timelineCall'[c] = timelineCall[c]
    BY <2>1, <2>2 DEF Sent
  <2>3. CASE timelineCall'[c] /= timelineCall[c]
    <3>1. PICK d \in Calls : Arrives(d) \/ Works(d)
      <4>1. timelineCall' /= timelineCall
        BY <2>3
      <4> QED
        BY <4>1 DEF SocialNext, ServersRestart, RestartHomeRedis, RestartTimelineRedis, Clock, Finished, socialVars, otherState,
                    timelineVars
    <3>2. d = c
      BY <2>3, <3>1, OwnRecords DEF ReadsInv
    <3>3. timelineCall[c] \in WriteCalls(c) \/ timelineCall[c] \in FanOuts(c)
      BY <2>1 DEF ReadsInv, CallRight, ServedInv, CallServed
    <3>4. CASE TimelinesWork(c)
      <4>1. timelineCall[c].op \in {"write", "fan out"} /\ DOMAIN timelineCall = Calls
        BY <3>3 DEF WriteCalls, FanOuts, ReadsInv
      <4>2. CASE CachePost(c)
        <5>1. timelineCall'[c].todo = timelineCall[c].todo \ {"cache"}
          BY <3>3, <4>1, <4>2 DEF CachePost, Did, WriteCalls, FanOuts
        <5> QED
          BY <2>1, <5>1 DEF Sent
      <4>4. CASE RepeatPush(c)
        <5>1. timelineCall'[c].todo = timelineCall[c].todo \ {"push", "again"}
          BY <3>3, <4>1, <4>4 DEF RepeatPush, WriteCalls, FanOuts
        <5> QED
          BY <2>1, <5>1 DEF Sent
      <4>5. ~PushPost(c)
        BY <2>1 DEF PushPost, At
      <4>3. CASE \E x \in Users : Deliver(c, x)
        <5>1. timelineCall'[c].todo = {} \/ timelineCall'[c].todo = timelineCall[c].todo
          BY <3>3, <4>1, <4>3 DEF Deliver, WriteCalls, FanOuts
        <5> QED
          BY <2>1, <5>1 DEF Sent
      <4> QED
        BY <2>1, <3>4, <4>1, <4>2, <4>3, <4>4, <4>5 DEF TimelinesWork, TimelineWrites, TimelineReads,
           RangeTimeline, FindTimeline, FillTimeline, RangeHome, At
    <3>5. CASE GetsPosts(c) \/ TimelineStops(c) \/ PushFails(c)
      <4>1. DOMAIN timelineCall = Calls
        BY DEF ReadsInv
      <4>2. timelineCall'[c].todo = {}
        <5>1. "posts" \notin timelineCall[c].todo
          BY <3>3, WriteFacts DEF FanOuts
        <5>2. timelineCall[c].op \in {"write", "fan out"}
          BY <3>3 DEF WriteCalls, FanOuts
        <5>3. ~PushFails(c)
          BY <2>1 DEF PushFails, PushErrs, At
        <5>4. TimelineFails(c)
          BY <3>5, <5>1, <5>2, <5>3 DEF GetsPosts, HavePosts, TimelineStops, FindTimelineErrs, At
        <5>5. timelineCall'[c].todo = timelineCall[c].todo \cap {"posts"}
          BY <3>3, <4>1, <5>4 DEF TimelineFails, WriteCalls, FanOuts
        <5> QED
          BY <5>1, <5>5
      <4> QED
        BY <2>1, <4>2 DEF Sent
    <3>6. CASE ComposeWorks(c)
      <4>1. WriteHomeTimeline(c)
        BY <2>1, <2>3, <3>6 DEF ComposeWorks, ComposeStep, HaveParts, MissMentions, UploadPost, UploadUserTimeline,
           UploadHomeTimeline, PartFails, timelineVars
      <4>2. DOMAIN timelineCall = Calls
        BY DEF ReadsInv
      <4>3. timelineCall'[c].todo \in {{}, {"deliver"}}
        BY <4>1, <4>2 DEF WriteHomeTimeline, FanOut, NoTimelineCall
      <4> QED
        BY <2>1, <4>3 DEF Sent
    <3>7. ~Arrives(c)
      <4>1. c \in running
        BY <2>1 DEF ServedInv, CallServed
      <4> QED
        BY <4>1 DEF Arrives, Register, FollowByName, UnfollowByName, ReadGraph, Compose, Read, Starts
    <3> QED
      BY <2>3, <3>1, <3>2, <3>4, <3>5, <3>6, <3>7 DEF Works, GraphWorks, MakesId, Accounts, RegistersInGraph,
         RegistrationStops, AsksForPosts, ReadsPosts, ReadStops, timelineVars
  <2> QED
    BY <2>2, <2>3
<1>6. ASSUME NEW u \in Users PROVE OwnEntries(u) \subseteq OwnEntries(u)'
  <2>1. ASSUME NEW c \in Calls, Sent(c) PROVE c \in posts
    BY <2>1 DEF Sent, TimesInv, StoredPlaces
  <2>2. ASSUME NEW c \in Calls, Sent(c), compose[c].user = u
        PROVE  Sent(c)' /\ compose'[c].user = u /\ PostEntry(c)' = PostEntry(c)
    BY <1>1, <1>3, <1>5, <2>1, <2>2 DEF BegunKept, Sent
  <2> QED
    BY <2>2 DEF OwnEntries
<1>7. \A c \in Calls : Pushed(c) => Pushed(c)'
  BY <1>1, <1>5 DEF Pushed, Sent, BegunKept
<1> QED
  BY <1>2, <1>3, <1>4, <1>5, <1>6, <1>7

-----------------------------------------------------------------------------
(* Lists and pages. *)

LEMMA PageListed ==
  ASSUME NEW E, NEW list \in Seq(E), NEW start \in Nat, NEW stop \in Int
  PROVE  /\ Page(list, start, stop) \in Seq(E)
         /\ \A i \in 1..Len(Page(list, start, stop)) :
              start + i \in 1..Len(list) /\ Page(list, start, stop)[i] = list[start + i]
         /\ Members(Page(list, start, stop)) \subseteq Members(list)
         /\ Once(list) => Once(Page(list, start, stop))
<1> DEFINE last == IF stop < Len(list) THEN stop ELSE Len(list)
           page == SubSeq(list, start + 1, last)
<1>1. Len(list) \in Nat /\ DOMAIN list = 1..Len(list) /\ \A i \in 1..Len(list) : list[i] \in E
  BY LenProperties, ElementOfSeq
<1>2. last \in Int /\ last <= Len(list)
  BY <1>1
<1>3. \A i \in (start + 1)..last : list[i] \in E
  BY <1>1, <1>2
<1> HIDE DEF last
<1>4. /\ page \in Seq(E)
      /\ Len(page) = IF start + 1 <= last THEN last - (start + 1) + 1 ELSE 0
      /\ \A i \in 1..(last - (start + 1) + 1) : page[i] = list[start + 1 + i - 1]
  BY <1>2, <1>3, SubSeqProperties
<1> HIDE DEF page
<1>5. DOMAIN page = 1..Len(page)
  BY <1>4, LenProperties
<1>6. ASSUME NEW i \in DOMAIN page PROVE i \in Nat /\ start + i \in DOMAIN list /\ page[i] = list[start + i]
  <2>1. i \in 1..(last - (start + 1) + 1)
    BY <1>2, <1>4, <1>5
  <2>2. i \in Nat /\ start + 1 + i - 1 = start + i /\ start + i \in 1..Len(list)
    BY <1>1, <1>2, <2>1
  <2>3. page[i] = list[start + 1 + i - 1]
    BY <1>4, <2>1
  <2>4. page[i] = list[start + i]
    BY <2>2, <2>3
  <2> QED
    BY <1>1, <2>2, <2>4
<1>7. Members(page) \subseteq Members(list)
  BY <1>6 DEF Members
<1>8. ASSUME Once(list), NEW i \in DOMAIN page, NEW j \in DOMAIN page, page[i] = page[j] PROVE i = j
  <2>1. start + i = start + j /\ i \in Nat /\ j \in Nat
    BY <1>6, <1>8 DEF Once
  <2> QED
    BY <2>1
<1>9. page = Page(list, start, stop)
  BY DEF page, last, Page
<1>11. \A i \in 1..Len(page) : start + i \in 1..Len(list) /\ page[i] = list[start + i]
  BY <1>1, <1>5, <1>6
<1>10. Once(list) => Once(page)
  BY <1>8 DEF Once
<1> QED
  BY <1>4, <1>7, <1>9, <1>10, <1>11

LEMMA WithoutListed ==
  ASSUME NEW E, NEW list \in Seq(E), NEW S
  PROVE  /\ Without(list, S) \in Seq(E)
         /\ Members(Without(list, S)) \subseteq Members(list) \ S
         /\ Once(Without(list, S))
<1> DEFINE K == {i \in DOMAIN list : list[i] \notin S /\ \A j \in 1..(i - 1) : list[j] /= list[i]}
           places == InTurn(K)
           rest == [n \in DOMAIN places |-> list[places[n]]]
<1>1. Len(list) \in Nat /\ DOMAIN list = 1..Len(list) /\ \A i \in 1..Len(list) : list[i] \in E
  BY LenProperties, ElementOfSeq
<1>2. K \in SUBSET Nat /\ IsFiniteSet(K)
  <2>1. K \in SUBSET (1..Len(list))
    BY <1>1
  <2>2. IsFiniteSet(1..Len(list))
    BY <1>1, FS_Interval
  <2> QED
    BY <1>1, <2>1, <2>2, FS_Subset
<1> HIDE DEF K
<1>3. places \in [1..Cardinality(K) -> K] /\ Rising(places) /\ Cardinality(K) \in Nat
  BY <1>2, PlacesListed, FS_CardinalityType
<1> HIDE DEF places
<1>4. ASSUME NEW n \in DOMAIN rest
      PROVE  /\ n \in 1..Cardinality(K) /\ places[n] \in DOMAIN list
             /\ rest[n] = list[places[n]] /\ list[places[n]] \notin S /\ list[places[n]] \in E
             /\ \A j \in 1..(places[n] - 1) : list[j] /= rest[n]
  <2>1. n \in 1..Cardinality(K) /\ places[n] \in K /\ rest[n] = list[places[n]]
    BY <1>3
  <2> QED
    BY <1>1, <2>1 DEF K
<1>5. rest \in [1..Cardinality(K) -> E]
  BY <1>3, <1>4
<1>6. rest \in Seq(E)
  BY <1>3, <1>5, SeqDef
<1>7. Members(rest) \subseteq Members(list) \ S
  BY <1>4 DEF Members
<1>8. ASSUME NEW m \in DOMAIN rest, NEW n \in DOMAIN rest, m < n PROVE rest[m] /= rest[n]
  <2>1. /\ m \in 1..Cardinality(K) /\ n \in 1..Cardinality(K)
        /\ rest[m] = list[places[m]] /\ \A j \in 1..(places[n] - 1) : list[j] /= rest[n]
        /\ places[m] \in 1..Len(list) /\ places[n] \in 1..Len(list)
    BY <1>1, <1>4
  <2>2. places[m] < places[n]
    BY <1>3, <1>8, <2>1 DEF Rising
  <2>3. places[m] \in 1..(places[n] - 1)
    BY <1>1, <2>1, <2>2
  <2> QED
    BY <2>1, <2>3
<1>9. rest = Without(list, S)
  BY DEF rest, places, K, Without
<1>10. Once(rest)
  <2> SUFFICES ASSUME NEW m \in DOMAIN rest, NEW n \in DOMAIN rest, rest[m] = rest[n] PROVE m = n
    BY DEF Once
  <2>1. m \in 1..Cardinality(K) /\ n \in 1..Cardinality(K) /\ ~(m < n) /\ ~(n < m)
    BY <1>4, <1>8
  <2> QED
    BY <1>3, <2>1
<1> QED
  BY <1>6, <1>7, <1>9, <1>10

LEMMA JoinedListed ==
  ASSUME NEW E, NEW s \in Seq(E), NEW t \in Seq(E), Once(s), Once(t), Members(s) \cap Members(t) = {}
  PROVE  s \o t \in Seq(E) /\ Once(s \o t) /\ Members(s \o t) = Members(s) \cup Members(t)
<1>1. /\ Len(s) \in Nat /\ Len(t) \in Nat /\ DOMAIN s = 1..Len(s) /\ DOMAIN t = 1..Len(t)
      /\ s \o t \in Seq(E) /\ DOMAIN (s \o t) = 1..(Len(s) + Len(t))
      /\ \A i \in 1..(Len(s) + Len(t)) : (s \o t)[i] = IF i <= Len(s) THEN s[i] ELSE t[i - Len(s)]
  BY ConcatProperties, LenProperties
<1> DEFINE st == s \o t
<1>2. \A i \in DOMAIN st : \/ i \in DOMAIN s /\ st[i] = s[i]
                           \/ i \in Nat /\ i - Len(s) \in DOMAIN t /\ st[i] = t[i - Len(s)]
  BY <1>1
<1>3. \A i \in DOMAIN s : i \in DOMAIN st /\ st[i] = s[i]
  BY <1>1
<1>4. ASSUME NEW i \in DOMAIN t PROVE Len(s) + i \in DOMAIN st /\ st[Len(s) + i] = t[i]
  <2>1. Len(s) + i \in 1..(Len(s) + Len(t)) /\ ~(Len(s) + i <= Len(s)) /\ Len(s) + i - Len(s) = i
    BY <1>1
  <2> QED
    BY <1>1, <2>1
<1> HIDE DEF st
<1>5. Members(st) = Members(s) \cup Members(t)
  <2>1. Members(st) \subseteq Members(s) \cup Members(t)
    BY <1>2 DEF Members
  <2>2. Members(s) \subseteq Members(st)
    BY <1>3 DEF Members
  <2>3. Members(t) \subseteq Members(st)
    BY <1>4 DEF Members
  <2> QED
    BY <2>1, <2>2, <2>3
<1>6. ASSUME NEW i \in DOMAIN st, NEW j \in DOMAIN st, st[i] = st[j] PROVE i = j
  <2>1. CASE i \in DOMAIN s /\ st[i] = s[i]
    <3>1. ~(j - Len(s) \in DOMAIN t /\ st[j] = t[j - Len(s)])
      BY <1>6, <2>1 DEF Members
    <3>2. j \in DOMAIN s /\ st[j] = s[j]
      BY <1>2, <3>1
    <3> QED
      BY <1>6, <2>1, <3>2 DEF Once
  <2>2. CASE i \in Nat /\ i - Len(s) \in DOMAIN t /\ st[i] = t[i - Len(s)]
    <3>1. ~(j \in DOMAIN s /\ st[j] = s[j])
      BY <1>6, <2>2 DEF Members
    <3>2. j \in Nat /\ j - Len(s) \in DOMAIN t /\ st[j] = t[j - Len(s)]
      BY <1>2, <3>1
    <3>3. i - Len(s) = j - Len(s)
      BY <1>6, <2>2, <3>2 DEF Once
    <3> QED
      BY <1>1, <2>2, <3>2, <3>3
  <2> QED
    BY <1>2, <2>1, <2>2
<1> QED
  BY <1>1, <1>5, <1>6 DEF Once, st

LEMMA OnceCounted ==
  ASSUME NEW E, NEW s \in Seq(E), Once(s)
  PROVE  Cardinality(Members(s)) = Len(s)
<1>1. Len(s) \in Nat /\ DOMAIN s = 1..Len(s) /\ s \in [1..Len(s) -> E]
  BY LenProperties
<1>2. s \in Surjection(1..Len(s), Members(s))
  <2>1. s \in [1..Len(s) -> Members(s)]
    BY <1>1 DEF Members
  <2>2. \A x \in Members(s) : \E i \in 1..Len(s) : s[i] = x
    BY <1>1 DEF Members
  <2> QED
    BY <2>1, <2>2 DEF Surjection
<1>3. s \in Injection(1..Len(s), Members(s))
  BY <1>1, <1>2 DEF Injection, IsInjective, Surjection, Once
<1>4. IsFiniteSet(1..Len(s)) /\ Cardinality(1..Len(s)) = Len(s)
  BY <1>1, FS_Interval
<1> QED
  BY <1>2, <1>3, <1>4, FS_Surjection

-----------------------------------------------------------------------------
(* Entries. *)

LEMMA EntryFacts ==
  ASSUME ActorsInv, TimesInv
  PROVE  /\ \A e \in PostedEntries : /\ e.post \in posts /\ e.post \in Calls /\ e.at \in Nat
                                     /\ e \in [post : Calls, at : Nat] /\ e = PostEntry(e.post)
         /\ \A e, f \in PostedEntries : (e.at = f.at \/ e.post = f.post) => e = f
         /\ \A u \in Users : OwnEntries(u) \subseteq PostedEntries
         /\ \A S \in SUBSET PostedEntries : IsFiniteSet(S)
<1>1. ASSUME NEW e \in PostedEntries
      PROVE  /\ e.post \in posts /\ e.post \in Calls /\ e.at \in Nat
             /\ e \in [post : Calls, at : Nat] /\ e = PostEntry(e.post)
             /\ compose[e.post].at /= "idle" /\ e.at = compose[e.post].time
  <2>1. PICK c \in posts : e = PostEntry(c)
    BY DEF PostedEntries
  <2>2. c \in Calls /\ compose[c].at /= "idle" /\ compose[c].time \in 1..now
    BY DEF TimesInv, StoredPlaces
  <2>3. now \in Nat
    BY DEF ActorsInv, ComposeTypeOK
  <2>4. compose[c].time \in Nat
    BY <2>2, <2>3
  <2> QED
    BY <2>1, <2>2, <2>4 DEF PostEntry
<1>2. ASSUME NEW e \in PostedEntries, NEW f \in PostedEntries, e.at = f.at \/ e.post = f.post
      PROVE  e = f
  <2>1. e.post = f.post
    BY <1>1, <1>2 DEF TimesInv
  <2> QED
    BY <1>1, <2>1
<1>3. ASSUME NEW u \in Users PROVE OwnEntries(u) \subseteq PostedEntries
  BY DEF OwnEntries, PostedEntries, Sent, TimesInv, StoredPlaces
<1>4. ASSUME NEW S \in SUBSET PostedEntries PROVE IsFiniteSet(S)
  <2> DEFINE f == [e \in S |-> e.post]
  <2>1. f \in Injection(S, Calls)
    BY <1>1, <1>2 DEF Injection, IsInjective
  <2> QED
    BY <2>1, ServicesAssumption, FS_Injection
<1> QED
  BY <1>1, <1>2, <1>3, <1>4

LEMMA PostsListed ==
  ASSUME ActorsInv, TimesInv, NEW list \in Seq(PostedEntries)
  PROVE  /\ PostsOf(list) \in Seq(posts) /\ DOMAIN PostsOf(list) = DOMAIN list
         /\ Len(PostsOf(list)) = Len(list)
         /\ \A i \in DOMAIN list : PostsOf(list)[i] = list[i].post
         /\ Once(list) => Once(PostsOf(list))
<1>1. Len(list) \in Nat /\ DOMAIN list = 1..Len(list) /\ \A i \in 1..Len(list) : list[i] \in PostedEntries
  BY LenProperties, ElementOfSeq
<1>2. \A i \in DOMAIN list : list[i].post \in posts
  BY <1>1, EntryFacts
<1>3. PostsOf(list) \in [1..Len(list) -> posts]
  BY <1>1, <1>2 DEF PostsOf
<1>4. PostsOf(list) \in Seq(posts)
  BY <1>1, <1>3, SeqDef
<1>5. DOMAIN PostsOf(list) = DOMAIN list /\ \A i \in DOMAIN list : PostsOf(list)[i] = list[i].post
  BY DEF PostsOf
<1>6. Len(PostsOf(list)) = Len(list)
  BY <1>1, <1>4, <1>5, LenProperties
<1>7. ASSUME Once(list), NEW i \in DOMAIN list, NEW j \in DOMAIN list, PostsOf(list)[i] = PostsOf(list)[j]
      PROVE  i = j
  <2>1. list[i].post = list[j].post /\ list[i] \in PostedEntries /\ list[j] \in PostedEntries
    BY <1>1, <1>5, <1>7
  <2>2. list[i] = list[j]
    BY <2>1, EntryFacts
  <2> QED
    BY <1>7, <2>2 DEF Once
<1>8. Once(list) => Once(PostsOf(list))
  BY <1>5, <1>7 DEF Once
<1> QED
  BY <1>4, <1>5, <1>6, <1>8

LEMMA NewestPosted ==
  ASSUME ActorsInv, TimesInv, NEW S \in SUBSET PostedEntries
  PROVE  Newest(S) \in Seq(PostedEntries) /\ Once(Newest(S)) /\ Members(Newest(S)) \subseteq S
<1>1. IsFiniteSet(S) /\ Cardinality(S) \in Nat
  BY EntryFacts, FS_CardinalityType
<1>2. /\ \A x \in S : x.at \in Int
      /\ \A x, y \in S : x.at = y.at => x = y
  BY EntryFacts
<1>3. Newest(S) \in [1..Cardinality(S) -> S] /\ InTimeOrder(Newest(S))
  BY <1>1, <1>2, NewestListed
<1>4. Newest(S) \in Seq(PostedEntries)
  <2>1. Newest(S) \in [1..Cardinality(S) -> PostedEntries]
    BY <1>3
  <2> QED
    BY <1>1, <2>1, SeqDef
<1>5. ASSUME NEW i \in DOMAIN Newest(S), NEW j \in DOMAIN Newest(S), Newest(S)[i] = Newest(S)[j]
      PROVE  i = j
  <2>1. i \in Nat /\ j \in Nat /\ Newest(S)[i].at \in Int
    BY <1>1, <1>2, <1>3
  <2>2. ~(i < j) /\ ~(j < i)
    BY <1>3, <1>5, <2>1 DEF InTimeOrder
  <2> QED
    BY <2>1, <2>2
<1>6. Members(Newest(S)) \subseteq S
  BY <1>3 DEF Members
<1> QED
  BY <1>4, <1>5, <1>6 DEF Once

\* The page that a timeline read begins with.
LEMMA PagePosted ==
  ASSUME ActorsInv, TimesInv, NEW S \in SUBSET PostedEntries, NEW start \in Nat, NEW stop \in Int
  PROVE  LET page == PostsOf(Page(Newest(S), start, stop))
         IN page \in Seq(Calls) /\ Members(page) \subseteq posts /\ Once(page)
<1> DEFINE list == Page(Newest(S), start, stop)
           page == PostsOf(list)
<1>1. list \in Seq(PostedEntries) /\ Once(list)
  BY NewestPosted, PageListed
<1> HIDE DEF list
<1>2. page \in Seq(posts) /\ Once(page)
  BY <1>1, PostsListed
<1>3. page \in [1..Len(page) -> posts] /\ posts \subseteq Calls
  BY <1>2, LenProperties DEF TimesInv
<1> HIDE DEF page
<1>4. page \in Seq(Calls) /\ Members(page) \subseteq posts
  <2>1. \A i \in DOMAIN page : page[i] \in posts
    BY <1>3
  <2>2. Len(page) \in Nat /\ page \in [1..Len(page) -> Calls]
    BY <1>2, <1>3, LenProperties
  <2> QED
    BY <2>1, <2>2, SeqDef DEF Members
<1> QED
  BY <1>2, <1>4 DEF page, list

\* The page that MongoDB completes.
LEMMA CompletePosted ==
  ASSUME ActorsInv, TimesInv, NEW list \in Seq(PostedEntries), NEW call, NEW stop \in Int,
         call.page \in Seq(Calls), Members(call.page) \subseteq posts, Once(call.page), call.start \in Nat
  PROVE  LET page == Complete(call, Page(list, 0, stop))
         IN /\ page \in Seq(Calls) /\ Members(page) \subseteq posts /\ Once(page)
            /\ Members(Page(list, 0, stop)) \subseteq Members(list)
<1> DEFINE slice == Page(list, 0, stop)
           later == SubSeq(PostsOf(slice), call.start + Len(call.page) + 1, Len(slice))
           rest == Without(later, Members(call.page))
<1>1. slice \in Seq(PostedEntries) /\ Members(slice) \subseteq Members(list)
  BY PageListed
<1> HIDE DEF slice
<1>2. PostsOf(slice) \in Seq(posts) /\ Len(PostsOf(slice)) = Len(slice)
  BY <1>1, PostsListed
<1> DEFINE from == call.start + Len(call.page)
<1>3. from \in Nat /\ Len(slice) \in Nat
  <2>1. Len(call.page) \in Nat
    BY LenProperties
  <2> QED
    BY <1>1, <2>1, LenProperties
<1>4. Page(PostsOf(slice), from, Len(slice)) = later
  BY <1>2, <1>3 DEF Page
<1> HIDE DEF from, later
<1>5. later \in Seq(posts)
  BY <1>2, <1>3, <1>4, PageListed
<1>6. rest \in Seq(posts) /\ Once(rest) /\ Members(rest) \cap Members(call.page) = {}
  BY <1>5, WithoutListed
<1> HIDE DEF rest
<1>7. /\ \A i \in DOMAIN rest : rest[i] \in posts
      /\ rest \in Seq(Calls)
  <2>1. rest \in [1..Len(rest) -> posts] /\ Len(rest) \in Nat /\ posts \subseteq Calls
    BY <1>6, LenProperties DEF TimesInv
  <2>2. rest \in [1..Len(rest) -> Calls]
    BY <2>1
  <2> QED
    BY <2>1, <2>2, SeqDef
<1>8. Members(rest) \subseteq posts
  BY <1>7 DEF Members
<1>9. Complete(call, slice) = call.page \o rest
  BY DEF Complete, rest, later
<1> HIDE DEF slice
<1>10. /\ call.page \o rest \in Seq(Calls) /\ Once(call.page \o rest)
       /\ Members(call.page \o rest) = Members(call.page) \cup Members(rest)
  <2>1. Members(call.page) \cap Members(rest) = {}
    BY <1>6
  <2> QED
    BY <1>6, <1>7, <2>1, JoinedListed
<1>11. Members(call.page \o rest) \subseteq posts
  BY <1>8, <1>10
<1> QED
  BY <1>1, <1>9, <1>10, <1>11 DEF slice

-----------------------------------------------------------------------------
(* Reads succeed. *)

\* A call whose records stay is right as before: posts, entries and failures
\* only grow.
LEMMA CallKept ==
  ASSUME ActorsInv, TimesInv, EdgeInv, ServedInv, ReadsInv, [SocialNext]_socialVars,
         NEW c \in Calls, compose'[c] = compose[c], timelineCall'[c] = timelineCall[c],
         postRead'[c] = postRead[c]
  PROVE  CallRight(c)'
<1>1. FaultsTypeOK
  BY DEF EdgeInv, GraphTypeOK
<1>2. faulted \subseteq faulted' /\ running \subseteq running'
  BY <1>1, FaultedGrows, RunningGrows
<1>3. posts \subseteq posts' /\ \A u \in Users : OwnEntries(u) \subseteq OwnEntries(u)'
  BY EntriesGrow
<1>4. CallRight(c)
  BY DEF ReadsInv
<1>5. ReadRight(c) => ReadRight(c)'
  BY <1>2, <1>3 DEF ReadRight, ReadCalls
<1>6. PostReadRight(c)'
  BY <1>2, <1>4 DEF CallRight, PostReadRight, ReadCalls, PostReads
<1>7. timelineCall[c] \in WriteCalls(c) => timelineCall'[c] \in WriteCalls(c)'
  BY DEF WriteCalls, PostEntry
<1> QED
  BY <1>2, <1>4, <1>5, <1>6, <1>7 DEF CallRight

\* What a call has to do with timelines, by how far it is.
LEMMA CallKinds ==
  ASSUME ReadsInv, ServedInv, ActorsInv, NEW c \in Calls
  PROVE  /\ \/ /\ timelineCall[c] = NoTimelineCall
               /\ compose[c].at \in {"idle", "parts", "post", "stored", "failed"}
            \/ compose[c].at = "idle" /\ ReadRight(c)
            \/ compose[c].at \in {"user timeline", "followers"} /\ timelineCall[c] \in WriteCalls(c)
            \/ compose[c].at = "home timelines" /\ timelineCall[c] \in FanOuts(c)
         /\ postRead[c].at /= "idle" => compose[c].at = "idle" /\ ReadRight(c)
         /\ postRead[c] \in PostReads
         /\ DOMAIN timelineCall = Calls /\ DOMAIN postRead = Calls
         /\ c \notin running => timelineCall[c] = NoTimelineCall /\ compose[c].at = "idle"
         /\ NoTimelineCall.op = "none" /\ NoTimelineCall.todo = {}
<1>1. /\ CallRight(c) /\ CallServed(c) /\ DOMAIN timelineCall = Calls /\ DOMAIN postRead = Calls
      /\ compose[c].at \in {"idle", "parts", "post", "stored", "user timeline",
                                  "followers", "home timelines", "failed"}
  BY DEF ReadsInv, ServedInv, ActorsInv, ComposeTypeOK
<1>2. NoTimelineCall.op = "none" /\ NoTimelineCall.todo = {}
  BY DEF NoTimelineCall
<1>3. /\ timelineCall[c] \in WriteCalls(c) \cup FanOuts(c) => timelineCall[c].op \in {"write", "fan out"}
      /\ timelineCall[c] \in ReadCalls => timelineCall[c].op \in {"read user", "read home"}
  BY DEF WriteCalls, FanOuts, ReadCalls
<1>4. /\ compose[c].at \in {"user timeline", "followers"} => timelineCall[c] \in WriteCalls(c)
      /\ compose[c].at = "home timelines" => timelineCall[c] \in FanOuts(c)
      /\ compose[c].at = "idle" => timelineCall[c] = NoTimelineCall \/ ReadRight(c)
      /\ compose[c].at \in {"parts", "post", "stored", "failed"} => timelineCall[c] = NoTimelineCall
      /\ postRead[c] \in PostReads
      /\ postRead[c].at /= "idle" => timelineCall[c] \in ReadCalls
      /\ c \notin running => timelineCall[c] = NoTimelineCall /\ compose[c].at = "idle"
  BY <1>1 DEF CallRight, CallServed, PostReadRight
<1>5. postRead[c].at /= "idle" => compose[c].at = "idle" /\ ReadRight(c)
  BY <1>1, <1>2, <1>3, <1>4
<1> QED
  BY <1>1, <1>2, <1>4, <1>5

\* What a push does, the first and the second, whether it fails or not.
LEMMA PushFacts ==
  ASSUME ReadsInv, ServedInv, ActorsInv, TimesInv, NEW c \in Calls,
         PushPost(c) \/ RepeatPush(c) \/ PushErrs(c)
  PROVE  /\ compose[c].at = "user timeline" /\ timelineCall[c] \in WriteCalls(c) /\ c \in posts
         /\ "push" \in timelineCall[c].todo
         /\ \E left \in {{"cache"}, {"push", "again", "cache"}} :
              timelineCall' = [timelineCall EXCEPT ![c].todo = left]
         /\ \/ timeline' = timeline
            \/ timeline' = [timeline EXCEPT ![compose[c].user] = <<PostEntry(c)>> \o @]
         /\ UNCHANGED <<cachedTimeline, home>>
<1>1. timelineCall[c].op = "write" /\ timelineCall[c].todo /= {}
  BY DEF PushPost, RepeatPush, PushErrs, At
<1>2. /\ compose[c].at \in {"user timeline", "followers"} /\ timelineCall[c] \in WriteCalls(c)
      /\ CallRight(c)
  BY <1>1, CallKinds DEF FanOuts, ReadRight, ReadCalls, ReadsInv
<1>3. compose[c].at = "user timeline" /\ c \in posts
  BY <1>1, <1>2 DEF CallRight, TimesInv, StoredPlaces
<1>4. /\ timelineCall[c].user = compose[c].user /\ timelineCall[c].entry = PostEntry(c)
      /\ timelineCall[c].todo \in WriteLeft
  BY <1>2 DEF WriteCalls
<1>5. CASE PushPost(c)
  <2>1. timelineCall[c].todo \ {"push"} = {"cache"}
    BY <1>4, <1>5, WriteTodos DEF PushPost, At
  <2> QED
    BY <1>2, <1>3, <1>4, <1>5, <2>1 DEF PushPost, At, Did, Owner
<1>6. CASE RepeatPush(c)
  <2>1. "push" \in timelineCall[c].todo /\ timelineCall[c].todo \ {"push", "again"} = {"cache"}
    BY <1>4, <1>6, WriteTodos DEF RepeatPush, At
  <2> QED
    BY <1>2, <1>3, <1>4, <1>6, <2>1 DEF RepeatPush, Owner
<1>7. CASE PushErrs(c)
  <2>1. timelineCall[c].todo \cup {"again"} = {"push", "again", "cache"}
    BY <1>4, <1>7, WriteTodos DEF PushErrs, At
  <2> QED
    BY <1>2, <1>3, <1>4, <1>7, <2>1 DEF PushErrs, At, Owner
<1> QED
  BY <1>5, <1>6, <1>7

\* What a read begins with.
LEMMA ReadTodo ==
  ASSUME NEW start \in Int, NEW stop \in Int
  PROVE  LET todo == IF stop <= start \/ start < 0 THEN {} ELSE {"range"}
         IN /\ todo \in ReadTodos /\ todo \notin {{"find"}, {"fill"}, {"posts", "fill"}}
            /\ todo \in {{"range"}, {"find"}} => 0 <= start
<1>1. CASE stop <= start \/ start < 0
  BY <1>1 DEF ReadTodos
<1>2. CASE ~(stop <= start \/ start < 0)
  <2>1. 0 <= start
    BY <1>2
  <2> QED
    BY <1>2, <2>1 DEF ReadTodos
<1> QED
  BY <1>1, <1>2

LEMMA NothingListed == DOMAIN <<>> = {} /\ Members(<<>>) = {} /\ Once(<<>>)
<1>1. DOMAIN <<>> = {}
  OBVIOUS
<1> QED
  BY <1>1 DEF Members, Once

\* A read that starts.
LEMMA ReadStarts ==
  ASSUME DOMAIN timelineCall = Calls, NEW c \in Calls, c \in running', postRead'[c].at = "idle",
         NEW op \in {"read user", "read home"}, NEW u \in Users, NEW start \in Int, NEW stop \in Int,
         ReadTimeline(c, op, u, start, stop)
  PROVE  ReadRight(c)'
<1> DEFINE todo == IF stop <= start \/ start < 0 THEN {} ELSE {"range"}
           call == [op |-> op, user |-> u, start |-> start, stop |-> stop,
                   todo |-> todo, entry |-> NoTimelineCall.entry,
                   page |-> <<>>, slice |-> {}, to |-> {}, ok |-> TRUE]
<1>1. timelineCall'[c] = call
  BY DEF ReadTimeline, NoTimelineCall
<1>2. /\ todo \in ReadTodos /\ todo \notin {{"find"}, {"fill"}, {"posts", "fill"}}
      /\ todo \in {{"range"}, {"find"}} => 0 <= start
  BY ReadTodo
<1> HIDE DEF todo
<1>3. call \in ReadCalls
  <2>2. <<>> \in Seq(Calls)
    BY EmptySeq
  <2> QED
    BY <1>2, <2>2 DEF ReadCalls
<1>4. Members(<<>>) = {} /\ Once(<<>>)
  BY NothingListed
<1> DEFINE empty == call.page
<1>5. empty = <<>> /\ call.slice = {} /\ call.todo = todo /\ call.start = start /\ call.op = op /\ call.ok
  OBVIOUS
<1> HIDE DEF call
<1> QED
  BY <1>1, <1>2, <1>3, <1>4, <1>5 DEF ReadRight

\* A call that starts composes or reads.
LEMMA CallStarts ==
  ASSUME ActorsInv, TimesInv, EdgeInv, ServedInv, ReadsInv, NEW c \in Calls, Compose(c) \/ Read(c)
  PROVE  CallRight(c)'
<1>1. c \notin running /\ c \in running' /\ UNCHANGED postVars
  BY DEF Compose, Read, Starts
<1>2. timelineCall[c] = NoTimelineCall /\ compose[c].at = "idle" /\ postRead[c].at = "idle"
      /\ postRead[c] \in PostReads /\ DOMAIN timelineCall = Calls
  <2>1. ~ReadRight(c)
    BY <1>1 DEF ReadRight
  <2> QED
    BY <1>1, <2>1, CallKinds
<1>3. PostReadRight(c)'
  BY <1>1, <1>2 DEF PostReadRight, PostReads, postVars
<1>4. CASE Compose(c)
  <2>1. timelineCall'[c] = NoTimelineCall /\ compose'[c].at = "parts"
    BY <1>2, <1>4 DEF Compose, StartCompose, timelineVars, ActorsInv, ComposeTypeOK
  <2> QED
    BY <1>1, <1>3, <2>1 DEF CallRight
<1>5. CASE Read(c)
  <2>1. compose'[c].at = "idle"
    BY <1>2, <1>5 DEF Read, composeVars
  <2>2. PICK op \in {"read user", "read home"} :
          Starts(c, op) /\ ReadTimeline(c, op, Request(c).user, Request(c).start, Request(c).stop)
    BY <1>5 DEF Read
  <2>3. Request(c).user \in Users /\ Request(c).start \in Int /\ Request(c).stop \in Int
    BY <2>2, RequestFacts, ScenariosAssumption DEF Starts, Request, ActorsInv
  <2>4. ReadRight(c)'
    BY <1>1, <1>2, <2>2, <2>3, ReadStarts DEF postVars
  <2> QED
    BY <1>1, <1>3, <2>1, <2>4 DEF CallRight
<1> QED
  BY <1>4, <1>5

\* A compose that goes on: it writes the user's timeline once the post is
\* stored, and a fan-out only when that is done.
LEMMA ComposeCallRight ==
  ASSUME ActorsInv, TimesInv, EdgeInv, ServedInv, ReadsInv, NEW c \in Calls, ComposeWorks(c)
  PROVE  CallRight(c)'
<1>1. /\ compose[c].at \in {"parts", "post", "stored", "user timeline", "followers"}
      /\ running' = running
  BY DEF ComposeWorks, social, ComposeStep, HaveParts, MissMentions, PartFails, UploadPost, UploadUserTimeline, UploadHomeTimeline,
         WriteHomeTimeline
<1>2. c \in running' /\ postRead[c].at = "idle" /\ postRead[c] \in PostReads
      /\ DOMAIN timelineCall = Calls
      /\ (compose[c].at \in {"parts", "post", "stored"} => timelineCall[c] = NoTimelineCall)
      /\ (compose[c].at \in {"user timeline", "followers"} => timelineCall[c] \in WriteCalls(c))
  BY <1>1, CallKinds DEF ReadsInv, CallRight
<1>3. postRead' = postRead
  BY DEF ComposeWorks, ComposeStep, HaveParts, MissMentions, PartFails, UploadPost, StorePost, UploadUserTimeline,
         UploadHomeTimeline, WriteHomeTimeline, postVars
<1>4. PostReadRight(c)'
  BY <1>2, <1>3 DEF PostReadRight, PostReads
<1>5. compose \in [Calls -> [at : {"idle", "parts", "post", "stored", "user timeline",
                                  "followers", "home timelines", "failed"},
       user : Users, time : 0..now, names : SUBSET STRING, mentions : SUBSET Users]]
  BY DEF ActorsInv, ComposeTypeOK
<1> DEFINE Kept == timelineCall'[c] = timelineCall[c]
<1>6. CASE HaveParts(c)
  <2>1. compose[c].at = "parts" /\ compose'[c].at = "post" /\ Kept
    BY <1>5, <1>6 DEF HaveParts, MissMentions, timelineVars
  <2> QED
    BY <1>2, <1>4, <2>1 DEF CallRight
<1>7. CASE PartFails(c)
  <2>1. compose[c].at \in {"parts", "post"} /\ compose'[c].at = "failed" /\ Kept
    BY <1>5, <1>7 DEF PartFails, Goto, timelineVars
  <2> QED
    BY <1>2, <1>4, <2>1 DEF CallRight
<1>8. CASE UploadPost(c)
  <2>1. compose[c].at = "post" /\ compose'[c].at = "stored" /\ Kept
    BY <1>5, <1>8 DEF UploadPost, Goto, timelineVars
  <2> QED
    BY <1>2, <1>4, <2>1 DEF CallRight
<1>9. CASE UploadUserTimeline(c)
  <2>1. /\ compose'[c].at = "user timeline"
        /\ compose'[c].user = compose[c].user /\ compose'[c].time = compose[c].time
    BY <1>5, <1>9 DEF UploadUserTimeline, Goto
  <2>2. timelineCall'[c] = [op |-> "write", user |-> compose[c].user, start |-> 0, stop |-> 0,
                   todo |-> {"push", "cache"}, entry |-> PostEntry(c),
                   page |-> <<>>, slice |-> {}, to |-> {}, ok |-> TRUE]
    BY <1>2, <1>9 DEF UploadUserTimeline, WriteUserTimeline, NoTimelineCall
  <2>3. timelineCall'[c] \in WriteCalls(c)
    BY <2>2 DEF WriteCalls, WriteLeft
  <2>4. timelineCall'[c] \in WriteCalls(c)'
    BY <2>1, <2>3 DEF WriteCalls, PostEntry
  <2> QED
    BY <1>2, <1>4, <2>1, <2>4 DEF CallRight
<1>10. CASE UploadHomeTimeline(c)
  <2>1. /\ compose[c].at = "user timeline" /\ compose'[c].at = "followers" /\ Kept
        /\ compose'[c].user = compose[c].user /\ compose'[c].time = compose[c].time
        /\ timelineCall[c].todo = {}
    BY <1>5, <1>10 DEF UploadHomeTimeline, Goto, timelineVars, TimelineDone
  <2>2. timelineCall'[c] \in WriteCalls(c)'
    BY <1>2, <2>1 DEF WriteCalls, PostEntry
  <2> QED
    BY <1>2, <1>4, <2>1, <2>2 DEF CallRight
<1>11. CASE WriteHomeTimeline(c)
  <2>1. compose'[c].at = "home timelines"
    BY <1>5, <1>11 DEF WriteHomeTimeline, Goto
  <2> QED
    BY <1>2, <1>4, <2>1 DEF CallRight
<1>12. CASE MissMentions(c)
  <2>1. compose[c].at = "parts" /\ compose'[c].at = "post" /\ Kept
    BY <1>5, <1>12 DEF MissMentions, timelineVars
  <2> QED
    BY <1>2, <1>4, <2>1 DEF CallRight
<1> QED
  BY <1>6, <1>7, <1>8, <1>9, <1>10, <1>11, <1>12 DEF ComposeWorks, ComposeStep

\* What the steps of timelines and of reads of posts leave alone.
LEMMA WorkLeaves ==
  ASSUME NEW c \in Calls, TimelinesWork(c) \/ PostSteps(c) \/ TimelineStops(c) \/ PushFails(c)
  PROVE  /\ UNCHANGED <<composeVars, running, posts, alone>> /\ faulted \subseteq faulted'
         /\ PostSteps(c) => UNCHANGED <<timelineStores, blurred>>
         /\ TimelineStops(c) => UNCHANGED <<timelineStores, postVars>>
         /\ PushFails(c) => UNCHANGED <<cachedTimeline, home, postVars>>
         /\ TimelinesWork(c) => UNCHANGED <<blurred, postVars>>
BY DEF TimelinesWork, PostSteps, AsksForPosts, ReadPosts, ReadsPosts, MultiGet, FindPosts, GetsPosts, HavePosts, ReadStops,
       ReadPostsFails, TimelineStops, PushFails, TimelineFails, FindTimelineErrs, PushErrs, CommandFails, CursorFails, social, faults, postVars, timelineVars

\* The calls of composes go on with what they have left.
LEMMA WriteCallRight ==
  ASSUME ActorsInv, TimesInv, EdgeInv, ServedInv, ReadsInv, [SocialNext]_socialVars, NEW c \in Calls,
         TimelinesWork(c) \/ PostSteps(c) \/ TimelineStops(c) \/ PushFails(c), compose[c].at /= "idle"
  PROVE  CallRight(c)'
<1>1. UNCHANGED <<composeVars, running>> /\ compose'[c] = compose[c] /\ DOMAIN timelineCall = Calls
  BY WorkLeaves DEF composeVars, ReadsInv
<1>2. postRead[c].at = "idle"
  BY CallKinds
<1>3. postRead'[c] = postRead[c] /\ ~AsksForPosts(c) /\ ~ReadsPosts(c) /\ ~GetsPosts(c) /\ ~ReadStops(c)
  <2>1. "posts" \notin timelineCall[c].todo
    <3>1. timelineCall[c] \in FanOuts(c) => "posts" \notin timelineCall[c].todo
      BY DEF FanOuts
    <3>2. timelineCall[c] = NoTimelineCall => "posts" \notin timelineCall[c].todo
      BY CallKinds
    <3> QED
      BY <3>1, <3>2, CallKinds, WriteFacts
  <2>2. ~PostSteps(c)
    BY <1>2, <2>1 DEF PostSteps, AsksForPosts, ReadsPosts, MultiGet, FindPosts, GetsPosts, HavePosts, ReadStops,
                      ReadPostsFails
  <2>3. UNCHANGED postVars
    BY <2>2, WorkLeaves
  <2> QED
    BY <2>2, <2>3 DEF PostSteps, postVars
<1>4. PostReadRight(c)'
  BY <1>2, <1>3, CallKinds DEF PostReadRight, PostReads
<1>5. CASE compose[c].at \in {"user timeline", "followers"} /\ timelineCall[c] \in WriteCalls(c)
  <2>1. timelineCall[c].op = "write" /\ (compose[c].at = "followers" => timelineCall[c].todo = {})
    BY <1>5 DEF WriteCalls, ReadsInv, CallRight
  <2>2. \/ PushPost(c) \/ RepeatPush(c) \/ PushErrs(c)
        \/ CachePost(c)
        \/ TimelineFails(c)
    BY <1>3, <2>1 DEF PostSteps, TimelinesWork, TimelineWrites, TimelineReads, Deliver, RangeTimeline,
       FindTimeline, FillTimeline, RangeHome, TimelineStops, FindTimelineErrs, PushFails, At
  <2>6. compose[c].at = "user timeline"
    BY <1>5, <2>1, <2>2 DEF PushPost, RepeatPush, PushErrs, CachePost, TimelineFails, At
  <2>3. timelineCall'[c] \in WriteCalls(c)
    <3> DEFINE call == timelineCall[c]
    <3>0. call.todo \in WriteLeft /\ {} \in WriteLeft
      BY <1>5, WriteTodos DEF WriteCalls
    <3>1. /\ \A todo \in WriteLeft : [call EXCEPT !.todo = todo] \in WriteCalls(c)
          /\ [call EXCEPT !.todo = {}, !.ok = FALSE] \in WriteCalls(c)
      BY <1>5, <3>0 DEF WriteCalls
    <3>2. CASE PushPost(c) \/ RepeatPush(c) \/ PushErrs(c)
      <4>1. PICK left \in {{"cache"}, {"push", "again", "cache"}} :
              timelineCall' = [timelineCall EXCEPT ![c].todo = left]
        BY <3>2, PushFacts
      <4>2. left \in WriteLeft
        BY WriteTodos
      <4>3. timelineCall'[c] = [call EXCEPT !.todo = left]
        BY <1>1, <4>1
      <4> QED
        BY <3>1, <4>2, <4>3
    <3>3. CASE CachePost(c)
      <4>1. timelineCall'[c] = [call EXCEPT !.todo = call.todo \ {"cache"}]
        BY <1>1, <3>3 DEF CachePost, Did
      <4>2. call.todo \ {"cache"} = {}
        BY <3>0, <3>3, WriteTodos DEF CachePost
      <4> QED
        BY <3>0, <3>1, <4>1, <4>2
    <3>4. CASE TimelineFails(c)
      <4>1. timelineCall'[c] = [call EXCEPT !.todo = call.todo \cap {"posts"}, !.ok = FALSE]
        BY <1>1, <3>4 DEF TimelineFails
      <4>2. call.todo \cap {"posts"} = {}
        BY <3>0, WriteTodos
      <4> QED
        BY <3>1, <4>1, <4>2
    <3> QED
      BY <2>2, <3>2, <3>3, <3>4
  <2>4. timelineCall'[c] \in WriteCalls(c)'
    BY <1>1, <2>3 DEF WriteCalls, PostEntry
  <2>5. c \in running' /\ compose'[c].at = "user timeline"
    BY <1>1, <2>6, CallKinds
  <2> QED
    BY <1>4, <2>4, <2>5 DEF CallRight
<1>6. CASE compose[c].at = "home timelines"
  BY <1>1, <1>4, <1>6, CallKinds DEF CallRight
<1>7. ~(timelineCall[c] = NoTimelineCall)
  <2>1. ASSUME timelineCall[c] = NoTimelineCall PROVE FALSE
    <3>1. timelineCall[c].op = "none" /\ timelineCall[c].todo = {}
      BY <2>1, CallKinds
    <3>2. ~TimelinesWork(c)
      BY <3>1 DEF TimelinesWork, TimelineWrites, TimelineReads, PushPost, RepeatPush, CachePost, Deliver, RangeTimeline,
         FindTimeline, FillTimeline, RangeHome, At
    <3>3. ~TimelineStops(c) /\ ~PushFails(c)
      BY <3>1 DEF TimelineStops, PushFails, TimelineFails, FindTimelineErrs, PushErrs, At
    <3> QED
      BY <1>3, <3>2, <3>3 DEF PostSteps
  <2> QED
    BY <2>1
<1> QED
  BY <1>5, <1>6, <1>7, CallKinds

\* A read that goes on with a page of stored posts stays right.
LEMMA ReadGoesOn ==
  ASSUME ActorsInv, TimesInv, EdgeInv, ServedInv, ReadsInv, [SocialNext]_socialVars,
         NEW c \in Calls, compose'[c].at = "idle", ReadRight(c),
         timelineCall'[c].op = timelineCall[c].op, timelineCall'[c].user = timelineCall[c].user,
         timelineCall'[c] \in ReadCalls,
         Members(timelineCall'[c].page) \subseteq posts, Once(timelineCall'[c].page),
         \A u \in Users : timelineCall[c].op = "read user" /\ timelineCall[c].user = u =>
                            timelineCall'[c].slice \subseteq OwnEntries(u),
         timelineCall[c].op = "read home" => timelineCall'[c].todo \notin {{"find"}, {"fill"}, {"posts", "fill"}},
         timelineCall'[c].todo \in {{"range"}, {"find"}} =>
           0 <= timelineCall'[c].start /\ postRead'[c].at = "idle",
         ~timelineCall'[c].ok => c \in faulted',
         postRead'[c] \in PostReads,
         postRead'[c].at /= "idle" =>
           /\ postRead'[c].ids = timelineCall'[c].page
           /\ postRead'[c].missing \subseteq Members(timelineCall'[c].page),
         postRead'[c].at = "failed" => c \in faulted'
  PROVE  CallRight(c)'
<1>1. c \in running' /\ running \subseteq running'
  BY RunningGrows DEF ReadRight
<1>2. posts \subseteq posts' /\ \A u \in Users : OwnEntries(u) \subseteq OwnEntries(u)'
  BY EntriesGrow
<1>3. ReadRight(c)'
  BY <1>1, <1>2 DEF ReadRight, ReadCalls
<1>4. PostReadRight(c)'
  BY DEF PostReadRight, ReadCalls, PostReads
<1> QED
  BY <1>1, <1>3, <1>4 DEF CallRight

LEMMA TodosDiffer ==
  /\ {"posts"} \notin {{"find"}, {"fill"}, {"posts", "fill"}}
  /\ {} \notin {{"find"}, {"fill"}, {"posts", "fill"}}
OBVIOUS

\* Each step of a read, on what its call and its read of posts become.
LEMMA TimelineReadRight ==
  ASSUME ActorsInv, TimesInv, EdgeInv, ServedInv, ListsInv, ReadsInv, [SocialNext]_socialVars,
         NEW c \in Calls, compose[c].at = "idle", ReadRight(c), TimelinesWork(c)
  PROVE  CallRight(c)'
<1> DEFINE call == timelineCall[c]
           next == timelineCall'[c]
<1>1. /\ compose'[c].at = "idle" /\ postRead'[c] = postRead[c] /\ faulted \subseteq faulted'
      /\ postRead[c] \in PostReads /\ DOMAIN timelineCall = Calls
      /\ PostReadRight(c)
  BY WorkLeaves, CallKinds DEF composeVars, postVars, ReadsInv, CallRight
<1>2. /\ call \in ReadCalls /\ Members(call.page) \subseteq posts /\ Once(call.page)
      /\ (call.op = "read home" => call.todo \notin {{"find"}, {"fill"}, {"posts", "fill"}})
      /\ (call.todo \in {{"range"}, {"find"}} => 0 <= call.start /\ postRead[c].at = "idle")
      /\ (~call.ok => c \in faulted)
  BY DEF ReadRight
<1>3. \A u \in Users : call.op = "read user" /\ call.user = u => call.slice \subseteq OwnEntries(u)
  BY DEF ReadRight
<1>4. /\ call.op \in {"read user", "read home"} /\ call.user \in Users /\ call.todo \in ReadTodos
      /\ call.start \in Int /\ call.stop \in Int
  BY <1>2 DEF ReadCalls
<1>5. /\ ("range" \in call.todo => call.todo = {"range"})
      /\ ("find" \in call.todo => call.todo = {"find"})
      /\ ("fill" \in call.todo => call.todo \ {"fill"} \in {{}, {"posts"}})
  BY <1>4 DEF ReadTodos
<1>13. call.todo = {"range"} \/ call.todo = {"find"} => call.start \in Nat
  <2>1. call.todo = {"range"} \/ call.todo = {"find"} => 0 <= call.start
    BY <1>2
  <2>2. call.start \in Int
    BY <1>4
  <2> HIDE DEF call
  <2> QED
    BY <2>1, <2>2
<1>6. PICK u \in Users : u = call.user
  BY <1>4
<1>7. /\ cachedTimeline[u] \in SUBSET PostedEntries /\ home[u] \in SUBSET PostedEntries
      /\ timeline[u] \in Seq(PostedEntries) /\ Members(timeline[u]) \subseteq OwnEntries(u)
  <2>1. /\ timeline[u] \in Seq(OwnEntries(u)) /\ cachedTimeline[u] \subseteq OwnEntries(u)
        /\ home[u] \subseteq PostedEntries
    BY DEF ListsInv
  <2>2. OwnEntries(u) \subseteq PostedEntries
    BY EntryFacts
  <2>3. /\ Len(timeline[u]) \in Nat /\ timeline[u] \in [1..Len(timeline[u]) -> OwnEntries(u)]
    BY <2>1, LenProperties
  <2>4. timeline[u] \in [1..Len(timeline[u]) -> PostedEntries]
    BY <2>2, <2>3
  <2>5. timeline[u] \in Seq(PostedEntries)
    BY <2>3, <2>4, SeqDef
  <2>6. Members(timeline[u]) \subseteq OwnEntries(u)
    BY <2>3 DEF Members
  <2> QED
    BY <2>1, <2>2, <2>5, <2>6
<1>8. ASSUME NEW page \in Seq(Calls), Members(page) \subseteq posts, Once(page), NEW todo \in {{"find"}, {"posts"}},
             call.todo = {"range"}, call.op = "read home" => todo = {"posts"},
             next = [call EXCEPT !.page = page, !.todo = todo]
      PROVE  CallRight(c)'
  <2>1. /\ next.op = call.op /\ next.user = call.user /\ next.slice = call.slice /\ next.ok = call.ok
        /\ next.page = page /\ next.todo = todo /\ next.start = call.start
    BY <1>2, <1>8 DEF ReadCalls
  <2>2. next \in ReadCalls
    <3>1. todo \in ReadTodos
      BY <1>8 DEF ReadTodos
    <3> QED
      BY <1>2, <1>8, <3>1 DEF ReadCalls
  <2>3. 0 <= call.start /\ postRead[c].at = "idle" /\ postRead'[c].at = "idle"
    BY <1>1, <1>2, <1>8
  <2>4. call.op = "read home" => next.todo \notin {{"find"}, {"fill"}, {"posts", "fill"}}
    <3>1. {"posts"} \notin {{"find"}, {"fill"}, {"posts", "fill"}}
      BY TodosDiffer
    <3> QED
      BY <1>8, <2>1, <3>1
  <2> QED
    BY <1>1, <1>2, <1>3, <1>8, <2>1, <2>2, <2>3, <2>4, ReadGoesOn
<1>9. CASE RangeTimeline(c)
  <2> DEFINE page == PostsOf(Page(Newest(cachedTimeline[u]), call.start, call.stop))
             todo == IF call.start + Len(page) < call.stop THEN {"find"} ELSE {"posts"}
  <2>1. /\ call.op = "read user" /\ call.todo = {"range"}
        /\ timelineCall' = [timelineCall EXCEPT ![c].page = page, ![c].todo = todo]
    BY <1>5, <1>6, <1>9 DEF RangeTimeline, At
  <2>2. next = [call EXCEPT !.page = page, !.todo = todo]
    BY <1>1, <2>1
  <2>3. call.start \in Nat
    BY <1>13, <2>1
  <2>4. page \in Seq(Calls) /\ Members(page) \subseteq posts /\ Once(page)
    BY <1>4, <1>7, <2>3, PagePosted
  <2>5. todo \in {{"find"}, {"posts"}}
    OBVIOUS
  <2> HIDE DEF page, todo
  <2>6. ~(call.op = "read home")
    BY <2>1
  <2> QED
    BY <1>8, <2>1, <2>2, <2>4, <2>5, <2>6
<1>10. CASE RangeHome(c)
  <2> DEFINE page == PostsOf(Page(Newest(home[u]), call.start, call.stop))
  <2>1. /\ call.op = "read home" /\ call.todo = {"range"}
        /\ timelineCall' = [timelineCall EXCEPT ![c].todo = {"posts"}, ![c].page = page]
    BY <1>5, <1>6, <1>10 DEF RangeHome, At
  <2> HIDE DEF page
  <2>2. next = [call EXCEPT !.page = page, !.todo = {"posts"}]
    BY <1>1, <1>2, <2>1 DEF ReadCalls
  <2>3. call.start \in Nat
    BY <1>13, <2>1
  <2>4. page \in Seq(Calls) /\ Members(page) \subseteq posts /\ Once(page)
    BY <1>4, <1>7, <2>3, PagePosted DEF page
  <2> QED
    BY <1>8, <2>1, <2>2, <2>4
<1>11. CASE FindTimeline(c)
  <2> DEFINE slice == Page(timeline[u], 0, call.stop)
             page == Complete(call, slice)
             todo == {"posts"} \cup (IF slice = <<>> THEN {} ELSE {"fill"})
  <2>1. /\ call.op = "read user" /\ call.todo = {"find"}
        /\ timelineCall' = [timelineCall EXCEPT ![c].page = page, ![c].slice = Members(slice), ![c].todo = todo]
    BY <1>5, <1>6, <1>11 DEF FindTimeline, At
  <2>2. next = [call EXCEPT !.page = page, !.slice = Members(slice), !.todo = todo]
    BY <1>1, <2>1
  <2>3. call.start \in Nat /\ call.page \in Seq(Calls)
    BY <1>2, <1>13, <2>1 DEF ReadCalls
  <2>4. /\ page \in Seq(Calls) /\ Members(page) \subseteq posts /\ Once(page)
        /\ Members(slice) \subseteq Members(timeline[u])
    BY <1>2, <1>4, <1>7, <2>3, CompletePosted
  <2>5. todo \in {{"posts"}, {"posts", "fill"}}
    OBVIOUS
  <2> HIDE DEF page, todo
  <2>6. Members(slice) \subseteq OwnEntries(u) /\ OwnEntries(u) \subseteq [post : Calls, at : Nat]
    BY <1>7, <2>4, EntryFacts
  <2> DEFINE entries == Members(slice)
  <2> HIDE DEF slice, entries
  <2>7. /\ next.op = call.op /\ next.user = call.user /\ next.slice = entries /\ next.ok = call.ok
        /\ next.page = page /\ next.todo = todo /\ next.start = call.start
    BY <1>2, <2>2 DEF ReadCalls, entries
  <2>8. next \in ReadCalls
    <3>1. todo \in ReadTodos
      BY <2>5 DEF ReadTodos
    <3>2. entries \in SUBSET [post : Calls, at : Nat]
      BY <2>6 DEF entries
    <3> QED
      BY <1>2, <2>2, <2>4, <3>1, <3>2 DEF ReadCalls, entries
  <2>9. postRead'[c].at = "idle"
    BY <1>1, <1>2, <2>1
  <2>10. \A v \in Users : call.op = "read user" /\ call.user = v => next.slice \subseteq OwnEntries(v)
    BY <1>6, <2>6, <2>7 DEF entries
  <2>11. ~(call.op = "read home") /\ next.todo \notin {{"range"}, {"find"}}
    BY <2>1, <2>5, <2>7
  <2> QED
    BY <1>1, <1>2, <2>4, <2>7, <2>8, <2>9, <2>10, <2>11, ReadGoesOn
<1>12. CASE FillTimeline(c)
  <2>1. call.todo \ {"fill"} \in {{}, {"posts"}} /\ next = [call EXCEPT !.todo = @ \ {"fill"}]
    BY <1>1, <1>5, <1>12 DEF FillTimeline, At, Did
  <2> DEFINE todo == call.todo \ {"fill"}
  <2>2. /\ next.op = call.op /\ next.user = call.user /\ next.slice = call.slice /\ next.ok = call.ok
        /\ next.page = call.page /\ next.todo = todo /\ next.start = call.start
    BY <1>2, <2>1 DEF ReadCalls
  <2>3. next \in ReadCalls
    <3>1. todo \in ReadTodos
      BY <2>1 DEF ReadTodos
    <3> QED
      BY <1>2, <2>1, <3>1 DEF ReadCalls
  <2>4. next.todo \notin {{"range"}, {"find"}} /\ next.todo \notin {{"find"}, {"fill"}, {"posts", "fill"}}
    BY <2>1, <2>2
  <2>5. /\ postRead'[c].at /= "idle" =>
             postRead'[c].ids = next.page /\ postRead'[c].missing \subseteq Members(call.page)
        /\ postRead'[c].at = "failed" => c \in faulted'
    BY <1>1, <2>2 DEF PostReadRight
  <2> QED
    BY <1>1, <1>2, <1>3, <2>2, <2>3, <2>4, <2>5, ReadGoesOn
<1> QED
  BY <1>4, <1>9, <1>10, <1>11, <1>12 DEF TimelinesWork, TimelineReads, TimelineWrites, PushPost, RepeatPush, CachePost, Deliver, At

LEMMA PostReadMade ==
  ASSUME NEW at \in {"done", "mget"}, NEW ids \in Seq(Calls)
  PROVE  [at |-> at, ids |-> ids, missing |-> {}] \in PostReads
BY DEF PostReads

\* The read of the posts finds all it looks for, unless a command fails.
LEMMA PostsReadRight ==
  ASSUME ActorsInv, TimesInv, EdgeInv, ServedInv, ReadsInv, [SocialNext]_socialVars,
         NEW c \in Calls, compose[c].at = "idle", ReadRight(c), PostSteps(c) \/ TimelineStops(c) \/ PushFails(c)
  PROVE  CallRight(c)'
<1> DEFINE call == timelineCall[c]
           next == timelineCall'[c]
           read == postRead[c]
           readNext == postRead'[c]
<1>1. /\ compose'[c].at = "idle" /\ faulted \subseteq faulted'
      /\ read \in PostReads /\ DOMAIN timelineCall = Calls /\ DOMAIN postRead = Calls
      /\ PostReadRight(c)
  BY WorkLeaves, CallKinds DEF composeVars, ReadsInv, CallRight
<1>2. /\ call \in ReadCalls /\ Members(call.page) \subseteq posts /\ Once(call.page)
      /\ (call.op = "read home" => call.todo \notin {{"find"}, {"fill"}, {"posts", "fill"}})
      /\ (call.todo \in {{"range"}, {"find"}} => 0 <= call.start /\ read.at = "idle")
      /\ (~call.ok => c \in faulted)
  BY DEF ReadRight
<1>3. \A u \in Users : call.op = "read user" /\ call.user = u => call.slice \subseteq OwnEntries(u)
  BY DEF ReadRight
<1>4. /\ call.op \in {"read user", "read home"} /\ call.user \in Users /\ call.todo \in ReadTodos
      /\ call.page \in Seq(Calls) /\ call.ok \in BOOLEAN
  BY <1>2 DEF ReadCalls
<1>5. /\ read.at /= "idle" => read.ids = call.page /\ read.missing \subseteq Members(call.page)
      /\ read.at = "failed" => c \in faulted
  BY <1>1 DEF PostReadRight
<1>6. ASSUME next = call, readNext \in PostReads, readNext.ids = call.page,
             readNext.missing \subseteq Members(call.page), readNext.at = "failed" => c \in faulted',
             readNext.at /= "idle" => call.todo \notin {{"range"}, {"find"}}
      PROVE  CallRight(c)'
  BY <1>1, <1>2, <1>3, <1>6, ReadGoesOn
<1>7. ASSUME NEW todo \in {{}, {"posts"}, {"fill"}}, call.op = "read home" => todo \in {{}, {"posts"}},
             NEW ok \in BOOLEAN, ~ok => c \in faulted', next = [call EXCEPT !.todo = todo, !.ok = ok],
             postRead' = postRead
      PROVE  CallRight(c)'
  <2>1. /\ next.op = call.op /\ next.user = call.user /\ next.slice = call.slice /\ next.ok = ok
        /\ next.page = call.page /\ next.todo = todo /\ next.start = call.start
    BY <1>2, <1>7 DEF ReadCalls
  <2>2. next \in ReadCalls
    <3>1. todo \in ReadTodos
      BY <1>7 DEF ReadTodos
    <3> QED
      BY <1>2, <1>7, <3>1 DEF ReadCalls
  <2>3. todo \notin {{"range"}, {"find"}}
    BY <1>7
  <2>4. call.op = "read home" => todo \notin {{"find"}, {"fill"}, {"posts", "fill"}}
    BY <1>7, TodosDiffer
  <2> QED
    BY <1>1, <1>2, <1>3, <1>5, <1>7, <2>1, <2>2, <2>3, <2>4, ReadGoesOn
<1>8. CASE AsksForPosts(c)
  <2>1. "posts" \in call.todo /\ ReadPosts(c, call.page) /\ next = call
    BY <1>8 DEF AsksForPosts, timelineVars
  <2>2. Cardinality(Members(call.page)) = Len(call.page)
    BY <1>2, <1>4, OnceCounted
  <2>3. \E at \in {"done", "mget"} : readNext = [at |-> at, ids |-> call.page, missing |-> {}]
    BY <1>1, <2>1, <2>2 DEF ReadPosts
  <2>4. /\ readNext \in PostReads /\ readNext.ids = call.page /\ readNext.missing = {}
        /\ readNext.at /= "failed"
    <3>1. PICK at \in {"done", "mget"} : readNext = [at |-> at, ids |-> call.page, missing |-> {}]
      BY <2>3
    <3> HIDE DEF call, readNext
    <3>2. readNext \in PostReads
      BY <1>4, <3>1, PostReadMade
    <3>3. readNext.ids = call.page /\ readNext.missing = {} /\ readNext.at = at
      BY <3>1
    <3>4. at /= "failed"
      OBVIOUS
    <3> QED
      BY <3>2, <3>3, <3>4
  <2>5. call.todo \notin {{"range"}, {"find"}}
    BY <2>1
  <2> QED
    BY <1>6, <2>1, <2>4, <2>5
<1>9. CASE ReadsPosts(c) \/ ReadStops(c)
  <2>1. next = call /\ read.at /= "idle"
    BY <1>9 DEF ReadsPosts, ReadStops, MultiGet, FindPosts, ReadPostsFails, timelineVars
  <2>2. read.ids = call.page /\ read.missing \subseteq Members(call.page)
        /\ call.todo \notin {{"range"}, {"find"}}
    BY <1>2, <1>5, <2>1
  <2>3. ASSUME NEW at \in {"done", "find", "failed"}, NEW missing \in SUBSET Members(call.page),
               readNext = [read EXCEPT !.missing = missing, !.at = at], at = "failed" => c \in faulted'
        PROVE  CallRight(c)'
    <3>1. missing \in SUBSET Calls
      BY <1>2 DEF TimesInv
    <3>2. /\ readNext \in PostReads /\ readNext.ids = call.page /\ readNext.missing = missing
          /\ readNext.at = at
      BY <1>1, <2>2, <2>3, <3>1 DEF PostReads
    <3> QED
      BY <1>6, <2>1, <2>2, <2>3, <3>2
  <2>4. CASE MultiGet(c)
    <3> DEFINE missing == Members(read.ids) \ cachedPosts
               at == IF missing = {} THEN "done" ELSE "find"
    <3>1. readNext = [read EXCEPT !.missing = missing, !.at = at]
      BY <1>1, <2>4 DEF MultiGet
    <3>2. missing \in SUBSET Members(call.page)
      BY <2>2
    <3>3. at \in {"done", "find", "failed"} /\ at /= "failed"
      OBVIOUS
    <3> HIDE DEF missing, at
    <3> QED
      BY <2>3, <3>1, <3>2, <3>3
  <2>5. CASE FindPosts(c)
    <3>1. read.missing \cap posts = read.missing
      BY <1>2, <2>2
    <3>2. readNext = [read EXCEPT !.at = "done"]
      BY <1>1, <2>5, <3>1 DEF FindPosts
    <3>3. readNext = [read EXCEPT !.missing = read.missing, !.at = "done"]
      BY <1>1, <3>2 DEF PostReads
    <3> QED
      BY <2>2, <2>3, <3>3
  <2>6. CASE ReadStops(c)
    <3>1. readNext = [read EXCEPT !.at = "failed"] /\ c \in faulted'
      BY <1>1, <2>6 DEF ReadStops, ReadPostsFails, CommandFails, CursorFails
    <3>2. readNext = [read EXCEPT !.missing = read.missing, !.at = "failed"]
      BY <1>1, <3>1 DEF PostReads
    <3> QED
      BY <2>2, <2>3, <3>1, <3>2
  <2> QED
    BY <1>9, <2>4, <2>5, <2>6 DEF ReadsPosts
<1>10. CASE GetsPosts(c)
  <2> DEFINE ok == call.ok /\ read.at = "done"
             todo == call.todo \ {"posts"}
  <2>1. /\ read.at \in {"done", "failed"} /\ "posts" \in call.todo /\ postRead' = postRead
        /\ next = [call EXCEPT !.todo = todo, !.ok = ok]
    BY <1>1, <1>10 DEF GetsPosts, HavePosts, postVars
  <2>2. ok \in BOOLEAN /\ (~ok => c \in faulted')
    BY <1>1, <1>2, <1>5, <2>1
  <2>3. todo \in {{}, {"fill"}} /\ (call.op = "read home" => todo = {})
    <3>1. call.todo \in {{"posts"}, {"posts", "fill"}}
      BY <1>4, <2>1 DEF ReadTodos
    <3> QED
      BY <1>2, <3>1
  <2> HIDE DEF ok, todo
  <2> QED
    BY <1>7, <2>1, <2>2, <2>3
<1>11. CASE TimelineStops(c)
  <2> DEFINE todo == call.todo \cap {"posts"}
  <2>1. c \in faulted' /\ postRead' = postRead
    BY <1>11 DEF TimelineStops, TimelineFails, FindTimelineErrs, CommandFails, CursorFails, postVars
  <2>2. todo \in {{}, {"posts"}}
    OBVIOUS
  <2> HIDE DEF todo
  <2>3. CASE TimelineFails(c)
    <3>1. next = [call EXCEPT !.todo = todo, !.ok = FALSE]
      BY <1>1, <2>3 DEF TimelineFails, todo
    <3> QED
      BY <1>7, <2>1, <2>2, <3>1
  <2>4. CASE FindTimelineErrs(c)
    <3>1. next = [call EXCEPT !.todo = {"posts"}]
      BY <1>1, <2>4 DEF FindTimelineErrs
    <3>2. next = [call EXCEPT !.todo = {"posts"}, !.ok = call.ok]
      BY <1>2, <3>1 DEF ReadCalls
    <3>3. ~call.ok => c \in faulted'
      BY <1>1, <1>2
    <3> QED
      BY <1>4, <1>7, <2>1, <3>2, <3>3
  <2> QED
    BY <1>11, <2>3, <2>4 DEF TimelineStops
<1>12. ~PushFails(c)
  BY <1>4 DEF PushFails, PushErrs, At
<1> QED
  BY <1>8, <1>9, <1>10, <1>11, <1>12 DEF PostSteps

\* A step of a call reads posts for that call only.
LEMMA OwnReads ==
  ASSUME DOMAIN postRead = Calls, NEW c \in Calls,
         Compose(c) \/ Read(c) \/ ComposeWorks(c) \/ TimelinesWork(c) \/ PostSteps(c) \/ TimelineStops(c) \/ PushFails(c)
  PROVE  /\ DOMAIN postRead' = Calls
         /\ \A d \in Calls : d /= c => postRead'[d] = postRead[d]
<1>1. \/ UNCHANGED postRead
      \/ \E record : postRead' = [postRead EXCEPT ![c] = record]
      \/ \E missing, at : postRead' = [postRead EXCEPT ![c].missing = missing, ![c].at = at]
      \/ \E at : postRead' = [postRead EXCEPT ![c].at = at]
  <2>1. ASSUME Compose(c) \/ Read(c) \/ TimelinesWork(c) \/ TimelineStops(c) \/ PushFails(c) PROVE UNCHANGED postRead
    BY <2>1 DEF Compose, Read, TimelinesWork, TimelineStops, PushFails, postVars
  <2>2. ASSUME ComposeWorks(c) PROVE UNCHANGED postRead
    BY <2>2 DEF ComposeWorks, ComposeStep, HaveParts, MissMentions, PartFails, UploadPost, StorePost, UploadUserTimeline,
                UploadHomeTimeline, WriteHomeTimeline, postVars
  <2>3. ASSUME AsksForPosts(c) PROVE \E record : postRead' = [postRead EXCEPT ![c] = record]
    BY <2>3 DEF AsksForPosts, ReadPosts
  <2>4. ASSUME MultiGet(c)
        PROVE  \E missing, at : postRead' = [postRead EXCEPT ![c].missing = missing, ![c].at = at]
    BY <2>4 DEF MultiGet
  <2>5. ASSUME FindPosts(c) \/ ReadPostsFails(c) PROVE \E at : postRead' = [postRead EXCEPT ![c].at = at]
    BY <2>5 DEF FindPosts, ReadPostsFails
  <2>6. ASSUME GetsPosts(c) PROVE UNCHANGED postRead
    BY <2>6 DEF GetsPosts, postVars
  <2> QED
    BY <2>1, <2>2, <2>3, <2>4, <2>5, <2>6 DEF PostSteps, ReadsPosts, ReadStops
<1> QED
  BY <1>1

\* The steps of a call keep what it does with timelines right.
LEMMA OwnCallRight ==
  ASSUME ActorsInv, TimesInv, EdgeInv, ServedInv, ListsInv, ReadsInv, [SocialNext]_socialVars, NEW c \in Calls,
         Compose(c) \/ Read(c) \/ ComposeWorks(c) \/ TimelinesWork(c) \/ PostSteps(c) \/ TimelineStops(c) \/ PushFails(c)
  PROVE  CallRight(c)'
<1>1. CASE Compose(c) \/ Read(c)
  BY <1>1, CallStarts
<1>2. CASE ComposeWorks(c)
  BY <1>2, ComposeCallRight
<1>3. CASE TimelinesWork(c) \/ PostSteps(c) \/ TimelineStops(c) \/ PushFails(c)
  <2>1. CASE compose[c].at /= "idle"
    BY <1>3, <2>1, WriteCallRight
  <2>2. CASE compose[c].at = "idle" /\ ReadRight(c)
    BY <1>3, <2>2, TimelineReadRight, PostsReadRight
  <2>3. CASE compose[c].at = "idle" /\ ~ReadRight(c)
    <3>1. timelineCall[c].op = "none" /\ timelineCall[c].todo = {} /\ postRead[c].at = "idle"
      BY <2>3, CallKinds
    <3>2. ~TimelinesWork(c)
      BY <3>1 DEF TimelinesWork, TimelineWrites, TimelineReads, PushPost, RepeatPush, CachePost, Deliver, RangeTimeline,
         FindTimeline, FillTimeline, RangeHome, At
    <3>3. ~TimelineStops(c) /\ ~PushFails(c) /\ ~PostSteps(c)
      BY <3>1 DEF TimelineStops, PushFails, TimelineFails, FindTimelineErrs, PushErrs, At, PostSteps, AsksForPosts, ReadsPosts, MultiGet, FindPosts, GetsPosts,
                  ReadStops, ReadPostsFails
    <3> QED
      BY <1>3, <3>2, <3>3
  <2> QED
    BY <2>1, <2>2, <2>3
<1> QED
  BY <1>1, <1>2, <1>3

LEMMA ReadsStay ==
  ASSUME ActorsInv, TimesInv, EdgeInv, ServedInv, ListsInv, ReadsInv, [SocialNext]_socialVars
  PROVE  ReadsInv'
<1>1. cachedPosts' \subseteq posts'
  <2>1. cachedPosts \subseteq posts /\ posts \subseteq posts'
    BY EntriesGrow DEF ReadsInv
  <2>2. cachedPosts' \subseteq cachedPosts \cup posts
    <3>1. CASE Quiet
      BY <3>1 DEF Quiet, postVars
    <3>2. ASSUME NEW c \in Calls, \/ Compose(c) \/ Read(c) \/ ComposeWorks(c) \/ TimelinesWork(c)
                                  \/ PostSteps(c) \/ TimelineStops(c) \/ PushFails(c)
          PROVE  cachedPosts' \subseteq cachedPosts \cup posts
      BY <3>2 DEF Compose, Read, ComposeWorks, ComposeStep, HaveParts, MissMentions, PartFails, UploadPost, StorePost,
           UploadUserTimeline, UploadHomeTimeline, WriteHomeTimeline, TimelinesWork, PostSteps, TimelineStops, PushFails,
           AsksForPosts, ReadPosts, ReadsPosts, MultiGet, FindPosts, GetsPosts, ReadStops, ReadPostsFails, postVars
    <3> QED
      BY <3>1, <3>2, TimelineSteps DEF postVars
  <2> QED
    BY <2>1, <2>2
<1>2. DOMAIN timelineCall = Calls /\ DOMAIN postRead = Calls /\ DOMAIN compose = Calls
  BY DEF ReadsInv, ActorsInv, ComposeTypeOK
<1>3. CASE Quiet
  <2>1. \A c \in Calls : /\ compose'[c] = compose[c] /\ timelineCall'[c] = timelineCall[c]
                         /\ postRead'[c] = postRead[c]
    BY <1>3 DEF Quiet, composeVars, postVars, timelineVars
  <2>2. DOMAIN timelineCall' = Calls /\ DOMAIN postRead' = Calls
    BY <1>2, <1>3 DEF Quiet, postVars, timelineVars
  <2> QED
    BY <1>1, <2>1, <2>2, CallKept DEF ReadsInv
<1>4. ASSUME UNCHANGED <<compose, timelineCall, postRead>> PROVE ReadsInv'
  <2>1. \A c \in Calls : /\ compose'[c] = compose[c] /\ timelineCall'[c] = timelineCall[c]
                         /\ postRead'[c] = postRead[c]
    BY <1>4
  <2>2. DOMAIN timelineCall' = Calls /\ DOMAIN postRead' = Calls
    BY <1>2, <1>4
  <2> QED
    BY <1>1, <2>1, <2>2, CallKept DEF ReadsInv
<1>5. ASSUME NEW c \in Calls, \/ Compose(c) \/ Read(c) \/ ComposeWorks(c) \/ TimelinesWork(c)
                              \/ PostSteps(c) \/ TimelineStops(c) \/ PushFails(c)
      PROVE  ReadsInv'
  <2>1. Arrives(c) \/ Works(c)
    BY <1>5 DEF Arrives, Works, PostSteps
  <2>2. /\ DOMAIN timelineCall' = Calls
        /\ \A d \in Calls : d /= c => compose'[d] = compose[d] /\ timelineCall'[d] = timelineCall[d]
    BY <1>2, <2>1, OwnRecords
  <2>3. /\ DOMAIN postRead' = Calls
        /\ \A d \in Calls : d /= c => postRead'[d] = postRead[d]
    BY <1>2, <1>5, OwnReads
  <2>4. \A d \in Calls : d /= c => CallRight(d)'
    BY <2>2, <2>3, CallKept
  <2>5. CallRight(c)'
    BY <1>5, OwnCallRight
  <2> QED
    BY <1>1, <2>2, <2>3, <2>4, <2>5 DEF ReadsInv
<1> QED
  BY <1>3, <1>4, <1>5, TimelineSteps DEF composeVars, postVars, RestartTimelineRedis

\* What writes the two timelines of users and the home timelines.
LEMMA ListSteps ==
  ASSUME [SocialNext]_socialVars
  PROVE  \/ UNCHANGED timelineStores
         \/ RestartHomeRedis \/ RestartTimelineRedis
         \/ \E c \in Calls : \/ PushPost(c) \/ RepeatPush(c) \/ PushErrs(c)
                             \/ CachePost(c) \/ FillTimeline(c) \/ \E u \in Users : Deliver(c, u)
<1>1. CASE Quiet
  BY <1>1 DEF Quiet, timelineVars
<1>2. ASSUME NEW c \in Calls, Compose(c) \/ Read(c) \/ PostSteps(c) \/ TimelineStops(c) \/ ComposeWorks(c)
      PROVE  UNCHANGED timelineStores
  BY <1>2 DEF Compose, Read, ReadTimeline, PostSteps, AsksForPosts, ReadsPosts, GetsPosts, HavePosts, ReadStops,
     TimelineStops, TimelineFails, FindTimelineErrs, ComposeWorks, ComposeStep, HaveParts, MissMentions, PartFails, UploadPost, UploadUserTimeline,
     WriteUserTimeline, UploadHomeTimeline, WriteHomeTimeline, FanOut, timelineVars
<1>3. ASSUME NEW c \in Calls, TimelinesWork(c)
      PROVE  \/ UNCHANGED timelineStores
             \/ PushPost(c) \/ RepeatPush(c)
             \/ CachePost(c) \/ FillTimeline(c) \/ \E u \in Users : Deliver(c, u)
  BY <1>3 DEF TimelinesWork, TimelineWrites, TimelineReads, RangeTimeline, FindTimeline, RangeHome
<1>4. \A c \in Calls : PushFails(c) => PushErrs(c)
  BY DEF PushFails
<1> QED
  BY <1>1, <1>2, <1>3, <1>4, TimelineSteps

\* A write of a user timeline is one of a compose whose post is stored.  Its
\* entry is not on the timeline before it is sent, and may be from then on.
LEMMA WritesAreOwn ==
  ASSUME ActorsInv, TimesInv, ServedInv, ListsInv, ReadsInv, NEW c \in Calls
  PROVE  /\ timelineCall[c].op = "write" =>
              /\ compose[c].at \in {"user timeline", "followers"} /\ timelineCall[c] \in WriteCalls(c)
              /\ timelineCall[c].todo \in WriteLeft
              /\ timelineCall[c].user = compose[c].user /\ compose[c].user \in Users
              /\ timelineCall[c].entry = PostEntry(c) /\ c \in posts
              /\ "push" \in timelineCall[c].todo => ~Pushed(c)
              /\ "push" \in timelineCall[c].todo /\ "again" \notin timelineCall[c].todo =>
                   PostEntry(c) \notin OwnEntries(compose[c].user)
              /\ "push" \notin timelineCall[c].todo => PostEntry(c) \in OwnEntries(compose[c].user)
         /\ timelineCall[c].op = "fan out" => timelineCall[c].entry = PostEntry(c) /\ c \in posts
<1>1. NoTimelineCall.op = "none"
  BY DEF NoTimelineCall
<1>2. ASSUME timelineCall[c].op = "write"
      PROVE  compose[c].at \in {"user timeline", "followers"} /\ timelineCall[c] \in WriteCalls(c)
  BY <1>1, <1>2, CallKinds DEF FanOuts, ReadRight, ReadCalls
<1>3. ASSUME timelineCall[c].op = "fan out"
      PROVE  compose[c].at = "home timelines" /\ timelineCall[c] \in FanOuts(c)
  BY <1>1, <1>3, CallKinds DEF WriteCalls, ReadRight, ReadCalls
<1>4. compose[c].at \in {"user timeline", "followers", "home timelines"} => c \in posts
  BY DEF TimesInv, StoredPlaces
<1>5. compose[c].user \in Users
  BY DEF ActorsInv, ComposeTypeOK
<1>6. ASSUME ~Sent(c) PROVE PostEntry(c) \notin OwnEntries(compose[c].user)
  BY <1>6 DEF OwnEntries, PostEntry
<1>7. ASSUME Sent(c) PROVE PostEntry(c) \in OwnEntries(compose[c].user)
  BY <1>7 DEF OwnEntries
<1>8. ASSUME timelineCall[c].op = "write"
      PROVE  /\ timelineCall[c].todo \in WriteLeft
             /\ timelineCall[c].user = compose[c].user /\ timelineCall[c].entry = PostEntry(c)
             /\ "push" \in timelineCall[c].todo => ~Pushed(c)
             /\ Sent(c) <=> ("push" \in timelineCall[c].todo => "again" \in timelineCall[c].todo)
  BY <1>2, <1>8 DEF WriteCalls, Pushed, Sent
<1>9. timelineCall[c].op = "fan out" => timelineCall[c].entry = PostEntry(c)
  BY <1>3 DEF FanOuts
<1> QED
  BY <1>2, <1>3, <1>4, <1>5, <1>6, <1>7, <1>8, <1>9

LEMMA ListsStay ==
  ASSUME ActorsInv, TimesInv, EdgeInv, ServedInv, ListsInv, ReadsInv, [SocialNext]_socialVars
  PROVE  ListsInv'
<1>1. /\ PostedEntries \subseteq PostedEntries'
      /\ \A u \in Users : OwnEntries(u) \subseteq OwnEntries(u)'
      /\ \A c \in posts : PostEntry(c)' = PostEntry(c)
  BY EntriesGrow
<1> DEFINE ListRight(u) == /\ timeline[u] \in Seq(OwnEntries(u))
                           /\ cachedTimeline[u] \subseteq OwnEntries(u)
                           /\ home[u] \subseteq PostedEntries
<1>2. DOMAIN timelineCall = Calls /\ DOMAIN timeline = Users /\ DOMAIN cachedTimeline = Users /\ DOMAIN home = Users
      /\ \A u \in Users : ListRight(u)
  BY DEF ListsInv, ReadsInv
<1>3. ASSUME NEW u \in Users PROVE timeline[u] \in Seq(OwnEntries(u)')
  <2>1. Len(timeline[u]) \in Nat /\ timeline[u] \in [1..Len(timeline[u]) -> OwnEntries(u)]
    BY <1>2, LenProperties
  <2>2. timeline[u] \in [1..Len(timeline[u]) -> OwnEntries(u)']
    BY <1>1, <2>1
  <2> QED
    BY <2>1, <2>2, SeqDef
<1>4. ASSUME NEW u \in Users, timeline'[u] = timeline[u], cachedTimeline'[u] \subseteq OwnEntries(u)',
             home'[u] \subseteq PostedEntries'
      PROVE  ListRight(u)'
  <2>1. timeline'[u] \in Seq(OwnEntries(u)')
    BY <1>2, <1>3, <1>4
  <2> QED
    BY <1>4, <2>1
<1>5. ASSUME UNCHANGED timeline, DOMAIN cachedTimeline' = Users, DOMAIN home' = Users,
             \A u \in Users : cachedTimeline'[u] \subseteq OwnEntries(u)' /\ home'[u] \subseteq PostedEntries'
      PROVE  ListsInv'
  <2>1. \A u \in Users : ListRight(u)'
    BY <1>4, <1>5
  <2> HIDE DEF ListRight
  <2>2. DOMAIN timeline' = Users
    BY <1>2, <1>5
  <2> QED
    BY <1>5, <2>1, <2>2 DEF ListsInv, ListRight
<1>6. CASE UNCHANGED timelineStores \/ RestartHomeRedis \/ RestartTimelineRedis
  <2>1. /\ UNCHANGED timeline /\ DOMAIN cachedTimeline' = Users /\ DOMAIN home' = Users
        /\ \A u \in Users : /\ cachedTimeline'[u] = cachedTimeline[u] \/ cachedTimeline'[u] = {}
                            /\ home'[u] = home[u] \/ home'[u] = {}
    BY <1>2, <1>6 DEF timelineStores, RestartHomeRedis, RestartTimelineRedis
  <2>2. \A u \in Users : cachedTimeline'[u] \subseteq OwnEntries(u)' /\ home'[u] \subseteq PostedEntries'
    BY <1>1, <1>2, <2>1
  <2> HIDE DEF ListRight
  <2> QED
    BY <1>5, <2>1, <2>2
<1>7. ASSUME NEW c \in Calls, PushPost(c) \/ RepeatPush(c) \/ PushErrs(c) PROVE ListsInv'
  <2>00. PICK u \in Users : u = compose[c].user
    BY DEF ActorsInv, ComposeTypeOK
  <2>01. PICK e : e = PostEntry(c)
    OBVIOUS
  <2>0. u = compose[c].user /\ e = PostEntry(c)
    BY <2>00, <2>01
  <2>1. PICK left \in {{"cache"}, {"push", "again", "cache"}} :
          timelineCall' = [timelineCall EXCEPT ![c].todo = left]
    BY <1>7, PushFacts
  <2>2. /\ c \in posts /\ timelineCall[c] \in WriteCalls(c) /\ compose[c].at = "user timeline"
        /\ UNCHANGED <<cachedTimeline, home>>
    BY <1>7, PushFacts
  <2>3. timeline' = timeline \/ timeline' = [timeline EXCEPT ![u] = <<e>> \o timeline[u]]
    BY <1>7, <2>0, PushFacts
  <2>4. Sent(c)' /\ compose'[c].user = u
    <3>1. BegunKept(c)
      BY BegunStays
    <3>2. timelineCall'[c].todo = left
      BY <1>2, <2>1, <2>2 DEF WriteCalls
    <3> QED
      BY <2>0, <2>2, <3>1, <3>2 DEF BegunKept, Sent
  <2>5. e \in OwnEntries(u)'
    <3>1. PostEntry(c)' = e
      BY <1>1, <2>0, <2>2
    <3> QED
      BY <2>4, <3>1 DEF OwnEntries
  <2>6. <<e>> \o timeline[u] \in Seq(OwnEntries(u)') /\ timeline[u] \in Seq(OwnEntries(u)')
    <3>1. <<e>> \in Seq(OwnEntries(u)')
      BY <2>5
    <3>2. timeline[u] \in Seq(OwnEntries(u)')
      BY <1>2, <1>3
    <3> DEFINE E == OwnEntries(u)'
               s == <<e>>
               t == timeline[u]
    <3> HIDE DEF E, s, t
    <3>3. s \o t \in Seq(E)
      BY <3>1, <3>2, ConcatProperties DEF E, s, t
    <3> QED
      BY <3>2, <3>3 DEF E, s, t
  <2>7. timeline'[u] \in {<<e>> \o timeline[u], timeline[u]} /\ DOMAIN timeline' = Users
        /\ \A v \in Users : v /= u => timeline'[v] = timeline[v]
    BY <1>2, <2>3
  <2>8. \A v \in Users : cachedTimeline'[v] \subseteq OwnEntries(v)' /\ home'[v] \subseteq PostedEntries'
    BY <1>1, <1>2, <2>2
  <2>9. \A v \in Users : v /= u => ListRight(v)'
    BY <1>4, <2>7, <2>8
  <2>10. timeline'[u] \in Seq(OwnEntries(u)')
    BY <2>6, <2>7
  <2>11. ListRight(u)'
    BY <2>8, <2>10
  <2>12. DOMAIN cachedTimeline' = Users /\ DOMAIN home' = Users
    BY <1>2, <2>2
  <2> HIDE DEF ListRight
  <2>13. \A v \in Users : ListRight(v)'
    BY <2>9, <2>11
  <2> QED
    BY <2>7, <2>12, <2>13 DEF ListsInv, ListRight
<1>8. ASSUME NEW c \in Calls, CachePost(c) \/ FillTimeline(c) PROVE ListsInv'
  <2>1. PICK u, S :
          /\ u = timelineCall[c].user /\ S = (IF CachePost(c) THEN {timelineCall[c].entry} ELSE timelineCall[c].slice)
    OBVIOUS
  <2>2. /\ cachedTimeline' = [cachedTimeline EXCEPT ![u] = @ \cup S]
        /\ UNCHANGED <<timeline, home>>
    BY <1>8, <2>1 DEF CachePost, FillTimeline, Owner
  <2>3. u \in Users => S \subseteq OwnEntries(u)
    <3>1. CASE CachePost(c)
      <4>1. timelineCall[c].op = "write" /\ "push" \notin timelineCall[c].todo
        BY <3>1 DEF CachePost, At
      <4>2. /\ timelineCall[c].entry = PostEntry(c) /\ timelineCall[c].user = compose[c].user
            /\ PostEntry(c) \in OwnEntries(compose[c].user)
        BY <4>1, WritesAreOwn
      <4>3. u = compose[c].user /\ S = {PostEntry(c)}
        BY <2>1, <3>1, <4>2
      <4>4. PostEntry(c) \in OwnEntries(u)
        BY <4>2, <4>3
      <4> QED
        BY <4>3, <4>4
    <3>2. CASE ~CachePost(c)
      <4>1. timelineCall[c].op = "read user" /\ S = timelineCall[c].slice
        BY <1>8, <2>1, <3>2 DEF FillTimeline, At
      <4>2. NoTimelineCall.op = "none"
        BY DEF NoTimelineCall
      <4>3. ReadRight(c)
        BY <4>1, <4>2, CallKinds DEF WriteCalls, FanOuts
      <4> QED
        BY <2>1, <4>1, <4>3 DEF ReadRight
    <3> QED
      BY <3>1, <3>2
  <2>4. DOMAIN cachedTimeline' = Users /\ DOMAIN home' = Users
        /\ \A v \in Users : cachedTimeline'[v] = cachedTimeline[v] \/ (v = u /\ cachedTimeline'[v] = cachedTimeline[v] \cup S)
    BY <1>2, <2>2
  <2>5. \A v \in Users : cachedTimeline'[v] \subseteq OwnEntries(v)' /\ home'[v] \subseteq PostedEntries'
    BY <1>1, <1>2, <2>2, <2>3, <2>4
  <2> HIDE DEF ListRight
  <2> QED
    BY <1>5, <2>2, <2>4, <2>5
<1>9. ASSUME NEW c \in Calls, NEW u \in Users, Deliver(c, u) PROVE ListsInv'
  <2>1. /\ timelineCall[c].op = "fan out" /\ UNCHANGED <<timeline, cachedTimeline>>
        /\ home' = [home EXCEPT ![u] = @ \cup {timelineCall[c].entry}]
    BY <1>9 DEF Deliver, At
  <2>2. timelineCall[c].entry \in PostedEntries
    BY <2>1, WritesAreOwn DEF PostedEntries
  <2>3. DOMAIN cachedTimeline' = Users /\ DOMAIN home' = Users
        /\ \A v \in Users : home'[v] \subseteq home[v] \cup {timelineCall[c].entry}
    BY <1>2, <2>1
  <2>4. \A v \in Users : cachedTimeline'[v] \subseteq OwnEntries(v)' /\ home'[v] \subseteq PostedEntries'
    BY <1>1, <1>2, <2>1, <2>2, <2>3
  <2> HIDE DEF ListRight
  <2> QED
    BY <1>5, <2>1, <2>3, <2>4
<1> QED
  BY <1>6, <1>7, <1>8, <1>9, ListSteps

LEMMA TimelinesStart == SocialInit => TimesInv /\ ListsInv /\ ReadsInv
<1> SUFFICES ASSUME SocialInit PROVE TimesInv /\ ListsInv /\ ReadsInv
  OBVIOUS
<1>1. /\ posts = {} /\ cachedPosts = {} /\ running = {}
      /\ \A c \in Calls : compose[c].at = "idle"
      /\ timelineCall = [c \in Calls |-> NoTimelineCall]
      /\ postRead = [c \in Calls |-> NoRead]
  BY DEF SocialInit, PostsInit, ComposeInit, NotComposing, TimelinesInit
<1>2. TimesInv
  BY <1>1 DEF TimesInv, StoredPlaces
<1>3. ListsInv
  <2>1. /\ timeline = [u \in Users |-> <<>>] /\ cachedTimeline = [u \in Users |-> {}]
        /\ home = [u \in Users |-> {}]
    BY DEF SocialInit, TimelinesInit
  <2>2. \A u \in Users : timeline[u] = <<>> /\ cachedTimeline[u] = {} /\ home[u] = {}
    BY <2>1
  <2>3. \A u \in Users : timeline[u] \in Seq(OwnEntries(u))
    BY <2>2, NothingListed, EmptySeq
  <2> QED
    BY <2>1, <2>2, <2>3 DEF ListsInv
<1>4. ReadsInv
  <2>1. \A c \in Calls : postRead[c].at = "idle" /\ postRead[c] \in PostReads
    <3>1. <<>> \in Seq(Calls)
      BY EmptySeq
    <3>2. NoRead \in PostReads /\ NoRead.at = "idle"
      BY <3>1 DEF NoRead, PostReads
    <3> QED
      BY <1>1, <3>2
  <2>2. \A c \in Calls : CallRight(c)
    BY <1>1, <2>1 DEF CallRight, PostReadRight
  <2> QED
    BY <1>1, <2>2 DEF ReadsInv
<1> QED
  BY <1>2, <1>3, <1>4

TimelinesInv == CoreInv /\ ServedInv /\ TimesInv /\ ListsInv /\ ReadsInv

LEMMA TimelinesAlways == SocialSpec => []TimelinesInv
<1>1. SocialInit => ServedInv /\ TimesInv /\ ListsInv /\ ReadsInv
  BY ServedStart, TimelinesStart
<1>2. ASSUME CoreInv, ServedInv, TimesInv, ListsInv, ReadsInv, [SocialNext]_socialVars
      PROVE  ServedInv' /\ TimesInv' /\ ListsInv' /\ ReadsInv'
  <2>1. ActorsInv /\ EdgeInv
    BY <1>2 DEF CoreInv
  <2> QED
    BY <1>2, <2>1, ServedStays, TimesStay, ListsStay, ReadsStay
<1> QED
  BY <1>1, <1>2, CoreAlways, PTL DEF SocialSpec, TimelinesInv

\* A read of a timeline, by whoever and whatever is composed and restarted
\* meanwhile, fails only when a command of its own fails: the posts it asks
\* post storage for are stored, and each is asked for once.
THEOREM ReadsAlwaysSucceed == SocialSpec => []ReadsSucceed
<1>1. TimelinesInv => ReadsSucceed
  <2> SUFFICES ASSUME TimelinesInv, NEW c \in running,
                      timelineCall[c].op \in {"read user", "read home"}, ~timelineCall[c].ok
               PROVE  c \in faulted
    BY DEF ReadsSucceed
  <2>1. c \in Calls /\ ReadsInv /\ ServedInv /\ ActorsInv
    BY DEF TimelinesInv, ServedInv, CoreInv
  <2>2. NoTimelineCall.op = "none"
    BY DEF NoTimelineCall
  <2>3. ReadRight(c)
    BY <2>1, <2>2, CallKinds DEF WriteCalls, FanOuts
  <2> QED
    BY <2>3 DEF ReadRight
<1> QED
  BY <1>1, TimelinesAlways, PTL

-----------------------------------------------------------------------------
(* The beginnings of lists. *)

\* What is listed in order and leaves out nothing before one it has is the
\* beginning of the list.
Increasing(n, e) == e \in [1..n -> Int] /\ \A i, j \in 1..n : i < j => e[i] < e[j]
NoneLeftOut(n, e, l, f) ==
  /\ \A i \in 1..n : \E j \in 1..l : f[j] = e[i]
  /\ \A i, j \in 1..l : i < j /\ (\E k \in 1..n : e[k] = f[j]) => \E k \in 1..n : e[k] = f[i]

LEMMA ListsBeginAlike ==
  ASSUME NEW n \in Nat, NEW l \in Nat, NEW e, NEW f, Increasing(n, e), Increasing(l, f),
         NoneLeftOut(n, e, l, f)
  PROVE  \A i \in 1..n : i \in 1..l /\ e[i] = f[i]
<1> SUFFICES ASSUME NEW x \in 1..n, ~(x \in 1..l /\ e[x] = f[x]) PROVE FALSE
  OBVIOUS
<1> USE DEF Increasing, NoneLeftOut
<1> DEFINE Bad == {i \in 1..n : ~(i \in 1..l /\ e[i] = f[i])}
<1>1. PICK i \in Bad : \A k \in Bad : i <= k
  <2>1. x \in Bad /\ Bad \subseteq 1..n
    OBVIOUS
  <2> HIDE DEF Bad
  <2>2. Bad \in SUBSET Nat /\ Bad /= {}
    BY <2>1
  <2> QED
    BY <2>2, SmallestOfSet
<1>2. i \in 1..n /\ ~(i \in 1..l /\ e[i] = f[i])
  OBVIOUS
<1>3. ASSUME NEW k \in 1..n, k < i PROVE k \in 1..l /\ e[k] = f[k]
  BY <1>1, <1>2, <1>3
<1> HIDE DEF Bad
<1>4. PICK j \in 1..l : f[j] = e[i]
  BY <1>2
<1>5. ~(j < i)
  <2> SUFFICES ASSUME j < i PROVE FALSE
    OBVIOUS
  <2>1. j \in 1..n
    BY <1>2
  <2>2. e[j] = f[j] /\ e[j] < e[i]
    BY <1>2, <1>3, <2>1
  <2> QED
    BY <1>2, <1>4, <2>1, <2>2
<1>6. i < j
  BY <1>2, <1>4, <1>5
<1>7. i \in 1..l
  BY <1>2, <1>6
<1>8. PICK k \in 1..n : e[k] = f[i]
  BY <1>2, <1>4, <1>6, <1>7
<1>9. f[i] < f[j] /\ f[i] \in Int /\ f[j] \in Int
  BY <1>6, <1>7
<1>10. e[k] < e[i] /\ e[k] \in Int /\ e[i] \in Int
  BY <1>2, <1>4, <1>8, <1>9
<1>11. k < i
  <2>1. k = i \/ k < i \/ i < k
    BY <1>2
  <2>2. i < k => e[i] < e[k]
    BY <1>2
  <2> QED
    BY <1>10, <2>1, <2>2
<1>12. e[k] = f[k] /\ k \in 1..l /\ f[k] < f[i]
  BY <1>3, <1>7, <1>11
<1> QED
  BY <1>8, <1>9, <1>12

\* A list of all of a set, whatever the order.
LEMMA AllListed ==
  ASSUME NEW S, IsFiniteSet(S), NEW e \in [1..Cardinality(S) -> S],
         \A i, j \in 1..Cardinality(S) : e[i] = e[j] => i = j
  PROVE  \A x \in S : \E i \in 1..Cardinality(S) : e[i] = x
<1>1. Cardinality(S) \in Nat
  BY FS_CardinalityType
<1>2. e \in Injection(1..Cardinality(S), S)
  BY DEF Injection, IsInjective
<1>3. IsFiniteSet(1..Cardinality(S)) /\ Cardinality(1..Cardinality(S)) = Cardinality(S)
  BY <1>1, FS_Interval
<1>4. e \in Surjection(1..Cardinality(S), S)
  BY <1>2, <1>3, FS_Injection
<1> QED
  BY <1>4 DEF Surjection

\* The newest of a set that has no gaps in a list.
LEMMA NewestBegins ==
  ASSUME NEW E, NEW list \in Seq(E), InTimeOrder(list), \A x \in E : x.at \in Int,
         \A x, y \in E : x.at = y.at => x = y,
         NEW S \in SUBSET Members(list), IsFiniteSet(S),
         \A i, j \in DOMAIN list : i < j /\ list[j] \in S => list[i] \in S
  PROVE  /\ Newest(S) \in Seq(E) /\ Len(Newest(S)) <= Len(list)
         /\ \A i \in DOMAIN Newest(S) : i \in DOMAIN list /\ Newest(S)[i] = list[i]
<1> DEFINE n == Cardinality(S)
           l == Len(list)
           top == Newest(S)
<1>1. /\ l \in Nat /\ DOMAIN list = 1..l /\ \A i \in 1..l : list[i] \in E
  BY LenProperties, ElementOfSeq
<1>2. S \subseteq E /\ \A x \in S : \E j \in 1..l : list[j] = x
  BY <1>1 DEF Members
<1>3. n \in Nat
  BY FS_CardinalityType
<1>4. top \in [1..n -> S] /\ InTimeOrder(top)
  <2>1. /\ \A x \in S : x.at \in Int
        /\ \A x, y \in S : x.at = y.at => x = y
    BY <1>2
  <2> QED
    BY <2>1, NewestListed
<1> HIDE DEF l, n, top
<1> DEFINE e == [i \in 1..n |-> -top[i].at]
           f == [i \in 1..l |-> -list[i].at]
<1>5. /\ \A i \in 1..n : top[i] \in S /\ top[i].at \in Int
      /\ \A i \in 1..l : list[i].at \in Int
  BY <1>1, <1>2, <1>4
<1>6. e \in [1..n -> Int] /\ f \in [1..l -> Int]
  BY <1>5
<1>7. \A i, j \in 1..n : i < j => e[i] < e[j]
  <2> SUFFICES ASSUME NEW i \in 1..n, NEW j \in 1..n, i < j PROVE -top[i].at < -top[j].at
    OBVIOUS
  <2>1. top[i].at > top[j].at
    BY <1>4 DEF InTimeOrder
  <2> QED
    BY <1>5, <2>1
<1>8. \A i, j \in 1..l : i < j => f[i] < f[j]
  <2> SUFFICES ASSUME NEW i \in 1..l, NEW j \in 1..l, i < j PROVE -list[i].at < -list[j].at
    OBVIOUS
  <2>1. list[i].at > list[j].at
    BY <1>1 DEF InTimeOrder
  <2> QED
    BY <1>5, <2>1
<1>9. \A i \in 1..n : \E j \in 1..l : f[j] = e[i]
  <2> SUFFICES ASSUME NEW i \in 1..n PROVE \E j \in 1..l : -list[j].at = -top[i].at
    OBVIOUS
  <2> QED
    BY <1>2, <1>5
<1>10. \A i, j \in 1..n : top[i] = top[j] => i = j
  <2> SUFFICES ASSUME NEW i \in 1..n, NEW j \in 1..n, top[i] = top[j] PROVE i = j
    OBVIOUS
  <2>1. i \in Nat /\ j \in Nat /\ e[i] = e[j] /\ e[i] \in Int
    BY <1>3, <1>6
  <2>2. ~(i < j) /\ ~(j < i)
    BY <1>7, <2>1
  <2> QED
    BY <2>1, <2>2
<1>11. \A x \in S : \E i \in 1..n : top[i] = x
  BY <1>4, <1>10, AllListed DEF n
<1>12. \A i, j \in 1..l : i < j /\ (\E k \in 1..n : e[k] = f[j]) => \E k \in 1..n : e[k] = f[i]
  <2> SUFFICES ASSUME NEW i \in 1..l, NEW j \in 1..l, i < j, NEW k \in 1..n, -top[k].at = -list[j].at
               PROVE  \E m \in 1..n : -top[m].at = -list[i].at
    OBVIOUS
  <2>1. top[k].at = list[j].at /\ top[k] \in E /\ list[j] \in E
    BY <1>1, <1>2, <1>5
  <2>2. list[j] \in S
    BY <1>5, <2>1
  <2>3. list[i] \in S
    BY <1>1, <2>2
  <2> QED
    BY <1>11, <2>3
<1> HIDE DEF e, f
<1>13. \A i \in 1..n : i \in 1..l /\ e[i] = f[i]
  <2>1. Increasing(n, e) /\ Increasing(l, f)
    BY <1>6, <1>7, <1>8 DEF Increasing
  <2>2. NoneLeftOut(n, e, l, f)
    BY <1>9, <1>12 DEF NoneLeftOut
  <2> QED
    BY <1>1, <1>3, <2>1, <2>2, ListsBeginAlike
<1>14. ASSUME NEW i \in 1..n PROVE i \in 1..l /\ top[i] = list[i]
  <2>1. i \in 1..l /\ -top[i].at = -list[i].at
    BY <1>13 DEF e, f
  <2>2. top[i].at = list[i].at /\ top[i] \in E /\ list[i] \in E
    BY <1>1, <1>2, <1>5, <2>1
  <2> QED
    BY <2>1, <2>2
<1>15. top \in Seq(E) /\ Len(top) = n
  <2>1. top \in [1..n -> E]
    BY <1>2, <1>4
  <2>2. top \in Seq(E)
    BY <1>3, <2>1, SeqDef
  <2> QED
    BY <1>3, <2>1, <2>2, LenProperties
<1>16. n <= l
  <2>1. n = 0 \/ n \in 1..n
    BY <1>3
  <2> QED
    BY <1>1, <1>14, <2>1
<1> QED
  BY <1>1, <1>4, <1>14, <1>15, <1>16 DEF l, top

\* What is in time order has nothing twice.
LEMMA OrderedOnce ==
  ASSUME NEW E, NEW list \in Seq(E), InTimeOrder(list), \A x \in E : x.at \in Int
  PROVE  Once(list)
<1> SUFFICES ASSUME NEW i \in DOMAIN list, NEW j \in DOMAIN list, list[i] = list[j] PROVE i = j
  BY DEF Once
<1>1. i \in Int /\ j \in Int /\ list[i].at \in Int /\ list[j].at \in Int
  BY LenProperties, ElementOfSeq
<1>2. ~(i < j) /\ ~(j < i)
  <2>1. i < j => list[i].at > list[j].at
    BY DEF InTimeOrder
  <2>2. j < i => list[j].at > list[i].at
    BY DEF InTimeOrder
  <2>3. list[i].at = list[j].at
    OBVIOUS
  <2> QED
    BY <1>1, <2>1, <2>2, <2>3
<1> QED
  BY <1>1, <1>2

\* A list without what it has not is the list.
LEMMA WithoutNothing ==
  ASSUME NEW E, NEW list \in Seq(E), Once(list), NEW S, Members(list) \cap S = {}
  PROVE  Without(list, S) = list
<1> DEFINE l == Len(list)
           e == InTurn(1..l)
<1>1. l \in Nat /\ DOMAIN list = 1..l /\ list \in [1..l -> E]
  BY LenProperties
<1>2. {i \in DOMAIN list : list[i] \notin S /\ \A j \in 1..(i - 1) : list[j] /= list[i]} = 1..l
  <2> SUFFICES ASSUME NEW i \in 1..l
               PROVE  list[i] \notin S /\ \A j \in 1..(i - 1) : list[j] /= list[i]
    BY <1>1
  <2>1. list[i] \notin S
    BY <1>1 DEF Members
  <2>2. ASSUME NEW j \in 1..(i - 1), list[j] = list[i] PROVE FALSE
    <3>1. j \in 1..l /\ j /= i
      BY <1>1
    <3> QED
      BY <1>1, <2>2, <3>1 DEF Once
  <2> QED
    BY <2>1, <2>2
<1>3. IsFiniteSet(1..l) /\ Cardinality(1..l) = l
  <2> HIDE DEF l
  <2> QED
    BY <1>1, FS_Interval
<1>4. e \in [1..l -> 1..l] /\ Rising(e)
  BY <1>1, <1>3, PlacesListed
<1> HIDE DEF l, e
<1>5. \A i, j \in 1..l : i < j => e[i] < e[j]
  BY <1>4 DEF Rising
<1>6. \A i, j \in 1..l : e[i] = e[j] => i = j
  <2> SUFFICES ASSUME NEW i \in 1..l, NEW j \in 1..l, e[i] = e[j] PROVE i = j
    OBVIOUS
  <2>1. i \in Nat /\ j \in Nat /\ e[i] \in Int
    BY <1>1, <1>4
  <2>2. ~(i < j) /\ ~(j < i)
    BY <1>5, <2>1
  <2> QED
    BY <2>1, <2>2
<1>7. \A x \in 1..l : \E i \in 1..l : e[i] = x
  <2> DEFINE P == 1..l
  <2>1. IsFiniteSet(P) /\ Cardinality(P) = l /\ e \in [1..Cardinality(P) -> P]
    BY <1>3, <1>4
  <2> HIDE DEF P
  <2>2. \A i, j \in 1..Cardinality(P) : e[i] = e[j] => i = j
    BY <1>6, <2>1
  <2>3. \A x \in P : \E i \in 1..Cardinality(P) : e[i] = x
    BY <2>1, <2>2, AllListed
  <2> QED
    BY <2>1, <2>3 DEF P
<1> DEFINE f == [i \in 1..l |-> i]
<1>8. \A i \in 1..l : e[i] = f[i]
  <2>1. Increasing(l, e)
    BY <1>1, <1>4, <1>5 DEF Increasing
  <2>2. Increasing(l, f)
    BY <1>1 DEF Increasing
  <2>3. NoneLeftOut(l, e, l, f)
    BY <1>1, <1>4, <1>7 DEF NoneLeftOut
  <2> HIDE DEF f
  <2> QED
    BY <1>1, <2>1, <2>2, <2>3, ListsBeginAlike
<1>9. \A i \in 1..l : e[i] = i
  BY <1>8
<1>10. Without(list, S) = [i \in 1..l |-> list[e[i]]]
  BY <1>2, <1>4 DEF Without, e
<1>11. [i \in 1..l |-> list[e[i]]] = [i \in 1..l |-> list[i]]
  BY <1>9
<1> QED
  BY <1>1, <1>10, <1>11

\* How long a page of a list of a length is, and when a list is the page.
PageLen(start, stop, length) ==
  LET last == IF stop < length THEN stop ELSE length
  IN  IF start < last THEN last - start ELSE 0

LEMMA FullPage ==
  ASSUME NEW start \in Nat, NEW stop \in Int, NEW l \in Nat, NEW n \in Nat, n <= l,
         stop <= start + PageLen(start, stop, n)
  PROVE  PageLen(start, stop, n) = PageLen(start, stop, l)
BY DEF PageLen

LEMMA RestOfPage ==
  ASSUME NEW start \in Nat, NEW stop \in Int, NEW l \in Nat, NEW from \in Nat, NEW m \in Nat,
         m = PageLen(0, stop, l), start <= from, from < stop, from /= start => from <= l
  PROVE  (from - start) + PageLen(from, m, m) = PageLen(start, stop, l)
BY DEF PageLen

LEMMA PageCounted ==
  ASSUME NEW E, NEW list \in Seq(E), NEW start \in Nat, NEW stop \in Int
  PROVE  Len(Page(list, start, stop)) = PageLen(start, stop, Len(list))
<1> DEFINE last == IF stop < Len(list) THEN stop ELSE Len(list)
           page == SubSeq(list, start + 1, last)
<1>1. Len(list) \in Nat /\ \A i \in 1..Len(list) : list[i] \in E
  BY LenProperties, ElementOfSeq
<1>2. last \in Int /\ last <= Len(list)
  BY <1>1
<1>3. \A i \in (start + 1)..last : list[i] \in E
  BY <1>1, <1>2
<1> HIDE DEF last
<1>4. Len(page) = IF start + 1 <= last THEN last - (start + 1) + 1 ELSE 0
  BY <1>2, <1>3, SubSeqProperties
<1>5. Page(list, start, stop) = page
  BY DEF Page, page, last
<1> HIDE DEF page
<1>6. Len(page) = IF start < last THEN last - start ELSE 0
  BY <1>2, <1>4
<1> QED
  BY <1>5, <1>6 DEF last, PageLen

LEMMA PagesEqual ==
  ASSUME NEW E, NEW list \in Seq(E), NEW start \in Nat, NEW stop \in Int, NEW page \in Seq(E),
         Len(page) = Len(Page(list, start, stop)),
         \A i \in 1..Len(page) : page[i] = list[start + i]
  PROVE  page = Page(list, start, stop)
<1> DEFINE p == Page(list, start, stop)
<1>1. p \in Seq(E) /\ \A i \in 1..Len(p) : p[i] = list[start + i]
  BY PageListed
<1> HIDE DEF p
<1>3. Len(page) = Len(p)
  BY DEF p
<1>4. \A i \in 1..Len(page) : page[i] = p[i]
  BY <1>1, <1>3
<1>5. page = p
  BY <1>1, <1>3, <1>4, SeqEqual
<1> QED
  BY <1>5 DEF p

\* The page of a set that has no gaps in a list is that of the list as far as
\* it goes.
LEMMA PageBegun ==
  ASSUME ActorsInv, TimesInv, NEW list \in Seq(PostedEntries), InTimeOrder(list), Once(list),
         NEW S \in SUBSET Members(list),
         \A i, j \in DOMAIN list : i < j /\ list[j] \in S => list[i] \in S,
         NEW start \in Nat, NEW stop \in Int
  PROVE  LET page == PostsOf(Page(Newest(S), start, stop))
         IN  /\ \A i \in DOMAIN page : start + i \in DOMAIN list /\ page[i] = list[start + i].post
             /\ stop <= start + Len(page) => page = Page(PostsOf(list), start, stop)
<1> DEFINE top == Newest(S)
           part == Page(top, start, stop)
           page == PostsOf(part)
           all == PostsOf(list)
<1>1. S \subseteq PostedEntries /\ IsFiniteSet(S)
  <2>1. \A i \in DOMAIN list : list[i] \in PostedEntries
    BY LenProperties
  <2>2. S \subseteq PostedEntries
    BY <2>1 DEF Members
  <2> QED
    BY <2>2, EntryFacts
<1>2. /\ \A x \in PostedEntries : x.at \in Int
      /\ \A x, y \in PostedEntries : x.at = y.at => x = y
  BY EntryFacts
<1>3. /\ top \in Seq(PostedEntries) /\ Len(top) <= Len(list)
      /\ \A i \in DOMAIN top : i \in DOMAIN list /\ top[i] = list[i]
  BY <1>1, <1>2, NewestBegins
<1>4. Once(top)
  BY <1>1, NewestPosted
<1> HIDE DEF top
<1>5. /\ part \in Seq(PostedEntries) /\ Once(part)
      /\ \A i \in 1..Len(part) : start + i \in 1..Len(top) /\ part[i] = top[start + i]
  BY <1>3, <1>4, PageListed
<1>6. Len(part) = PageLen(start, stop, Len(top))
  BY <1>3, PageCounted
<1> HIDE DEF part
<1>7. /\ page \in Seq(posts) /\ DOMAIN page = DOMAIN part /\ Len(page) = Len(part)
      /\ \A i \in DOMAIN part : page[i] = part[i].post
  BY <1>5, PostsListed
<1>8. /\ all \in Seq(posts) /\ DOMAIN all = DOMAIN list /\ Len(all) = Len(list)
      /\ \A i \in DOMAIN list : all[i] = list[i].post
  BY PostsListed
<1> HIDE DEF page, all
<1>9. \A i \in DOMAIN page : start + i \in DOMAIN list /\ page[i] = list[start + i].post
  BY <1>3, <1>5, <1>7
<1>10. ASSUME stop <= start + Len(page) PROVE page = Page(all, start, stop)
  <2>1. Len(Page(all, start, stop)) = PageLen(start, stop, Len(all))
    BY <1>8, PageCounted
  <2>2. Len(top) \in Nat /\ Len(list) \in Nat /\ DOMAIN page = 1..Len(page)
    BY <1>3, <1>7, LenProperties
  <2>3. Len(page) = Len(Page(all, start, stop))
    <3>1. stop <= start + PageLen(start, stop, Len(top))
      BY <1>6, <1>7, <1>10
    <3>2. PageLen(start, stop, Len(top)) = PageLen(start, stop, Len(list))
      BY <1>3, <2>2, <3>1, FullPage
    <3> QED
      BY <1>6, <1>7, <1>8, <2>1, <3>2
  <2>4. \A i \in 1..Len(page) : page[i] = all[start + i]
    BY <1>8, <1>9, <2>2
  <2> QED
    BY <1>7, <1>8, <2>3, <2>4, PagesEqual
<1> QED
  BY <1>9, <1>10 DEF page, part, top, all

\* A page that is begun so is completed from the list.
LEMMA PageCompleted ==
  ASSUME ActorsInv, TimesInv, NEW list \in Seq(PostedEntries), Once(list),
         NEW call, call.page \in Seq(Calls), call.start \in Nat, call.stop \in Int,
         call.start + Len(call.page) < call.stop,
         \A i \in DOMAIN call.page : /\ call.start + i \in DOMAIN list
                                     /\ call.page[i] = list[call.start + i].post
  PROVE  Complete(call, Page(list, 0, call.stop)) = Page(PostsOf(list), call.start, call.stop)
<1> DEFINE start == call.start
           stop == call.stop
           page == call.page
           k == Len(page)
           slice == Page(list, 0, stop)
           all == PostsOf(list)
           part == PostsOf(slice)
           m == Len(slice)
           later == Page(part, start + k, m)
<1>1. k \in Nat /\ DOMAIN page = 1..k
  BY LenProperties
<1>2. /\ slice \in Seq(PostedEntries) /\ Once(slice)
      /\ \A i \in 1..Len(slice) : 0 + i \in 1..Len(list) /\ slice[i] = list[0 + i]
  <2>1. stop \in Int /\ 0 \in Nat
    OBVIOUS
  <2> HIDE DEF start, stop, page, all
  <2> QED
    BY <2>1, PageListed DEF slice
<1>3. m = PageLen(0, stop, Len(list))
  BY PageCounted
<1> HIDE DEF slice
<1>4. /\ all \in Seq(posts) /\ Len(all) = Len(list) /\ Once(all) /\ DOMAIN all = DOMAIN list
      /\ \A i \in DOMAIN list : all[i] = list[i].post
  BY PostsListed
<1>5. /\ part \in Seq(posts) /\ Len(part) = m /\ DOMAIN part = DOMAIN slice /\ Once(part)
      /\ \A i \in DOMAIN slice : part[i] = slice[i].post
  BY <1>2, PostsListed
<1> HIDE DEF all, part
<1>6. m \in Nat /\ Len(list) \in Nat /\ DOMAIN list = 1..Len(list) /\ DOMAIN part = 1..m
  BY <1>2, <1>5, LenProperties
<1> HIDE DEF m, k, page, start, stop
<1>7. start \in Nat /\ stop \in Int /\ start + k < stop /\ start + k \in Nat
  BY <1>1 DEF start, stop, k, page
<1>8. \A i \in 1..m : i \in 1..Len(list) /\ part[i] = all[i]
  BY <1>2, <1>4, <1>5, <1>6 DEF m
<1>9. \A i \in 1..k : start + i \in 1..Len(list) /\ page[i] = all[start + i]
  BY <1>1, <1>4, <1>6 DEF start, page
<1>10. /\ later \in Seq(posts) /\ Once(later)
       /\ \A i \in 1..Len(later) : start + k + i \in 1..Len(part) /\ later[i] = part[start + k + i]
  BY <1>5, <1>6, <1>7, PageListed
<1>11. Len(later) = PageLen(start + k, m, m)
  BY <1>5, <1>6, <1>7, PageCounted
<1>12. Complete(call, slice) = page \o Without(later, Members(page))
  <2>1. later = SubSeq(part, start + k + 1, m)
    BY <1>5, <1>6 DEF Page
  <2> HIDE DEF later
  <2> QED
    BY <2>1 DEF Complete, start, k, page, part, m
<1> HIDE DEF later
<1>13. DOMAIN later = 1..Len(later) /\ Len(later) \in Nat
  BY <1>10, LenProperties
<1>15. \A i \in 1..Len(later) : start + k + i \in 1..m /\ later[i] = all[start + k + i]
  BY <1>6, <1>8, <1>10, <1>13
<1>16. Members(later) \cap Members(page) = {}
  <2> SUFFICES ASSUME NEW i \in 1..Len(later), NEW j \in 1..k, later[i] = page[j] PROVE FALSE
    BY <1>1, <1>13 DEF Members
  <2>1. all[start + k + i] = all[start + j] /\ start + k + i \in DOMAIN all /\ start + j \in DOMAIN all
    BY <1>4, <1>6, <1>8, <1>9, <1>15
  <2>2. start + k + i = start + j
    BY <1>4, <2>1 DEF Once
  <2> QED
    BY <1>1, <1>7, <1>13, <2>2
<1>17. Without(later, Members(page)) = later
  BY <1>10, <1>16, WithoutNothing
<1>18. /\ page \o later \in Seq(Calls) /\ Len(page \o later) = k + Len(later)
       /\ \A i \in 1..(k + Len(later)) : (page \o later)[i] = IF i <= k THEN page[i] ELSE later[i - k]
       /\ all \in Seq(Calls)
  <2>1. posts \subseteq Calls
    BY DEF TimesInv
  <2>2. later \in Seq(Calls) /\ all \in Seq(Calls)
    <3>1. later \in [1..Len(later) -> Calls]
      BY <1>10, <2>1, LenProperties
    <3>2. all \in [1..Len(all) -> Calls] /\ Len(all) \in Nat
      BY <1>4, <2>1, LenProperties
    <3> QED
      BY <1>13, <3>1, <3>2, SeqDef
  <2>3. page \in Seq(Calls)
    BY DEF page
  <2> QED
    BY <2>2, <2>3, ConcatProperties DEF k
<1> DEFINE whole == page \o later
<1>19. \A i \in 1..(k + Len(later)) : (page \o later)[i] = all[start + i]
  <2> SUFFICES ASSUME NEW i \in 1..(k + Len(later)) PROVE (page \o later)[i] = all[start + i]
    OBVIOUS
  <2>1. CASE i <= k
    BY <1>1, <1>9, <1>18, <2>1
  <2>2. CASE ~(i <= k)
    <3>1. i - k \in 1..Len(later) /\ start + k + (i - k) = start + i
      BY <1>1, <1>7, <1>13, <2>2
    <3>2. later[i - k] = all[start + k + (i - k)]
      BY <1>15, <3>1
    <3>3. (page \o later)[i] = later[i - k]
      BY <1>18, <2>2
    <3> QED
      BY <3>1, <3>2, <3>3
  <2> QED
    BY <2>1, <2>2
<1>20. Len(Page(all, start, stop)) = PageLen(start, stop, Len(list))
  BY <1>4, <1>7, <1>18, PageCounted
<1>21. k = 0 \/ (k \in 1..k /\ start + k <= Len(list))
  BY <1>1, <1>6, <1>9
<1>22. k + Len(later) = Len(Page(all, start, stop))
  <2>1. k \in Nat /\ m \in Nat /\ (k = 0 \/ start + k <= Len(list)) /\ Len(list) \in Nat
    BY <1>1, <1>6, <1>21 DEF k, page
  <2> DEFINE from == start + k
  <2>2. from \in Nat /\ start <= from /\ from < stop /\ (from = start \/ from <= Len(list)) /\ from - start = k
    BY <1>7, <2>1
  <2> HIDE DEF from
  <2>3. (from - start) + PageLen(from, m, m) = PageLen(start, stop, Len(list))
    <3>1. m = PageLen(0, stop, Len(list))
      BY <1>3
    <3>2. stop \in Int /\ start \in Nat
      BY <1>7
    <3>3. Len(list) \in Nat /\ m \in Nat
      BY <2>1
    <3>4. from \in Nat
      BY <2>2
    <3>5. start <= from
      BY <2>2
    <3>6. from < stop
      BY <2>2
    <3>7. from /= start => from <= Len(list)
      BY <2>2
    <3> QED
      BY <3>1, <3>2, <3>3, <3>4, <3>5, <3>6, <3>7, RestOfPage
  <2>4. k + PageLen(start + k, m, m) = PageLen(start, stop, Len(list))
    BY <2>2, <2>3 DEF from
  <2> QED
    BY <1>11, <1>20, <2>4
<1> HIDE DEF whole
<1>23. whole = Page(all, start, stop)
  <2>1. whole \in Seq(Calls) /\ all \in Seq(Calls)
        /\ Len(whole) = Len(Page(all, start, stop))
        /\ \A i \in 1..Len(whole) : whole[i] = all[start + i]
    BY <1>18, <1>19, <1>22 DEF whole
  <2> QED
    BY <1>7, <2>1, PagesEqual
<1>24. Complete(call, slice) = whole
  BY <1>12, <1>17 DEF whole
<1> QED
  BY <1>23, <1>24 DEF slice, all, start, stop

-----------------------------------------------------------------------------
(* Sets of entries without gaps. *)

LEMMA PushedListed ==
  ASSUME NEW E, NEW list \in Seq(E), NEW e \in E
  PROVE  LET next == <<e>> \o list
         IN /\ next /= <<>> /\ next[1] = e /\ Members(list) \subseteq Members(next)
            /\ DOMAIN next = 1..(Len(list) + 1)
            /\ \A i \in 1..(Len(list) + 1) : i /= 1 => i - 1 \in DOMAIN list /\ next[i] = list[i - 1]
<1> DEFINE next == <<e>> \o list
<1>1. Len(list) \in Nat /\ DOMAIN list = 1..Len(list) /\ <<e>> \in Seq(E) /\ Len(<<e>>) = 1
  BY LenProperties
<1>2. /\ next \in Seq(E) /\ Len(next) = 1 + Len(list)
      /\ \A i \in 1..(1 + Len(list)) : next[i] = IF i <= 1 THEN <<e>>[i] ELSE list[i - 1]
  BY <1>1, ConcatProperties
<1> HIDE DEF next
<1>3. DOMAIN next = 1..(Len(list) + 1)
  BY <1>1, <1>2, LenProperties
<1>4. next[1] = e /\ next /= <<>>
  BY <1>1, <1>2
<1>5. \A i \in 1..(Len(list) + 1) : i /= 1 => i - 1 \in DOMAIN list /\ next[i] = list[i - 1]
  BY <1>1, <1>2
<1>6. ASSUME NEW i \in DOMAIN list PROVE list[i] \in Members(next)
  <2> DEFINE j == i + 1
  <2>1. j \in 1..(Len(list) + 1) /\ j /= 1 /\ j - 1 = i
    BY <1>1
  <2> HIDE DEF j
  <2>2. next[j] = list[i] /\ j \in DOMAIN next
    BY <1>3, <1>5, <2>1
  <2> QED
    BY <2>2 DEF Members
<1> QED
  BY <1>3, <1>4, <1>5, <1>6 DEF Members, next

LEMMA NoGapsPushed ==
  ASSUME NEW E, NEW list \in Seq(E), NEW e \in E, NEW S, NoGaps(list, S, {})
  PROVE  NoGaps(<<e>> \o list, S, {e})
<1> DEFINE next == <<e>> \o list
<1>1. /\ DOMAIN next = 1..(Len(list) + 1) /\ next[1] = e
      /\ \A i \in 1..(Len(list) + 1) : i /= 1 => i - 1 \in DOMAIN list /\ next[i] = list[i - 1]
  BY PushedListed
<1> HIDE DEF next
<1>2. ASSUME NEW i \in DOMAIN next, NEW j \in DOMAIN next, i < j, next[j] \in S PROVE next[i] \in S \cup {e}
  <2>1. CASE i = 1
    BY <1>1, <2>1
  <2>2. CASE i /= 1
    <3>1. j /= 1 /\ i - 1 < j - 1
      BY <1>1, <1>2, LenProperties
    <3> DEFINE k == i - 1
               m == j - 1
    <3>2. k \in DOMAIN list /\ m \in DOMAIN list /\ k < m /\ next[i] = list[k] /\ next[j] = list[m]
      BY <1>1, <2>2, <3>1
    <3> HIDE DEF k, m
    <3> QED
      BY <1>2, <3>2 DEF NoGaps
  <2> QED
    BY <2>1, <2>2
<1> QED
  BY <1>2 DEF NoGaps, next

LEMMA InOrderPushed ==
  ASSUME NEW E, NEW list \in Seq(E), NEW e \in E, InTimeOrder(list),
         \A i \in DOMAIN list : list[i].at < e.at
  PROVE  InTimeOrder(<<e>> \o list)
<1> DEFINE next == <<e>> \o list
<1>1. /\ DOMAIN next = 1..(Len(list) + 1) /\ next[1] = e
      /\ \A i \in 1..(Len(list) + 1) : i /= 1 => i - 1 \in DOMAIN list /\ next[i] = list[i - 1]
  BY PushedListed
<1>0. Len(list) \in Nat
  BY LenProperties
<1> HIDE DEF next
<1>2. ASSUME NEW i \in DOMAIN next, NEW j \in DOMAIN next, i < j PROVE next[i].at > next[j].at
  <2>1. j /= 1 /\ j - 1 \in DOMAIN list /\ next[j] = list[j - 1]
    <3>1. j /= 1
      BY <1>0, <1>1, <1>2
    <3> QED
      BY <1>1, <3>1
  <2>2. CASE i = 1
    <3>1. list[j - 1].at < e.at
      BY <2>1
    <3>2. next[j].at < next[i].at
      BY <1>1, <2>1, <2>2, <3>1
    <3> QED
      BY <3>2
  <2>3. CASE i /= 1
    <3> DEFINE k == i - 1
               m == j - 1
    <3>1. k < m
      BY <1>0, <1>1, <1>2
    <3>2. k \in DOMAIN list /\ m \in DOMAIN list /\ next[i] = list[k] /\ next[j] = list[m]
      BY <1>1, <2>1, <2>3
    <3> HIDE DEF k, m
    <3> QED
      BY <3>1, <3>2 DEF InTimeOrder
  <2> QED
    BY <2>2, <2>3
<1> QED
  BY <1>2 DEF InTimeOrder, next

LEMMA NoGapsClosed ==
  ASSUME NEW E, NEW list \in Seq(E), Once(list), NEW e, list /= <<>>, list[1] = e, NEW S,
         NoGaps(list, S, {e})
  PROVE  NoGaps(list, S \cup {e}, {}) /\ e \in Members(list)
<1>1. Len(list) \in Nat /\ DOMAIN list = 1..Len(list) /\ 1 \in DOMAIN list
  <2>1. Len(list) \in Nat /\ DOMAIN list = 1..Len(list) /\ Len(list) /= 0
    BY LenProperties, EmptySeq
  <2> QED
    BY <2>1
<1>2. ASSUME NEW i \in DOMAIN list, NEW j \in DOMAIN list, i < j, list[j] \in S \cup {e}
      PROVE  list[i] \in S \cup {e}
  <2>1. list[j] /= e
    <3>1. j /= 1
      BY <1>1, <1>2
    <3> QED
      BY <1>1, <3>1 DEF Once
  <2> QED
    BY <1>2, <2>1 DEF NoGaps
<1> QED
  BY <1>1, <1>2 DEF NoGaps, Members

LEMMA NoGapsJoined ==
  ASSUME NEW list, NEW S, NEW T, NEW late, NoGaps(list, S, late), NoGaps(list, T, late)
  PROVE  NoGaps(list, S \cup T, late)
BY DEF NoGaps

LEMMA BeginningHasNoGaps ==
  ASSUME NEW E, NEW list \in Seq(E), Once(list), NEW stop \in Int, NEW late
  PROVE  NoGaps(list, Members(Page(list, 0, stop)), late)
<1> DEFINE part == Page(list, 0, stop)
           n == Len(part)
<1>1. part \in Seq(E) /\ \A i \in 1..Len(part) : 0 + i \in 1..Len(list) /\ part[i] = list[0 + i]
  BY PageListed
<1> HIDE DEF part
<1>2. n \in Nat /\ DOMAIN part = 1..n /\ Len(list) \in Nat /\ DOMAIN list = 1..Len(list)
  BY <1>1, LenProperties
<1>3. \A i \in 1..n : i \in DOMAIN list /\ part[i] = list[i]
  BY <1>1, <1>2
<1> HIDE DEF n
<1>4. ASSUME NEW i \in DOMAIN list, NEW j \in DOMAIN list, i < j, list[j] \in Members(part)
      PROVE  list[i] \in Members(part)
  <2>1. PICK k \in 1..n : list[j] = part[k]
    BY <1>2, <1>4 DEF Members
  <2>2. j = k
    BY <1>3, <2>1 DEF Once
  <2>3. i \in 1..n
    BY <1>2, <1>4, <2>2
  <2> QED
    BY <1>2, <1>3, <2>3 DEF Members
<1> QED
  BY <1>4 DEF NoGaps, part

-----------------------------------------------------------------------------
(* The two timelines of a user that is not blurred. *)

\* Who may still write a timeline is composing, and who fills one is reading.
LEMMA WritersCompose ==
  ASSUME ActorsInv, TimesInv, ServedInv, ReadsInv, NEW c \in Calls
  PROVE  /\ Writing(c) => c \in ComposesOf(compose[c].user) /\ compose[c].at /= "idle"
         /\ \A u \in Users : Fills(c, u) => c \in ReadsOf(u) /\ ReadRight(c) /\ compose[c].at = "idle"
         /\ Halfway(c) => Writing(c) /\ Pushed(c) /\ c \in posts
                          /\ timelineCall[c] \in WriteCalls(c)
<1>1. ASSUME Writing(c) PROVE c \in ComposesOf(compose[c].user) /\ compose[c].at /= "idle"
  <2>1. compose[c].at \in {"parts", "post", "stored", "user timeline"} /\ ~ComposeOver(c)
    BY <1>1 DEF Writing, ComposeOver, TimelineFailed, ComposeSucceeded
  <2>2. c \in running
    BY <2>1, CallKinds
  <2> QED
    BY <2>1, <2>2 DEF ComposesOf, Active, Over
<1>2. ASSUME NEW u \in Users, Fills(c, u)
      PROVE  c \in ReadsOf(u) /\ ReadRight(c) /\ compose[c].at = "idle"
  <2>1. timelineCall[c].op = "read user" /\ timelineCall[c].user = u /\ timelineCall[c].todo /= {}
    BY <1>2 DEF Fills
  <2>2. ReadRight(c) /\ compose[c].at = "idle"
    BY <2>1, CallKinds DEF WriteCalls, FanOuts
  <2>3. c \in running /\ ~Over(c)
    BY <2>1, <2>2 DEF ReadRight, Over, Reading
  <2> QED
    BY <2>1, <2>2, <2>3 DEF ReadsOf, Active, Owner
<1>3. ASSUME Halfway(c) PROVE Writing(c) /\ Pushed(c) /\ c \in posts /\ timelineCall[c] \in WriteCalls(c)
  <2>1. compose[c].at = "user timeline" /\ timelineCall[c].todo = {"cache"}
    BY <1>3 DEF Halfway
  <2>2. "push" \notin {"cache"} /\ {"cache"} /= {}
    OBVIOUS
  <2>3. timelineCall[c] \in WriteCalls(c)
    BY <2>1 DEF ReadsInv, CallRight
  <2>4. c \in posts
    BY <2>1 DEF TimesInv, StoredPlaces
  <2> QED
    BY <2>1, <2>2, <2>3, <2>4 DEF Writing, Pushed
<1> QED
  BY <1>1, <1>2, <1>3

LEMMA OnTheWayFacts ==
  ASSUME NEW u, NEW e
  PROVE  e \in OnTheWay(u) <=>
           \E c \in Calls : e = PostEntry(c) /\ compose[c].user = u /\ Halfway(c)
<1>1. \A c \in Calls : Halfway(c) => Writing(c)
  BY DEF Halfway, Writing
<1> QED
  BY <1>1 DEF OnTheWay, WritersOf

\* A step of a call that gives a user no writer and does not change what is on
\* its way.
SameWork(c, u) ==
  /\ compose'[c].user = u /\ Writing(c)' => compose[c].user = u /\ Writing(c)
  /\ (compose'[c].user = u /\ Halfway(c)') <=> (compose[c].user = u /\ Halfway(c))

LEMMA WorkSame ==
  ASSUME NEW c \in Calls, NEW u, compose'[c] = compose[c], timelineCall'[c] = timelineCall[c]
  PROVE  /\ SameWork(c, u)
         /\ Fills(c, u)' => Fills(c, u) /\ timelineCall'[c].slice = timelineCall[c].slice
BY DEF SameWork, Writing, Halfway, Fills

LEMMA OnTheWaySame ==
  ASSUME ActorsInv, TimesInv, EdgeInv, ServedInv, ReadsInv, [SocialNext]_socialVars, NEW u,
         \A c \in Calls : SameWork(c, u)
  PROVE  OnTheWay(u)' = OnTheWay(u)
<1>1. \A c \in Calls : (compose'[c].user = u /\ Halfway(c)') <=> (compose[c].user = u /\ Halfway(c))
  BY DEF SameWork
<1>2. ASSUME NEW c \in Calls, Halfway(c) PROVE PostEntry(c)' = PostEntry(c)
  BY <1>2, WritersCompose, EntriesGrow
<1>3. \A e : e \in OnTheWay(u)' <=> \E c \in Calls : e = PostEntry(c)' /\ compose'[c].user = u /\ Halfway(c)'
  <2>1. \A c \in Calls : Halfway(c)' => Writing(c)'
    BY DEF Halfway, Writing
  <2> QED
    BY <2>1 DEF OnTheWay, WritersOf
<1>4. \A e : e \in OnTheWay(u)' <=> e \in OnTheWay(u)
  BY <1>1, <1>2, <1>3, OnTheWayFacts
<1> QED
  BY <1>4

\* The parts of OrderRight that speak of writers.
WritersRight(u) ==
  /\ \A c, d \in WritersOf(u) : c = d
  /\ InTimeOrder(timeline[u])
  /\ \A c \in WritersOf(u) : ~Pushed(c) =>
       \A i \in DOMAIN timeline[u] : timeline[u][i].at < compose[c].time

LEMMA WritersStay ==
  ASSUME ActorsInv, TimesInv, EdgeInv, ServedInv, ReadsInv, [SocialNext]_socialVars,
         NEW u, WritersRight(u), timeline'[u] = timeline[u], \A c \in Calls : SameWork(c, u)
  PROVE  WritersRight(u)'
<1>1. ASSUME NEW c \in Calls, c \in WritersOf(u)'
      PROVE  /\ c \in WritersOf(u) /\ compose'[c].time = compose[c].time
             /\ Pushed(c) => Pushed(c)'
  <2>1. c \in WritersOf(u) /\ Writing(c)
    BY <1>1 DEF WritersOf, SameWork
  <2>2. compose[c].at /= "idle" /\ BegunKept(c)
    BY <2>1, WritersCompose, BegunStays
  <2> QED
    BY <2>1, <2>2, EntriesGrow DEF BegunKept
<1>2. WritersOf(u)' \subseteq Calls
  BY DEF WritersOf
<1>3. \A c, d \in WritersOf(u)' : c = d
  BY <1>1, <1>2 DEF WritersRight
<1>4. InTimeOrder(timeline'[u])
  BY DEF WritersRight
<1>5. ASSUME NEW c \in WritersOf(u)', ~Pushed(c)'
      PROVE  \A i \in DOMAIN timeline'[u] : timeline'[u][i].at < compose'[c].time
  BY <1>1, <1>2, <1>5 DEF WritersRight
<1> QED
  BY <1>3, <1>4, <1>5 DEF WritersRight, InTimeOrder

\* The parts that speak of the entries in Redis.
EntriesRight(u) ==
  /\ \A e \in OnTheWay(u) : timeline[u] /= <<>> /\ timeline[u][1] = e
  /\ cachedTimeline[u] \subseteq Members(timeline[u])
  /\ NoGaps(timeline[u], cachedTimeline[u], OnTheWay(u))
  /\ \A c \in Calls : Fills(c, u) =>
       /\ timelineCall[c].slice \subseteq Members(timeline[u])
       /\ NoGaps(timeline[u], cachedTimeline[u] \cup timelineCall[c].slice, OnTheWay(u))

LEMMA OrderParts == \A u : OrderRight(u) <=> WritersRight(u) /\ EntriesRight(u)
BY DEF OrderRight, WritersRight, EntriesRight

LEMMA BlurredGrows ==
  ASSUME [SocialNext]_socialVars PROVE blurred \subseteq blurred'
<1>1. ASSUME NEW c \in Calls, Compose(c) \/ Read(c) \/ ComposeWorks(c) \/ TimelinesWork(c) \/ PostSteps(c) \/ TimelineStops(c) \/ PushFails(c)
      PROVE blurred \subseteq blurred'
  BY <1>1 DEF Compose, Read, ComposeWorks, TimelinesWork, PostSteps, TimelineStops, PushFails, AsksForPosts, ReadsPosts, GetsPosts,
              ReadStops, social
<1> QED
  BY <1>1, TimelineSteps DEF Quiet

SameFill(c, u) == Fills(c, u)' => Fills(c, u) /\ timelineCall'[c].slice = timelineCall[c].slice

LEMMA EntriesStay ==
  ASSUME NEW u, EntriesRight(u), timeline'[u] = timeline[u], cachedTimeline'[u] = cachedTimeline[u],
         OnTheWay(u)' = OnTheWay(u), \A c \in Calls : SameFill(c, u)
  PROVE  EntriesRight(u)'
<1>1. \A c \in Calls : Fills(c, u)' =>
        /\ timelineCall'[c].slice \subseteq Members(timeline'[u])
        /\ NoGaps(timeline'[u], cachedTimeline'[u] \cup timelineCall'[c].slice, OnTheWay(u)')
  BY DEF SameFill, EntriesRight
<1>2. \A e \in OnTheWay(u)' : timeline'[u] /= <<>> /\ timeline'[u][1] = e
  BY DEF EntriesRight
<1>3. cachedTimeline'[u] \subseteq Members(timeline'[u]) /\ NoGaps(timeline'[u], cachedTimeline'[u], OnTheWay(u)')
  BY DEF EntriesRight
<1> QED
  BY <1>1, <1>2, <1>3 DEF EntriesRight, Members, NoGaps

\* A step that leaves the two timelines of a user alone, and gives it neither
\* a writer nor a fill.
LEMMA OrderKept ==
  ASSUME ActorsInv, TimesInv, EdgeInv, ServedInv, ReadsInv, [SocialNext]_socialVars, NEW u, OrderRight(u),
         timeline'[u] = timeline[u], cachedTimeline'[u] = cachedTimeline[u],
         \A c \in Calls : SameWork(c, u) /\ SameFill(c, u)
  PROVE  OrderRight(u)'
<1>1. WritersRight(u)' /\ OnTheWay(u)' = OnTheWay(u)
  BY OrderParts, WritersStay, OnTheWaySame
<1>2. EntriesRight(u)'
  BY <1>1, OrderParts, EntriesStay
<1> QED
  BY <1>1, <1>2 DEF OrderRight, WritersRight, EntriesRight

LEMMA OthersSame ==
  ASSUME ActorsInv, EdgeInv, ReadsInv, NEW c \in Calls, Arrives(c) \/ Works(c), NEW u
  PROVE  \A d \in Calls : d /= c => SameWork(d, u) /\ SameFill(d, u)
<1>1. \A d \in Calls : d /= c => compose'[d] = compose[d] /\ timelineCall'[d] = timelineCall[d]
  BY OwnRecords DEF ReadsInv
<1> QED
  BY <1>1, WorkSame DEF SameFill

\* A compose that begins while no other of its user goes on takes a later time
\* than every entry.
LEMMA ComposeOrder ==
  ASSUME ActorsInv, TimesInv, EdgeInv, ServedInv, ListsInv, ReadsInv, [SocialNext]_socialVars,
         NEW c \in Calls, Compose(c), NEW u \in Users, u \notin blurred', OrderRight(u)
  PROVE  OrderRight(u)'
<1>0. Arrives(c)
  BY DEF Arrives
<1>1. /\ compose[c].at = "idle" /\ compose'[c].at = "parts" /\ compose'[c].user = Request(c).user
      /\ compose'[c].time = now + 1 /\ UNCHANGED timelineVars
      /\ blurred' = blurred \cup (IF ComposesOf(Request(c).user) = {} THEN {} ELSE {Request(c).user})
  BY DEF Compose, StartCompose, ActorsInv, ComposeTypeOK
<1>2. UNCHANGED <<timeline, cachedTimeline, timelineCall>>
  BY <1>1 DEF timelineVars, timelineStores
<1>3. \A d \in Calls : d /= c => SameWork(d, u) /\ SameFill(d, u)
  BY <1>0, OthersSame
<1>4. SameFill(c, u) /\ ~Halfway(c) /\ ~Halfway(c)' /\ ~Writing(c)
  BY <1>1, <1>2 DEF SameFill, Fills, Halfway, Writing
<1>5. CASE Request(c).user /= u
  <2>1. SameWork(c, u)
    BY <1>1, <1>4, <1>5 DEF SameWork
  <2> QED
    BY <1>2, <1>3, <1>4, <2>1, OrderKept
<1>6. CASE Request(c).user = u
  <2>1. ComposesOf(u) = {}
    BY <1>1, <1>6
  <2>2. \A d \in Calls : compose[d].user = u => ~Writing(d)
    BY <2>1, WritersCompose
  <2>3. \A d \in WritersOf(u)' : d = c
    BY <1>3, <2>2 DEF WritersOf, SameWork
  <2>4. \A i \in DOMAIN timeline'[u] : timeline'[u][i].at < compose'[c].time
    <3> SUFFICES ASSUME NEW i \in DOMAIN timeline[u] PROVE timeline[u][i].at < now + 1
      BY <1>1, <1>2
    <3>1. timeline[u][i] \in OwnEntries(u)
      BY LenProperties DEF ListsInv
    <3>2. PICK d \in Calls : timeline[u][i] = PostEntry(d) /\ Sent(d)
      BY <3>1 DEF OwnEntries
    <3>3. compose[d].time \in 1..now /\ now \in Nat
      BY <3>2 DEF Sent, TimesInv, ActorsInv, ComposeTypeOK
    <3>4. timeline[u][i].at = compose[d].time
      BY <3>2 DEF PostEntry
    <3>5. compose[d].time < now + 1
      BY <3>3
    <3> QED
      BY <3>4, <3>5
  <2>5. WritersRight(u)'
    <3>1. InTimeOrder(timeline'[u])
      BY <1>2 DEF OrderRight
    <3>2. \A d \in WritersOf(u)' : \A i \in DOMAIN timeline'[u] : timeline'[u][i].at < compose'[d].time
      BY <2>3, <2>4
    <3>3. \A d, e \in WritersOf(u)' : d = e
      BY <2>3
    <3> QED
      BY <3>1, <3>2, <3>3 DEF WritersRight, InTimeOrder
  <2>6. OnTheWay(u)' = OnTheWay(u)
    <3>1. OnTheWay(u) = {}
      BY <2>2 DEF OnTheWay, WritersOf
    <3>2. OnTheWay(u)' = {}
      BY <1>4, <2>3 DEF OnTheWay
    <3> QED
      BY <3>1, <3>2
  <2>7. EntriesRight(u)'
    BY <1>2, <1>3, <1>4, <2>6, OrderParts, EntriesStay
  <2> QED
    BY <2>5, <2>7 DEF OrderRight, WritersRight, EntriesRight
<1> QED
  BY <1>5, <1>6

\* A compose that goes on makes no writer.
LEMMA ComposeSame ==
  ASSUME ActorsInv, ReadsInv, NEW c \in Calls, ComposeWorks(c), NEW u
  PROVE  SameWork(c, u)
<1>1. compose \in [Calls -> [at : {"idle", "parts", "post", "stored", "user timeline",
                                  "followers", "home timelines", "failed"},
       user : Users, time : 0..now, names : SUBSET STRING, mentions : SUBSET Users]]
      /\ DOMAIN timelineCall = Calls
  BY DEF ActorsInv, ComposeTypeOK, ReadsInv
<1> DEFINE User == compose'[c].user = compose[c].user
<1>2. CASE HaveParts(c) \/ MissMentions(c)
  <2>1. /\ compose[c].at = "parts" /\ compose'[c].at = "post" /\ User
        /\ timelineCall' = timelineCall
    BY <1>1, <1>2 DEF HaveParts, MissMentions, timelineVars
  <2> QED
    BY <2>1 DEF SameWork, Writing, Halfway
<1>3. CASE PartFails(c)
  BY <1>1, <1>3 DEF PartFails, Goto, SameWork, Writing, Halfway
<1>4. CASE UploadPost(c)
  BY <1>1, <1>4 DEF UploadPost, Goto, SameWork, Writing, Halfway
<1>5. CASE UploadUserTimeline(c)
  <2>1. compose[c].at = "stored" /\ compose'[c].at = "user timeline" /\ User
    BY <1>1, <1>5 DEF UploadUserTimeline, Goto
  <2>2. timelineCall'[c].todo = {"push", "cache"}
    BY <1>1, <1>5 DEF UploadUserTimeline, WriteUserTimeline, NoTimelineCall
  <2>3. {"push", "cache"} /= {"cache"}
    OBVIOUS
  <2>4. ~Halfway(c)' /\ ~Halfway(c) /\ Writing(c)
    BY <2>1, <2>2, <2>3 DEF Halfway, Writing
  <2> QED
    BY <2>1, <2>4 DEF SameWork
<1>6. CASE UploadHomeTimeline(c)
  <2>1. compose[c].at = "user timeline" /\ compose'[c].at = "followers" /\ timelineCall[c].todo = {}
    BY <1>1, <1>6 DEF UploadHomeTimeline, Goto, TimelineDone
  <2> QED
    BY <2>1 DEF SameWork, Writing, Halfway
<1>7. CASE WriteHomeTimeline(c)
  <2>1. compose[c].at = "followers" /\ compose'[c].at = "home timelines"
    BY <1>1, <1>7 DEF WriteHomeTimeline, Goto
  <2> QED
    BY <2>1 DEF SameWork, Writing, Halfway
<1> QED
  BY <1>2, <1>3, <1>4, <1>5, <1>6, <1>7 DEF ComposeWorks, ComposeStep

\* A compose that goes on.
LEMMA ComposeStepOrder ==
  ASSUME ActorsInv, TimesInv, EdgeInv, ServedInv, ReadsInv, [SocialNext]_socialVars,
         NEW c \in Calls, ComposeWorks(c), NEW u \in Users, OrderRight(u)
  PROVE  OrderRight(u)'
<1>0. Works(c)
  BY DEF Works
<1>1. \A d \in Calls : d /= c => SameWork(d, u) /\ SameFill(d, u)
  BY <1>0, OthersSame
<1>2. UNCHANGED <<timeline, cachedTimeline>>
  BY DEF ComposeWorks, ComposeStep, HaveParts, MissMentions, PartFails, UploadPost, UploadUserTimeline, WriteUserTimeline,
         UploadHomeTimeline, WriteHomeTimeline, FanOut, timelineVars, timelineStores
<1>3. compose \in [Calls -> [at : {"idle", "parts", "post", "stored", "user timeline",
                                  "followers", "home timelines", "failed"},
       user : Users, time : 0..now, names : SUBSET STRING, mentions : SUBSET Users]]
      /\ DOMAIN timelineCall = Calls
  BY DEF ActorsInv, ComposeTypeOK, ReadsInv
<1>4. ~Fills(c, u)'
  <2>1. CallRight(c)'
    BY ComposeCallRight
  <2>2. compose'[c].at /= "idle"
    BY <1>3 DEF ComposeWorks, ComposeStep, HaveParts, MissMentions, PartFails, UploadPost, UploadUserTimeline,
               UploadHomeTimeline, WriteHomeTimeline, Goto
  <2>3. CASE UploadUserTimeline(c) \/ WriteHomeTimeline(c)
    <3>1. timelineCall'[c].op \in {"write", "fan out"}
      <4>1. CASE UploadUserTimeline(c)
        BY <1>3, <4>1 DEF UploadUserTimeline, WriteUserTimeline, NoTimelineCall
      <4>2. CASE WriteHomeTimeline(c)
        BY <1>3, <4>2 DEF WriteHomeTimeline, FanOut, NoTimelineCall
      <4> QED
        BY <2>3, <4>1, <4>2
    <3> QED
      BY <3>1 DEF Fills
  <2>4. CASE ~(UploadUserTimeline(c) \/ WriteHomeTimeline(c))
    <3>1. timelineCall'[c] = timelineCall[c] /\ compose[c].at /= "idle"
      BY <2>4 DEF ComposeWorks, ComposeStep, HaveParts, MissMentions, PartFails, UploadPost, UploadHomeTimeline, timelineVars
    <3>2. ~Fills(c, u)
      BY <3>1, WritersCompose
    <3> QED
      BY <3>1, <3>2 DEF Fills
  <2> QED
    BY <2>3, <2>4
<1>5. SameWork(c, u)
  BY ComposeSame
<1>6. SameFill(c, u)
  BY <1>4 DEF SameFill
<1> QED
  BY <1>1, <1>2, <1>5, <1>6, OrderKept

\* A read that starts.
LEMMA ReadOrder ==
  ASSUME ActorsInv, TimesInv, EdgeInv, ServedInv, ReadsInv, [SocialNext]_socialVars,
         NEW c \in Calls, Read(c), NEW u \in Users, OrderRight(u)
  PROVE  OrderRight(u)'
<1>0. Arrives(c)
  BY DEF Arrives
<1>1. \A d \in Calls : d /= c => SameWork(d, u) /\ SameFill(d, u)
  BY <1>0, OthersSame
<1>2. UNCHANGED <<timeline, cachedTimeline>> /\ compose'[c] = compose[c] /\ c \notin running
  BY DEF Read, ReadTimeline, Starts, timelineStores, composeVars
<1>3. compose[c].at = "idle" /\ DOMAIN timelineCall = Calls
  BY <1>2, CallKinds
<1>4. SameWork(c, u)
  BY <1>2, <1>3 DEF SameWork, Writing, Halfway
<1>5. SameFill(c, u)
  <2>1. "fill" \notin timelineCall'[c].todo
    <3>1. PICK op, v, start, stop : ReadTimeline(c, op, v, start, stop)
      BY DEF Read
    <3>2. timelineCall'[c].todo = IF stop <= start \/ start < 0 THEN {} ELSE {"range"}
      BY <1>3, <3>1 DEF ReadTimeline, NoTimelineCall
    <3>3. "fill" \notin {} /\ "fill" \notin {"range"}
      OBVIOUS
    <3> QED
      BY <3>2, <3>3
  <2> QED
    BY <2>1 DEF SameFill, Fills
<1> QED
  BY <1>1, <1>2, <1>4, <1>5, OrderKept

\* The steps of calls that have no part in it.
LEMMA IdleWork ==
  ASSUME NEW c \in Calls, NEW u, compose'[c] = compose[c],
         ~(compose[c].user = u /\ compose[c].at = "user timeline") \/ timelineCall'[c] = timelineCall[c]
  PROVE  SameWork(c, u)
BY DEF SameWork, Writing, Halfway

\* What a call that is at a step of a timeline is.
LEMMA AtFacts ==
  ASSUME ActorsInv, ServedInv, ReadsInv, NEW c \in Calls
  PROVE  /\ timelineCall[c].op \in {"read user", "read home"} => compose[c].at = "idle" /\ ReadRight(c)
         /\ "posts" \in timelineCall[c].todo => compose[c].at = "idle" /\ ReadRight(c)
         /\ timelineCall[c].op = "fan out" =>
              compose[c].at = "home timelines" /\ timelineCall[c].todo \subseteq {"deliver"} /\ timelineCall[c] \in FanOuts(c)
         /\ compose[c].at = "user timeline" => timelineCall[c].op = "write"
<1>1. timelineCall[c] \in FanOuts(c) => timelineCall[c].op = "fan out" /\ timelineCall[c].todo \subseteq {"deliver"}
      /\ "posts" \notin timelineCall[c].todo
  BY DEF FanOuts
<1>2. timelineCall[c] \in WriteCalls(c) => timelineCall[c].op = "write" /\ "posts" \notin timelineCall[c].todo
  BY WriteFacts
<1>3. ReadRight(c) => timelineCall[c].op \in {"read user", "read home"}
  BY DEF ReadRight, ReadCalls
<1> QED
  BY <1>1, <1>2, <1>3, CallKinds

LEMMA PostStepOrder ==
  ASSUME ActorsInv, TimesInv, EdgeInv, ServedInv, ReadsInv, [SocialNext]_socialVars,
         NEW c \in Calls, PostSteps(c), NEW u \in Users, OrderRight(u)
  PROVE  OrderRight(u)'
<1>0. Works(c)
  BY DEF Works, PostSteps
<1>1. \A d \in Calls : d /= c => SameWork(d, u) /\ SameFill(d, u)
  BY <1>0, OthersSame
<1>2. UNCHANGED <<timeline, cachedTimeline>> /\ compose'[c] = compose[c] /\ DOMAIN timelineCall = Calls
  BY WorkLeaves DEF timelineStores, composeVars, ReadsInv
<1>3. CASE timelineCall' = timelineCall
  BY <1>1, <1>2, <1>3, WorkSame, OrderKept DEF SameFill
<1>4. CASE timelineCall' /= timelineCall
  <2>1. HavePosts(c)
    BY <1>4 DEF PostSteps, AsksForPosts, ReadsPosts, GetsPosts, ReadStops, timelineVars
  <2>2. "posts" \in timelineCall[c].todo
    BY <2>1 DEF HavePosts
  <2>3. compose[c].at = "idle" /\ timelineCall[c] \in ReadCalls
    BY <2>2, AtFacts DEF ReadRight
  <2> DEFINE ok == timelineCall[c].ok /\ postRead[c].at = "done"
             todo == timelineCall[c].todo \ {"posts"}
  <2>4. timelineCall'[c] = [timelineCall[c] EXCEPT !.todo = todo, !.ok = ok]
    BY <1>2, <2>1 DEF HavePosts
  <2> HIDE DEF ok
  <2>5. /\ timelineCall'[c].op = timelineCall[c].op /\ timelineCall'[c].user = timelineCall[c].user
        /\ timelineCall'[c].slice = timelineCall[c].slice /\ timelineCall'[c].todo = todo
    BY <2>3, <2>4 DEF ReadCalls
  <2>6. SameFill(c, u)
    BY <2>5 DEF SameFill, Fills
  <2>7. SameWork(c, u)
    BY <1>2, <2>3, IdleWork
  <2> QED
    BY <1>1, <1>2, <2>6, <2>7, OrderKept
<1> QED
  BY <1>3, <1>4

\* A write that fails blurs its user, and a find that fails leaves no fill.
LEMMA StopOrder ==
  ASSUME ActorsInv, TimesInv, EdgeInv, ServedInv, ListsInv, ReadsInv, [SocialNext]_socialVars,
         NEW c \in Calls, TimelineStops(c), NEW u \in Users, u \notin blurred', OrderRight(u)
  PROVE  OrderRight(u)'
<1>0. Works(c)
  BY DEF Works
<1>1. \A d \in Calls : d /= c => SameWork(d, u) /\ SameFill(d, u)
  BY <1>0, OthersSame
<1>2. UNCHANGED <<timeline, cachedTimeline>> /\ compose'[c] = compose[c] /\ DOMAIN timelineCall = Calls
  BY WorkLeaves DEF timelineStores, composeVars, ReadsInv
<1>3. SameFill(c, u)
  <2>1. timelineCall[c] \in ReadCalls \/ timelineCall[c] \in WriteCalls(c) \/ timelineCall[c] \in FanOuts(c)
    <3>1. timelineCall[c].todo /= {}
      BY DEF TimelineStops, TimelineFails, FindTimelineErrs, At
    <3> QED
      BY <3>1, CallKinds DEF ReadRight
  <2>2. timelineCall'[c].todo \in {timelineCall[c].todo \cap {"posts"}, {"posts"}}
    <3>1. CASE TimelineFails(c)
      <4>1. timelineCall'[c].todo = timelineCall[c].todo \cap {"posts"}
        BY <1>2, <2>1, <3>1 DEF TimelineFails, ReadCalls, WriteCalls, FanOuts
      <4> QED
        BY <4>1
    <3>2. CASE FindTimelineErrs(c)
      <4>1. timelineCall'[c].todo = {"posts"}
        BY <1>2, <2>1, <3>2 DEF FindTimelineErrs, ReadCalls, WriteCalls, FanOuts
      <4> QED
        BY <4>1
    <3> QED
      BY <3>1, <3>2 DEF TimelineStops
  <2>3. "fill" \notin timelineCall'[c].todo
    BY <2>2
  <2> QED
    BY <2>3 DEF SameFill, Fills
<1>4. SameWork(c, u)
  <2>1. ASSUME compose[c].user = u, compose[c].at = "user timeline" PROVE FALSE
    <3>1. timelineCall[c].op = "write" /\ timelineCall[c].user = u
      BY <2>1, AtFacts, WritesAreOwn
    <3> QED
      BY <3>1 DEF TimelineStops, Owner
  <2> QED
    BY <1>2, <2>1, IdleWork
<1> QED
  BY <1>1, <1>2, <1>3, <1>4, OrderKept

\* Steps of reads and fan-outs that write no user timeline and find nothing in
\* MongoDB.
LEMMA RangeOrder ==
  ASSUME ActorsInv, TimesInv, EdgeInv, ServedInv, ReadsInv, [SocialNext]_socialVars,
         NEW c \in Calls, Works(c), RangeTimeline(c) \/ RangeHome(c) \/ (\E v \in Users : Deliver(c, v)),
         compose'[c] = compose[c], NEW u \in Users, OrderRight(u)
  PROVE  OrderRight(u)'
<1>1. \A d \in Calls : d /= c => SameWork(d, u) /\ SameFill(d, u)
  BY OthersSame
<1>2. UNCHANGED <<timeline, cachedTimeline>> /\ DOMAIN timelineCall = Calls
  BY DEF RangeTimeline, RangeHome, Deliver, timelineStores, ReadsInv
<1>3. timelineCall[c].op \in {"read user", "read home", "fan out"}
  BY DEF RangeTimeline, RangeHome, Deliver, At
<1>4. SameWork(c, u)
  BY <1>3, AtFacts, IdleWork
<1>5. "fill" \notin timelineCall'[c].todo
  <2>1. CASE RangeTimeline(c)
    <3>1. PICK page, todo : /\ todo \in {{"find"}, {"posts"}}
                            /\ timelineCall' = [timelineCall EXCEPT ![c].page = page, ![c].todo = todo]
      BY <2>1 DEF RangeTimeline
    <3>2. timelineCall[c] \in ReadCalls
      BY <2>1, AtFacts DEF RangeTimeline, At, ReadRight
    <3>3. timelineCall'[c].todo = todo
      BY <1>2, <3>1, <3>2 DEF ReadCalls
    <3> QED
      BY <3>1, <3>3
  <2>2. CASE RangeHome(c)
    <3>1. PICK page : timelineCall' = [timelineCall EXCEPT ![c].todo = {"posts"}, ![c].page = page]
      BY <2>2 DEF RangeHome
    <3>2. timelineCall[c] \in ReadCalls
      BY <2>2, AtFacts DEF RangeHome, At, ReadRight
    <3>3. timelineCall'[c].todo = {"posts"}
      BY <1>2, <3>1, <3>2 DEF ReadCalls
    <3> QED
      BY <3>3
  <2>3. ASSUME NEW v \in Users, Deliver(c, v) PROVE "fill" \notin timelineCall'[c].todo
    <3>1. timelineCall[c].todo \subseteq {"deliver"} /\ timelineCall[c] \in FanOuts(c)
      BY <2>3, AtFacts DEF Deliver, At
    <3>2. timelineCall'[c].todo = {} \/ timelineCall'[c].todo = timelineCall[c].todo
      BY <1>2, <2>3, <3>1 DEF Deliver, FanOuts
    <3> QED
      BY <3>1, <3>2
  <2> QED
    BY <2>1, <2>2, <2>3
<1>6. SameFill(c, u)
  BY <1>5 DEF SameFill, Fills
<1> QED
  BY <1>1, <1>2, <1>4, <1>6, OrderKept

\* Redis restarts while nobody composes for a user or reads its timeline, or
\* blurs the user.
LEMMA RestartOrder ==
  ASSUME ActorsInv, TimesInv, ServedInv, ReadsInv, RestartTimelineRedis, UNCHANGED <<composeVars, postVars, running>>,
         NEW u \in Users, ComposesOf(u) \cup ReadsOf(u) = {}, OrderRight(u)
  PROVE  OrderRight(u)'
<1>1. \A c \in Calls : ~(compose[c].user = u /\ Writing(c)) /\ ~Fills(c, u)
  BY WritersCompose
<1>2. timeline'[u] = timeline[u] /\ cachedTimeline'[u] = {} /\ UNCHANGED <<compose, timelineCall>>
  BY DEF RestartTimelineRedis, composeVars
<1>3. WritersOf(u)' = {} /\ OnTheWay(u)' = {}
  BY <1>1, <1>2 DEF WritersOf, OnTheWay, Writing
<1>4. \A c \in Calls : ~Fills(c, u)'
  BY <1>1, <1>2 DEF Fills
<1>5. InTimeOrder(timeline'[u]) /\ NoGaps(timeline'[u], {}, {})
  BY <1>2 DEF OrderRight, NoGaps
<1> QED
  BY <1>2, <1>3, <1>4, <1>5 DEF OrderRight, InTimeOrder, NoGaps

\* A write of a timeline, where it concerns the timeline of its user.
LEMMA WriterFacts ==
  ASSUME ActorsInv, TimesInv, ServedInv, ListsInv, ReadsInv, NEW c \in Calls, timelineCall[c].op = "write",
         timelineCall[c].todo /= {}, NEW u \in Users, u = compose[c].user, OrderRight(u)
  PROVE  /\ compose[c].at = "user timeline" /\ c \in WritersOf(u) /\ \A d \in WritersOf(u) : d = c
         /\ \A d \in Calls : compose[d].user = u /\ Halfway(d) => d = c
         /\ "push" \in timelineCall[c].todo => OnTheWay(u) = {}
         /\ "push" \notin timelineCall[c].todo => Halfway(c) /\ OnTheWay(u) = {PostEntry(c)}
<1>1. compose[c].at = "user timeline" /\ timelineCall[c] \in WriteCalls(c)
  BY WritesAreOwn DEF ReadsInv, CallRight
<1>2. c \in WritersOf(u)
  BY <1>1 DEF WritersOf, Writing
<1>3. \A d \in WritersOf(u) : d = c
  BY <1>2 DEF OrderRight
<1>4. \A d \in Calls : compose[d].user = u /\ Halfway(d) => d = c
  BY <1>3, WritersCompose DEF WritersOf
<1>5. ASSUME "push" \in timelineCall[c].todo PROVE OnTheWay(u) = {}
  <2>1. timelineCall[c].todo /= {"cache"}
    BY <1>5
  <2> QED
    BY <1>3, <2>1 DEF OnTheWay, Halfway
<1>6. ASSUME "push" \notin timelineCall[c].todo PROVE Halfway(c) /\ OnTheWay(u) = {PostEntry(c)}
  <2>0. timelineCall[c].todo \in WriteLeft
    BY <1>1 DEF WriteCalls
  <2>1. timelineCall[c].todo = {"cache"}
    <3>1. "cache" \in timelineCall[c].todo
      BY <1>6, <2>0 DEF WriteLeft
    <3> QED
      BY <1>6, <2>0, <3>1, WriteTodos
  <2>2. Halfway(c)
    BY <1>1, <2>1 DEF Halfway
  <2> QED
    BY <1>2, <1>3, <2>2 DEF OnTheWay
<1> QED
  BY <1>1, <1>2, <1>3, <1>4, <1>5, <1>6

\* A post is pushed at the front: it is newer than all the others, and on its
\* way to Redis from then on.
LEMMA PushOrder ==
  ASSUME ActorsInv, TimesInv, EdgeInv, ServedInv, ListsInv, ReadsInv, RepeatInv, [SocialNext]_socialVars,
         NEW c \in Calls, Works(c), PushPost(c) \/ RepeatPush(c), compose' = compose,
         NEW u \in Users, u \notin blurred, OrderRight(u)
  PROVE  OrderRight(u)'
<1>1. \A d \in Calls : d /= c => SameWork(d, u) /\ SameFill(d, u)
  BY OthersSame
<1>2. /\ timelineCall[c].op = "write" /\ "push" \in timelineCall[c].todo
      /\ compose[c].at = "user timeline"
      /\ timelineCall' = [timelineCall EXCEPT ![c].todo = {"cache"}]
      /\ \/ timeline' = [timeline EXCEPT ![compose[c].user] = <<PostEntry(c)>> \o @]
         \/ timeline' = timeline /\ compose[c].user /= u
      /\ cachedTimeline' = cachedTimeline
  <2>1. /\ compose[c].at = "user timeline" /\ timelineCall[c] \in WriteCalls(c)
        /\ "push" \in timelineCall[c].todo /\ cachedTimeline' = cachedTimeline
    BY PushFacts
  <2>2. /\ timelineCall[c].op = "write" /\ timelineCall[c].user = compose[c].user
        /\ timelineCall[c].entry = PostEntry(c) /\ timelineCall[c].todo \in WriteLeft
    BY <2>1 DEF WriteCalls
  <2>3. CASE PushPost(c)
    <3>1. timelineCall[c].todo \ {"push"} = {"cache"}
      BY <2>2, <2>3, WriteTodos DEF PushPost, At
    <3> QED
      BY <2>1, <2>2, <2>3, <3>1 DEF PushPost, Did, Owner
  <2>4. CASE RepeatPush(c)
    <3>1. timelineCall[c].todo \ {"push", "again"} = {"cache"} /\ "again" \in timelineCall[c].todo
      BY <2>1, <2>2, <2>4, WriteTodos DEF RepeatPush, At
    <3>2. compose[c].user = u => timeline[u] /= <<>>
      BY <2>1, <3>1 DEF RepeatInv
    <3> QED
      BY <2>1, <2>2, <2>4, <3>1, <3>2 DEF RepeatPush, Owner
  <2> QED
    BY <2>3, <2>4
<1>3. /\ timelineCall[c] \in WriteCalls(c) /\ timelineCall[c].user = compose[c].user
      /\ timelineCall[c].entry = PostEntry(c) /\ c \in posts /\ ~Pushed(c)
      /\ DOMAIN timelineCall = Calls /\ DOMAIN timeline = Users
  BY <1>2, WritesAreOwn DEF ReadsInv, ListsInv
<1>4. timelineCall'[c].op = "write" /\ timelineCall'[c].todo = {"cache"}
  BY <1>2, <1>3 DEF WriteCalls
<1>5. SameFill(c, u)
  BY <1>4 DEF SameFill, Fills
<1>6. CASE compose[c].user /= u
  <2>1. timeline'[u] = timeline[u]
    <3>1. PICK e : e = PostEntry(c)
      OBVIOUS
    <3>2. timeline' = timeline \/ timeline' = [timeline EXCEPT ![compose[c].user] = <<e>> \o @]
      BY <1>2, <3>1
    <3> QED
      BY <1>3, <1>6, <3>2
  <2>2. SameWork(c, u)
    BY <1>6, IdleWork
  <2> QED
    BY <1>1, <1>2, <1>5, <2>1, <2>2, OrderKept
<1>7. CASE compose[c].user = u
  <2>1. PICK e : e = PostEntry(c)
    OBVIOUS
  <2>2. /\ compose[c].at = "user timeline" /\ c \in WritersOf(u) /\ \A d \in WritersOf(u) : d = c
        /\ OnTheWay(u) = {} /\ \A d \in Calls : compose[d].user = u /\ Halfway(d) => d = c
    <3>1. timelineCall[c].op = "write" /\ "push" \in timelineCall[c].todo
      BY <1>2
    <3>2. timelineCall[c].todo /= {}
      BY <3>1
    <3> QED
      BY <1>7, <3>1, <3>2, WriterFacts
  <2>4. Halfway(c)' /\ Writing(c)' /\ Pushed(c)'
    <3>1. "push" \notin {"cache"} /\ {"cache"} /= {}
      OBVIOUS
    <3> QED
      BY <1>4, <2>2, <3>1 DEF Halfway, Writing, Pushed
  <2>5. PostEntry(c)' = e
    BY <1>3, <2>1, EntriesGrow
  <2>6. WritersOf(u)' = {c}
    <3>1. \A d \in Calls : compose'[d].user = u /\ Writing(d)' => d = c
      BY <1>1, <2>2 DEF SameWork, WritersOf
    <3> QED
      BY <1>7, <2>4, <3>1 DEF WritersOf
  <2>7. OnTheWay(u)' = {e}
    BY <2>4, <2>5, <2>6 DEF OnTheWay
  <2>8. timeline'[u] = <<e>> \o timeline[u]
    BY <1>2, <1>3, <1>7, <2>1
  <2>9. timeline[u] \in Seq(PostedEntries) /\ e \in PostedEntries
    <3>1. timeline[u] \in Seq(OwnEntries(u)) /\ OwnEntries(u) \subseteq PostedEntries
      BY EntryFacts DEF ListsInv
    <3>2. Len(timeline[u]) \in Nat /\ timeline[u] \in [1..Len(timeline[u]) -> PostedEntries]
      BY <3>1, LenProperties
    <3> QED
      BY <1>3, <2>1, <3>2, SeqDef DEF PostedEntries
  <2> DEFINE list == timeline[u]
             next == <<e>> \o list
  <2>10. InTimeOrder(next)
    <3>1. \A i \in DOMAIN list : list[i].at < e.at
      BY <1>3, <2>1, <2>2 DEF OrderRight, PostEntry
    <3>2. InTimeOrder(list)
      BY DEF OrderRight
    <3> HIDE DEF list
    <3> QED
      BY <2>9, <3>1, <3>2, InOrderPushed DEF list
  <2>11. next /= <<>> /\ next[1] = e /\ Members(list) \subseteq Members(next)
    <3> HIDE DEF list
    <3> QED
      BY <2>9, PushedListed DEF list
  <2>12. ASSUME NEW S, NoGaps(list, S, {}) PROVE NoGaps(next, S, {e})
    <3> HIDE DEF list
    <3> QED
      BY <2>9, <2>12, NoGapsPushed DEF list
  <2> HIDE DEF next
  <2>13. /\ cachedTimeline[u] \subseteq Members(next) /\ NoGaps(next, cachedTimeline[u], {e})
    BY <2>2, <2>11, <2>12 DEF OrderRight
  <2>14. ASSUME NEW d \in Calls, Fills(d, u)'
         PROVE  /\ timelineCall'[d].slice \subseteq Members(next)
                /\ NoGaps(next, cachedTimeline[u] \cup timelineCall'[d].slice, {e})
    <3>1. Fills(d, u) /\ timelineCall'[d].slice = timelineCall[d].slice
      BY <1>1, <1>5, <2>14 DEF SameFill
    <3>2. /\ timelineCall[d].slice \subseteq Members(list)
          /\ NoGaps(list, cachedTimeline[u] \cup timelineCall[d].slice, {})
      BY <2>2, <3>1 DEF OrderRight
    <3> QED
      BY <2>11, <2>12, <3>1, <3>2
  <2>15. timeline'[u] = next /\ cachedTimeline'[u] = cachedTimeline[u]
    BY <1>2, <2>8 DEF next
  <2>16. WritersRight(u)'
    <3>1. InTimeOrder(timeline'[u])
      BY <2>10, <2>15
    <3>2. \A d \in WritersOf(u)' : d = c
      BY <2>6
    <3>3. \A d \in WritersOf(u)' : Pushed(d)'
      BY <2>4, <3>2
    <3>4. \A d, f \in WritersOf(u)' : d = f
      BY <3>2
    <3> QED
      BY <3>1, <3>3, <3>4 DEF WritersRight, InTimeOrder
  <2>17. EntriesRight(u)'
    <3>1. \A f \in OnTheWay(u)' : timeline'[u] /= <<>> /\ timeline'[u][1] = f
      BY <2>7, <2>11, <2>15
    <3>2. cachedTimeline'[u] \subseteq Members(timeline'[u]) /\ NoGaps(timeline'[u], cachedTimeline'[u], OnTheWay(u)')
      BY <2>7, <2>13, <2>15
    <3>3. \A d \in Calls : Fills(d, u)' =>
            /\ timelineCall'[d].slice \subseteq Members(timeline'[u])
            /\ NoGaps(timeline'[u], cachedTimeline'[u] \cup timelineCall'[d].slice, OnTheWay(u)')
      BY <2>7, <2>14, <2>15
    <3> QED
      BY <3>1, <3>2, <3>3 DEF EntriesRight, Members, NoGaps
  <2> QED
    BY <2>16, <2>17 DEF OrderRight, WritersRight, EntriesRight
<1> QED
  BY <1>6, <1>7

\* A push that is sent again has changed nothing for a user that is not
\* blurred, and is still to be done.
LEMMA PushFailsOrder ==
  ASSUME ActorsInv, TimesInv, EdgeInv, ServedInv, ListsInv, ReadsInv, [SocialNext]_socialVars,
         NEW c \in Calls, PushFails(c), NEW u \in Users, u \notin blurred', OrderRight(u)
  PROVE  OrderRight(u)'
<1>1. \A d \in Calls : d /= c => SameWork(d, u) /\ SameFill(d, u)
  BY OthersSame DEF Works
<1>2. /\ compose[c].at = "user timeline" /\ timelineCall[c] \in WriteCalls(c)
      /\ "push" \in timelineCall[c].todo /\ cachedTimeline' = cachedTimeline
      /\ \/ timeline' = timeline
         \/ timeline' = [timeline EXCEPT ![compose[c].user] = <<PostEntry(c)>> \o @]
  BY PushFacts DEF PushFails
<1>3. /\ timelineCall[c].op = "write" /\ timelineCall[c].user = compose[c].user
      /\ timelineCall[c].todo \in WriteLeft
      /\ compose'[c] = compose[c] /\ DOMAIN timelineCall = Calls /\ DOMAIN timeline = Users
  BY <1>2 DEF WriteCalls, PushFails, composeVars, ReadsInv, ListsInv
<1>4. timelineCall'[c].op = "write" /\ timelineCall'[c].todo = timelineCall[c].todo \cup {"again"}
  BY <1>2, <1>3 DEF PushFails, PushErrs, WriteCalls
<1>5. timeline'[u] = timeline[u]
  <2>1. compose[c].user = u => timeline' = timeline
    BY <1>3 DEF PushFails, Owner
  <2> QED
    BY <1>2, <1>3, <2>1
<1>6. SameWork(c, u)
  <2>1. /\ timelineCall[c].todo /= {"cache"} /\ timelineCall[c].todo /= {}
        /\ timelineCall'[c].todo /= {"cache"} /\ timelineCall'[c].todo /= {}
    <3>1. "push" \in timelineCall'[c].todo
      BY <1>2, <1>4
    <3>2. "push" \notin {"cache"} /\ "push" \notin {}
      OBVIOUS
    <3> QED
      BY <1>2, <3>1, <3>2
  <2> QED
    BY <1>2, <1>3, <2>1 DEF SameWork, Writing, Halfway
<1>7. SameFill(c, u)
  BY <1>4 DEF SameFill, Fills
<1> QED
  BY <1>1, <1>2, <1>5, <1>6, <1>7, OrderKept

LEMMA EntriesOnce ==
  ASSUME ActorsInv, TimesInv, NEW u \in Users, NEW list \in Seq(OwnEntries(u)), InTimeOrder(list)
  PROVE  Once(list)
<1>1. \A x \in OwnEntries(u) : x.at \in Int
  BY EntryFacts
<1> QED
  BY <1>1, OrderedOnce

\* The entry that was on its way is in Redis.
LEMMA CacheOrder ==
  ASSUME ActorsInv, TimesInv, EdgeInv, ServedInv, ListsInv, ReadsInv, [SocialNext]_socialVars,
         NEW c \in Calls, Works(c), CachePost(c), compose' = compose, NEW u \in Users, OrderRight(u)
  PROVE  OrderRight(u)'
<1>1. \A d \in Calls : d /= c => SameWork(d, u) /\ SameFill(d, u)
  BY OthersSame
<1>2. /\ timelineCall[c].op = "write" /\ "cache" \in timelineCall[c].todo /\ "push" \notin timelineCall[c].todo
      /\ cachedTimeline' = [cachedTimeline EXCEPT ![timelineCall[c].user] = @ \cup {timelineCall[c].entry}]
      /\ timelineCall' = [timelineCall EXCEPT ![c].todo = @ \ {"cache"}]
      /\ timeline' = timeline
  BY DEF CachePost, At, Owner, Did
<1>3. /\ timelineCall[c] \in WriteCalls(c) /\ timelineCall[c].user = compose[c].user
      /\ timelineCall[c].entry = PostEntry(c)
      /\ DOMAIN timelineCall = Calls /\ DOMAIN cachedTimeline = Users
  BY <1>2, WritesAreOwn DEF ReadsInv, ListsInv
<1>4. timelineCall'[c].op = "write" /\ timelineCall'[c].todo = timelineCall[c].todo \ {"cache"}
      /\ timelineCall'[c].ok = timelineCall[c].ok
  BY <1>2, <1>3 DEF WriteCalls
<1>5. SameFill(c, u)
  BY <1>4 DEF SameFill, Fills
<1>6. CASE compose[c].user /= u
  <2>1. cachedTimeline'[u] = cachedTimeline[u]
    BY <1>2, <1>3, <1>6
  <2>2. SameWork(c, u)
    BY <1>6, IdleWork
  <2> QED
    BY <1>1, <1>2, <1>5, <2>1, <2>2, OrderKept
<1>7. CASE compose[c].user = u
  <2>1. PICK e : e = PostEntry(c)
    OBVIOUS
  <2>2. /\ compose[c].at = "user timeline" /\ c \in WritersOf(u) /\ \A d \in WritersOf(u) : d = c
        /\ Halfway(c) /\ OnTheWay(u) = {e}
    BY <1>2, <1>7, <2>1, WriterFacts
  <2>3. ~Halfway(c)' /\ Pushed(c)
    <3>1. timelineCall'[c].todo /= {"cache"}
      BY <1>4
    <3> QED
      BY <2>2, <3>1, WritersCompose DEF Halfway
  <2>4. WritersOf(u)' \subseteq {c}
    BY <1>1, <2>2 DEF SameWork, WritersOf
  <2>5. OnTheWay(u)' = {}
    BY <2>3, <2>4 DEF OnTheWay
  <2>6. cachedTimeline'[u] = cachedTimeline[u] \cup {e} /\ timeline'[u] = timeline[u]
    BY <1>2, <1>3, <1>7, <2>1
  <2> DEFINE list == timeline[u]
  <2>7. list /= <<>> /\ list[1] = e /\ list \in Seq(OwnEntries(u)) /\ Once(list)
    <3>1. list /= <<>> /\ list[1] = e /\ list \in Seq(OwnEntries(u)) /\ InTimeOrder(list)
      BY <2>2 DEF OrderRight, ListsInv
    <3> QED
      BY <3>1, EntriesOnce
  <2>8. ASSUME NEW S, NoGaps(list, S, {e}) PROVE NoGaps(list, S \cup {e}, {})
    <3> HIDE DEF list
    <3> QED
      BY <2>7, <2>8, NoGapsClosed
  <2>9. e \in Members(list)
    <3>1. NoGaps(list, cachedTimeline[u], {e})
      BY <2>2 DEF OrderRight
    <3> HIDE DEF list
    <3> QED
      BY <2>7, <3>1, NoGapsClosed
  <2>10. cachedTimeline'[u] \subseteq Members(list) /\ NoGaps(list, cachedTimeline'[u], {})
    BY <2>2, <2>6, <2>8, <2>9 DEF OrderRight
  <2>11. ASSUME NEW d \in Calls, Fills(d, u)'
         PROVE  /\ timelineCall'[d].slice \subseteq Members(list)
                /\ NoGaps(list, cachedTimeline'[u] \cup timelineCall'[d].slice, {})
    <3>1. Fills(d, u) /\ timelineCall'[d].slice = timelineCall[d].slice
      BY <1>1, <1>5, <2>11 DEF SameFill
    <3>2. /\ timelineCall[d].slice \subseteq Members(list)
          /\ NoGaps(list, cachedTimeline[u] \cup timelineCall[d].slice, {e})
      BY <2>2, <3>1 DEF OrderRight
    <3>3. NoGaps(list, (cachedTimeline[u] \cup timelineCall[d].slice) \cup {e}, {})
      BY <2>8, <3>2
    <3>4. (cachedTimeline[u] \cup timelineCall[d].slice) \cup {e} = cachedTimeline'[u] \cup timelineCall'[d].slice
      BY <2>6, <3>1
    <3> QED
      BY <3>1, <3>2, <3>3, <3>4
  <2>12. WritersRight(u)'
    <3>1. InTimeOrder(timeline'[u])
      BY <2>6 DEF OrderRight
    <3>2. Pushed(c)'
      BY <2>3, EntriesGrow
    <3>3. \A d \in WritersOf(u)' : d = c
      BY <2>4
    <3>4. \A d \in WritersOf(u)' : Pushed(d)'
      BY <3>2, <3>3
    <3>5. \A d, f \in WritersOf(u)' : d = f
      BY <3>3
    <3> QED
      BY <3>1, <3>4, <3>5 DEF WritersRight, InTimeOrder
  <2>13. EntriesRight(u)'
    <3>1. \A f \in OnTheWay(u)' : timeline'[u] /= <<>> /\ timeline'[u][1] = f
      BY <2>5
    <3>2. cachedTimeline'[u] \subseteq Members(timeline'[u]) /\ NoGaps(timeline'[u], cachedTimeline'[u], OnTheWay(u)')
      BY <2>5, <2>6, <2>10
    <3>3. \A d \in Calls : Fills(d, u)' =>
            /\ timelineCall'[d].slice \subseteq Members(timeline'[u])
            /\ NoGaps(timeline'[u], cachedTimeline'[u] \cup timelineCall'[d].slice, OnTheWay(u)')
      BY <2>5, <2>6, <2>11
    <3> QED
      BY <3>1, <3>2, <3>3 DEF EntriesRight, Members, NoGaps
  <2> QED
    BY <2>12, <2>13 DEF OrderRight, WritersRight, EntriesRight
<1> QED
  BY <1>6, <1>7

\* Redis gets what a read found in MongoDB.
LEMMA FillOrder ==
  ASSUME ActorsInv, TimesInv, EdgeInv, ServedInv, ListsInv, ReadsInv, [SocialNext]_socialVars,
         NEW c \in Calls, Works(c), FillTimeline(c), compose' = compose, NEW u \in Users, OrderRight(u)
  PROVE  OrderRight(u)'
<1>1. \A d \in Calls : d /= c => SameWork(d, u) /\ SameFill(d, u)
  BY OthersSame
<1>2. /\ timelineCall[c].op = "read user" /\ "fill" \in timelineCall[c].todo
      /\ cachedTimeline' = [cachedTimeline EXCEPT ![timelineCall[c].user] = @ \cup timelineCall[c].slice]
      /\ timelineCall' = [timelineCall EXCEPT ![c].todo = @ \ {"fill"}]
      /\ timeline' = timeline
  BY DEF FillTimeline, At, Owner, Did
<1>3. /\ compose[c].at = "idle" /\ timelineCall[c] \in ReadCalls
      /\ DOMAIN timelineCall = Calls /\ DOMAIN cachedTimeline = Users
  BY <1>2, AtFacts DEF ReadRight, ReadsInv, ListsInv
<1>4. timelineCall'[c].todo = timelineCall[c].todo \ {"fill"}
  BY <1>2, <1>3 DEF ReadCalls
<1>5. ~Fills(c, u)'
  BY <1>4 DEF Fills
<1>6. SameWork(c, u) /\ SameFill(c, u)
  BY <1>3, <1>5, IdleWork DEF SameFill
<1>7. CASE timelineCall[c].user /= u
  <2>1. cachedTimeline'[u] = cachedTimeline[u]
    BY <1>2, <1>3, <1>7
  <2> QED
    BY <1>1, <1>2, <1>6, <2>1, OrderKept
<1>8. CASE timelineCall[c].user = u
  <2> DEFINE list == timeline[u]
             slice == timelineCall[c].slice
             late == OnTheWay(u)
  <2>1. Fills(c, u)
    BY <1>2, <1>8 DEF Fills
  <2>2. slice \subseteq Members(list) /\ NoGaps(list, cachedTimeline[u] \cup slice, late)
    BY <2>1 DEF OrderRight
  <2>3. cachedTimeline'[u] = cachedTimeline[u] \cup slice /\ timeline'[u] = list
    BY <1>2, <1>3, <1>8
  <2>4. WritersRight(u)' /\ OnTheWay(u)' = late
    BY <1>1, <1>6, <2>3, OrderParts, WritersStay, OnTheWaySame
  <2>5. ASSUME NEW d \in Calls, Fills(d, u)'
        PROVE  /\ timelineCall'[d].slice \subseteq Members(list)
               /\ NoGaps(list, cachedTimeline'[u] \cup timelineCall'[d].slice, late)
    <3>1. Fills(d, u) /\ timelineCall'[d].slice = timelineCall[d].slice
      BY <1>1, <1>6, <2>5 DEF SameFill
    <3>2. /\ timelineCall[d].slice \subseteq Members(list)
          /\ NoGaps(list, cachedTimeline[u] \cup timelineCall[d].slice, late)
      BY <3>1 DEF OrderRight
    <3>3. NoGaps(list, (cachedTimeline[u] \cup slice) \cup (cachedTimeline[u] \cup timelineCall[d].slice), late)
      BY <2>2, <3>2, NoGapsJoined
    <3>4. (cachedTimeline[u] \cup slice) \cup (cachedTimeline[u] \cup timelineCall[d].slice)
            = cachedTimeline'[u] \cup timelineCall'[d].slice
      BY <2>3, <3>1
    <3> QED
      BY <3>1, <3>2, <3>3, <3>4
  <2>6. EntriesRight(u)'
    <3>1. \A f \in OnTheWay(u)' : timeline'[u] /= <<>> /\ timeline'[u][1] = f
      BY <2>3, <2>4 DEF OrderRight
    <3>2. cachedTimeline'[u] \subseteq Members(timeline'[u]) /\ NoGaps(timeline'[u], cachedTimeline'[u], OnTheWay(u)')
      BY <2>2, <2>3, <2>4 DEF OrderRight
    <3>3. \A d \in Calls : Fills(d, u)' =>
            /\ timelineCall'[d].slice \subseteq Members(timeline'[u])
            /\ NoGaps(timeline'[u], cachedTimeline'[u] \cup timelineCall'[d].slice, OnTheWay(u)')
      BY <2>3, <2>4, <2>5
    <3> QED
      BY <3>1, <3>2, <3>3 DEF EntriesRight, Members, NoGaps
  <2> QED
    BY <2>4, <2>6 DEF OrderRight, WritersRight, EntriesRight
<1> QED
  BY <1>7, <1>8

\* What a read finds in MongoDB is the beginning of the document.
LEMMA FindOrder ==
  ASSUME ActorsInv, TimesInv, EdgeInv, ServedInv, ListsInv, ReadsInv, [SocialNext]_socialVars,
         NEW c \in Calls, Works(c), FindTimeline(c), compose' = compose, NEW u \in Users, OrderRight(u)
  PROVE  OrderRight(u)'
<1>1. \A d \in Calls : d /= c => SameWork(d, u) /\ SameFill(d, u)
  BY OthersSame
<1>2. UNCHANGED <<timeline, cachedTimeline>> /\ timelineCall[c].op = "read user"
  BY DEF FindTimeline, timelineStores, At
<1>3. compose[c].at = "idle" /\ timelineCall[c] \in ReadCalls /\ DOMAIN timelineCall = Calls
  BY <1>2, AtFacts DEF ReadRight, ReadsInv
<1>4. SameWork(c, u)
  BY <1>3, IdleWork
<1>5. PICK slice, page, todo :
        /\ slice = Page(timeline[timelineCall[c].user], 0, timelineCall[c].stop)
        /\ timelineCall' = [timelineCall EXCEPT ![c].page = page, ![c].slice = Members(slice), ![c].todo = todo]
  BY DEF FindTimeline
<1>6. timelineCall'[c].user = timelineCall[c].user /\ timelineCall'[c].slice = Members(slice)
  BY <1>3, <1>5 DEF ReadCalls
<1>7. CASE timelineCall[c].user /= u
  <2>1. SameFill(c, u)
    BY <1>6, <1>7 DEF SameFill, Fills
  <2> QED
    BY <1>1, <1>2, <1>4, <2>1, OrderKept
<1>8. CASE timelineCall[c].user = u
  <2> DEFINE list == timeline[u]
             late == OnTheWay(u)
  <2>1. WritersRight(u)' /\ OnTheWay(u)' = late
    BY <1>1, <1>2, <1>4, OrderParts, WritersStay, OnTheWaySame
  <2>2. Members(slice) \subseteq Members(list) /\ NoGaps(list, Members(slice), late)
    <3>1. list \in Seq(OwnEntries(u)) /\ Once(list) /\ timelineCall[c].stop \in Int
      BY <1>3, EntriesOnce DEF ListsInv, ReadCalls, OrderRight
    <3> HIDE DEF list
    <3>2. /\ Members(Page(list, 0, timelineCall[c].stop)) \subseteq Members(list)
          /\ NoGaps(list, Members(Page(list, 0, timelineCall[c].stop)), late)
      BY <3>1, PageListed, BeginningHasNoGaps
    <3> QED
      BY <1>5, <1>8, <3>2 DEF list
  <2>3. NoGaps(list, cachedTimeline[u] \cup Members(slice), late)
    <3>1. NoGaps(list, cachedTimeline[u], late)
      BY DEF OrderRight
    <3> QED
      BY <2>2, <3>1, NoGapsJoined
  <2>4. ASSUME NEW d \in Calls, Fills(d, u)'
        PROVE  /\ timelineCall'[d].slice \subseteq Members(list)
               /\ NoGaps(list, cachedTimeline[u] \cup timelineCall'[d].slice, late)
    <3>1. CASE d = c
      BY <1>6, <2>2, <2>3, <3>1
    <3>2. CASE d /= c
      BY <1>1, <2>4, <3>2 DEF SameFill, OrderRight
    <3> QED
      BY <3>1, <3>2
  <2>5. EntriesRight(u)'
    <3>1. \A f \in OnTheWay(u)' : timeline'[u] /= <<>> /\ timeline'[u][1] = f
      BY <1>2, <2>1 DEF OrderRight
    <3>2. cachedTimeline'[u] \subseteq Members(timeline'[u]) /\ NoGaps(timeline'[u], cachedTimeline'[u], OnTheWay(u)')
      BY <1>2, <2>1 DEF OrderRight
    <3>3. \A d \in Calls : Fills(d, u)' =>
            /\ timelineCall'[d].slice \subseteq Members(timeline'[u])
            /\ NoGaps(timeline'[u], cachedTimeline'[u] \cup timelineCall'[d].slice, OnTheWay(u)')
      BY <1>2, <2>1, <2>4
    <3> QED
      BY <3>1, <3>2, <3>3 DEF EntriesRight, Members, NoGaps
  <2> QED
    BY <2>1, <2>5 DEF OrderRight, WritersRight, EntriesRight
<1> QED
  BY <1>7, <1>8

\* There is a document once a post was pushed.
LEMMA DocumentsStay ==
  ASSUME ActorsInv, TimesInv, ServedInv, ListsInv, ReadsInv, [SocialNext]_socialVars, NEW u \in Users,
         timeline[u] /= <<>>
  PROVE  timeline'[u] /= <<>>
<1>1. ASSUME NEW c \in Calls, PushPost(c) \/ RepeatPush(c) \/ PushErrs(c) PROVE timeline'[u] /= <<>>
  <2>1. PICK e : e = PostEntry(c)
    OBVIOUS
  <2>2. \/ timeline' = timeline
        \/ timeline' = [timeline EXCEPT ![compose[c].user] = <<e>> \o @]
    BY <1>1, <2>1, PushFacts
  <2>3. timeline[u] \in Seq(OwnEntries(u) \cup {e}) /\ DOMAIN timeline = Users
    <3>1. timeline[u] \in Seq(OwnEntries(u))
      BY DEF ListsInv
    <3>2. Len(timeline[u]) \in Nat /\ timeline[u] \in [1..Len(timeline[u]) -> OwnEntries(u) \cup {e}]
      BY <3>1, LenProperties
    <3> QED
      BY <3>2, SeqDef DEF ListsInv
  <2>4. <<e>> \o timeline[u] /= <<>>
    BY <2>3, PushedListed
  <2> QED
    BY <2>2, <2>3, <2>4
<1> QED
  BY <1>1, ListSteps DEF timelineStores, RestartHomeRedis, RestartTimelineRedis, CachePost, FillTimeline, Deliver

LEMMA RepeatStays ==
  ASSUME ActorsInv, TimesInv, EdgeInv, ServedInv, ListsInv, ReadsInv, RepeatInv, [SocialNext]_socialVars
  PROVE  RepeatInv'
<1> SUFFICES ASSUME NEW c \in Calls, compose'[c].at = "user timeline", "again" \in timelineCall'[c].todo
             PROVE  compose'[c].user \in blurred' \/ timeline'[compose'[c].user] /= <<>>
  BY DEF RepeatInv
<1> DEFINE Found == compose'[c].user \in blurred' \/ timeline'[compose'[c].user] /= <<>>
<1>1. ASSUME compose'[c] = compose[c], "again" \in timelineCall[c].todo PROVE Found
  <2>1. compose[c].user \in Users
    BY DEF ActorsInv, ComposeTypeOK
  <2>2. compose[c].user \in blurred \/ timeline[compose[c].user] /= <<>>
    BY <1>1 DEF RepeatInv
  <2> QED
    BY <1>1, <2>1, <2>2, BlurredGrows, DocumentsStay
<1>2. ASSUME compose'[c] = compose[c], timelineCall'[c] = timelineCall[c] PROVE Found
  BY <1>1, <1>2
<1>3. ASSUME NEW d \in Calls, Arrives(d) \/ Works(d), d /= c PROVE Found
  <2>1. compose'[c] = compose[c] /\ timelineCall'[c] = timelineCall[c]
    BY <1>3, OwnRecords DEF ReadsInv
  <2> QED
    BY <1>2, <2>1
<1>4. ~Compose(c)
  <2> SUFFICES ASSUME Compose(c) PROVE FALSE
    OBVIOUS
  <2>1. compose'[c].at = "parts"
    BY DEF Compose, StartCompose, ActorsInv, ComposeTypeOK
  <2> QED
    BY <2>1
<1>5. ~Read(c)
  BY CallKinds DEF Read, Starts, composeVars
<1>6. ~ComposeWorks(c)
  <2> SUFFICES ASSUME ComposeWorks(c) PROVE FALSE
    OBVIOUS
  <2>1. /\ c \in DOMAIN compose /\ DOMAIN timelineCall = Calls
        /\ compose[c] \in [at : {"idle", "parts", "post", "stored", "user timeline",
                                 "followers", "home timelines", "failed"},
             user : Users, time : 0..now, names : SUBSET STRING, mentions : SUBSET Users]
    BY DEF ActorsInv, ComposeTypeOK, ReadsInv
  <2>2. UploadUserTimeline(c)
    <3>1. ASSUME HaveParts(c) \/ MissMentions(c) PROVE compose'[c].at = "post"
      BY <2>1, <3>1 DEF HaveParts, MissMentions
    <3>2. ASSUME PartFails(c) PROVE compose'[c].at = "failed"
      BY <2>1, <3>2 DEF PartFails, Goto
    <3>3. ASSUME UploadPost(c) PROVE compose'[c].at = "stored"
      BY <2>1, <3>3 DEF UploadPost, Goto
    <3>4. ASSUME UploadHomeTimeline(c) PROVE compose'[c].at = "followers"
      BY <2>1, <3>4 DEF UploadHomeTimeline, Goto
    <3>5. ASSUME WriteHomeTimeline(c) PROVE compose'[c].at = "home timelines"
      BY <2>1, <3>5 DEF WriteHomeTimeline, Goto
    <3> QED
      BY <3>1, <3>2, <3>3, <3>4, <3>5 DEF ComposeWorks, ComposeStep
  <2>3. timelineCall'[c].todo = {"push", "cache"}
    BY <2>1, <2>2 DEF UploadUserTimeline, WriteUserTimeline, NoTimelineCall
  <2>4. "again" \notin {"push", "cache"}
    OBVIOUS
  <2> QED
    BY <2>3, <2>4
<1>7. ASSUME TimelinesWork(c) \/ PostSteps(c) \/ TimelineStops(c) \/ PushFails(c) PROVE Found
  <2>1. compose'[c] = compose[c] /\ compose[c].at = "user timeline"
    BY <1>7, WorkLeaves DEF composeVars
  <2>2. /\ timelineCall[c].op = "write" /\ "posts" \notin timelineCall[c].todo
        /\ timelineCall[c] \in WriteCalls(c) /\ timelineCall[c].user = compose[c].user
        /\ DOMAIN timelineCall = Calls
    BY <2>1, AtFacts, WritesAreOwn DEF ReadsInv
  <2>3. CASE TimelinesWork(c)
    <3>1. PushPost(c) \/ RepeatPush(c) \/ CachePost(c)
      BY <2>2, <2>3 DEF TimelinesWork, TimelineWrites, TimelineReads, Deliver, RangeTimeline,
                        FindTimeline, FillTimeline, RangeHome, At
    <3>2. CASE PushPost(c) \/ RepeatPush(c)
      <4>1. \/ timelineCall' = [timelineCall EXCEPT ![c].todo = @ \ {"push"}]
            \/ timelineCall' = [timelineCall EXCEPT ![c].todo = @ \ {"push", "again"}]
        BY <3>2 DEF PushPost, RepeatPush, Did, At
      <4>2. \/ timelineCall'[c].todo = timelineCall[c].todo \ {"push"}
            \/ timelineCall'[c].todo = timelineCall[c].todo \ {"push", "again"}
        BY <2>2, <4>1 DEF WriteCalls
      <4>3. "again" \in timelineCall[c].todo
        BY <4>2
      <4> QED
        BY <1>1, <2>1, <4>3
    <3>3. CASE CachePost(c)
      <4>1. timelineCall'[c].todo \subseteq timelineCall[c].todo
        BY <2>2, <3>3 DEF CachePost, Did, WriteCalls
      <4> QED
        BY <1>1, <2>1, <4>1
    <3> QED
      BY <3>1, <3>2, <3>3
  <2>4. CASE PostSteps(c)
    <3>1. timelineCall' = timelineCall
      BY <2>2, <2>4 DEF PostSteps, AsksForPosts, ReadsPosts, GetsPosts, HavePosts, ReadStops, timelineVars
    <3> QED
      BY <1>2, <2>1, <3>1
  <2>5. CASE TimelineStops(c)
    <3>1. timelineCall' = [timelineCall EXCEPT ![c].todo = @ \cap {"posts"}, ![c].ok = FALSE]
      BY <2>2, <2>5 DEF TimelineStops, TimelineFails, FindTimelineErrs, At
    <3>2. timelineCall'[c].todo = timelineCall[c].todo \cap {"posts"}
      BY <2>2, <3>1 DEF WriteCalls
    <3> QED
      BY <3>2
  <2>6. CASE PushFails(c)
    BY <2>1, <2>2, <2>6 DEF PushFails, Owner
  <2> QED
    BY <1>7, <2>3, <2>4, <2>5, <2>6
<1>8. ASSUME NEW d \in Calls, \/ Compose(d) \/ Read(d) \/ ComposeWorks(d) \/ TimelinesWork(d)
                              \/ PostSteps(d) \/ TimelineStops(d) \/ PushFails(d)
      PROVE  Found
  <2>1. Arrives(d) \/ Works(d)
    BY <1>8 DEF Arrives, Works, PostSteps
  <2> QED
    BY <1>3, <1>4, <1>5, <1>6, <1>7, <1>8, <2>1
<1>9. CASE UNCHANGED <<compose, timelineCall>>
  BY <1>2, <1>9
<1> QED
  BY <1>8, <1>9, TimelineSteps DEF Quiet, composeVars, timelineVars, RestartTimelineRedis

LEMMA OrderStays ==
  ASSUME ActorsInv, TimesInv, EdgeInv, ServedInv, ListsInv, ReadsInv, RepeatInv, OrderInv, [SocialNext]_socialVars
  PROVE  OrderInv'
<1> SUFFICES ASSUME NEW u \in Users, u \notin blurred' PROVE OrderRight(u)'
  BY DEF OrderInv
<1>1. OrderRight(u)
  BY BlurredGrows DEF OrderInv
<1>2. ASSUME UNCHANGED <<timeline, cachedTimeline, timelineCall, compose>> PROVE OrderRight(u)'
  <2>1. \A c \in Calls : SameWork(c, u) /\ SameFill(c, u)
    BY <1>2, WorkSame DEF SameFill
  <2> QED
    BY <1>1, <1>2, <2>1, OrderKept
<1>3. CASE Quiet \/ (UNCHANGED <<timeline, cachedTimeline, timelineCall, composeVars>>)
  BY <1>2, <1>3 DEF Quiet, timelineVars, timelineStores, composeVars
<1>4. CASE /\ UNCHANGED <<composeVars, postVars, running>> /\ RestartTimelineRedis
           /\ blurred' = blurred \cup {v \in Users : ComposesOf(v) \cup ReadsOf(v) /= {}}
  BY <1>1, <1>4, RestartOrder
<1>5. ASSUME NEW c \in Calls, TimelinesWork(c) PROVE OrderRight(u)'
  <2>1. Works(c) /\ compose' = compose /\ compose'[c] = compose[c] /\ u \notin blurred
    BY <1>5, BlurredGrows DEF Works, TimelinesWork, composeVars
  <2> QED
    BY <1>1, <1>5, <2>1, PushOrder, CacheOrder, FillOrder, FindOrder, RangeOrder
    DEF TimelinesWork, TimelineWrites, TimelineReads
<1>6. ASSUME NEW c \in Calls, Compose(c) \/ Read(c) \/ ComposeWorks(c) \/ PostSteps(c) \/ TimelineStops(c) \/ PushFails(c)
      PROVE  OrderRight(u)'
  BY <1>1, <1>6, ComposeOrder, ReadOrder, ComposeStepOrder, PostStepOrder, StopOrder, PushFailsOrder
<1> QED
  BY <1>3, <1>4, <1>5, <1>6, TimelineSteps

-----------------------------------------------------------------------------
(* Reads that overlap no compose of their user. *)

LEMMA ListFacts ==
  ASSUME ActorsInv, TimesInv, ListsInv, NEW u \in Users
  PROVE  /\ timeline[u] \in Seq(PostedEntries) /\ (OrderRight(u) => Once(timeline[u]))
         /\ PostsOf(timeline[u]) \in Seq(posts) /\ Len(PostsOf(timeline[u])) = Len(timeline[u])
<1>1. timeline[u] \in Seq(OwnEntries(u)) /\ OwnEntries(u) \subseteq PostedEntries
  BY EntryFacts DEF ListsInv
<1>2. Len(timeline[u]) \in Nat /\ timeline[u] \in [1..Len(timeline[u]) -> PostedEntries]
  BY <1>1, LenProperties
<1>3. timeline[u] \in Seq(PostedEntries)
  BY <1>2, SeqDef
<1>4. OrderRight(u) => Once(timeline[u])
  BY <1>1, EntriesOnce DEF OrderRight
<1> QED
  BY <1>3, <1>4, PostsListed

\* Only a compose that begins makes a writer.
LEMMA WritersShrink ==
  ASSUME ActorsInv, TimesInv, EdgeInv, ServedInv, ListsInv, ReadsInv, [SocialNext]_socialVars, NEW u,
         WritersOf(u) = {}, \A c \in Calls : Compose(c) => Request(c).user /= u
  PROVE  WritersOf(u)' = {}
<1> SUFFICES ASSUME NEW d \in Calls, compose'[d].user = u, Writing(d)' PROVE FALSE
  BY DEF WritersOf
<1>0. ~(compose[d].user = u /\ Writing(d))
  BY DEF WritersOf
<1>1. ASSUME UNCHANGED <<compose, timelineCall>> PROVE FALSE
  BY <1>0, <1>1 DEF Writing
<1>2. ASSUME NEW c \in Calls, Arrives(c) \/ Works(c), c /= d PROVE FALSE
  BY <1>0, <1>2, OthersSame DEF SameWork
<1>3. ASSUME Compose(d) PROVE FALSE
  <2>1. compose'[d].user = Request(d).user
    BY <1>3 DEF Compose, StartCompose, ActorsInv, ComposeTypeOK
  <2> QED
    BY <1>3, <2>1
<1>4. ASSUME ComposeWorks(d) PROVE FALSE
  BY <1>0, <1>4, ComposeSame DEF SameWork
<1>5. ASSUME Read(d) PROVE FALSE
  <2>1. compose'[d].at = "idle"
    BY <1>5, CallKinds DEF Read, Starts, composeVars
  <2> QED
    BY <2>1 DEF Writing
<1>6. ASSUME TimelinesWork(d) \/ PostSteps(d) \/ TimelineStops(d) \/ PushFails(d) PROVE FALSE
  <2>1. compose'[d] = compose[d]
    BY <1>6, WorkLeaves DEF composeVars
  <2>2. compose[d].at = "user timeline" /\ compose[d].user = u /\ timelineCall[d].todo = {}
    BY <1>0, <2>1 DEF Writing
  <2>3. timelineCall[d].op = "write" /\ postRead[d].at = "idle"
    BY <2>2, AtFacts, CallKinds
  <2>4. ~TimelinesWork(d)
    BY <2>2, <2>3 DEF TimelinesWork, TimelineWrites, TimelineReads, PushPost, RepeatPush, CachePost, Deliver, RangeTimeline,
         FindTimeline, FillTimeline, RangeHome, At
  <2>5. ~TimelineStops(d) /\ ~PushFails(d) /\ ~PostSteps(d)
    BY <2>2, <2>3 DEF TimelineStops, PushFails, TimelineFails, FindTimelineErrs, PushErrs, At, PostSteps, AsksForPosts,
                ReadsPosts, MultiGet, FindPosts, GetsPosts, HavePosts, ReadStops, ReadPostsFails
  <2> QED
    BY <1>6, <2>4, <2>5
<1>7. ASSUME NEW c \in Calls, \/ Compose(c) \/ Read(c) \/ ComposeWorks(c) \/ TimelinesWork(c)
                              \/ PostSteps(c) \/ TimelineStops(c) \/ PushFails(c)
      PROVE  FALSE
  <2>1. Arrives(c) \/ Works(c)
    BY <1>7 DEF Arrives, Works, PostSteps
  <2> QED
    BY <1>2, <1>3, <1>4, <1>5, <1>6, <1>7, <2>1
<1> QED
  BY <1>1, <1>7, TimelineSteps DEF Quiet, composeVars, timelineVars, RestartTimelineRedis

\* A timeline without writers stays as it is.
LEMMA ListKept ==
  ASSUME ActorsInv, TimesInv, ServedInv, ListsInv, ReadsInv, [SocialNext]_socialVars, NEW u \in Users,
         WritersOf(u) = {}
  PROVE  timeline'[u] = timeline[u]
<1>1. ASSUME NEW c \in Calls, PushPost(c) \/ RepeatPush(c) \/ PushErrs(c) PROVE timeline'[u] = timeline[u]
  <2>1. /\ compose[c].at = "user timeline" /\ "push" \in timelineCall[c].todo
        /\ \/ timeline' = timeline
           \/ timeline' = [timeline EXCEPT ![compose[c].user] = <<PostEntry(c)>> \o @]
    BY <1>1, PushFacts
  <2>2. Writing(c)
    BY <2>1 DEF Writing
  <2>3. compose[c].user /= u
    BY <2>2 DEF WritersOf
  <2> QED
    BY <2>1, <2>3 DEF ListsInv
<1> QED
  BY <1>1, ListSteps DEF timelineStores, RestartHomeRedis, RestartTimelineRedis, CachePost, FillTimeline, Deliver

\* A read that starts with nothing to do has its page.
LEMMA StartMade ==
  ASSUME ActorsInv, TimesInv, ListsInv, ReadsInv, NEW c \in Calls, NEW op, NEW u \in Users,
         NEW start \in Int, NEW stop \in Int, ReadTimeline(c, op, u, start, stop)
  PROVE  /\ timelineCall'[c].op = op /\ timelineCall'[c].user = u
         /\ PageMade(timelineCall'[c], timeline[u])
<1> DEFINE todo == IF stop <= start \/ start < 0 THEN {} ELSE {"range"}
           call == [op |-> op, user |-> u, start |-> start, stop |-> stop,
                   todo |-> todo, entry |-> NoTimelineCall.entry,
                   page |-> <<>>, slice |-> {}, to |-> {}, ok |-> TRUE]
           all == PostsOf(timeline[u])
<1>1. timelineCall'[c] = call
  BY DEF ReadTimeline, NoTimelineCall, ReadsInv
<1>2. todo /= {"find"} /\ (todo \notin {{"range"}, {"find"}} => stop <= start \/ start < 0)
  OBVIOUS
<1>3. ASSUME 0 <= start, stop <= start PROVE <<>> = Page(all, start, stop)
  <2>1. all \in Seq(posts) /\ start \in Nat
    BY <1>3, ListFacts
  <2> HIDE DEF all
  <2>2. Len(Page(all, start, stop)) = PageLen(start, stop, Len(all)) /\ Len(all) \in Nat
    BY <2>1, PageCounted, LenProperties
  <2>3. Len(Page(all, start, stop)) = 0
    BY <1>3, <2>2 DEF PageLen
  <2>4. Page(all, start, stop) \in Seq(posts)
    BY <2>1, PageListed
  <2> QED
    BY <2>3, <2>4, EmptySeq
<1> HIDE DEF todo, all
<1>4. /\ call.op = op /\ call.user = u /\ call.start = start /\ call.stop = stop /\ call.todo = todo
      /\ call.page = <<>>
  OBVIOUS
<1> HIDE DEF call
<1>5. PageMade(call, timeline[u])
  <2>1. call.todo /= {"find"}
    BY <1>2, <1>4
  <2>2. call.todo \notin {{"range"}, {"find"}} /\ 0 <= call.start => call.page = Page(all, call.start, call.stop)
    <3>1. ASSUME todo \notin {{"range"}, {"find"}}, 0 <= start PROVE stop <= start
      BY <1>2, <3>1
    <3> QED
      BY <1>3, <1>4, <3>1
  <2> QED
    BY <2>1, <2>2 DEF PageMade, all
<1> QED
  BY <1>1, <1>4, <1>5

\* The steps of a read of a user timeline that has no writers keep its page
\* right.
LEMMA RangeMade ==
  ASSUME ActorsInv, TimesInv, ServedInv, ListsInv, ReadsInv, NEW c \in Calls, RangeTimeline(c), NEW u \in Users,
         timelineCall[c].user = u, WritersOf(u) = {}, OrderRight(u)
  PROVE  PageMade(timelineCall'[c], timeline[u])
<1> DEFINE call == timelineCall[c]
           next == timelineCall'[c]
           list == timeline[u]
           start == call.start
           stop == call.stop
           page == PostsOf(Page(Newest(cachedTimeline[u]), start, stop))
           todo == IF start + Len(page) < stop THEN {"find"} ELSE {"posts"}
<1>1. /\ call.op = "read user" /\ "range" \in call.todo
      /\ timelineCall' = [timelineCall EXCEPT ![c].page = page, ![c].todo = todo]
  BY DEF RangeTimeline, At
<1>2. ReadRight(c) /\ call \in ReadCalls /\ DOMAIN timelineCall = Calls
  BY <1>1, AtFacts DEF ReadRight, ReadsInv
<1>3. call.todo = {"range"}
  BY <1>1, <1>2 DEF ReadCalls, ReadTodos
<1>4. start \in Nat /\ stop \in Int
  <2>1. 0 <= call.start
    BY <1>2, <1>3 DEF ReadRight
  <2>2. call.start \in Int /\ call.stop \in Int
    BY <1>2 DEF ReadCalls
  <2> HIDE DEF call
  <2> QED
    BY <2>1, <2>2 DEF start, stop
<1>5. next = [call EXCEPT !.page = page, !.todo = todo]
  BY <1>1, <1>2
<1>6. /\ list \in Seq(PostedEntries) /\ Once(list) /\ InTimeOrder(list) /\ cachedTimeline[u] \in SUBSET Members(list)
      /\ \A i, j \in DOMAIN list : i < j /\ list[j] \in cachedTimeline[u] => list[i] \in cachedTimeline[u]
  <2>1. OnTheWay(u) = {}
    BY DEF OnTheWay
  <2> QED
    BY <2>1, ListFacts DEF OrderRight, NoGaps
<1> HIDE DEF start, stop, list
<1>7. /\ \A i \in DOMAIN page : start + i \in DOMAIN list /\ page[i] = list[start + i].post
      /\ stop <= start + Len(page) => page = Page(PostsOf(list), start, stop)
  BY <1>4, <1>6, PageBegun
<1>8. Len(page) \in Nat
  <2>1. cachedTimeline[u] \subseteq PostedEntries
    BY EntryFacts DEF ListsInv
  <2>2. page \in Seq(Calls)
    BY <1>4, <2>1, PagePosted
  <2> QED
    BY <2>2, LenProperties
<1>9. todo = {"find"} => start + Len(page) < stop
  OBVIOUS
<1>10. todo \notin {{"range"}, {"find"}} => stop <= start + Len(page)
  BY <1>4, <1>8
<1> HIDE DEF page, todo
<1>11. next.page = page /\ next.todo = todo /\ next.start = start /\ next.stop = stop
  BY <1>2, <1>5 DEF ReadCalls, start, stop
<1> QED
  BY <1>7, <1>9, <1>10, <1>11 DEF PageMade, list

LEMMA FindMade ==
  ASSUME ActorsInv, TimesInv, ServedInv, ListsInv, ReadsInv, NEW c \in Calls, FindTimeline(c), NEW u \in Users,
         timelineCall[c].user = u, OrderRight(u), PageRight(c)
  PROVE  PageMade(timelineCall'[c], timeline[u])
<1> DEFINE call == timelineCall[c]
           next == timelineCall'[c]
           list == timeline[u]
           slice == Page(list, 0, call.stop)
           page == Complete(call, slice)
           todo == {"posts"} \cup (IF slice = <<>> THEN {} ELSE {"fill"})
<1>1. /\ call.op = "read user" /\ "find" \in call.todo
      /\ timelineCall' = [timelineCall EXCEPT ![c].page = page, ![c].slice = Members(slice), ![c].todo = todo]
  BY DEF FindTimeline, At
<1>2. ReadRight(c) /\ call \in ReadCalls /\ DOMAIN timelineCall = Calls
  BY <1>1, AtFacts DEF ReadRight, ReadsInv
<1>3. call.todo = {"find"}
  BY <1>1, <1>2 DEF ReadCalls, ReadTodos
<1>4. call.start \in Nat /\ call.stop \in Int /\ call.page \in Seq(Calls)
  <2>1. 0 <= call.start
    BY <1>2, <1>3 DEF ReadRight
  <2>2. call.start \in Int /\ call.stop \in Int /\ call.page \in Seq(Calls)
    BY <1>2 DEF ReadCalls
  <2> HIDE DEF call
  <2> QED
    BY <2>1, <2>2
<1>5. next = [call EXCEPT !.page = page, !.slice = Members(slice), !.todo = todo]
  BY <1>1, <1>2
<1>6. /\ call.start + Len(call.page) < call.stop
      /\ \A i \in DOMAIN call.page : call.start + i \in DOMAIN list /\ call.page[i] = list[call.start + i].post
  BY <1>3 DEF PageRight, PageMade
<1>7. list \in Seq(PostedEntries) /\ Once(list)
  BY ListFacts
<1>8. page = Page(PostsOf(list), call.start, call.stop)
  <2> HIDE DEF list, call
  <2> QED
    BY <1>4, <1>6, <1>7, PageCompleted
<1>9. "posts" \in todo /\ "posts" \notin {"find"}
  OBVIOUS
<1> HIDE DEF page, todo, slice
<1>10. next.page = page /\ next.todo = todo /\ next.start = call.start /\ next.stop = call.stop
  BY <1>2, <1>5 DEF ReadCalls
<1>11. todo /= {"find"}
  BY <1>9
<1> QED
  BY <1>8, <1>10, <1>11 DEF PageMade, list

\* A step that keeps the page of a read past the page.
LEMMA PageStays ==
  ASSUME NEW call, NEW next, NEW list, PageMade(call, list),
         call.todo \notin {{"range"}, {"find"}}, next.todo /= {"find"}, next.ok => call.ok,
         next.page = call.page, next.start = call.start, next.stop = call.stop
  PROVE  PageMade(next, list)
BY DEF PageMade

LEMMA OwnPageRight ==
  ASSUME ActorsInv, TimesInv, EdgeInv, ServedInv, ListsInv, ReadsInv, [SocialNext]_socialVars, NEW c \in Calls,
         TimelinesWork(c) \/ PostSteps(c) \/ TimelineStops(c) \/ PushFails(c), NEW u \in Users,
         timelineCall[c].op = "read user", timelineCall[c].user = u
  PROVE  /\ timelineCall'[c].op = "read user" /\ timelineCall'[c].user = u
         /\ WritersOf(u) = {} /\ OrderRight(u) /\ PageRight(c) /\ c \notin misled' =>
              PageMade(timelineCall'[c], timeline[u])
<1> DEFINE call == timelineCall[c]
           next == timelineCall'[c]
<1>1. ReadRight(c) /\ call \in ReadCalls /\ DOMAIN timelineCall = Calls
  BY AtFacts DEF ReadRight, ReadsInv
<1>2. PageRight(c) => PageMade(call, timeline[u])
  BY DEF PageRight
<1>3. CASE next = call
  BY <1>2, <1>3
<1>4. ASSUME NEW todo, NEW ok, next = [call EXCEPT !.todo = todo, !.ok = ok], ok => call.ok,
             todo /= {"find"}, call.todo \notin {{"range"}, {"find"}} \/ ~ok
      PROVE  /\ next.op = "read user" /\ next.user = u
             /\ PageRight(c) => PageMade(next, timeline[u])
  <2>1. /\ next.op = "read user" /\ next.user = u /\ next.todo = todo /\ next.ok = ok
        /\ next.page = call.page /\ next.start = call.start /\ next.stop = call.stop
    BY <1>1, <1>4 DEF ReadCalls
  <2>2. CASE ~ok
    BY <1>4, <2>1, <2>2 DEF PageMade
  <2>3. CASE ok
    BY <1>2, <1>4, <2>1, <2>3, PageStays
  <2> QED
    BY <2>1, <2>2, <2>3
<1>5. CASE RangeTimeline(c)
  <2>1. PICK page, todo : timelineCall' = [timelineCall EXCEPT ![c].page = page, ![c].todo = todo]
    BY <1>5 DEF RangeTimeline
  <2>2. next.op = "read user" /\ next.user = u
    BY <1>1, <2>1 DEF ReadCalls
  <2> QED
    BY <1>5, <2>2, RangeMade
<1>6. CASE FindTimeline(c)
  <2>1. PICK page, slice, todo :
          timelineCall' = [timelineCall EXCEPT ![c].page = page, ![c].slice = slice, ![c].todo = todo]
    BY <1>6 DEF FindTimeline
  <2>2. next.op = "read user" /\ next.user = u
    BY <1>1, <2>1 DEF ReadCalls
  <2> QED
    BY <1>6, <2>2, FindMade
<1>7. CASE FillTimeline(c)
  <2>1. "fill" \in call.todo /\ next = [call EXCEPT !.todo = call.todo \ {"fill"}]
    BY <1>1, <1>7 DEF FillTimeline, At, Did
  <2>2. call.todo \in {{"fill"}, {"posts", "fill"}}
    <3>1. call.todo \in ReadTodos
      BY <1>1 DEF ReadCalls
    <3> QED
      BY <2>1, <3>1 DEF ReadTodos
  <2> DEFINE todo == call.todo \ {"fill"}
             ok == call.ok
  <2>3. todo /= {"find"} /\ call.todo \notin {{"range"}, {"find"}}
    BY <2>2
  <2>4. next = [call EXCEPT !.todo = todo, !.ok = ok]
    BY <1>1, <2>1 DEF ReadCalls
  <2>5. ok => call.ok
    OBVIOUS
  <2> HIDE DEF todo, ok
  <2> QED
    BY <1>4, <2>3, <2>4, <2>5
<1>8. CASE HavePosts(c)
  <2> DEFINE todo == call.todo \ {"posts"}
             ok == call.ok /\ postRead[c].at = "done"
  <2>1. "posts" \in call.todo /\ next = [call EXCEPT !.todo = todo, !.ok = ok]
    BY <1>1, <1>8 DEF HavePosts
  <2>2. call.todo \in {{"posts"}, {"posts", "fill"}}
    BY <1>1, <2>1 DEF ReadCalls, ReadTodos
  <2>3. todo /= {"find"} /\ call.todo \notin {{"range"}, {"find"}}
    BY <2>2
  <2>4. ok => call.ok
    OBVIOUS
  <2> HIDE DEF todo, ok
  <2> QED
    BY <1>4, <2>1, <2>3, <2>4
<1>9. CASE TimelineFails(c)
  <2> DEFINE todo == call.todo \cap {"posts"}
  <2>1. next = [call EXCEPT !.todo = todo, !.ok = FALSE]
    BY <1>1, <1>9 DEF TimelineFails
  <2>2. todo /= {"find"}
    OBVIOUS
  <2> HIDE DEF todo
  <2> QED
    BY <1>4, <2>1, <2>2
<1>10. CASE PostSteps(c) /\ ~HavePosts(c)
  <2>1. next = call
    BY <1>10 DEF PostSteps, AsksForPosts, ReadsPosts, GetsPosts, ReadStops, timelineVars
  <2> QED
    BY <1>3, <2>1
<1>11. CASE FindTimelineErrs(c)
  <2>1. c \in misled' /\ next = [call EXCEPT !.todo = {"posts"}]
    BY <1>1, <1>11 DEF FindTimelineErrs, CursorFails
  <2>2. next.op = "read user" /\ next.user = u
    BY <1>1, <2>1 DEF ReadCalls
  <2> QED
    BY <2>1, <2>2
<1>12. ~PushFails(c)
  BY DEF PushFails, PushErrs, At
<1> QED
  BY <1>5, <1>6, <1>7, <1>8, <1>9, <1>10, <1>11, <1>12
  DEF TimelinesWork, TimelineReads, TimelineWrites, TimelineStops, PushPost, RepeatPush, CachePost, Deliver,
      RangeHome, At

AloneRight(c) ==
  /\ compose[c].at = "idle" /\ timelineCall[c].op = "read user"
  /\ \A u \in Users : timelineCall[c].user = u =>
       WritersOf(u) = {} /\ (u \notin blurred /\ c \notin misled => PageRight(c))

\* Such a read stays undisturbed as long as no compose of its user begins.
LEMMA AloneKept ==
  ASSUME ActorsInv, TimesInv, EdgeInv, ServedInv, ListsInv, ReadsInv, OrderInv, [SocialNext]_socialVars,
         NEW d \in Calls, AloneRight(d),
         \A c \in Calls : Compose(c) => Request(c).user /= timelineCall[d].user
  PROVE  AloneRight(d)'
<1> PICK u \in Users : timelineCall[d].user = u
  <2>1. timelineCall[d] \in ReadCalls
    BY AtFacts DEF AloneRight, ReadRight
  <2> QED
    BY <2>1 DEF ReadCalls
<1>1. /\ compose[d].at = "idle" /\ timelineCall[d].op = "read user" /\ WritersOf(u) = {}
      /\ u \notin blurred /\ d \notin misled => PageRight(d) /\ OrderRight(u)
  BY DEF AloneRight, OrderInv
<1>2. /\ WritersOf(u)' = {} /\ timeline'[u] = timeline[u]
      /\ blurred \subseteq blurred' /\ misled \subseteq misled'
  <2>1. WritersOf(u)' = {} /\ timeline'[u] = timeline[u]
    BY <1>1, WritersShrink, ListKept
  <2>2. FaultsTypeOK
    BY DEF EdgeInv, GraphTypeOK
  <2> QED
    BY <2>1, <2>2, BlurredGrows, RestartsGrow
<1>3. d \in running
  BY <1>1, CallKinds
<1> DEFINE Kept == /\ compose'[d].at = "idle" /\ timelineCall'[d].op = "read user" /\ timelineCall'[d].user = u
                   /\ u \notin blurred /\ d \notin misled' => PageMade(timelineCall'[d], timeline[u])
<1>4. Kept
  <2>1. ASSUME compose'[d] = compose[d], timelineCall'[d] = timelineCall[d] PROVE Kept
    BY <1>1, <1>2, <2>1 DEF PageRight
  <2>2. ASSUME TimelinesWork(d) \/ PostSteps(d) \/ TimelineStops(d) \/ PushFails(d) PROVE Kept
    <3>1. compose'[d] = compose[d]
      BY <2>2, WorkLeaves DEF composeVars
    <3> QED
      BY <1>1, <1>2, <2>2, <3>1, OwnPageRight
  <2>3. ~Compose(d) /\ ~Read(d)
    BY <1>3 DEF Compose, Read, Starts
  <2>4. ~ComposeWorks(d)
    BY <1>1 DEF ComposeWorks, ComposeStep, HaveParts, MissMentions, PartFails, UploadPost, UploadUserTimeline, UploadHomeTimeline,
                WriteHomeTimeline
  <2>5. ASSUME NEW c \in Calls, \/ Compose(c) \/ Read(c) \/ ComposeWorks(c) \/ TimelinesWork(c)
                                \/ PostSteps(c) \/ TimelineStops(c) \/ PushFails(c)
        PROVE  Kept
    <3>1. Arrives(c) \/ Works(c)
      BY <2>5 DEF Arrives, Works, PostSteps
    <3>2. c /= d => compose'[d] = compose[d] /\ timelineCall'[d] = timelineCall[d]
      BY <3>1, OwnRecords DEF ReadsInv
    <3> QED
      BY <2>1, <2>2, <2>3, <2>4, <2>5, <3>2
  <2> QED
    BY <2>1, <2>5, TimelineSteps DEF Quiet, composeVars, timelineVars, RestartTimelineRedis
<1>5. u \notin blurred' /\ d \notin misled' => PageRight(d)'
  BY <1>2, <1>4 DEF PageRight
<1> QED
  BY <1>2, <1>4, <1>5 DEF AloneRight

LEMMA AloneStays ==
  ASSUME ActorsInv, TimesInv, EdgeInv, ServedInv, ListsInv, ReadsInv, OrderInv, AloneInv, [SocialNext]_socialVars
  PROVE  AloneInv'
<1>1. alone \subseteq Calls /\ \A d \in alone : AloneRight(d)
  BY DEF AloneInv, AloneRight
<1>2. ASSUME alone' \subseteq Calls, \A d \in alone' : AloneRight(d)' PROVE AloneInv'
  BY <1>2 DEF AloneInv, AloneRight
<1>3. ASSUME NEW d \in alone, \A c \in Calls : Compose(c) => Request(c).user /= timelineCall[d].user
      PROVE  AloneRight(d)'
  BY <1>1, <1>3, AloneKept
<1>4. ASSUME alone' = alone, \A c \in Calls : ~Compose(c) PROVE AloneInv'
  BY <1>1, <1>2, <1>3, <1>4
<1>5. ASSUME NEW c \in Calls, Compose(c) PROVE AloneInv'
  <2>1. alone' = {d \in alone : timelineCall[d].user /= Request(c).user}
    BY <1>5 DEF Compose, Owner
  <2>2. ASSUME NEW b \in Calls, Compose(b) PROVE b = c
    <3>1. b \notin running /\ b \in running' /\ running' = running \cup {c}
      BY <1>5, <2>2 DEF Compose, Starts
    <3> QED
      BY <3>1
  <2> QED
    BY <1>1, <1>2, <1>3, <2>1, <2>2
<1>6. ASSUME NEW c \in Calls, Read(c) PROVE AloneInv'
  <2>1. /\ c \notin running /\ running' = running \cup {c} /\ c \in DOMAIN scenario.requests /\ UNCHANGED <<blurred, composeVars>>
        /\ alone' = alone \cup (IF Request(c).op = "read user" /\ ComposesOf(Request(c).user) = {} THEN {c} ELSE {})
    BY <1>6 DEF Read, Starts
  <2>2. \A b \in Calls : ~Compose(b)
    <3> SUFFICES ASSUME NEW b \in Calls, Compose(b) PROVE FALSE
      OBVIOUS
    <3>1. now' = now + 1 /\ now' = now /\ now \in Nat
      BY <2>1 DEF Compose, StartCompose, composeVars, ActorsInv, ComposeTypeOK
    <3> QED
      BY <3>1
  <2>3. c \notin alone
    <3>1. timelineCall[c].op = "none"
      BY <2>1, CallKinds
    <3> QED
      BY <1>1, <3>1 DEF AloneRight
  <2>4. ASSUME Request(c).op = "read user", ComposesOf(Request(c).user) = {} PROVE AloneRight(c)'
    <3>0. ReadTimeline(c, "read user", Request(c).user, Request(c).start, Request(c).stop)
      BY <1>6, <2>4 DEF Read, Starts
    <3>1. Request(c).user \in Users /\ Request(c).start \in Int /\ Request(c).stop \in Int
      BY <2>1, <2>4, RequestFacts, ScenariosAssumption DEF Request, ActorsInv
    <3>2. PICK u \in Users : u = Request(c).user
      BY <3>1
    <3>3. WritersOf(u) = {}
      BY <2>4, <3>2, WritersCompose DEF WritersOf
    <3>4. WritersOf(u)' = {} /\ timeline'[u] = timeline[u]
      BY <2>2, <3>3, WritersShrink, ListKept
    <3>5. /\ timelineCall'[c].op = "read user" /\ timelineCall'[c].user = u
          /\ PageMade(timelineCall'[c], timeline[u])
      BY <3>0, <3>1, <3>2, StartMade
    <3>6. compose'[c].at = "idle"
      BY <2>1, CallKinds DEF composeVars
    <3>7. PageRight(c)'
      BY <3>4, <3>5 DEF PageRight
    <3> QED
      BY <3>4, <3>5, <3>6, <3>7 DEF AloneRight
  <2> QED
    BY <1>1, <1>2, <1>3, <2>1, <2>2, <2>4
<1>7. ASSUME NEW c \in Calls, Compose(c) \/ Read(c) PROVE AloneInv'
  BY <1>5, <1>6, <1>7
<1>8. ASSUME \A c \in Calls : ~Compose(c) /\ ~Read(c) PROVE AloneInv'
  <2>1. ASSUME NEW c \in Calls, ComposeWorks(c) \/ TimelinesWork(c) \/ PostSteps(c) \/ TimelineStops(c) \/ PushFails(c)
        PROVE  alone' = alone
    BY <2>1, WorkLeaves DEF ComposeWorks, social
  <2>2. alone' = alone
    BY <1>8, <2>1, TimelineSteps DEF Quiet
  <2> QED
    BY <1>4, <1>8, <2>2
<1> QED
  BY <1>7, <1>8

LEMMA PagesStart == SocialInit => OrderInv /\ RepeatInv /\ AloneInv
<1> SUFFICES ASSUME SocialInit PROVE OrderInv /\ RepeatInv /\ AloneInv
  OBVIOUS
<1>1. /\ \A c \in Calls : compose[c].at = "idle" /\ timelineCall[c] = NoTimelineCall
      /\ \A u \in Users : timeline[u] = <<>> /\ cachedTimeline[u] = {}
      /\ alone = {} /\ NoTimelineCall.todo = {}
  BY DEF SocialInit, ComposeInit, NotComposing, TimelinesInit, NoTimelineCall
<1>2. ASSUME NEW u \in Users PROVE OrderRight(u)
  <2>1. WritersOf(u) = {} /\ OnTheWay(u) = {}
    BY <1>1 DEF WritersOf, Writing, OnTheWay
  <2>2. \A c \in Calls : ~Fills(c, u)
    BY <1>1 DEF Fills
  <2>3. InTimeOrder(<<>>) /\ NoGaps(<<>>, {}, {})
    BY NothingListed DEF InTimeOrder, NoGaps
  <2> QED
    BY <1>1, <2>1, <2>2, <2>3 DEF OrderRight
<1> QED
  BY <1>1, <1>2 DEF OrderInv, RepeatInv, AloneInv

PagesInv == TimelinesInv /\ OrderInv /\ RepeatInv /\ AloneInv

LEMMA PagesAlways == SocialSpec => []PagesInv
<1>1. ASSUME TimelinesInv, OrderInv, RepeatInv, AloneInv, [SocialNext]_socialVars
      PROVE  OrderInv' /\ RepeatInv' /\ AloneInv'
  BY <1>1, OrderStays, RepeatStays, AloneStays DEF TimelinesInv, CoreInv
<1> QED
  BY <1>1, PagesStart, TimelinesAlways, PTL DEF SocialSpec, PagesInv

\* A page of a user timeline is that part of the document, whichever of Redis
\* and MongoDB it came from, for every read that overlapped no compose of its
\* user and noticed every error of its own, when no write of that user has
\* failed half way or left its entry twice or not at all in the document, and
\* Redis has not restarted under one: Redis then has the newest entries
\* without gaps.
THEOREM PagesAreExact == SocialSpec => []PageExact
<1>1. PagesInv => PageExact
  <2> SUFFICES ASSUME PagesInv, NEW c \in alone, c \notin misled, Over(c), timelineCall[c].ok, timelineCall[c].user \notin blurred,
                      0 <= timelineCall[c].start
               PROVE  timelineCall[c].page = Page(PostsOf(timeline[timelineCall[c].user]),
                                                  timelineCall[c].start, timelineCall[c].stop)
    BY DEF PageExact, Owner
  <2>1. c \in Calls /\ timelineCall[c].op = "read user" /\ ActorsInv /\ ServedInv /\ ReadsInv
    BY DEF PagesInv, AloneInv, TimelinesInv, CoreInv
  <2>2. ReadRight(c)
    BY <2>1, AtFacts
  <2>3. timelineCall[c].user \in Users
    BY <2>2 DEF ReadRight, ReadCalls
  <2>4. PageRight(c)
    BY <2>3 DEF PagesInv, AloneInv
  <2>5. timelineCall[c].todo = {}
    BY DEF Over, Reading
  <2> QED
    BY <2>4, <2>5 DEF PageRight, PageMade
<1> QED
  BY <1>1, PagesAlways, PTL
=============================================================================
