------------------------------ MODULE Timelines ------------------------------
(***************************************************************************)
(* The two timeline services of the social network.                        *)
(*                                                                         *)
(* A user timeline (socialNetwork/src/UserTimelineService) holds the posts *)
(* of one user: MongoDB keeps all of them, the newest first, and Redis a   *)
(* sorted set of some.  A read takes its page from Redis, completes it     *)
(* from MongoDB and gives Redis what it found there.                       *)
(* A home timeline (src/HomeTimelineService) holds what a user is shown:   *)
(* the posts of those the user follows and those that mention the user.    *)
(* It is kept in Redis only.                                               *)
(*                                                                         *)
(* An entry is a post and the time it was composed at; no two posts of a   *)
(* behaviour are composed in the same millisecond.                         *)
(***************************************************************************)
EXTENDS PostStorage

VARIABLES
  timeline,         \* timeline[u]: the list in the document of u
  cachedTimeline,   \* cachedTimeline[u]: the sorted set of u
  home,             \* home[u]: the home timeline of u
  timelineCall      \* what a call does, has still to do and has found

timelineStores == <<timeline, cachedTimeline, home>>
timelineVars == <<timelineStores, timelineCall>>

NoTimelineCall == [op |-> "none", user |-> CHOOSE u \in Users : TRUE, start |-> 0, stop |-> 0,
                   todo |-> {}, entry |-> [post |-> CHOOSE c \in Calls : TRUE, at |-> 0],
                   page |-> <<>>, slice |-> {}, to |-> {}, ok |-> TRUE]

TimelinesInit ==
  /\ timeline = [u \in Users |-> <<>>]
  /\ cachedTimeline = [u \in Users |-> {}]
  /\ home = [u \in Users |-> {}]
  /\ timelineCall = [c \in Calls |-> NoTimelineCall]

At(c, op, step) == timelineCall[c].op = op /\ step \in timelineCall[c].todo
Owner(c) == timelineCall[c].user
Did(c, step) == timelineCall' = [timelineCall EXCEPT ![c].todo = @ \ {step}]

\* A sorted set with the newest entry first, as ZREVRANGE reads it from start
\* to stop-1 and the projection $slice: [0, stop] the document.
InTimeOrder(list) == \A i, j \in DOMAIN list : i < j => list[i].at > list[j].at
Newest(entries) == CHOOSE list \in [1..Cardinality(entries) -> entries] : InTimeOrder(list)
PostsOf(list) == [i \in DOMAIN list |-> list[i].post]
Page(list, start, stop) == SubSeq(list, start + 1, IF stop < Len(list) THEN stop ELSE Len(list))

-----------------------------------------------------------------------------
(* WriteUserTimeline *)

WriteUserTimeline(c, u, entry) ==
  /\ timelineCall' = [timelineCall EXCEPT ![c] =
       [NoTimelineCall EXCEPT !.op = "write", !.user = u, !.entry = entry,
                              !.todo = {"push", "cache"}]]
  /\ UNCHANGED timelineStores

\* $push at position 0, with upsert and, when that is refused, without: of
\* two first posts of a user one inserts the document and the other finds it.
PushPost(c) ==
  /\ At(c, "write", "push") /\ "again" \notin timelineCall[c].todo
  /\ timeline' = [timeline EXCEPT ![Owner(c)] = <<timelineCall[c].entry>> \o @]
  /\ Did(c, "push")
  /\ UNCHANGED <<cachedTimeline, home>>

\* The command is sent again after any error, also after one of a command
\* that MongoDB has carried out.
PushErrs(c) ==
  /\ At(c, "write", "push") /\ "again" \notin timelineCall[c].todo
  /\ CommandFails(c)
  /\ timelineCall' = [timelineCall EXCEPT ![c].todo = @ \cup {"again"}]
  /\ \/ UNCHANGED timeline
     \/ timeline' = [timeline EXCEPT ![Owner(c)] = <<timelineCall[c].entry>> \o @]
  /\ UNCHANGED <<cachedTimeline, home>>

\* Without upsert a user that has no document gets none, which is no error:
\* there is a document once a post was pushed.
RepeatPush(c) ==
  /\ At(c, "write", "again")
  /\ timeline' = IF timeline[Owner(c)] = <<>> THEN timeline
       ELSE [timeline EXCEPT ![Owner(c)] = <<timelineCall[c].entry>> \o @]
  /\ timelineCall' = [timelineCall EXCEPT ![c].todo = @ \ {"push", "again"}]
  /\ UNCHANGED <<cachedTimeline, home>>

CachePost(c) ==
  /\ At(c, "write", "cache") /\ "push" \notin timelineCall[c].todo
  /\ cachedTimeline' = [cachedTimeline EXCEPT ![Owner(c)] = @ \cup {timelineCall[c].entry}]
  /\ Did(c, "cache")
  /\ UNCHANGED <<timeline, home>>

(* ReadUserTimeline.  It fills Redis again while a task reads the posts. *)

ReadTimeline(c, op, u, start, stop) ==
  /\ timelineCall' = [timelineCall EXCEPT ![c] =
       [NoTimelineCall EXCEPT !.op = op, !.user = u, !.start = start, !.stop = stop,
          !.todo = IF stop <= start \/ start < 0 THEN {} ELSE {"range"}]]
  /\ UNCHANGED timelineStores

RangeTimeline(c) ==
  LET call == timelineCall[c]
      page == PostsOf(Page(Newest(cachedTimeline[call.user]), call.start, call.stop))
  IN /\ At(c, "read user", "range")
     /\ timelineCall' = [timelineCall EXCEPT ![c].page = page,
          ![c].todo = IF call.start + Len(page) < call.stop THEN {"find"} ELSE {"posts"}]
     /\ UNCHANGED timelineStores

\* The elements of a list that are not in a set, each once.
Rising(places) == \A i, j \in DOMAIN places : i < j => places[i] < places[j]
InTurn(S) == CHOOSE places \in [1..Cardinality(S) -> S] : Rising(places)
Without(list, S) ==
  LET kept == InTurn({i \in DOMAIN list :
                        list[i] \notin S /\ \A j \in 1..(i - 1) : list[j] /= list[i]})
  IN [n \in DOMAIN kept |-> list[kept[n]]]

\* Mutant: a post that Redis gave and MongoDB gives again is taken twice.
TakeAll(call, slice) ==
  call.page \o SubSeq(PostsOf(slice), call.start + Len(call.page) + 1, Len(slice))

\* Mutant: the page goes on one post late.
CompleteLate(call, slice) ==
  call.page \o Without(SubSeq(PostsOf(slice), call.start + Len(call.page) + 2, Len(slice)),
                       Members(call.page))

\* The posts of the slice from mongo_start on, without those the page has.
Complete(call, slice) ==
  call.page \o Without(SubSeq(PostsOf(slice), call.start + Len(call.page) + 1, Len(slice)),
                       Members(call.page))

FindTimeline(c) ==
  LET call == timelineCall[c]
      slice == Page(timeline[call.user], 0, call.stop)
  IN /\ At(c, "read user", "find")
     /\ timelineCall' = [timelineCall EXCEPT ![c].page = Complete(call, slice),
          ![c].slice = Members(slice),
          ![c].todo = {"posts"} \cup (IF slice = <<>> THEN {} ELSE {"fill"})]
     /\ UNCHANGED timelineStores

\* The error of the cursor is taken for a user without a document: the page
\* stays what Redis gave.
FindTimelineErrs(c) ==
  /\ At(c, "read user", "find")
  /\ CursorFails(c)
  /\ timelineCall' = [timelineCall EXCEPT ![c].todo = {"posts"}]
  /\ UNCHANGED timelineStores

FillTimeline(c) ==
  /\ At(c, "read user", "fill")
  /\ cachedTimeline' = [cachedTimeline EXCEPT ![Owner(c)] = @ \cup timelineCall[c].slice]
  /\ Did(c, "fill")
  /\ UNCHANGED <<timeline, home>>

-----------------------------------------------------------------------------
(* WriteHomeTimeline, with the followers of the author known, and          *)
(* ReadHomeTimeline.                                                       *)

\* The followers and the mentioned users, each once, in one pipeline per
\* shard of Redis.
FanOut(c, u, entry, users) ==
  /\ timelineCall' = [timelineCall EXCEPT ![c] =
       [NoTimelineCall EXCEPT !.op = "fan out", !.user = u, !.entry = entry, !.to = users,
                              !.todo = IF users = {} THEN {} ELSE {"deliver"}]]
  /\ UNCHANGED timelineStores

Deliver(c, u) ==
  /\ At(c, "fan out", "deliver") /\ u \in timelineCall[c].to
  /\ home' = [home EXCEPT ![u] = @ \cup {timelineCall[c].entry}]
  /\ timelineCall' = [timelineCall EXCEPT ![c].to = @ \ {u},
       ![c].todo = IF timelineCall[c].to = {u} THEN {} ELSE @]
  /\ UNCHANGED <<timeline, cachedTimeline>>

RangeHome(c) ==
  LET call == timelineCall[c]
  IN /\ At(c, "read home", "range")
     /\ timelineCall' = [timelineCall EXCEPT ![c].todo = {"posts"},
          ![c].page = PostsOf(Page(Newest(home[call.user]), call.start, call.stop))]
     /\ UNCHANGED timelineStores

-----------------------------------------------------------------------------
\* The post storage service has answered a read.
HavePosts(c) ==
  /\ "posts" \in timelineCall[c].todo
  /\ timelineCall' = [timelineCall EXCEPT ![c].todo = @ \ {"posts"},
       ![c].ok = @ /\ postRead[c].at = "done"]
  /\ UNCHANGED timelineStores

\* Another command fails, or the second push, and so does the call; a task
\* that reads the posts still runs to its end.  A fan-out leaves the entries
\* it has written.
TimelineFails(c) ==
  /\ CommandFails(c)
  /\ timelineCall[c].todo \ {"posts"} /= {}
  /\ timelineCall' = [timelineCall EXCEPT ![c].todo = @ \cap {"posts"}, ![c].ok = FALSE]
  /\ UNCHANGED timelineStores

RestartTimelineRedis ==
  /\ ServerRestarts("user-timeline-redis")
  /\ cachedTimeline' = [u \in Users |-> {}]
  /\ UNCHANGED <<timeline, home, timelineCall>>

RestartHomeRedis ==
  /\ ServerRestarts("home-timeline-redis")
  /\ home' = [u \in Users |-> {}]
  /\ UNCHANGED <<timeline, cachedTimeline, timelineCall>>

TimelineWrites(c) == PushPost(c) \/ RepeatPush(c) \/ CachePost(c) \/ \E u \in Users : Deliver(c, u)
TimelineReads(c) == RangeTimeline(c) \/ FindTimeline(c) \/ FillTimeline(c) \/ RangeHome(c)

TimelinesTypeOK ==
  LET Entries == [post : Calls, at : Nat]
  IN /\ timeline \in [Users -> Seq(Entries)]
     /\ {cachedTimeline, home} \subseteq [Users -> SUBSET Entries]
     /\ DOMAIN timelineCall = Calls
=============================================================================
