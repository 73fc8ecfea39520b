----------------------------- MODULE SocialGraph -----------------------------
(***************************************************************************)
(* The social graph service of the social network                          *)
(* (socialNetwork/src/SocialGraphService/SocialGraphHandler.h).  An edge   *)
(* "u follows v" is kept four times: v among u's followees and u among v's *)
(* followers, both in MongoDB (one document per user) and in Redis (one    *)
(* sorted set per user and side).  A follow writes the four places from    *)
(* three concurrent tasks; a list is read from Redis and, when it is       *)
(* empty there, from MongoDB, from where Redis is filled again.            *)
(*                                                                         *)
(* The sorted sets are kept as sets: nothing reads them by score.  A call  *)
(* is a thread of the server; MongoDB and Redis execute one command at a   *)
(* time.                                                                   *)
(***************************************************************************)
EXTENDS Services

Sides == {"followees", "followers"}

VARIABLES
  known,            \* the users that have a document
  edges,            \* edges[s][u][v]: how often v is in list s of u's document
  cachedEdges,      \* cachedEdges[s][u]: list s of u in Redis
  graphCall,        \* what a call does, has still to do and has found
  wanted,           \* history: the pairs whose last request was a follow
  crossed,          \* history: pairs whose requests overlapped or went wrong
  stale             \* history: pairs edited while a list of theirs was filled again

edgeStores == <<known, edges, cachedEdges>>
edgeHistory == <<wanted, crossed, stale>>
graphState == <<edgeStores, graphCall, edgeHistory>>
graphVars == <<graphState, faults>>

DocumentTasks == {"update followees", "update followers"}
RedisTasks == {"cache followees", "cache followers"}
Edits == {"follow", "unfollow"}

Idle == [op |-> "none", user |-> CHOOSE u \in Users : TRUE,
         other |-> CHOOSE u \in Users : TRUE, todo |-> {}, answer |-> {}, ok |-> TRUE]

NoEdges == [s \in Sides |-> [u \in Users |-> [v \in Users |-> 0]]]

\* The lists that Redis and MongoDB hold after the pairs of a set followed.
ListsOf(pairs) ==
  [s \in Sides |-> [u \in Users |->
     IF s = "followees" THEN {v \in Users : <<u, v>> \in pairs}
                        ELSE {v \in Users : <<v, u>> \in pairs}]]

\* A graph in which some users exist and some pairs have followed.
GraphStart(users, pairs) ==
  /\ known = users
  /\ edges = [s \in Sides |-> [u \in Users |-> [v \in Users |->
                IF v \in ListsOf(pairs)[s][u] THEN 1 ELSE 0]]]
  /\ cachedEdges = ListsOf(pairs)
  /\ graphCall = [c \in Calls |-> Idle]
  /\ wanted = pairs
  /\ crossed = {} /\ stale = {}

GraphInit == GraphStart(Users, {}) /\ NoFaultsYet

-----------------------------------------------------------------------------
Pair(c) == <<graphCall[c].user, graphCall[c].other>>
GraphBusy(c) == graphCall[c].todo /= {}

\* Whose list a task of a follow or unfollow writes, and the entry it writes.
ListOwner(c, s) == IF s = "followees" THEN graphCall[c].user ELSE graphCall[c].other
Entry(c, s) == IF s = "followees" THEN graphCall[c].other ELSE graphCall[c].user

EditsUnderWay(op, pair) ==
  {c \in Calls : GraphBusy(c) /\ graphCall[c].op = op /\ Pair(c) = pair}
FillsUnderWay(s, u) ==
  {c \in Calls : graphCall[c].op = s /\ graphCall[c].user = u /\ graphCall[c].todo = {"fill"}}

\* What makes a pair unreliable: the opposite edit of the pair is under way,
\* or one of the two has no document, or a list of the pair is being filled
\* with what it was before.
NoteEdit(op, u, v) ==
  /\ wanted' = IF op = "follow" THEN wanted \cup {<<u, v>>} ELSE wanted \ {<<u, v>>}
  /\ crossed' = crossed \cup
       (IF \/ \E other \in Edits \ {op} : EditsUnderWay(other, <<u, v>>) /= {}
           \/ {u, v} \ known /= {}
        THEN {<<u, v>>} ELSE {})
  /\ stale' = stale \cup
       (IF FillsUnderWay("followees", u) \cup FillsUnderWay("followers", v) /= {}
        THEN {<<u, v>>} ELSE {})

\* Follow and Unfollow start three tasks: one per document and one that
\* sends its two commands to Redis.
Follow(c, u, v) ==
  /\ graphCall[c].op = "none"
  /\ graphCall' = [graphCall EXCEPT ![c] =
       [Idle EXCEPT !.op = "follow", !.user = u, !.other = v,
                    !.todo = DocumentTasks \cup RedisTasks]]
  /\ NoteEdit("follow", u, v)
  /\ UNCHANGED <<edgeStores, faults>>

Unfollow(c, u, v) ==
  /\ graphCall[c].op = "none"
  /\ graphCall' = [graphCall EXCEPT ![c] =
       [Idle EXCEPT !.op = "unfollow", !.user = u, !.other = v,
                    !.todo = DocumentTasks \cup RedisTasks]]
  /\ NoteEdit("unfollow", u, v)
  /\ UNCHANGED <<edgeStores, faults>>

TaskDone(c, t) == graphCall' = [graphCall EXCEPT ![c].todo = @ \ {t}]
DocumentTask(s) == IF s = "followees" THEN "update followees" ELSE "update followers"
RedisTask(s) == IF s = "followees" THEN "cache followees" ELSE "cache followers"

\* Mutant: the query of a follow does not exclude a list with the entry.
PushAgain(c, s) ==
  LET u == ListOwner(c, s)
      v == Entry(c, s)
  IN /\ graphCall[c].op = "follow" /\ DocumentTask(s) \in graphCall[c].todo
     /\ edges' = IF u \in known THEN [edges EXCEPT ![s][u][v] = @ + 1] ELSE edges
     /\ TaskDone(c, DocumentTask(s))
     /\ UNCHANGED <<known, cachedEdges, edgeHistory, faults>>

\* find_and_modify without upsert: it changes nothing, and reports no error,
\* when no document matches.  A follow's query matches only a list without
\* the entry.
PushEntry(c, s) ==
  LET u == ListOwner(c, s)
      v == Entry(c, s)
  IN /\ graphCall[c].op = "follow" /\ DocumentTask(s) \in graphCall[c].todo
     /\ edges' = IF u \in known /\ edges[s][u][v] = 0
                 THEN [edges EXCEPT ![s][u][v] = 1] ELSE edges
     /\ TaskDone(c, DocumentTask(s))
     /\ UNCHANGED <<known, cachedEdges, edgeHistory, faults>>

PullEntry(c, s) ==
  LET u == ListOwner(c, s)
      v == Entry(c, s)
  IN /\ graphCall[c].op = "unfollow" /\ DocumentTask(s) \in graphCall[c].todo
     /\ edges' = IF u \in known THEN [edges EXCEPT ![s][u][v] = 0] ELSE edges
     /\ TaskDone(c, DocumentTask(s))
     /\ UNCHANGED <<known, cachedEdges, edgeHistory, faults>>

\* The Redis task writes the followees of the one before the followers of
\* the other.
CacheTurn(c, s) ==
  /\ RedisTask(s) \in graphCall[c].todo
  /\ s = "followers" => "cache followees" \notin graphCall[c].todo

CacheEntry(c, s) ==
  /\ graphCall[c].op = "follow" /\ CacheTurn(c, s)
  /\ cachedEdges' = [cachedEdges EXCEPT ![s][ListOwner(c, s)] = @ \cup {Entry(c, s)}]
  /\ TaskDone(c, RedisTask(s))
  /\ UNCHANGED <<known, edges, edgeHistory, faults>>

\* Mutant: an unfollow leaves the followers of the other in Redis.
UncacheFollowees(c, s) ==
  /\ graphCall[c].op = "unfollow" /\ CacheTurn(c, s)
  /\ cachedEdges' = IF s = "followers" THEN cachedEdges
       ELSE [cachedEdges EXCEPT ![s][ListOwner(c, s)] = @ \ {Entry(c, s)}]
  /\ TaskDone(c, RedisTask(s))
  /\ UNCHANGED <<known, edges, edgeHistory, faults>>

UncacheEntry(c, s) ==
  /\ graphCall[c].op = "unfollow" /\ CacheTurn(c, s)
  /\ cachedEdges' = [cachedEdges EXCEPT ![s][ListOwner(c, s)] = @ \ {Entry(c, s)}]
  /\ TaskDone(c, RedisTask(s))
  /\ UNCHANGED <<known, edges, edgeHistory, faults>>

\* One task fails.  The others run to their end, because the destructor of a
\* future of std::async waits, and the call throws; nothing is undone.
EditFails(c, t) ==
  /\ CommandFails(c)
  /\ graphCall[c].op \in Edits /\ t \in graphCall[c].todo
  /\ graphCall' = [graphCall EXCEPT
       ![c].todo = IF t \in RedisTasks THEN @ \ RedisTasks ELSE @ \ {t},
       ![c].ok = FALSE]
  /\ crossed' = crossed \cup {Pair(c)}
  /\ UNCHANGED <<edgeStores, wanted, stale>>

-----------------------------------------------------------------------------
(* GetFollowers and GetFollowees: s says which. *)

GetList(c, s, u) ==
  /\ graphCall[c].op = "none"
  /\ graphCall' = [graphCall EXCEPT ![c] =
       [Idle EXCEPT !.op = s, !.user = u, !.todo = {"range"}]]
  /\ UNCHANGED <<edgeStores, edgeHistory, faults>>

Answers(c, list, ok) ==
  graphCall' = [graphCall EXCEPT ![c].todo = {}, ![c].answer = list, ![c].ok = ok]

RangeList(c, s) ==
  LET list == cachedEdges[s][graphCall[c].user]
  IN /\ graphCall[c].op = s /\ graphCall[c].todo = {"range"}
     /\ IF list /= {} THEN Answers(c, list, TRUE)
        ELSE graphCall' = [graphCall EXCEPT ![c].todo = {"find"}]
     /\ UNCHANGED <<edgeStores, edgeHistory, faults>>

\* A user without a document has no followers, but asking for its followees
\* is an error.
FindList(c, s) ==
  LET u == graphCall[c].user
  IN /\ graphCall[c].op = s /\ graphCall[c].todo = {"find"}
     /\ IF u \in known
        THEN graphCall' = [graphCall EXCEPT ![c].todo = {"fill"},
                 ![c].answer = {v \in Users : edges[s][u][v] > 0}]
        ELSE Answers(c, {}, s = "followers")
     /\ stale' = stale \cup {Pair(e) : e \in {e \in Calls :
                    GraphBusy(e) /\ graphCall[e].op \in Edits /\ ListOwner(e, s) = u}}
     /\ UNCHANGED <<edgeStores, wanted, crossed, faults>>

\* ZADD without a member is an error: the list of a user that has neither
\* followers nor followees cannot be read.
FillList(c, s) ==
  LET list == graphCall[c].answer
  IN /\ graphCall[c].op = s /\ graphCall[c].todo = {"fill"}
     /\ cachedEdges' = [cachedEdges EXCEPT ![s][graphCall[c].user] = @ \cup list]
     /\ Answers(c, list, list /= {})
     /\ UNCHANGED <<known, edges, edgeHistory, faults>>

\* GetFollowers takes the error of its cursor for a user without a document
\* and answers that nobody follows the user.
FindFollowersErrs(c) ==
  /\ graphCall[c].op = "followers" /\ graphCall[c].todo = {"find"}
  /\ CursorFails(c)
  /\ Answers(c, {}, TRUE)
  /\ UNCHANGED <<edgeStores, edgeHistory>>

\* Any other failure ends the call.
GetFails(c) ==
  /\ CommandFails(c)
  /\ graphCall[c].op \in Sides /\ GraphBusy(c)
  /\ Answers(c, {}, FALSE)
  /\ UNCHANGED <<edgeStores, edgeHistory>>

-----------------------------------------------------------------------------
\* The user service inserts a document for every user it registers; the
\* index on user_id refuses a second one.
InsertUser(u) ==
  /\ u \notin known
  /\ known' = known \cup {u}
  /\ edges' = [s \in Sides |-> [edges[s] EXCEPT ![u] = [v \in Users |-> 0]]]
  /\ UNCHANGED <<cachedEdges, graphCall, edgeHistory, faults>>

RestartGraphRedis ==
  /\ ServerRestarts("social-graph-redis")
  /\ cachedEdges' = [s \in Sides |-> [u \in Users |-> {}]]
  /\ UNCHANGED <<known, edges, graphCall, edgeHistory>>

GraphStep(c) ==
  \/ \E s \in Sides : \/ PushEntry(c, s) \/ PullEntry(c, s)
                      \/ CacheEntry(c, s) \/ UncacheEntry(c, s)
                      \/ RangeList(c, s) \/ FindList(c, s) \/ FillList(c, s)
  \/ \E t \in DocumentTasks \cup RedisTasks : EditFails(c, t)
  \/ FindFollowersErrs(c) \/ GetFails(c)

GraphNext ==
  \/ \E c \in Calls :
       \/ \E u, v \in Users : Follow(c, u, v) \/ Unfollow(c, u, v)
       \/ \E s \in Sides, u \in Users : GetList(c, s, u)
       \/ GraphStep(c)
  \/ \E u \in Users : InsertUser(u)
  \/ RestartGraphRedis

GraphSpec == GraphInit /\ [][GraphNext]_graphVars

-----------------------------------------------------------------------------
GraphTypeOK ==
  /\ known \subseteq Users
  /\ edges \in [Sides -> [Users -> [Users -> Nat]]]
  /\ cachedEdges \in [Sides -> [Users -> SUBSET Users]]
  /\ graphCall \in [Calls ->
       [op : {"none"} \cup Edits \cup Sides, user : Users, other : Users,
        todo : SUBSET (DocumentTasks \cup RedisTasks \cup {"range", "find", "fill"}),
        answer : SUBSET Users, ok : BOOLEAN]]
  /\ {wanted, crossed, stale} \subseteq SUBSET (Users \X Users)
  /\ FaultsTypeOK

PairQuiet(u, v) == \A op \in Edits : EditsUnderWay(op, <<u, v>>) = {}

\* The two documents agree on every edge: once the calls about a pair are
\* over, the follower's list and the followee's list hold it exactly when the
\* last request was a follow, and hold it once, whatever other pairs did to
\* the same documents and however many follows of the pair overlapped.  The
\* tasks take no lock and nothing repairs a half-made edge, so a pair whose
\* follow and unfollow overlapped, or that lost a task, is excepted.
EdgesAgree ==
  \A u, v \in Users :
    PairQuiet(u, v) /\ <<u, v>> \notin crossed =>
      LET entries == IF <<u, v>> \in wanted THEN 1 ELSE 0
      IN /\ edges["followees"][u][v] = entries
         /\ edges["followers"][v][u] = entries

\* Redis never shows an edge that is not there, and shows them all until it
\* is restarted: a list is filled from a document that was read earlier, and
\* from then on answers every read.
RedisMirrorsDocuments ==
  \A u, v \in Users :
    PairQuiet(u, v) /\ <<u, v>> \notin crossed \cup stale =>
      /\ v \in cachedEdges["followees"][u] => edges["followees"][u][v] > 0
      /\ u \in cachedEdges["followers"][v] => edges["followers"][v][u] > 0
      /\ <<u, v>> \in wanted /\ "social-graph-redis" \notin restarted =>
           v \in cachedEdges["followees"][u] /\ u \in cachedEdges["followers"][v]
=============================================================================
