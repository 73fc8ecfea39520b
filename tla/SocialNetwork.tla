---------------------------- MODULE SocialNetwork ----------------------------
(***************************************************************************)
(* The services of the social network together, under the requests that    *)
(* the gateway passes on (socialNetwork/nginx-web-server): registrations,  *)
(* follows and unfollows by name, composed posts, and reads of the three   *)
(* kinds of lists.  A behaviour is one scenario: the accounts and edges    *)
(* there are at its start, at most one request per call, and the faults    *)
(* that may happen.  The calls run concurrently, except that a call may    *)
(* wait for others (a client that acts on an answer).                      *)
(***************************************************************************)
EXTENDS ComposePost

CONSTANT Scenarios

\* Every id that a registration can make or be given names a user.
ASSUME UsersAssumption == Users \subseteq Nat /\ 0..((MaxClock + 1) * Span - 1) \subseteq Users

\* The accounts of a scenario have names of their own, only users with an
\* account follow one another, and only users compose and read.
ASSUME ScenariosAssumption ==
  \A s \in Scenarios :
    /\ s.accounts \in Seq([user : Users, name : STRING])
    /\ \A i, j \in DOMAIN s.accounts : s.accounts[i].name = s.accounts[j].name => i = j
    /\ LET registered == {s.accounts[i].user : i \in DOMAIN s.accounts}
       IN s.edges \subseteq registered \X registered
    /\ DOMAIN s.requests \subseteq Calls
    /\ \A c \in DOMAIN s.requests :
         LET request == s.requests[c]
         IN /\ request \in [op : STRING, name : STRING, other : STRING, user : Users \cup {-1},
                            names : SUBSET STRING, start : Int, stop : Int, after : SUBSET Calls]
            /\ request.op \in {"followees", "followers", "compose", "read user", "read home"}
                 => request.user \in Users

VARIABLES
  scenario,         \* the scenario of the behaviour
  running,          \* the calls that have started
  owed,             \* history: the users a compose should reach, when it started
  alone,            \* history: the timeline reads that overlapped no compose
  blurred           \* history: users whose two timelines may differ

social == <<scenario, running, owed, alone, blurred>>
otherState == <<graphState, idVars, accountVars, postVars, timelineVars, composeVars>>
socialVars == <<social, otherState, faults>>

SocialInit ==
  \E s \in Scenarios :
    /\ scenario = s
    /\ AccountsStart(s.accounts)
    /\ GraphStart({s.accounts[i].user : i \in DOMAIN s.accounts}, s.edges)
    /\ IdInit /\ PostsInit /\ TimelinesInit /\ ComposeInit /\ NoFaultsYet
    /\ running = {} /\ owed = [c \in Calls |-> {}] /\ alone = {} /\ blurred = {}

Request(c) == scenario.requests[c]
Registering(c) == registration[c].at \in {"id", "lookup", "insert", "graph"}
Reading(c) == timelineCall[c].todo /= {} \/ postRead[c].at \in {"mget", "find"}
Over(c) == c \in running /\ ~Registering(c) /\ ~GraphBusy(c) /\ ~Reading(c) /\ ComposeOver(c)
Active == {c \in running : ~Over(c)}

Starts(c, op) ==
  /\ c \in DOMAIN scenario.requests \ running
  /\ Request(c).op = op
  /\ \A d \in Request(c).after : Over(d)
  /\ running' = running \cup {c}
  /\ UNCHANGED scenario

-----------------------------------------------------------------------------
(* A request arrives. *)

Register(c) ==
  /\ Starts(c, "register")
  /\ IF Request(c).user >= 0 THEN RegisterUserWithId(c, Request(c).name, Request(c).user)
     ELSE RegisterUser(c, Request(c).name)
  /\ UNCHANGED <<owed, alone, blurred, graphState, idVars, postVars, timelineVars,
                 composeVars, faults>>

\* FollowWithUsername and UnfollowWithUsername find both users first; an
\* unknown name ends the request.
FollowByName(c) ==
  /\ Starts(c, "follow")
  /\ IF Taken(Request(c).name) /\ Taken(Request(c).other)
     THEN Follow(c, UserOf(Request(c).name), UserOf(Request(c).other))
     ELSE UNCHANGED <<graphState, faults>>
  /\ UNCHANGED <<owed, alone, blurred, idVars, accountVars, postVars, timelineVars, composeVars>>

UnfollowByName(c) ==
  /\ Starts(c, "unfollow")
  /\ IF Taken(Request(c).name) /\ Taken(Request(c).other)
     THEN LET u == UserOf(Request(c).name)
              v == UserOf(Request(c).other)
          IN /\ Unfollow(c, u, v)
             /\ owed' = [d \in Calls |-> IF compose[d].user = v THEN owed[d] \ {u} ELSE owed[d]]
     ELSE UNCHANGED <<owed, graphState, faults>>
  /\ UNCHANGED <<alone, blurred, idVars, accountVars, postVars, timelineVars, composeVars>>

ReadGraph(c) ==
  /\ \E s \in Sides : Starts(c, s) /\ GetList(c, s, Request(c).user)
  /\ UNCHANGED <<owed, alone, blurred, idVars, accountVars, postVars, timelineVars, composeVars>>

ComposesOf(u) == {c \in Active : compose[c].at /= "idle" /\ compose[c].user = u}
ReadsOf(u) == {c \in Active : timelineCall[c].op = "read user" /\ Owner(c) = u}

Compose(c) ==
  LET u == Request(c).user
      names == Request(c).names
  IN /\ Starts(c, "compose")
     /\ StartCompose(c, u, names)
     /\ owed' = [owed EXCEPT ![c] = UsersOf(names) \cup
          {v \in Users : <<v, u>> \in wanted \ crossed /\ PairQuiet(v, u)}]
     /\ alone' = {d \in alone : Owner(d) /= u}
     /\ blurred' = blurred \cup (IF ComposesOf(u) = {} THEN {} ELSE {u})
     /\ UNCHANGED <<graphState, idVars, accountVars, postVars, timelineVars, faults>>

Read(c) ==
  LET u == Request(c).user
  IN /\ \E op \in {"read user", "read home"} :
          Starts(c, op) /\ ReadTimeline(c, op, u, Request(c).start, Request(c).stop)
     /\ alone' = alone \cup
          (IF Request(c).op = "read user" /\ ComposesOf(u) = {} THEN {c} ELSE {})
     /\ UNCHANGED <<owed, blurred, graphState, idVars, accountVars, postVars, composeVars, faults>>

Arrives(c) == \/ Register(c) \/ FollowByName(c) \/ UnfollowByName(c) \/ ReadGraph(c)
              \/ Compose(c) \/ Read(c)

-----------------------------------------------------------------------------
(* The services work. *)

GraphWorks(c) ==
  /\ GraphStep(c)
  /\ UNCHANGED <<social, idVars, accountVars, postVars, timelineVars, composeVars>>

MakesId(c) ==
  /\ registration[c].at = "id"
  /\ \/ ReadClock(c) /\ UNCHANGED accountVars
     \/ GetCounter(c) /\ HaveId(c)
     \/ ExitAndRestart(c) /\ RegistrationsLost
  /\ UNCHANGED <<social, graphState, postVars, timelineVars, composeVars, faults>>

Accounts(c) ==
  /\ LookUp(c) \/ InsertAccount(c)
  /\ UNCHANGED <<social, graphState, idVars, postVars, timelineVars, composeVars, faults>>

RegistersInGraph(c) ==
  LET u == registration[c].user
  IN /\ InGraph(c, u \notin known)
     /\ IF u \in known THEN UNCHANGED <<graphState, faults>> ELSE InsertUser(u)
     /\ UNCHANGED <<social, idVars, postVars, timelineVars, composeVars>>

RegistrationStops(c) ==
  /\ RegistrationFails(c)
  /\ UNCHANGED <<social, graphState, idVars, postVars, timelineVars, composeVars>>

TimelinesWork(c) ==
  /\ TimelineWrites(c) \/ TimelineReads(c)
  /\ UNCHANGED <<social, graphState, idVars, accountVars, postVars, composeVars, faults>>

\* Both timeline services read the posts of a page from post storage.
AsksForPosts(c) ==
  /\ "posts" \in timelineCall[c].todo
  /\ ReadPosts(c, timelineCall[c].page)
  /\ UNCHANGED <<social, graphState, idVars, accountVars, timelineVars, composeVars, faults>>

ReadsPosts(c) ==
  /\ MultiGet(c) \/ FindPosts(c)
  /\ UNCHANGED <<social, graphState, idVars, accountVars, timelineVars, composeVars, faults>>

GetsPosts(c) ==
  /\ postRead[c].at \in {"done", "failed"}
  /\ HavePosts(c)
  /\ UNCHANGED <<social, graphState, idVars, accountVars, postVars, composeVars, faults>>

ReadStops(c) ==
  /\ ReadPostsFails(c)
  /\ UNCHANGED <<social, graphState, idVars, accountVars, timelineVars, composeVars>>

\* A write of a timeline that fails after MongoDB has the post leaves it out
\* of Redis; a read whose find fails goes on without MongoDB.
TimelineStops(c) ==
  /\ TimelineFails(c) \/ FindTimelineErrs(c)
  /\ blurred' = blurred \cup (IF timelineCall[c].op = "write" THEN {Owner(c)} ELSE {})
  /\ UNCHANGED <<scenario, running, owed, alone, graphState, idVars, accountVars, postVars,
                 composeVars>>

\* The push of a post is sent again: it will be there twice when MongoDB has
\* carried out the first, and not at all when it has not and the user has no
\* document.
PushFails(c) ==
  /\ PushErrs(c)
  /\ blurred' = blurred \cup
       (IF timeline' /= timeline \/ timeline[Owner(c)] = <<>> THEN {Owner(c)} ELSE {})
  /\ UNCHANGED <<scenario, running, owed, alone, graphState, idVars, accountVars, postVars,
                 composeVars>>

ComposeWorks(c) == ComposeStep(c) /\ UNCHANGED social

Works(c) == \/ GraphWorks(c) \/ MakesId(c) \/ Accounts(c) \/ RegistersInGraph(c)
            \/ RegistrationStops(c) \/ TimelinesWork(c) \/ AsksForPosts(c) \/ ReadsPosts(c)
            \/ GetsPosts(c) \/ ReadStops(c) \/ TimelineStops(c) \/ PushFails(c)
            \/ ComposeWorks(c)

-----------------------------------------------------------------------------
(* The environment. *)

ServersRestart ==
  \/ /\ "social-graph-redis" \in scenario.mayRestart /\ RestartGraphRedis
     /\ UNCHANGED <<social, idVars, accountVars, postVars, timelineVars, composeVars>>
  \/ /\ "home-timeline-redis" \in scenario.mayRestart /\ RestartHomeRedis
     /\ UNCHANGED <<social, graphState, idVars, accountVars, postVars, composeVars>>
  \/ /\ "user-timeline-redis" \in scenario.mayRestart /\ RestartTimelineRedis
     /\ blurred' = blurred \cup {u \in Users : ComposesOf(u) \cup ReadsOf(u) /= {}}
     /\ UNCHANGED <<scenario, running, owed, alone, graphState, idVars, accountVars, postVars,
                    composeVars>>

\* The clock matters to the calls that are about to make an id.
Clock ==
  /\ \E c \in Calls : registration[c].at = "id"
  /\ TimePasses \/ ClockIsSetBack
  /\ UNCHANGED <<social, graphState, accountVars, postVars, timelineVars, composeVars, faults>>

AllOver == \A c \in DOMAIN scenario.requests : Over(c)
Finished == AllOver /\ UNCHANGED socialVars

SocialNext == (\E c \in Calls : Arrives(c) \/ Works(c)) \/ ServersRestart \/ Clock \/ Finished

SocialSpec == SocialInit /\ [][SocialNext]_socialVars

-----------------------------------------------------------------------------
SocialTypeOK ==
  /\ GraphTypeOK /\ IdTypeOK /\ AccountsTypeOK /\ PostsTypeOK /\ TimelinesTypeOK /\ ComposeTypeOK
  /\ running \subseteq Calls /\ alone \subseteq Calls /\ blurred \subseteq Users
  /\ owed \in [Calls -> SUBSET Users]

\* Two accounts share a name only when two registrations looked it up before
\* either inserted, and every account whose registration met no failure has a
\* document in the social graph, without which its follows are lost.
AccountsAgree ==
  /\ \A i, j \in DOMAIN accounts :
       i /= j /\ accounts[i].name = accounts[j].name => accounts[i].name \in twins
  /\ \A i \in DOMAIN accounts :
       accounts[i].user \in known
         \/ \E c \in Calls : /\ registration[c].user = accounts[i].user
                             /\ registration[c].at \in {"graph", "no document"}

\* A timeline can always be read: whatever is composed meanwhile, every entry
\* of a page names a stored post and no post is on a page twice, so a read
\* fails only when one of its own commands does.  Posts are stored before the
\* timelines name them, and a page that Redis began and MongoDB completes
\* leaves out what it has already ("post may composed between redis and
\* mongo read").
ReadsSucceed ==
  \A c \in running :
    timelineCall[c].op \in {"read user", "read home"} /\ ~timelineCall[c].ok => c \in faulted

\* A page of a user timeline is exactly the part of the document it stands
\* for, whichever of Redis and MongoDB it came from and however often Redis
\* lost and got back its copy, when no post of the user is being composed,
\* the user is not blurred and the read was not misled: a find of MongoDB
\* that fails cuts the page short.  (From a negative place on the page is
\* empty.)
PageExact ==
  \A c \in alone \ misled :
    Over(c) /\ timelineCall[c].ok /\ Owner(c) \notin blurred /\ 0 <= timelineCall[c].start =>
      timelineCall[c].page =
        Page(PostsOf(timeline[Owner(c)]), timelineCall[c].start, timelineCall[c].stop)

\* A post that was composed successfully is on the home timeline of everyone
\* who followed its author when the compose began and has not unfollowed
\* since, and of everyone it mentions, unless Redis lost the followers or the
\* timelines, or the error of a cursor hid the followers or the mentioned.
FollowersServed ==
  \A c \in running \ misled :
    /\ compose[c].at /= "idle" /\ ComposeSucceeded(c)
    /\ restarted \cap {"social-graph-redis", "home-timeline-redis"} = {}
    => \A u \in owed[c] : PostEntry(c) \in home[u]
=============================================================================
