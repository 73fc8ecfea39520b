----------------------------- MODULE ComposePost -----------------------------
(***************************************************************************)
(* The compose-post service of the social network                          *)
(* (socialNetwork/src/ComposePostService/ComposePostHandler.h) and the     *)
(* services it calls.  ComposePost gathers the parts of a post from four   *)
(* services at once, stores the post, and only then writes the author's    *)
(* timeline and the home timelines, one after the other: both futures are  *)
(* deferred.                                                               *)
(*                                                                         *)
(* A post is named after the call that composes it: that ids differ is     *)
(* what UniqueId is about.  Of the parts only the mentions matter to the   *)
(* timelines.                                                              *)
(***************************************************************************)
EXTENDS SocialGraph, UserAccounts, Timelines

VARIABLES
  now,              \* how many composes have taken their timestamp
  compose           \* where a compose is, and what it has gathered

composeVars == <<now, compose>>

NotComposing == [at |-> "idle", user |-> CHOOSE u \in Users : TRUE, time |-> 0,
                 names |-> {}, mentions |-> {}]

ComposeInit == now = 0 /\ compose = [c \in Calls |-> NotComposing]

graphAndAccounts == <<graphState, idVars, accountVars>>
Goto(c, place) == compose' = [compose EXCEPT ![c].at = place]
PostEntry(c) == [post |-> c, at |-> compose[c].time]

\* The timestamp is taken while the helpers run.
StartCompose(c, u, names) ==
  /\ compose[c].at = "idle"
  /\ now' = now + 1
  /\ compose' = [compose EXCEPT ![c] =
       [at |-> "parts", user |-> u, time |-> now + 1, names |-> names, mentions |-> {}]]

\* ComposeText, through ComposeUserMentions, finds the users among the names
\* and leaves the other names out.
HaveParts(c) ==
  /\ compose[c].at = "parts"
  /\ compose' = [compose EXCEPT ![c].at = "post", ![c].mentions = UsersOf(compose[c].names)]
  /\ UNCHANGED <<now, graphAndAccounts, postVars, timelineVars, faults>>

\* ComposeUserMentions takes the error of its cursor for the end of the
\* users: the mentions that were not cached and not read yet are left out.
MissMentions(c) ==
  /\ compose[c].at = "parts" /\ compose[c].names /= {}
  /\ CursorFails(c)
  /\ \E found \in SUBSET UsersOf(compose[c].names) :
       compose' = [compose EXCEPT ![c].at = "post", ![c].mentions = found]
  /\ UNCHANGED <<now, graphAndAccounts, postVars, timelineVars>>

\* Nothing is stored yet when a part or the post itself fails.
PartFails(c) ==
  /\ CommandFails(c)
  /\ compose[c].at \in {"parts", "post"}
  /\ Goto(c, "failed")
  /\ UNCHANGED <<now, graphAndAccounts, postVars, timelineVars>>

UploadPost(c) ==
  /\ compose[c].at = "post"
  /\ StorePost(c)
  /\ Goto(c, "stored")
  /\ UNCHANGED <<now, graphAndAccounts, timelineVars, faults>>

UploadUserTimeline(c) ==
  /\ compose[c].at = "stored"
  /\ WriteUserTimeline(c, compose[c].user, PostEntry(c))
  /\ Goto(c, "user timeline")
  /\ UNCHANGED <<now, graphAndAccounts, postVars, faults>>

TimelineDone(c) == timelineCall[c].todo = {} /\ timelineCall[c].ok
TimelineFailed(c) == timelineCall[c].todo = {} /\ ~timelineCall[c].ok

\* WriteHomeTimeline asks for the followers of the author first.
UploadHomeTimeline(c) ==
  /\ compose[c].at = "user timeline" /\ TimelineDone(c)
  /\ GetList(c, "followers", compose[c].user)
  /\ Goto(c, "followers")
  /\ UNCHANGED <<now, idVars, accountVars, postVars, timelineVars>>

\* Mutant: the mentioned users are left out.
FanOutToFollowers(c) ==
  /\ compose[c].at = "followers" /\ ~GraphBusy(c) /\ graphCall[c].ok
  /\ FanOut(c, compose[c].user, PostEntry(c), graphCall[c].answer)
  /\ Goto(c, "home timelines")
  /\ UNCHANGED <<now, graphAndAccounts, postVars, faults>>

WriteHomeTimeline(c) ==
  /\ compose[c].at = "followers" /\ ~GraphBusy(c) /\ graphCall[c].ok
  /\ FanOut(c, compose[c].user, PostEntry(c), graphCall[c].answer \cup compose[c].mentions)
  /\ Goto(c, "home timelines")
  /\ UNCHANGED <<now, graphAndAccounts, postVars, faults>>

ComposeSucceeded(c) == compose[c].at = "home timelines" /\ TimelineDone(c)
ComposeOver(c) ==
  \/ compose[c].at \in {"idle", "failed"}
  \/ compose[c].at \in {"user timeline", "home timelines"} /\ TimelineFailed(c)
  \/ compose[c].at = "followers" /\ ~GraphBusy(c) /\ ~graphCall[c].ok
  \/ ComposeSucceeded(c)

ComposeStep(c) == \/ HaveParts(c) \/ MissMentions(c) \/ UploadPost(c)
                  \/ UploadUserTimeline(c) \/ UploadHomeTimeline(c) \/ WriteHomeTimeline(c) \/ PartFails(c)

ComposeTypeOK ==
  /\ now \in Nat
  /\ compose \in [Calls -> [at : {"idle", "parts", "post", "stored", "user timeline",
                                  "followers", "home timelines", "failed"},
       user : Users, time : 0..now, names : SUBSET STRING, mentions : SUBSET Users]]
=============================================================================
