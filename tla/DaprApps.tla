------------------------------ MODULE DaprApps ------------------------------
(***************************************************************************)
(* The Dapr applications with their clients: each call is a request to a   *)
(* handler of the social network or of the video site, or the event that   *)
(* starts the video pipeline.  A scenario gives                            *)
(* what the stores hold to begin with, how many commands fail and events   *)
(* are delivered, and the requests, each with the calls that are over when *)
(* its client sends it; all others may overlap.                            *)
(***************************************************************************)
EXTENDS DaprSocial, DaprVideo, DaprPipe

CONSTANTS
  Calls,            \* requests of clients
  Names,            \* of users, videos, dates and comments
  Scenarios         \* bound: [stored, faults, deliveries, requests, after]

-----------------------------------------------------------------------------
(* What clients may ask for. *)

Posts == DOMAIN PostTime
ReadsOnly(request) ==
  request \in Seq(ToSet(request)) /\ \A i \in DOMAIN request : request[i].do = "get"
Rates(request) ==
  /\ request[1].do = "edit"
  /\ \E u, video \in Names : request = RateVideo(u, video, request[1].edit.score)
ReadsTimeline(request) ==
  /\ request[1].do = "page" /\ request[1].posts \in Nat
  /\ request[1].key \in {UserTimeline(u) : u \in Names} \cup {HomeTimeline(u) : u \in Names}
  /\ request = ReadTimeline(request[1].key, request[1].earliest, request[1].posts)

IsSave(request, post) == \E u \in Names, images \in BOOLEAN : request = SavePost(u, post, images)
IsDeletion(request, post) == \E u \in Names : request = DelPost(u, post)

IsRequest(request) ==
  \/ \E u, v \in Names : request \in {FollowUser(u, v), UnfollowUser(u, v)}
  \/ \E post \in Posts : IsSave(request, post) \/ IsDeletion(request, post)
  \/ \E post \in Posts, x \in Names : request \in {Comment(post, x), Upvote(post, x)}
  \/ \E video, date \in Names : request \in {UploadVideo(video, date), GetVideoData(video)}
  \/ \E r \in DOMAIN FramesOf, priority \in Priorities : request = Request(r, priority)
  \/ ReadsOnly(request) \/ Rates(request) \/ ReadsTimeline(request)

\* What a list names is stored, and a video has no views from before.
Lists == {"follows", "followers", "upvotes", "comments", "date", "user timeline", "home timeline"}
StoredRight(stored) ==
  \A key \in DOMAIN stored :
    /\ stored[key].etag \in Nat \ {0} /\ key[1] /= "views"
    /\ key[1] \in Lists =>
         /\ stored[key].value \in Seq(ToSet(stored[key].value))
         /\ IsInjective(stored[key].value)
    /\ key[1] \in {"user timeline", "home timeline"} =>
         \A post \in ToSet(stored[key].value) : Content(post) \in DOMAIN stored
    /\ key[1] = "date" =>
         \A video \in ToSet(stored[key].value) :
           {Data(video), VideoMeta(video)} \subseteq DOMAIN stored

\* Nobody can name a post before it was saved, and no two comments are the
\* same (both have the user and the time in their ids).
ScenariosAssumption ==
  \A s \in Scenarios :
    /\ StoredRight(s.stored)
    /\ DOMAIN s.requests \subseteq Calls
    /\ \A c \in DOMAIN s.requests : IsRequest(s.requests[c])
    /\ \A c, d \in DOMAIN s.requests, post \in Posts :
         IsDeletion(s.requests[c], post) /\ IsSave(s.requests[d], post) => d \in s.after[c]
    /\ \A c \in DOMAIN s.requests, post \in Posts, x \in Names :
         s.requests[c] = Comment(post, x) =>
           /\ \A d \in DOMAIN s.requests : s.requests[d] = s.requests[c] => d = c
           /\ Comments(post) \in DOMAIN s.stored => x \notin ToSet(s.stored[Comments(post)].value)

\* The frames of a request are named after it.
ASSUME DaprAssumption ==
  /\ IsFiniteSet(Calls) /\ Calls \subseteq Procs \ (Deliveries \cup Workers \cup PipeWorkers)
  /\ \A r \in DOMAIN FramesOf : FramesOf[r] \in Seq(ToSet(FramesOf[r]))
  /\ \A r, s \in DOMAIN FramesOf : ToSet(FramesOf[r]) \cap ToSet(FramesOf[s]) /= {} => r = s
  /\ ScenariosAssumption

VARIABLES
  scenario,
  started,          \* the calls that were sent
  overAt            \* history: the calls that were over when a call was sent

appVars == <<storeVars, timelineVars, missing, pipeVars, scenario, started, overAt>>

Over == {c \in started : ~Runs(c)}
Succeeded == {c \in Over : procs[c].ok}

Init ==
  /\ scenario \in Scenarios
  /\ StoreInit(scenario.stored, scenario.faults) /\ SocialInit(scenario.deliveries)
  /\ PipeInit
  /\ started = {} /\ overAt = [c \in Calls |-> {}]

\* Clients with the same request are alike: the lowest call goes first.
SendRequest(c) ==
  /\ c \in DOMAIN scenario.requests \ started
  /\ scenario.after[c] \subseteq Over
  /\ \A d \in DOMAIN scenario.requests \ started :
       d < c => scenario.requests[d] /= scenario.requests[c]
  /\ Begin(c, scenario.requests[c])
  /\ started' = started \cup {c}
  /\ overAt' = [overAt EXCEPT ![c] = Over]
  /\ UNCHANGED <<items, faults, timelineVars, missing, pipeVars, scenario>>

Handlers == Procs \ PipeWorkers
Work == \/ SocialStep /\ UNCHANGED pipeVars
        \/ /\ \E p \in Handlers : \/ StoreStep(p) /\ UNCHANGED timelineVars
                                  \/ PublishEvent(p) \/ PublishFails(p)
           /\ UNCHANGED <<missing, pipeVars>>
        \/ PipeStep /\ UNCHANGED missing
Step == Work /\ UNCHANGED <<scenario, started, overAt>>

\* A client may send nothing more, and the broker nothing more.
Next == Step \/ \E c \in Calls : SendRequest(c)
Spec == Init /\ [][Next]_appVars

-----------------------------------------------------------------------------
Sent(c) == ToSet(scenario.requests[c])
Value(key) == Item(key).value
Occurrences(x, list) == Cardinality({i \in DOMAIN list : list[i] = x})
Deleted == {post \in DOMAIN PostTime : \E c \in started : Delete(Content(post)) \in Sent(c)}
StoredKeys(kind) == {key \in DOMAIN items : key[1] = kind}

(* What one request did to a list another one may undo, if that one was not *)
(* over when the first was sent.                                            *)
Undone(c, edit) ==
  \E other \in started \ overAt[c] : \E command \in Sent(other) :
    /\ command.do = "edit" /\ command.key = edit.key
    /\ command.edit.val = edit.edit.val /\ command.edit.kind /= edit.edit.kind

Viewings(video) == {c \in started : \E command \in Sent(c) :
                      command.do = "edit" /\ command.key = Views(video)}

Kept(edit) ==
  LET value == Value(edit.key)
      val == edit.edit.val
  IN CASE edit.edit.kind \in {"add", "append"} -> Occurrences(val, value) = 1
       [] edit.edit.kind = "remove" -> Occurrences(val, value) = 0
       [] edit.edit.kind = "rating" -> val \in DOMAIN value
       [] edit.edit.kind = "view" ->
            value \in Cardinality(Viewings(val) \cap Succeeded)..Cardinality(Viewings(val))
       [] OTHER -> TRUE

CopyOf(event) == IF event.kind = "scale" THEN Scaled(event.about) ELSE Thumbnail(event.about)

(* Edits are kept: what a request that succeeded has put in an item that    *)
(* others edit at the same time is there, once: a follower, a comment, an   *)
(* upvote, a finding about a post, a view, a rating, a video of a date.     *)
(* A deletion of the post may take it, or a request for the contrary that   *)
(* overlaps.  A copy of a video is there when its handler has succeeded,    *)
(* and the frames of a request to the pipeline have their faces marked when *)
(* nothing of it is under way, unless a worker gave it up.                  *)
EditsKept ==
  /\ \A c \in Succeeded : \A edit \in Sent(c) :
       edit.do = "edit" => Kept(edit) \/ edit.key[2] \in Deleted \/ Undone(c, edit)
  /\ \A h \in handled :
       \/ h.event.kind \in TimelineEvents \/ h.event.about \in Deleted
       \/ IF h.event.kind \in {"scale", "thumbnail"}
          THEN CopyOf(h.event) \in DOMAIN items
          ELSE h.event.kind \in Value(Meta(h.event.about))
  /\ FacesMarked({r \in DOMAIN FramesOf :
       \E c \in Succeeded : \E command \in Sent(c) :
         command.do = "publish" /\ command.event.kind = "meta" /\ command.event.about = r})

(* Timelines are served: when the handler of a new post has succeeded, the  *)
(* post is once on the timelines of its author and of the followers it      *)
(* found, unless the post is deleted or the timeline had no room; when the  *)
(* handler of a removal has, and ran alone, the post is on none of them.    *)
TimelinesServed ==
  \A h \in handled : \A key \in h.keys :
    LET times == Occurrences(h.event.about, Value(key))
    IN IF h.event.kind = "remove" THEN h.alone => times = 0
       ELSE \/ times = 1 \/ h.event.about \in Deleted
            \/ MaxTimelineLen > 0 /\ Len(Value(key)) + Cardinality(Deleted) >= MaxTimelineLen

(* Nothing is missing: a post that a read of a timeline does not find was   *)
(* deleted, the videos of a date have their data and their meta data, and a *)
(* frame whose faces are asked for is stored.                               *)
NothingMissing ==
  /\ missing \subseteq Deleted
  /\ \A key \in StoredKeys("date") : \A video \in ToSet(Value(key)) :
       {Data(video), VideoMeta(video)} \subseteq DOMAIN items
  /\ FramesStored

Raters(video) == {key \in StoredKeys("ratings") : video \in DOMAIN Value(key)}
Rated(u, video, c) ==
  \E command \in Sent(c) :
    command.do = "edit" /\ command.key = RatingsBy(u) /\ command.edit.val = video

(* Ratings agree: the number and the total of the ratings of a video are    *)
(* those its users have stored, when every request to rate it has           *)
(* succeeded and no user has rated it twice.                                *)
RatingsAgree ==
  \A video \in {key[2] : key \in StoredKeys("rate")} :
    LET ratings == {c \in started : \E key \in StoredKeys("ratings") : Rated(key[2], video, c)}
    IN \/ \E c \in ratings : c \notin Succeeded
       \/ \E key \in StoredKeys("ratings") :
            Cardinality({c \in ratings : Rated(key[2], video, c)}) > 1
       \/ Value(Rating(video)) =
            [num |-> Cardinality(Raters(video)),
             total |-> MapThenSumSet(LAMBDA key : Value(key)[video], Raters(video))]

(* Updates end: again and again no handler of an event is at work, unless   *)
(* the handlers together had more jobs than the queue and the workers take: *)
(* a handler takes no result before it has queued its last job, and then    *)
(* all of them wait for each other.  And again and again the queues of each *)
(* stage of the pipeline are empty, unless all its workers have ended.      *)
UpdatesEnd ==
  []<>/\ crowded \/ \A d \in Deliveries : updates[d].at = "idle"
      /\ \A s \in Stages : StageDone(s)

(* The handlers of events and the workers go on while one of them can; the  *)
(* brokers need not deliver and clients need not send or go on.             *)
ServicesWork ==
  \/ \E d \in Deliveries :
       AnalysisEnds(d) \/ AskFollowers(d) \/ PushJob(d) \/ UpdateEnds(d)
  \/ \E w \in Workers : TakeJob(w) \/ SendResult(w)
  \/ \E p \in Deliveries \cup Workers :
       /\ \/ GetState(p) \/ GiveUp(p) \/ SaveBulkState(p) \/ EtagMismatch(p)
          \/ ReadState(p) \/ ReadNeeded(p) \/ WriteState(p)
       /\ UNCHANGED timelineVars
HandlersWork ==
  /\ \/ ServicesWork /\ UNCHANGED pipeVars
     \/ \E w \in PipeWorkers : WorkerStep(w)
  /\ UNCHANGED <<missing, scenario, started, overAt>>
FairSpec == Spec /\ WF_appVars(HandlersWork)
=============================================================================
