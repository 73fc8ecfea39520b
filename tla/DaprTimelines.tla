---------------------------- MODULE DaprTimelines ----------------------------
(***************************************************************************)
(* The events of the Dapr social network and of the video site and their   *)
(* subscribers: the timeline-update service, whose handler queues one job  *)
(* per timeline for a fixed number of workers and then waits for their     *)
(* results; the two analyses of a post, which store what they find in its  *)
(* meta data; the copies of a video, which are made from the stored one.   *)
(*                                                                         *)
(* A delivery is a handler that runs for one event.  The broker delivers   *)
(* the events in any order and delivers one again while it is handled for  *)
(* too long; a handler that fails drops its event.  Idle deliveries are    *)
(* alike, and so are idle workers: the lowest takes the next event or job. *)
(***************************************************************************)
EXTENDS DaprStore

CONSTANTS
  Deliveries,       \* handlers of events
  Workers,          \* workers of the timeline-update service (WORKER)
  Outstand          \* capacity of its queue (MAX_OUTSTAND)

ASSUME DaprTimelinesAssumption ==
  /\ Deliveries \cup Workers \subseteq Procs /\ Deliveries \cap Workers = {}
  /\ Outstand \in Nat \ {0}

VARIABLES
  pending,          \* the events that are published and not acknowledged
  broker,           \* bound: how many deliveries are left for each kind of event
  updates,          \* what a delivery has done
  queue,            \* the jobs no worker has taken
  jobs,             \* the job of each worker
  handled,          \* history: the events whose handlers succeeded, the timelines they
                    \* wrote, and if no other event about the post was under way
  crowded           \* history: more jobs were in hand than queue and workers take

timelineVars == <<pending, broker, updates, queue, jobs, handled, crowded>>
handlerVars == <<updates, queue, jobs, handled, crowded>>

Event(kind, user, about) == [kind |-> kind, user |-> user, about |-> about]
TimelineEvents == {"add", "remove"}
SubscribedEvents == TimelineEvents \cup {"sentiment", "objects", "scale", "thumbnail"}

UserTimeline(u) == <<"user timeline", u>>
HomeTimeline(u) == <<"home timeline", u>>
Followers(u) == <<"followers", u>>
Data(video) == <<"video", video>>
Scaled(video) == <<"scaled", video>>
Thumbnail(video) == <<"thumbnail", video>>

NoEvent == Event("none", "none", "none")
NoUpdate == [event |-> NoEvent, at |-> "idle", keys |-> <<>>, sent |-> 0, got |-> 0, ok |-> TRUE,
             alone |-> FALSE]
NoJob == [delivery |-> 0, index |-> 0]

TimelinesInit(deliveries) ==
  /\ pending = {} /\ broker = deliveries
  /\ updates = [d \in Deliveries |-> NoUpdate]
  /\ queue = <<>> /\ jobs = [w \in Workers |-> NoJob]
  /\ handled = {} /\ crowded = FALSE

-----------------------------------------------------------------------------
PublishEvent(p) ==
  /\ Turn(p, "publish")
  /\ pending' = pending \cup {Command(p).event}
  /\ Proceed(p)
  /\ UNCHANGED <<items, faults, broker, handlerVars>>

\* An event whose publication failed may be delivered all the same.
PublishFails(p) ==
  /\ OneFault /\ Turn(p, "publish")
  /\ Fail(p)
  /\ pending' \in {pending, pending \cup {Command(p).event}}
  /\ UNCHANGED <<items, broker, handlerVars>>

IdleDeliveries == {d \in Deliveries : updates[d].at = "idle"}

\* The analyses of a post: each sets a field of the meta data of the post.
UpdateMeta(post, field) == Edit(<<"meta of post", post>>, "meta", field)
SentimentAnalysis(post) == <<UpdateMeta(post, "sentiment")>>
ObjectDetect(post) == <<Get(<<"images", post>>), UpdateMeta(post, "objects")>>

\* The copies of a video: one stands for those of all widths.
ScaleVideo(video) == <<Need(Data(video)), Store(Scaled(video))>>
VideoThumbnail(video) == <<Need(Data(video)), Store(Thumbnail(video))>>

\* No other event about the timelines of the post is under way.
Alone(d, e) ==
  /\ \A other \in pending \ {e} : other.about = e.about => other.kind \notin TimelineEvents
  /\ \A other \in Deliveries \ {d} :
       updates[other].event.about = e.about => updates[other].event.kind \notin TimelineEvents

Deliver(d, e) ==
  /\ e \in pending /\ e.kind \in SubscribedEvents /\ broker[e.kind] > 0
  /\ d \in IdleDeliveries /\ \A other \in IdleDeliveries : d <= other
  /\ broker' = [broker EXCEPT ![e.kind] = @ - 1]
  /\ updates' = [updates EXCEPT ![d] = [NoUpdate EXCEPT !.event = e, !.alone = Alone(d, e),
                   !.at = IF e.kind \in TimelineEvents THEN "followers" ELSE "analysis"]]
  /\ CASE e.kind = "sentiment" -> Begin(d, SentimentAnalysis(e.about))
       [] e.kind = "objects" -> Begin(d, ObjectDetect(e.about))
       [] e.kind = "scale" -> Begin(d, ScaleVideo(e.about))
       [] e.kind = "thumbnail" -> Begin(d, VideoThumbnail(e.about))
       [] OTHER -> UNCHANGED procs
  /\ UNCHANGED <<items, faults, pending, queue, jobs, handled, crowded>>

Acknowledge(d) ==
  /\ pending' = pending \ {updates[d].event}
  /\ updates' = [updates EXCEPT ![d] = NoUpdate]

Handled(d) == [event |-> updates[d].event, keys |-> ToSet(updates[d].keys),
               alone |-> updates[d].alone]

\* A failed analysis is logged and its event is gone.
AnalysisEnds(d) ==
  /\ updates[d].at = "analysis" /\ ~Runs(d)
  /\ Acknowledge(d)
  /\ handled' = IF procs[d].ok THEN handled \cup {Handled(d)} ELSE handled
  /\ UNCHANGED <<storeVars, broker, queue, jobs, crowded>>

-----------------------------------------------------------------------------
(* updateHandler *)

Listeners(u) == ToSet(Item(Followers(u)).value)

\* The timeline of the author comes first, then those of the followers.
Targets(u) ==
  <<UserTimeline(u)>> \o [i \in DOMAIN Item(Followers(u)).value |->
                            HomeTimeline(Item(Followers(u)).value[i])]

Handling == {d \in Deliveries : updates[d].at \in {"push", "collect"}}

AskFollowers(d) ==
  LET u == updates[d].event.user
      others == MapThenSumSet(LAMBDA e : Len(updates[e].keys), Handling)
  IN /\ updates[d].at = "followers"
     /\ updates' = [updates EXCEPT ![d].at = "push", ![d].keys = Targets(u)]
     /\ crowded' = (crowded \/ others + Len(Targets(u)) > Cardinality(Workers) + Outstand)
     /\ UNCHANGED <<storeVars, pending, broker, queue, jobs, handled>>

AskFails(d) ==
  /\ OneFault /\ updates[d].at = "followers"
  /\ Acknowledge(d)
  /\ UNCHANGED <<items, procs, broker, queue, jobs, handled, crowded>>

\* All jobs are queued before the first result is taken.
PushJob(d) ==
  LET next == updates[d].sent + 1
  IN /\ updates[d].at = "push" /\ Len(queue) < Outstand
     /\ queue' = Append(queue, [delivery |-> d, index |-> next])
     /\ updates' = [updates EXCEPT ![d].sent = next,
          ![d].at = IF next = Len(updates[d].keys) THEN "collect" ELSE @]
     /\ UNCHANGED <<storeVars, pending, broker, jobs, handled, crowded>>

JobOf(w) == updates[jobs[w].delivery]
IdleWorkers == {w \in Workers : jobs[w] = NoJob}

\* The workers share one generator of random numbers, which must not be used by
\* two at once: that it may then end the process is left out.
TakeJob(w) ==
  LET job == Head(queue)
      event == updates[job.delivery].event
  IN /\ queue /= <<>>
     /\ w \in IdleWorkers /\ \A other \in IdleWorkers : w <= other
     /\ queue' = Tail(queue)
     /\ jobs' = [jobs EXCEPT ![w] = job]
     /\ Begin(w, <<Edit(updates[job.delivery].keys[job.index],
                        IF event.kind = "add" THEN "post" ELSE "remove", event.about)>>)
     /\ UNCHANGED <<items, faults, pending, broker, updates, handled, crowded>>

\* Mutant: a worker that failed goes on to its next job.
SendIfDone(w) ==
  LET d == jobs[w].delivery
  IN /\ jobs[w] /= NoJob /\ ~Runs(w)
     /\ procs[w].ok => updates[d].at = "collect" /\ jobs[w].index = updates[d].got + 1
     /\ updates' = IF procs[w].ok THEN [updates EXCEPT ![d].got = @ + 1] ELSE updates
     /\ jobs' = [jobs EXCEPT ![w] = NoJob]
     /\ UNCHANGED <<storeVars, pending, broker, queue, handled, crowded>>

\* Mutant: the handler does not look at the results.
SendUnread(w) ==
  LET d == jobs[w].delivery
  IN /\ jobs[w] /= NoJob /\ ~Runs(w)
     /\ updates[d].at = "collect" /\ jobs[w].index = updates[d].got + 1
     /\ updates' = [updates EXCEPT ![d].got = @ + 1]
     /\ jobs' = [jobs EXCEPT ![w] = NoJob]
     /\ UNCHANGED <<storeVars, pending, broker, queue, handled, crowded>>

\* The channel of a result has no buffer: the worker waits until the handler
\* has queued everything and has taken the results of the jobs before.
SendResult(w) ==
  LET d == jobs[w].delivery
  IN /\ jobs[w] /= NoJob /\ ~Runs(w)
     /\ updates[d].at = "collect" /\ jobs[w].index = updates[d].got + 1
     /\ updates' = [updates EXCEPT ![d].got = @ + 1, ![d].ok = @ /\ procs[w].ok]
     /\ jobs' = [jobs EXCEPT ![w] = NoJob]
     /\ UNCHANGED <<storeVars, pending, broker, queue, handled, crowded>>

\* A failure is returned without a request to retry.
UpdateEnds(d) ==
  /\ updates[d].at = "collect" /\ updates[d].got = Len(updates[d].keys)
  /\ handled' = IF updates[d].ok THEN handled \cup {Handled(d)} ELSE handled
  /\ Acknowledge(d)
  /\ UNCHANGED <<storeVars, broker, queue, jobs, crowded>>

TimelineStep ==
  \/ \E d \in Deliveries :
       \/ \E e \in pending : Deliver(d, e)
       \/ AnalysisEnds(d) \/ AskFollowers(d) \/ AskFails(d) \/ PushJob(d) \/ UpdateEnds(d)
  \/ \E w \in Workers : TakeJob(w) \/ SendResult(w)
=============================================================================
