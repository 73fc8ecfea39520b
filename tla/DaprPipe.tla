------------------------------ MODULE DaprPipe ------------------------------
(***************************************************************************)
(* The video pipeline of the Dapr applications (daprApps_v1/video-pipe):   *)
(* video-meta reads a stored video and asks for its scenes, video-scene    *)
(* stores some frames of it and asks for the faces of each, face-detect    *)
(* stores the frames again with the faces marked.  Each stage has a        *)
(* handler that puts its events on one of two queues, by their priority,   *)
(* and worker processes that read the urgent queue until it is empty and   *)
(* then one event of the other.                                            *)
(*                                                                         *)
(* The event is acknowledged when it is queued, and the broker of the      *)
(* pipeline delivers none again.  A video or a frame that cannot be read   *)
(* or decoded is dropped, and so is a frame on which the detection reports *)
(* an error of its library; after any other exception of the detection the *)
(* frame is saved as it was read.  In all these cases the worker goes on.  *)
(* A save or a publication that fails ends the worker process, and nobody  *)
(* starts another.                                                         *)
(***************************************************************************)
EXTENDS DaprTimelines

CONSTANTS
  PipeWorkers,      \* worker processes
  StageOf,          \* the stage of each
  FramesOf          \* the requests, each with the frames of its video

Stages == {"meta", "scene", "face"}
Priorities == {"high", "low"}

ASSUME DaprPipeAssumption ==
  /\ PipeWorkers \subseteq Procs \ (Deliveries \cup Workers)
  /\ StageOf \in [PipeWorkers -> Stages]

VARIABLES
  line,             \* the queues of each stage
  crew,             \* where a worker is in its loop, and its event
  lost              \* history: the requests and frames a worker gave up or saved without marks

pipeVars == <<line, crew, lost>>

\* The user of such an event is its priority.
Request(request, priority) == <<Publish(Event("meta", priority, request))>>
Footage(request) == <<"footage", request>>
Frame(frame) == <<"frame", frame>>

PipeInit ==
  /\ line = [s \in Stages |-> [priority \in Priorities |-> <<>>]]
  /\ crew = [w \in PipeWorkers |-> [at |-> "high", job |-> NoEvent]]
  /\ lost = {}

PutRequest(e) ==
  /\ e \in pending /\ e.kind \in Stages
  /\ line' = [line EXCEPT ![e.kind][e.user] = Append(@, e)]
  /\ pending' = pending \ {e}
  /\ UNCHANGED <<storeVars, broker, handlerVars, crew, lost>>

-----------------------------------------------------------------------------
(* What a worker does with an event. *)

ExtractMeta(e) == <<Get(Footage(e.about)), Publish(Event("scene", e.user, e.about))>>

Frames(e) == [i \in DOMAIN FramesOf[e.about] |-> Save(Frame(FramesOf[e.about][i]), "found")]
Faces(e) ==
  [i \in DOMAIN FramesOf[e.about] |-> Publish(Event("face", e.user, FramesOf[e.about][i]))]

\* Mutant: the faces are asked for before the frames are stored.
FacesFirst(e) == <<Get(Footage(e.about))>> \o Faces(e) \o Frames(e)
ExtractScene(e) == <<Get(Footage(e.about))>> \o Frames(e) \o Faces(e)

FaceDetect(e) == <<Get(Frame(e.about)), Save(Frame(e.about), "marked")>>

Job(e) ==
  CASE e.kind = "meta" -> ExtractMeta(e)
    [] e.kind = "scene" -> ExtractScene(e)
    [] e.kind = "face" -> FaceDetect(e)

-----------------------------------------------------------------------------
(* The loop of a worker. *)

Waiting(w, priority) == line[StageOf[w]][priority]

\* Workers of a stage that wait are alike: the lowest takes the event.
First(w, at) == \A other \in PipeWorkers :
                  StageOf[other] = StageOf[w] /\ crew[other].at = at => w <= other

Take(w, priority) ==
  /\ crew[w].at = priority /\ Waiting(w, priority) /= <<>> /\ First(w, priority)
  /\ line' = [line EXCEPT ![StageOf[w]][priority] = Tail(@)]
  /\ crew' = [crew EXCEPT ![w] = [at |-> "work", job |-> Head(Waiting(w, priority))]]
  /\ Begin(w, Job(Head(Waiting(w, priority))))
  /\ UNCHANGED <<items, faults, pending, broker, handlerVars, lost>>

\* The wait for an urgent event times out.
TimesOut(w) ==
  /\ crew[w].at = "high" /\ Waiting(w, "high") = <<>> /\ First(w, "high")
  /\ Waiting(w, "low") /= <<>>
  /\ crew' = [crew EXCEPT ![w].at = "low"]
  /\ UNCHANGED <<storeVars, timelineVars, line, lost>>

\* Another worker was faster.
FindsNothing(w) ==
  /\ crew[w].at = "low" /\ Waiting(w, "low") = <<>>
  /\ crew' = [crew EXCEPT ![w].at = "high"]
  /\ UNCHANGED <<storeVars, timelineVars, line, lost>>

Works(w) ==
  /\ crew[w].at = "work"
  /\ \/ (ReadState(w) \/ WriteState(w)) /\ UNCHANGED timelineVars
     \/ PublishEvent(w)
  /\ UNCHANGED pipeVars

JobEnds(w) ==
  /\ crew[w].at = "work" /\ ~Runs(w)
  /\ crew' = [crew EXCEPT ![w] = [at |-> "high", job |-> NoEvent]]
  /\ UNCHANGED <<storeVars, timelineVars, line, lost>>

\* A frame is read three times before it is given up, and given up at once
\* when it cannot be decoded or the library fails on it.
ReadFails(w) ==
  /\ OneFault /\ crew[w].at = "work" /\ Turn(w, "get")
  /\ \/ /\ crew[w].job.kind = "face" /\ procs[w].tries < 2
        /\ procs' = [procs EXCEPT ![w].tries = @ + 1] /\ UNCHANGED lost
     \/ Fail(w) /\ lost' = lost \cup {crew[w].job.about}
  /\ UNCHANGED <<items, timelineVars, line, crew>>

\* Any other exception of the detection is logged, and what was read is what
\* the worker goes on to save.
DetectFails(w) ==
  /\ OneFault /\ crew[w].at = "work" /\ crew[w].job.kind = "face" /\ Turn(w, "get")
  /\ LET frame == Frame(crew[w].job.about)
     IN Begin(w, <<Save(frame, Item(frame).value)>>)
  /\ lost' = lost \cup {crew[w].job.about}
  /\ UNCHANGED <<items, timelineVars, line, crew>>

\* A save or a publication that failed may have been carried out.
WorkerDies(w) ==
  /\ OneFault /\ crew[w].at = "work" /\ (Turn(w, "store") \/ Turn(w, "publish"))
  /\ IF Turn(w, "store") THEN (Writes(w) \/ UNCHANGED items) /\ UNCHANGED pending
     ELSE pending' \in {pending, pending \cup {Command(w).event}} /\ UNCHANGED items
  /\ Fail(w)
  /\ crew' = [crew EXCEPT ![w] = [at |-> "dead", job |-> NoEvent]]
  /\ lost' = lost \cup {crew[w].job.about}
  /\ UNCHANGED <<broker, handlerVars, line>>

WorkerStep(w) == \/ \E priority \in Priorities : Take(w, priority)
                 \/ TimesOut(w) \/ FindsNothing(w) \/ Works(w) \/ JobEnds(w)
PipeStep == \/ \E e \in pending : PutRequest(e)
            \/ \E w \in PipeWorkers : WorkerStep(w) \/ ReadFails(w) \/ DetectFails(w) \/ WorkerDies(w)

-----------------------------------------------------------------------------
Queued == UNION {ToSet(line[s][priority]) : s \in Stages, priority \in Priorities}
InHand == {crew[w].job : w \in PipeWorkers} \ {NoEvent}
UnderWay == pending \cup Queued \cup InHand

(* A frame whose faces are asked for is stored. *)
FramesStored == \A e \in UnderWay : e.kind = "face" => Frame(e.about) \in DOMAIN items

(* A request that reached the broker is under way, or given up, or the      *)
(* faces on each of its frames are marked, or that frame is under way or    *)
(* given up or was saved without marks after an exception.                  *)
Settled(about) == about \in lost \/ \E e \in UnderWay : e.about = about
FacesMarked(requests) ==
  \A request \in requests :
    \/ Settled(request)
    \/ \A frame \in ToSet(FramesOf[request]) :
         Settled(frame) \/ Item(Frame(frame)).value = "marked"

(* The queues of a stage are empty, or all its workers have ended. *)
StageDone(s) == \/ \A priority \in Priorities : line[s][priority] = <<>>
                \/ \A w \in PipeWorkers : StageOf[w] = s => crew[w].at = "dead"
=============================================================================
