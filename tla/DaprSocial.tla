----------------------------- MODULE DaprSocial -----------------------------
(***************************************************************************)
(* The handlers of the Dapr social network (daprApps_v1/socialNetwork):    *)
(* registration, the social graph, the front end with the post service     *)
(* behind it, and the timeline reads.  A handler is the sequence of the    *)
(* commands it sends.                                                      *)
(*                                                                         *)
(* The id of a post holds the millisecond it was saved at.  Recommendation *)
(* and translation only read, and so do the lists of the graph and images. *)
(***************************************************************************)
EXTENDS DaprTimelines

VARIABLE missing    \* history: the posts a timeline listed and a read did not find

Content(post) == <<"content", post>>
Images(post) == <<"images", post>>
Meta(post) == <<"meta of post", post>>
Comments(post) == <<"comments", post>>
Upvotes(post) == <<"upvotes", post>>
Follows(u) == <<"follows", u>>

-----------------------------------------------------------------------------
(* The social graph.  A user follows itself from its registration on. *)

FollowUser(u, other) == <<Edit(Follows(u), "add", other), Edit(Followers(other), "add", u)>>
UnfollowUser(u, other) ==
  <<Edit(Follows(u), "remove", other), Edit(Followers(other), "remove", u)>>
Register(u) == FollowUser(u, u)

-----------------------------------------------------------------------------
(* Posts: what the post service does, and the front end with it. *)

SaveContent(post) == <<Store(Content(post))>>

\* DeleteBulkState names the four items of the post one by one.
DeleteItems(post) ==
  <<Delete(Content(post)), Delete(Meta(post)), Delete(Comments(post)), Delete(Upvotes(post))>>

Comment(post, comment) == <<Edit(Comments(post), "append", comment)>>
Upvote(post, u) == <<Edit(Upvotes(post), "add", u)>>

SaveImages(post, images) == IF images THEN <<Store(Images(post))>> ELSE <<>>
Analyses(u, post, images) ==
  (IF images THEN <<Publish(Event("objects", u, post))>> ELSE <<>>)
  \o <<Publish(Event("sentiment", u, post))>>

\* Mutant: the timelines are told of the post before it is stored.
PublishFirst(u, post, images) ==
  <<Publish(Event("add", u, post))>> \o SaveImages(post, images) \o SaveContent(post)
  \o Analyses(u, post, images)
SavePost(u, post, images) ==
  SaveImages(post, images) \o SaveContent(post) \o <<Publish(Event("add", u, post))>>
  \o Analyses(u, post, images)

\* The images of a deleted post stay.
DelPost(u, post) == DeleteItems(post) \o <<Publish(Event("remove", u, post))>>

-----------------------------------------------------------------------------
(* Timeline reads. *)

ReadTimeline(key, earliest, posts) ==
  <<[do |-> "page", key |-> key, earliest |-> earliest, posts |-> posts], [do |-> "posts"]>>

\* sort.Search finds some boundary of the list, the only one if the list is
\* sorted.
Boundaries(list, earliest) ==
  {i \in 0..Len(list) : /\ i < Len(list) => PostTime[list[i + 1]] >= earliest
                        /\ i > 0 => PostTime[list[i]] < earliest}

ReadPage(p) ==
  LET list == Item(Command(p).key).value
  IN /\ Turn(p, "page")
     /\ \E i \in Boundaries(list, Command(p).earliest) :
          LET last == IF i + Command(p).posts >= Len(list) THEN Len(list) ELSE i + Command(p).posts
              page == SubSeq(list, i + 1, last)
          IN procs' = [procs EXCEPT ![p] =
               [Idle EXCEPT !.todo = IF page = <<>> THEN <<>> ELSE Tail(procs[p].todo),
                            !.page = page]]
     /\ UNCHANGED <<items, faults, timelineVars, missing>>

\* A post without content is returned as a missing one.
ReadPosts(p) ==
  /\ Turn(p, "posts")
  /\ missing' = missing \cup {post \in ToSet(procs[p].page) : Content(post) \notin DOMAIN items}
  /\ Proceed(p)
  /\ UNCHANGED <<items, faults, timelineVars>>

SocialInit(deliveries) == TimelinesInit(deliveries) /\ missing = {}
SocialStep ==
  \/ TimelineStep /\ UNCHANGED missing
  \/ \E p \in Procs : ReadPage(p) \/ ReadPosts(p)
=============================================================================
