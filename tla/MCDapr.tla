------------------------------- MODULE MCDapr -------------------------------
(* Small instances of the Dapr applications. *)
EXTENDS DaprApps

MCPostTime == [old |-> 1, p |-> 2, q |-> 3]
MCCalls == 1..4
MCNames == {"ann", "bob", "cyd", "first", "second", "v", "w", "today"}
MCDeliveries == {11, 12}
MCWorkers == {21, 22}
MCPipeWorkers == 31..34
MCStageOf == [w \in MCPipeWorkers |-> CASE w = 31 -> "meta" [] w = 32 -> "scene"
                                        [] w > 32 -> "face"]
MCFramesOf == [r |-> <<"r.1", "r.2">>, s |-> <<"s.1">>]

Stored(values) == [key \in DOMAIN values |-> [etag |-> 1, value |-> values[key]]]
Registered == Followers("ann") :> <<"ann">>
TwoFollowers == Followers("ann") :> <<"ann", "bob">>
OldPost == (Content("old") :> "stored") @@ (UserTimeline("ann") :> <<"old">>)
             @@ (HomeTimeline("ann") :> <<"old">>)

Events(add, remove, analyses) ==
  [add |-> add, remove |-> remove, objects |-> analyses, sentiment |-> analyses,
   scale |-> analyses, thumbnail |-> analyses]
NoEvents == Events(0, 0, 0)
Scenario(stored, failing, deliveries, requests, after) ==
  [stored |-> Stored(stored), faults |-> failing, deliveries |-> deliveries,
   requests |-> requests, after |-> after]
Video == (Data("v") :> "stored") @@ (VideoMeta("v") :> "stored")

\* Follow and unfollow on the same two lists.
Graph == Scenario(Registered, 1, NoEvents,
  <<FollowUser("bob", "ann"), UnfollowUser("bob", "ann"), FollowUser("cyd", "ann"), Register("bob")>>,
  <<{}, {}, {}, {}>>)

\* A post with images is analysed while others comment on it.
Popular == Scenario(Registered, 1, Events(0, 0, 1),
  <<SavePost("ann", "p", TRUE), Comment("p", "first"), Comment("p", "second"),
    DelPost("ann", "p")>>,
  <<{}, {1}, {1}, {1, 2}>>)

\* Upvotes of an old post.
Liked == Scenario(OldPost, 1, NoEvents,
  <<Upvote("old", "ann"), Upvote("old", "bob"), Upvote("old", "bob"), Upvote("old", "cyd")>>,
  <<{}, {}, {}, {}>>)

\* Two posts of an author with a post, and a read.
TwoPosts == Scenario(Registered @@ OldPost, 0, Events(2, 0, 0),
  <<SavePost("ann", "p", FALSE), SavePost("ann", "q", FALSE),
    ReadTimeline(HomeTimeline("ann"), 2, 1)>>,
  <<{}, {}, {1, 2}>>)

\* A post is deleted while its events are under way.
Withdrawn == Scenario(Registered, 0, Events(2, 1, 0),
  <<SavePost("ann", "p", FALSE), DelPost("ann", "p"),
    ReadTimeline(HomeTimeline("ann"), 1, 2)>>,
  <<{}, {1}, {}>>)

\* The updates of one post fail.
Unlucky == Scenario(TwoFollowers @@ OldPost, 2, Events(2, 0, 0),
  <<SavePost("ann", "p", FALSE)>>, <<{}>>)

\* Two posts with more jobs than the queue and the workers take.
Crowd == Scenario(TwoFollowers, 0, Events(2, 0, 0),
  <<SavePost("ann", "p", FALSE), SavePost("ann", "q", FALSE)>>, <<{}, {}>>)

\* A video is watched and rated, by one user a second time.
Watched == Scenario(Video, 1, NoEvents,
  <<GetVideoData("v"), GetVideoData("v"), RateVideo("ann", "v", 3), RateVideo("bob", "v", 5)>>,
  <<{}, {}, {}, {}>>)
Rerated == Scenario(Video, 1, NoEvents,
  <<RateVideo("ann", "v", 3), RateVideo("ann", "v", 4), RateVideo("bob", "v", 5),
    VideosOfDate("today") \o GetVideoInfo("v") \o GetVideoRating("ann")>>,
  <<{}, {1}, {}, {}>>)

\* Two videos of one date, one of them copied.
Uploads == Scenario(<<>>, 1, Events(0, 0, 1),
  <<UploadVideo("v", "today"), UploadVideo("w", "today")>>, <<{}, {}>>)

\* Two requests to the pipeline; the reads of a frame fail.
Pipeline == Scenario(<<>>, 1, NoEvents, <<Request("r", "low"), Request("s", "high")>>, <<{}, {}>>)
Blurred == Scenario(<<>>, 3, NoEvents, <<Request("s", "low")>>, <<{}>>)

MCScenarios == {Graph, Popular, Liked, TwoPosts, Withdrawn, Unlucky, Crowd, Watched, Rerated, Uploads,
                Pipeline, Blurred}
=============================================================================
