------------------------------ MODULE DaprVideo ------------------------------
(***************************************************************************)
(* The handlers of the Dapr video site (daprApps_v1/video-sharing): the    *)
(* front end and the services behind it, video-info, user-rating and       *)
(* dates.  The ranking of the trending service only reads.                 *)
(***************************************************************************)
EXTENDS DaprTimelines

VideoMeta(video) == <<"meta of video", video>>
Rating(video) == <<"rate", video>>
Views(video) == <<"views", video>>
Date(date) == <<"date", date>>
RatingsBy(u) == <<"ratings", u>>

-----------------------------------------------------------------------------
(* What the services behind the front end do. *)

SaveMeta(video) == <<Store(VideoMeta(video))>>
AddToDate(video, date) == <<Edit(Date(date), "add", video)>>
CountView(video) == <<Edit(Views(video), "view", video)>>
ReadInfo(video) == <<Get(VideoMeta(video)), Get(Rating(video)), Get(Views(video))>>

\* The second command counts what the first one found.
StoreRating(u, video, score) == <<Rate(RatingsBy(u), "rating", video, score)>>
CountRating(video, score) == <<Rate(Rating(video), "score", video, score)>>

-----------------------------------------------------------------------------
(* The front end. *)

Copies(video) == <<Publish(Event("scale", "none", video)), Publish(Event("thumbnail", "none", video))>>

\* Mutant: the copies are asked for before the video is stored.
CopiesFirst(video, date) ==
  Copies(video) \o <<Store(Data(video))>> \o SaveMeta(video) \o AddToDate(video, date)
UploadVideo(video, date) ==
  <<Store(Data(video))>> \o Copies(video) \o SaveMeta(video) \o AddToDate(video, date)
GetVideoData(video) == CountView(video) \o <<Get(Data(video))>>
RateVideo(u, video, score) == StoreRating(u, video, score) \o CountRating(video, score)
GetVideoInfo(video) == <<Get(Thumbnail(video))>> \o ReadInfo(video)
GetVideoRating(u) == <<Get(RatingsBy(u))>>
VideosOfDate(date) == <<Get(Date(date))>>
=============================================================================
