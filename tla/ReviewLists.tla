----------------------------- MODULE ReviewLists -----------------------------
(***************************************************************************)
(* The reviews of a movie in the media services                            *)
(* (mediaMicroservices/src/MovieReviewService/MovieReviewHandler.h; the    *)
(* reviews of a user, UserReviewService/UserReviewHandler.h, are the same  *)
(* code) and the storage of the reviews themselves                         *)
(* (ReviewStorageService/ReviewStorageHandler.h).  MongoDB keeps the list, *)
(* the newest review first; Redis keeps a sorted set of some of it, which  *)
(* an upload extends only when it is not empty and a read that does not    *)
(* find its page there replaces, with two commands.                        *)
(*                                                                         *)
(* The module follows one list.  A compose-review call stores its review   *)
(* and lists it from different threads (see ComposeReview), so a reader    *)
(* may meet a review in the list that is not stored yet.                   *)
(***************************************************************************)
EXTENDS Integers, FiniteSets, Sequences

CONSTANTS
  ReviewUploads,    \* the calls that upload a review, named after the review
  Reads,            \* the calls that read a page of the list
  Pages,            \* the pages <<start, stop>> that are read
  MaxActive,        \* bound: calls at a time
  MaxListFailures   \* bound: commands that fail

ASSUME ReviewListsAssumption ==
  /\ ReviewUploads \cap Reads = {} /\ Pages \subseteq Nat \X Nat
  /\ MaxActive \in Nat \ {0} /\ MaxListFailures \in Nat

VARIABLES
  now,              \* how many uploads have taken their timestamp
  stored,           \* the reviews that can be read
  listed,           \* the list in MongoDB
  cached,           \* the sorted set in Redis
  upload,           \* an upload: what it has still to do, its timestamp, its answer
  read,             \* a read: what it has still to do, its page, its answer
  raced,            \* history: may Redis and MongoDB differ?
  overlapped,       \* history: the reads that another call overlapped
  sure,             \* history: the reads that began with a list that had not raced
                    \*   and since which no upload has begun
  listFailures,     \* history: how much has failed,
  faulted           \* history: and for whom

stores == <<stored, listed, cached>>
calls == <<upload, read>>
history == <<raced, overlapped, sure>>
listFaults == <<listFailures, faulted>>
listVars == <<now, stores, calls, history, listFaults>>

Calls == ReviewUploads \cup Reads

ListInit ==
  /\ now = 0 /\ stored = {} /\ listed = <<>> /\ cached = {}
  /\ upload = [c \in ReviewUploads |-> [todo |-> {"start"}, at |-> 0, ok |-> TRUE]]
  /\ read = [c \in Reads |-> [todo |-> {"start"}, start |-> 0, stop |-> 0, page |-> <<>>,
                              slice |-> {}, ok |-> TRUE]]
  /\ raced = FALSE /\ overlapped = {} /\ sure = {}
  /\ listFailures = 0 /\ faulted = {}

Members(s) == {s[i] : i \in DOMAIN s}
InTimeOrder(list) == \A i, j \in DOMAIN list : i < j => list[i].at > list[j].at
Newest(entries) == CHOOSE list \in [1..Cardinality(entries) -> entries] : InTimeOrder(list)
Page(list, start, stop) == SubSeq(list, start + 1, IF stop < Len(list) THEN stop ELSE Len(list))
Reviews(list) == [i \in DOMAIN list |-> list[i].review]

UploadsActive == {c \in ReviewUploads : upload[c].todo \notin {{"start"}, {}}}
ReadsActive == {c \in Reads : read[c].todo \notin {{"start"}, {}}}

Entry(c) == [review |-> c, at |-> upload[c].at]
UploadAt(c, step) == step \in upload[c].todo
UploadGoes(c, from, to) == upload' = [upload EXCEPT ![c].todo = (@ \ {from}) \cup to]

-----------------------------------------------------------------------------
(* A composed review is stored and listed. *)

StartUpload(c) ==
  /\ UploadAt(c, "start") /\ Cardinality(UploadsActive \cup ReadsActive) < MaxActive
  /\ now' = now + 1
  /\ upload' = [upload EXCEPT ![c].todo = {"store", "find"}, ![c].at = now + 1]
  /\ raced' = (raced \/ UploadsActive \cup ReadsActive /= {})
  /\ overlapped' = overlapped \cup ReadsActive
  /\ sure' = {}
  /\ UNCHANGED <<stores, read, listFaults>>

StoreReview(c) ==
  /\ UploadAt(c, "store")
  /\ stored' = stored \cup {c}
  /\ UploadGoes(c, "store", {})
  /\ UNCHANGED <<now, listed, cached, read, history, listFaults>>

\* The first review of a movie inserts the document, later ones update it.
FindDocument(c) ==
  /\ UploadAt(c, "find")
  /\ UploadGoes(c, "find", IF listed = <<>> THEN {"insert"} ELSE {"push"})
  /\ UNCHANGED <<now, stores, read, history, listFaults>>

\* Mutant: without the unique index the second of two first reviews makes a
\* document that no query finds.
InsertAnyway(c) ==
  /\ UploadAt(c, "insert")
  /\ listed' = IF listed = <<>> THEN <<Entry(c)>> ELSE listed
  /\ UploadGoes(c, "insert", {"card"})
  /\ UNCHANGED <<now, stored, cached, read, history, listFaults>>

\* The unique index on movie_id refuses the second of two first reviews:
\* the review is stored, the list does not have it, and the call fails.
InsertDocument(c) ==
  /\ UploadAt(c, "insert")
  /\ IF listed = <<>>
     THEN listed' = <<Entry(c)>> /\ UploadGoes(c, "insert", {"card"})
     ELSE /\ upload' = [upload EXCEPT ![c].todo = @ \ {"insert"}, ![c].ok = FALSE]
          /\ UNCHANGED listed
  /\ UNCHANGED <<now, stored, cached, read, history, listFaults>>

PushReview(c) ==
  /\ UploadAt(c, "push")
  /\ listed' = <<Entry(c)>> \o listed
  /\ UploadGoes(c, "push", {"card"})
  /\ UNCHANGED <<now, stored, cached, read, history, listFaults>>

\* Mutant: only an empty sorted set is extended.
CountCachedSwapped(c) ==
  /\ UploadAt(c, "card")
  /\ UploadGoes(c, "card", IF cached = {} THEN {"zadd"} ELSE {})
  /\ UNCHANGED <<now, stores, read, history, listFaults>>

\* ZCARD: an empty sorted set stays empty, the next read will fill it.
CountCached(c) ==
  /\ UploadAt(c, "card")
  /\ UploadGoes(c, "card", IF cached = {} THEN {} ELSE {"zadd"})
  /\ UNCHANGED <<now, stores, read, history, listFaults>>

AddToCached(c) ==
  /\ UploadAt(c, "zadd")
  /\ cached' = cached \cup {Entry(c)}
  /\ UploadGoes(c, "zadd", {})
  /\ UNCHANGED <<now, stored, listed, read, history, listFaults>>

ListFault(c) ==
  /\ listFailures < MaxListFailures
  /\ listFailures' = listFailures + 1 /\ faulted' = faulted \cup {c}

\* An error of the cursor is taken for no document.
FindErrs(c) ==
  /\ UploadAt(c, "find") /\ ListFault(c)
  /\ UploadGoes(c, "find", {"insert"})
  /\ UNCHANGED <<now, stores, read, history>>

\* The call fails with its command, except that nobody looks at the replies
\* of Redis: then it skips ZADD, or ZADD is lost.
UploadStepFails(c, step) ==
  /\ ListFault(c) /\ UploadAt(c, step) /\ step /= "start"
  /\ \E noticed \in {TRUE, step \notin {"card", "zadd"}} :
       upload' = [upload EXCEPT ![c].todo = @ \ {step}, ![c].ok = @ /\ ~noticed]
  /\ raced' = TRUE
  /\ UNCHANGED <<now, stores, read, overlapped, sure>>

UploadNext(c) ==
  \/ StartUpload(c) \/ StoreReview(c) \/ FindDocument(c) \/ InsertDocument(c) \/ PushReview(c)
  \/ CountCached(c) \/ AddToCached(c) \/ FindErrs(c)
  \/ \E step \in {"store", "find", "insert", "push", "card", "zadd"} : UploadStepFails(c, step)

-----------------------------------------------------------------------------
(* A read of a page. *)

ReadAt(c, step) == step \in read[c].todo

StartRead(c) ==
  /\ ReadAt(c, "start") /\ Cardinality(UploadsActive \cup ReadsActive) < MaxActive
  /\ \E page \in Pages :
       read' = [read EXCEPT ![c].start = page[1], ![c].stop = page[2],
                  ![c].todo = IF page[2] <= page[1] THEN {} ELSE {"range"}]
  /\ raced' = (raced \/ UploadsActive /= {})
  /\ overlapped' = overlapped \cup ReadsActive
       \cup (IF UploadsActive \cup ReadsActive = {} THEN {} ELSE {c})
  /\ sure' = sure \cup (IF raced \/ UploadsActive /= {} THEN {} ELSE {c})
  /\ UNCHANGED <<now, stores, upload, listFaults>>

RangeCached(c) ==
  LET page == Reviews(Page(Newest(cached), read[c].start, read[c].stop))
  IN /\ ReadAt(c, "range")
     /\ read' = [read EXCEPT ![c].page = page,
          ![c].todo = IF read[c].start + Len(page) < read[c].stop THEN {"find"} ELSE {"reviews"}]
     /\ UNCHANGED <<now, stores, upload, history, listFaults>>

\* Mutant: the document's reviews are taken from the start of the page on,
\* not from where Redis ended.
TakeFromStart(c) ==
  LET slice == Page(listed, 0, read[c].stop)
  IN /\ ReadAt(c, "find")
     /\ read' = [read EXCEPT ![c].slice = Members(slice),
          ![c].page = @ \o SubSeq(Reviews(slice), read[c].start + 1, Len(slice)),
          ![c].todo = {"reviews"} \cup (IF slice = <<>> THEN {} ELSE {"del"})]
     /\ UNCHANGED <<now, stores, upload, history, listFaults>>

\* The rest of the page comes from MongoDB; whether Redis gave a review
\* already is not looked at.
FindReviews(c) ==
  LET slice == Page(listed, 0, read[c].stop)
      from == read[c].start + Len(read[c].page) + 1
  IN /\ ReadAt(c, "find")
     /\ read' = [read EXCEPT ![c].slice = Members(slice),
          ![c].page = @ \o SubSeq(Reviews(slice), from, Len(slice)),
          ![c].todo = {"reviews"} \cup (IF slice = <<>> THEN {} ELSE {"del"})]
     /\ UNCHANGED <<now, stores, upload, history, listFaults>>

\* ReadReviews refuses a review that is asked for twice, and fails when one
\* is not stored ("Return set incomplete").
ReadReviews(c) ==
  LET page == read[c].page
  IN /\ ReadAt(c, "reviews")
     /\ read' = [read EXCEPT ![c].todo = @ \ {"reviews"},
          ![c].ok = @ /\ Cardinality(Members(page)) = Len(page) /\ Members(page) \subseteq stored]
     /\ UNCHANGED <<now, stores, upload, history, listFaults>>

\* Redis gets DEL and then ZADD, while a task reads the reviews.
ClearCached(c) ==
  /\ ReadAt(c, "del")
  /\ cached' = {}
  /\ read' = [read EXCEPT ![c].todo = (@ \ {"del"}) \cup {"refill"}]
  /\ UNCHANGED <<now, stored, listed, upload, history, listFaults>>

\* A read that no call overlapped leaves a copy that can be trusted, unless
\* overlapping uploads were listed in another order than their timestamps'.
FillCached(c) ==
  /\ ReadAt(c, "refill")
  /\ cached' = cached \cup read[c].slice
  /\ read' = [read EXCEPT ![c].todo = @ \ {"refill"}]
  /\ raced' = (raced /\ (c \in overlapped \/ ~InTimeOrder(listed)))
  /\ UNCHANGED <<now, stored, listed, upload, overlapped, sure, listFaults>>

\* An error of the cursor is taken for no document: a short page is read.
FindReviewsErrs(c) ==
  /\ ReadAt(c, "find") /\ ListFault(c)
  /\ read' = [read EXCEPT ![c].todo = {"reviews"}]
  /\ UNCHANGED <<now, stores, upload, history>>

\* A read fails with its command, except that nobody looks at what became of
\* the refill once it has a client for it.
ReadStepFails(c) ==
  /\ ListFault(c)
  /\ \/ ReadAt(c, "range") \/ ReadAt(c, "find")
     \/ ReadAt(c, "reviews") \/ ReadAt(c, "del") \/ ReadAt(c, "refill")
  /\ \E step \in read[c].todo : \E noticed \in {TRUE, step \notin {"del", "refill"}} :
       read' = [read EXCEPT ![c].todo = @ \ {step}, ![c].ok = @ /\ ~noticed]
  /\ UNCHANGED <<now, stores, upload, history>>

ReadNext(c) == \/ StartRead(c) \/ RangeCached(c) \/ FindReviews(c) \/ ReadReviews(c)
               \/ ClearCached(c) \/ FillCached(c) \/ FindReviewsErrs(c) \/ ReadStepFails(c)

RestartRedis ==
  /\ cached' = {}
  /\ UNCHANGED <<now, stored, listed, calls, history, listFaults>>

AllOver == (\A c \in ReviewUploads : upload[c].todo = {}) /\ (\A c \in Reads : read[c].todo = {})

ListNext == \/ \E c \in ReviewUploads : UploadNext(c)
            \/ \E c \in Reads : ReadNext(c)
            \/ RestartRedis
            \/ AllOver /\ UNCHANGED listVars

ListSpec == ListInit /\ [][ListNext]_listVars

-----------------------------------------------------------------------------
ListTypeOK ==
  LET Entries == [review : ReviewUploads, at : 1..now]
  IN /\ now \in Nat /\ stored \subseteq ReviewUploads /\ cached \subseteq Entries
     /\ listed \in Seq(Entries)
     /\ upload \in [ReviewUploads -> [at : 0..now, ok : BOOLEAN, todo : SUBSET
                      {"start", "store", "find", "insert", "push", "card", "zadd"}]]
     /\ \A c \in Reads :
          /\ read[c].todo \subseteq {"start", "range", "find", "reviews", "del", "refill"}
          /\ read[c].page \in Seq(ReviewUploads) /\ read[c].slice \subseteq Entries
     /\ raced \in BOOLEAN /\ overlapped \subseteq Reads /\ sure \subseteq Reads
     /\ listFailures \in Nat /\ faulted \subseteq Calls

\* A review whose upload succeeded is stored and in the list, once, however
\* many first reviews of the movie arrive together.
UploadsListed ==
  \A c \in ReviewUploads :
    upload[c].todo = {} /\ upload[c].ok =>
      c \in stored /\ Cardinality({i \in DOMAIN listed : listed[i].review = c}) = 1

\* Between calls Redis holds nothing or exactly the newest reviews of the
\* list, unless the last calls overlapped or lost a command; a read that runs
\* alone and finds too little there puts it right again.
CachedIsNewest ==
  UploadsActive \cup ReadsActive = {} /\ ~raced =>
    Newest(cached) = Page(listed, 0, Cardinality(cached))

\* A read that began with such a list, and since which no upload has begun,
\* gives exactly its page of the list, whatever other reads replace in Redis
\* meanwhile, and fails only when a review of the page was never stored.  A
\* read that lost a command itself is exempt: it may answer a short page.
PageOfList ==
  \A c \in sure \ faulted :
    read[c].todo = {} =>
      /\ read[c].page = Reviews(Page(listed, read[c].start, read[c].stop))
      /\ read[c].ok = (Members(read[c].page) \subseteq stored)
=============================================================================
