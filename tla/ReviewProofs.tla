---------------------------- MODULE ReviewProofs ----------------------------
(***************************************************************************)
(* Proofs about the reviews of the media services: ReviewLists, for any    *)
(* set of uploads, of reads and of pages, and ComposeReview, for any set   *)
(* of components and any number of repeated uploads, whatever fails.       *)
(***************************************************************************)
EXTENDS ComposeReview, ReviewLists, FiniteSetTheorems, SequenceTheorems, WellFoundedInduction, TLAPS

-----------------------------------------------------------------------------
(***************************************************************************)
(* The lists of reviews: what is listed.  The types; that an upload takes  *)
(* its steps one after the other, beside storing; that timestamps are      *)
(* distinct; that what is listed is an upload's and is there once; and     *)
(* what an upload that goes on has done already.                           *)
(***************************************************************************)
UploadSteps == {"start", "store", "find", "insert", "push", "card", "zadd"}
ReadSteps == {"start", "range", "find", "reviews", "del", "refill"}
Entries == [review : ReviewUploads, at : Nat]
UploadType == [ReviewUploads -> [todo : SUBSET UploadSteps, at : Nat, ok : BOOLEAN]]
ReadType(P) ==
  [Reads -> [todo : SUBSET ReadSteps, start : Nat, stop : Nat, page : P, slice : SUBSET Entries,
             ok : BOOLEAN]]

\* A page is whatever Redis and MongoDB gave.
ListsType ==
  /\ now \in Nat /\ stored \subseteq ReviewUploads /\ cached \subseteq Entries
  /\ listed \in Seq(Entries)
  /\ upload \in UploadType
  /\ \E P : read \in ReadType(P)
  /\ sure \subseteq Reads

\* An upload has one step to take, and perhaps "store", beside it.
StepsInOrder ==
  /\ \A c \in ReviewUploads :
       /\ UploadAt(c, "start") => upload[c].todo = {"start"}
       /\ \A s, t \in upload[c].todo \ {"store"} : s = t
  /\ \A c \in Reads : ReadAt(c, "start") => read[c].todo = {"start"}

\* An upload begins with a timestamp of its own.
TimesRight ==
  \A c, d \in ReviewUploads : ~UploadAt(c, "start") /\ ~UploadAt(d, "start") =>
    upload[c].at <= now /\ (upload[c].at = upload[d].at => c = d)

Unlisted == {"start", "find", "insert", "push"}
IsListed(c) == \E i \in DOMAIN listed : listed[i].review = c

ListedRight ==
  /\ \A i \in DOMAIN listed :
       /\ listed[i] = Entry(listed[i].review)
       /\ upload[listed[i].review].todo \cap Unlisted = {}
  /\ \A i, j \in DOMAIN listed : listed[i].review = listed[j].review => i = j

DoneRight ==
  \A c \in ReviewUploads : upload[c].ok =>
    /\ upload[c].todo \cap {"start", "store"} = {} => c \in stored
    /\ upload[c].todo \cap Unlisted = {} => IsListed(c)

ListingInv == ListsType /\ StepsInOrder /\ TimesRight /\ ListedRight /\ DoneRight

-----------------------------------------------------------------------------
\* What the steps of an upload do to it.
UploadBecomes(c, todo, at, ok) ==
  /\ upload' \in UploadType
  /\ upload'[c] = [todo |-> todo, at |-> at, ok |-> ok]
  /\ \A d \in ReviewUploads : d # c => upload'[d] = upload[d]

LEMMA UploadSets ==
  ASSUME upload \in UploadType, NEW c \in ReviewUploads, NEW todo \in SUBSET UploadSteps,
         NEW at \in Nat, NEW ok \in BOOLEAN,
         \/ upload' = [upload EXCEPT ![c].todo = todo] /\ at = upload[c].at /\ ok = upload[c].ok
         \/ upload' = [upload EXCEPT ![c].todo = todo, ![c].at = at] /\ ok = upload[c].ok
         \/ upload' = [upload EXCEPT ![c].todo = todo, ![c].ok = ok] /\ at = upload[c].at
  PROVE  UploadBecomes(c, todo, at, ok)
<1> DEFINE r == [todo |-> todo, at |-> at, ok |-> ok]
<1>1. r \in [todo : SUBSET UploadSteps, at : Nat, ok : BOOLEAN]
  OBVIOUS
<1>2. upload' = [upload EXCEPT ![c] = r]
  BY DEF UploadType
<1> HIDE DEF r
<1>3. /\ upload' \in UploadType /\ upload'[c] = r
      /\ \A d \in ReviewUploads : d # c => upload'[d] = upload[d]
  BY <1>1, <1>2 DEF UploadType
<1> QED
  BY <1>3 DEF UploadBecomes, r

LEMMA UploadGoesOn ==
  ASSUME upload \in UploadType, NEW c \in ReviewUploads, NEW from, NEW to \in SUBSET UploadSteps,
         UploadGoes(c, from, to)
  PROVE  UploadBecomes(c, (upload[c].todo \ {from}) \cup to, upload[c].at, upload[c].ok)
<1>1. /\ (upload[c].todo \ {from}) \cup to \in SUBSET UploadSteps
      /\ upload[c].at \in Nat /\ upload[c].ok \in BOOLEAN
  BY DEF UploadType
<1>2. upload' = [upload EXCEPT ![c].todo = (upload[c].todo \ {from}) \cup to]
  BY DEF UploadGoes
<1> QED
  BY <1>1, <1>2, UploadSets

\* What each step of an upload does to it and to the list.
KeepsReview(c) ==
  /\ UploadAt(c, "store") /\ stored' = stored \cup {c} /\ UNCHANGED <<now, listed>>
  /\ UploadBecomes(c, upload[c].todo \ {"store"}, upload[c].at, upload[c].ok)

Lists(c) ==
  /\ UNCHANGED <<now, stored>>
  /\ \E step \in {"insert", "push"} :
       /\ UploadAt(c, step) /\ listed' = <<Entry(c)>> \o listed
       /\ UploadBecomes(c, (upload[c].todo \ {step}) \cup {"card"}, upload[c].at, upload[c].ok)

\* Another step that goes on.
Passes(c) ==
  /\ UNCHANGED <<now, stored, listed>>
  /\ \E from \in {"find", "card", "zadd"}, to \in SUBSET {"insert", "push", "zadd"} :
       /\ UploadAt(c, from) /\ (from = "find" => to \in {{"insert"}, {"push"}})
       /\ (from # "find" => to \in {{}, {"zadd"}})
       /\ UploadBecomes(c, (upload[c].todo \ {from}) \cup to, upload[c].at, upload[c].ok)

\* A step that is not taken; the call may go on only without Redis.
Skips(c) ==
  /\ UNCHANGED <<now, stored, listed>>
  /\ \E step \in UploadSteps \ {"start"} : \E ok \in BOOLEAN :
       /\ UploadAt(c, step) /\ (ok => step \in {"card", "zadd"} /\ upload[c].ok)
       /\ UploadBecomes(c, upload[c].todo \ {step}, upload[c].at, ok)

Begins(c) ==
  /\ UNCHANGED <<stored, listed>> /\ now' = now + 1
  /\ UploadAt(c, "start")
  /\ UploadBecomes(c, {"store", "find"}, now + 1, upload[c].ok)

LEMMA ListsReview ==
  ASSUME ListsType, NEW c \in ReviewUploads, (InsertDocument(c) /\ listed = <<>>) \/ PushReview(c)
  PROVE  Lists(c)
<1>0. upload \in UploadType /\ upload[c].at \in Nat /\ {"card"} \in SUBSET UploadSteps
  BY DEF ListsType, UploadType, UploadSteps
<1>1. CASE InsertDocument(c) /\ listed = <<>>
  <2>1. UploadBecomes(c, (upload[c].todo \ {"insert"}) \cup {"card"}, upload[c].at, upload[c].ok)
    BY <1>0, <1>1, UploadGoesOn DEF InsertDocument
  <2>2. listed' = <<Entry(c)>> \o listed
    <3>1. Entry(c) \in Entries
      BY <1>0 DEF Entry, Entries
    <3>2. <<Entry(c)>> \o <<>> = <<Entry(c)>>
      BY <3>1
    <3> QED
      BY <1>1, <3>2 DEF InsertDocument
  <2> QED
    BY <1>1, <2>1, <2>2 DEF InsertDocument, Lists
<1>2. CASE PushReview(c)
  <2>1. UploadBecomes(c, (upload[c].todo \ {"push"}) \cup {"card"}, upload[c].at, upload[c].ok)
    BY <1>0, <1>2, UploadGoesOn DEF PushReview
  <2> QED
    BY <1>2, <2>1 DEF PushReview, Lists
<1> QED
  BY <1>1, <1>2

LEMMA UploadEffects ==
  ASSUME ListsType, NEW c \in ReviewUploads, UploadNext(c)
  PROVE  Begins(c) \/ KeepsReview(c) \/ Lists(c) \/ Passes(c) \/ Skips(c)
<1> USE DEF ListsType
<1>0. /\ upload[c].todo \subseteq UploadSteps /\ upload[c].at \in Nat /\ upload[c].ok \in BOOLEAN
      /\ now + 1 \in Nat
  BY DEF UploadType
<1>1. CASE StartUpload(c)
  <2>1. {"store", "find"} \in SUBSET UploadSteps
    BY DEF UploadSteps
  <2>2. UploadBecomes(c, {"store", "find"}, now + 1, upload[c].ok)
    BY <1>0, <1>1, <2>1, UploadSets DEF StartUpload
  <2> QED
    BY <1>1, <2>2 DEF StartUpload, Begins, stores
<1>2. CASE StoreReview(c)
  <2>1. UploadBecomes(c, (upload[c].todo \ {"store"}) \cup {}, upload[c].at, upload[c].ok)
    BY <1>2, UploadGoesOn DEF StoreReview
  <2>2. (upload[c].todo \ {"store"}) \cup {} = upload[c].todo \ {"store"}
    OBVIOUS
  <2> QED
    BY <1>2, <2>1, <2>2 DEF StoreReview, KeepsReview
<1>3. CASE FindDocument(c)
  <2>1. PICK to \in {{"insert"}, {"push"}} : UploadGoes(c, "find", to)
    BY <1>3 DEF FindDocument
  <2>2. to \in SUBSET UploadSteps /\ to \in SUBSET {"insert", "push", "zadd"}
    BY DEF UploadSteps
  <2>3. UploadBecomes(c, (upload[c].todo \ {"find"}) \cup to, upload[c].at, upload[c].ok)
    BY <2>1, <2>2, UploadGoesOn
  <2> QED
    BY <1>3, <2>2, <2>3 DEF FindDocument, Passes, stores
<1>9. CASE FindErrs(c)
  <2>1. {"insert"} \in SUBSET UploadSteps /\ {"insert"} \in SUBSET {"insert", "push", "zadd"}
    BY DEF UploadSteps
  <2>2. UploadBecomes(c, (upload[c].todo \ {"find"}) \cup {"insert"}, upload[c].at, upload[c].ok)
    BY <1>9, <2>1, UploadGoesOn DEF FindErrs
  <2> QED
    BY <1>9, <2>1, <2>2 DEF FindErrs, Passes, stores
<1>4. CASE InsertDocument(c)
  <2>1. CASE listed = <<>>
    BY <1>4, <2>1, ListsReview
  <2>2. CASE listed # <<>>
    <3>1. UploadBecomes(c, upload[c].todo \ {"insert"}, upload[c].at, FALSE)
      <4>1. upload[c].todo \ {"insert"} \in SUBSET UploadSteps
        BY <1>0
      <4>2. upload' = [upload EXCEPT ![c].todo = upload[c].todo \ {"insert"}, ![c].ok = FALSE]
        BY <1>4, <2>2 DEF InsertDocument
      <4> QED
        BY <1>0, <4>1, <4>2, UploadSets
    <3>2. "insert" \in UploadSteps \ {"start"}
      BY DEF UploadSteps
    <3> QED
      BY <1>4, <2>2, <3>1, <3>2 DEF InsertDocument, Skips
  <2> QED
    BY <2>1, <2>2
<1>5. CASE PushReview(c)
  BY <1>5, ListsReview
<1>6. CASE CountCached(c)
  <2>1. PICK to \in {{}, {"zadd"}} : UploadGoes(c, "card", to)
    BY <1>6 DEF CountCached
  <2>2. to \in SUBSET UploadSteps /\ to \in SUBSET {"insert", "push", "zadd"}
    BY DEF UploadSteps
  <2>3. UploadBecomes(c, (upload[c].todo \ {"card"}) \cup to, upload[c].at, upload[c].ok)
    BY <2>1, <2>2, UploadGoesOn
  <2> QED
    BY <1>6, <2>2, <2>3 DEF CountCached, Passes, stores
<1>7. CASE AddToCached(c)
  <2>1. {} \in SUBSET UploadSteps /\ {} \in SUBSET {"insert", "push", "zadd"}
    OBVIOUS
  <2>2. UploadBecomes(c, (upload[c].todo \ {"zadd"}) \cup {}, upload[c].at, upload[c].ok)
    BY <1>7, <2>1, UploadGoesOn DEF AddToCached
  <2> QED
    BY <1>7, <2>1, <2>2 DEF AddToCached, Passes
<1>8. CASE \E step \in {"store", "find", "insert", "push", "card", "zadd"} : UploadStepFails(c, step)
  <2>1. PICK step \in {"store", "find", "insert", "push", "card", "zadd"} : UploadStepFails(c, step)
    BY <1>8
  <2>5. PICK noticed \in {TRUE, step \notin {"card", "zadd"}} :
          upload' = [upload EXCEPT ![c].todo = @ \ {step}, ![c].ok = @ /\ ~noticed]
    BY <2>1 DEF UploadStepFails
  <2> DEFINE ok == upload[c].ok /\ ~noticed
  <2>2. /\ step \in UploadSteps \ {"start"} /\ upload[c].todo \ {step} \in SUBSET UploadSteps
        /\ ok \in BOOLEAN
    BY <1>0 DEF UploadSteps
  <2>3. upload' = [upload EXCEPT ![c].todo = upload[c].todo \ {step}, ![c].ok = ok]
    BY <2>5
  <2>6. ok => step \in {"card", "zadd"} /\ upload[c].ok
    BY <2>5
  <2>4. UploadBecomes(c, upload[c].todo \ {step}, upload[c].at, ok)
    <3> HIDE DEF ok
    <3> QED
      BY <1>0, <2>2, <2>3, UploadSets
  <2> QED
    BY <2>1, <2>2, <2>4, <2>6 DEF UploadStepFails, Skips, stores
<1> QED
  BY <1>1, <1>2, <1>3, <1>4, <1>5, <1>6, <1>7, <1>8, <1>9 DEF UploadNext


-----------------------------------------------------------------------------
\* What the steps of a read do to it.
ReadBecomes(c, todo, start, stop, page, slice, ok) ==
  /\ \E P : read' \in ReadType(P)
  /\ read'[c].todo = todo /\ read'[c].start = start /\ read'[c].stop = stop
  /\ read'[c].page = page /\ read'[c].slice = slice /\ read'[c].ok = ok
  /\ \A d \in Reads : d # c => read'[d] = read[d]

LEMMA PageTyped ==
  ASSUME \E P : read \in ReadType(P), NEW page
  PROVE  \E Q : page \in Q /\ read \in ReadType(Q)
<1>1. PICK P : read \in ReadType(P)
  OBVIOUS
<1> DEFINE Q == P \cup {page}
<1>2. [todo : SUBSET ReadSteps, start : Nat, stop : Nat, page : P, slice : SUBSET Entries,
       ok : BOOLEAN]
        \subseteq [todo : SUBSET ReadSteps, start : Nat, stop : Nat, page : Q, slice : SUBSET Entries,
                   ok : BOOLEAN]
  OBVIOUS
<1>3. read \in ReadType(Q)
  BY <1>1, <1>2 DEF ReadType
<1> QED
  BY <1>3

LEMMA ReadSets ==
  ASSUME \E P : read \in ReadType(P), NEW c \in Reads, NEW todo \in SUBSET ReadSteps,
         NEW start \in Nat, NEW stop \in Nat, NEW page, NEW slice \in SUBSET Entries, NEW ok \in BOOLEAN,
         \/ /\ read' = [read EXCEPT ![c].start = start, ![c].stop = stop, ![c].todo = todo]
            /\ page = read[c].page /\ slice = read[c].slice /\ ok = read[c].ok
         \/ /\ read' = [read EXCEPT ![c].page = page, ![c].todo = todo]
            /\ start = read[c].start /\ stop = read[c].stop /\ slice = read[c].slice /\ ok = read[c].ok
         \/ /\ read' = [read EXCEPT ![c].slice = slice, ![c].page = page, ![c].todo = todo]
            /\ start = read[c].start /\ stop = read[c].stop /\ ok = read[c].ok
         \/ /\ read' = [read EXCEPT ![c].todo = todo, ![c].ok = ok]
            /\ start = read[c].start /\ stop = read[c].stop /\ page = read[c].page
            /\ slice = read[c].slice
         \/ /\ read' = [read EXCEPT ![c].todo = todo]
            /\ start = read[c].start /\ stop = read[c].stop /\ page = read[c].page
            /\ slice = read[c].slice /\ ok = read[c].ok
  PROVE  ReadBecomes(c, todo, start, stop, page, slice, ok)
<1>1. PICK Q : page \in Q /\ read \in ReadType(Q)
  BY PageTyped
<1>2. /\ read' \in ReadType(Q)
      /\ read'[c].todo = todo /\ read'[c].start = start /\ read'[c].stop = stop
      /\ read'[c].page = page /\ read'[c].slice = slice /\ read'[c].ok = ok
      /\ \A d \in Reads : d # c => read'[d] = read[d]
  <2>1. CASE /\ read' = [read EXCEPT ![c].start = start, ![c].stop = stop, ![c].todo = todo]
             /\ page = read[c].page /\ slice = read[c].slice /\ ok = read[c].ok
    <3> DEFINE q == [read EXCEPT ![c].start = start, ![c].stop = stop]
    <3>1. /\ q \in ReadType(Q)
          /\ \A d \in Reads : d # c => q[d] = read[d]
      BY <1>1 DEF ReadType
    <3>2. read' = [q EXCEPT ![c].todo = todo]
      BY <2>1
    <3>3. /\ q[c].start = start /\ q[c].stop = stop /\ q[c].page = page
          /\ q[c].slice = slice /\ q[c].ok = ok
      BY <1>1, <2>1 DEF ReadType
    <3> HIDE DEF q
    <3> QED
      BY <3>1, <3>2, <3>3 DEF ReadType
  <2>2. CASE /\ read' = [read EXCEPT ![c].page = page, ![c].todo = todo]
             /\ start = read[c].start /\ stop = read[c].stop /\ slice = read[c].slice
             /\ ok = read[c].ok
    BY <1>1, <2>2 DEF ReadType
  <2>3. CASE /\ read' = [read EXCEPT ![c].slice = slice, ![c].page = page, ![c].todo = todo]
             /\ start = read[c].start /\ stop = read[c].stop /\ ok = read[c].ok
    <3> DEFINE o == [read EXCEPT ![c].slice = slice]
               q == [o EXCEPT ![c].page = page]
    <3>1. o \in ReadType(Q) /\ o[c].slice = slice /\ \A d \in Reads : d # c => o[d] = read[d]
      BY <1>1 DEF ReadType
    <3>2. o[c].start = start /\ o[c].stop = stop /\ o[c].ok = ok
      BY <1>1, <2>3 DEF ReadType
    <3>3. read' = [q EXCEPT ![c].todo = todo]
      BY <2>3
    <3> HIDE DEF o
    <3>4. q \in ReadType(Q) /\ \A d \in Reads : d # c => q[d] = read[d]
      BY <1>1, <3>1 DEF ReadType
    <3>5. /\ q[c].start = start /\ q[c].stop = stop /\ q[c].page = page
          /\ q[c].slice = slice /\ q[c].ok = ok
      BY <1>1, <3>1, <3>2 DEF ReadType
    <3> HIDE DEF q
    <3> QED
      BY <3>3, <3>4, <3>5 DEF ReadType
  <2>4. CASE /\ read' = [read EXCEPT ![c].todo = todo, ![c].ok = ok]
             /\ start = read[c].start /\ stop = read[c].stop /\ page = read[c].page
             /\ slice = read[c].slice
    BY <1>1, <2>4 DEF ReadType
  <2>5. CASE /\ read' = [read EXCEPT ![c].todo = todo]
             /\ start = read[c].start /\ stop = read[c].stop /\ page = read[c].page
             /\ slice = read[c].slice /\ ok = read[c].ok
    BY <1>1, <2>5 DEF ReadType
  <2> QED
    BY <2>1, <2>2, <2>3, <2>4, <2>5
<1> QED
  BY <1>2 DEF ReadBecomes

\* What each step of a read does to it.
StartsRead(c) ==
  /\ ReadAt(c, "start")
  /\ \E start, stop \in Nat :
       ReadBecomes(c, IF stop <= start THEN {} ELSE {"range"}, start, stop,
                   read[c].page, read[c].slice, read[c].ok)

TakesPage(c) ==
  LET page == Reviews(Page(Newest(cached), read[c].start, read[c].stop))
  IN /\ ReadAt(c, "range")
     /\ ReadBecomes(c, IF read[c].start + Len(page) < read[c].stop THEN {"find"} ELSE {"reviews"},
                    read[c].start, read[c].stop, page, read[c].slice, read[c].ok)

TakesRest(c) ==
  LET slice == Page(listed, 0, read[c].stop)
      from == read[c].start + Len(read[c].page) + 1
  IN /\ ReadAt(c, "find")
     /\ ReadBecomes(c, {"reviews"} \cup (IF slice = <<>> THEN {} ELSE {"del"}),
                    read[c].start, read[c].stop,
                    read[c].page \o SubSeq(Reviews(slice), from, Len(slice)),
                    Members(slice), read[c].ok)

Checks(c) ==
  LET page == read[c].page
  IN /\ ReadAt(c, "reviews")
     /\ ReadBecomes(c, read[c].todo \ {"reviews"}, read[c].start, read[c].stop, page, read[c].slice,
          read[c].ok /\ Cardinality(Members(page)) = Len(page) /\ Members(page) \subseteq stored)

Clears(c) ==
  /\ ReadAt(c, "del")
  /\ ReadBecomes(c, (read[c].todo \ {"del"}) \cup {"refill"}, read[c].start, read[c].stop,
                 read[c].page, read[c].slice, read[c].ok)

Fills(c) ==
  /\ ReadAt(c, "refill")
  /\ ReadBecomes(c, read[c].todo \ {"refill"}, read[c].start, read[c].stop,
                 read[c].page, read[c].slice, read[c].ok)

Gives(c) ==
  \E step \in ReadSteps : \E ok \in BOOLEAN : \E todo \in {read[c].todo \ {step}, {"reviews"}} :
    /\ ~ReadAt(c, "start") \/ read[c].todo # {"start"}
    /\ ReadAt(c, step) /\ faulted' = faulted \cup {c}
    /\ ReadBecomes(c, todo, read[c].start, read[c].stop,
                   read[c].page, read[c].slice, ok)

LEMMA SliceFacts ==
  ASSUME listed \in Seq(Entries), NEW stop \in Nat
  PROVE  /\ Page(listed, 0, stop) = SubSeq(listed, 1, IF stop < Len(listed) THEN stop ELSE Len(listed))
         /\ Page(listed, 0, stop) \in Seq(Entries)
         /\ Len(Page(listed, 0, stop)) = IF stop < Len(listed) THEN stop ELSE Len(listed)
         /\ \A i \in DOMAIN Page(listed, 0, stop) : i \in DOMAIN listed /\ Page(listed, 0, stop)[i] = listed[i]
         /\ Members(Page(listed, 0, stop)) \subseteq Entries
<1> DEFINE last == IF stop < Len(listed) THEN stop ELSE Len(listed)
<1>1. last \in Nat /\ last <= Len(listed)
  OBVIOUS
<1>2. Page(listed, 0, stop) = SubSeq(listed, 1, last)
  BY DEF Page
<1> HIDE DEF last
<1>3. /\ SubSeq(listed, 1, last) \in Seq(Entries) /\ Len(SubSeq(listed, 1, last)) = last
      /\ \A i \in 1..last : SubSeq(listed, 1, last)[i] = listed[i] /\ listed[i] \in Entries
  BY <1>1
<1>4. Members(SubSeq(listed, 1, last)) \subseteq Entries
  BY <1>1, <1>3 DEF Members
<1>5. DOMAIN SubSeq(listed, 1, last) = 1..last /\ DOMAIN listed = 1..Len(listed)
  BY <1>3
<1>6. /\ Page(listed, 0, stop) \in Seq(Entries) /\ Len(Page(listed, 0, stop)) = last
      /\ Members(Page(listed, 0, stop)) \subseteq Entries
  BY <1>2, <1>3, <1>4
<1>7. \A i \in DOMAIN Page(listed, 0, stop) :
        i \in DOMAIN listed /\ Page(listed, 0, stop)[i] = listed[i]
  BY <1>1, <1>2, <1>3, <1>5
<1> QED
  BY <1>2, <1>6, <1>7 DEF last

LEMMA ReadEffects ==
  ASSUME ListsType, NEW c \in Reads, ReadNext(c)
  PROVE  \/ StartRead(c) /\ StartsRead(c)
         \/ RangeCached(c) /\ TakesPage(c)
         \/ FindReviews(c) /\ TakesRest(c)
         \/ ReadReviews(c) /\ Checks(c)
         \/ ClearCached(c) /\ Clears(c)
         \/ FillCached(c) /\ Fills(c)
         \/ (FindReviewsErrs(c) \/ ReadStepFails(c)) /\ Gives(c)
<1>0. /\ \E P : read \in ReadType(P)
      /\ read[c].todo \in SUBSET ReadSteps /\ read[c].start \in Nat /\ read[c].stop \in Nat
      /\ read[c].slice \in SUBSET Entries /\ read[c].ok \in BOOLEAN
  BY DEF ListsType, ReadType
<1>1. CASE StartRead(c)
  <2>1. PICK page \in Pages :
          read' = [read EXCEPT ![c].start = page[1], ![c].stop = page[2],
                     ![c].todo = IF page[2] <= page[1] THEN {} ELSE {"range"}]
    BY <1>1 DEF StartRead
  <2>2. PICK start \in Nat, stop \in Nat : start = page[1] /\ stop = page[2]
    BY ReviewListsAssumption
  <2> DEFINE todo == IF stop <= start THEN {} ELSE {"range"}
  <2>3. todo \in SUBSET ReadSteps
    BY DEF ReadSteps
  <2>4. read' = [read EXCEPT ![c].start = start, ![c].stop = stop, ![c].todo = todo]
    BY <2>1, <2>2
  <2>5. ReadBecomes(c, todo, start, stop, read[c].page, read[c].slice, read[c].ok)
    <3> HIDE DEF todo
    <3> QED
      BY <1>0, <2>3, <2>4, ReadSets
  <2>6. ReadAt(c, "start")
    BY <1>1 DEF StartRead
  <2>7. StartsRead(c)
    BY <2>5, <2>6, Zenon DEF StartsRead
  <2> QED
    BY <1>1, <2>7
<1>2. CASE RangeCached(c)
  <2> DEFINE page == Reviews(Page(Newest(cached), read[c].start, read[c].stop))
             todo == IF read[c].start + Len(page) < read[c].stop THEN {"find"} ELSE {"reviews"}
  <2>3. todo \in SUBSET ReadSteps
    BY DEF ReadSteps
  <2>4. read' = [read EXCEPT ![c].page = page, ![c].todo = todo]
    BY <1>2 DEF RangeCached
  <2>5. ReadBecomes(c, todo, read[c].start, read[c].stop, page, read[c].slice, read[c].ok)
    <3> HIDE DEF todo, page
    <3> QED
      BY <1>0, <2>3, <2>4, ReadSets
  <2> QED
    BY <1>2, <2>5 DEF RangeCached, TakesPage
<1>3. CASE FindReviews(c)
  <2> DEFINE whole == Page(listed, 0, read[c].stop)
             from == read[c].start + Len(read[c].page) + 1
             page == read[c].page \o SubSeq(Reviews(whole), from, Len(whole))
             todo == {"reviews"} \cup (IF whole = <<>> THEN {} ELSE {"del"})
             slice == Members(whole)
  <2>3. todo \in SUBSET ReadSteps
    BY DEF ReadSteps
  <2>4. read' = [read EXCEPT ![c].slice = slice, ![c].page = page, ![c].todo = todo]
    BY <1>3 DEF FindReviews
  <2>6. slice \in SUBSET Entries
    BY <1>0, SliceFacts DEF ListsType
  <2>5. ReadBecomes(c, todo, read[c].start, read[c].stop, page, slice, read[c].ok)
    <3> HIDE DEF todo, page, slice
    <3> QED
      BY <1>0, <2>3, <2>4, <2>6, ReadSets
  <2>7. TakesRest(c)
    BY <1>3, <2>5, Zenon DEF FindReviews, TakesRest
  <2> QED
    BY <1>3, <2>7
<1>4. CASE ReadReviews(c)
  <2> DEFINE page == read[c].page
             ok == read[c].ok /\ Cardinality(Members(page)) = Len(page) /\ Members(page) \subseteq stored
             todo == read[c].todo \ {"reviews"}
  <2>3. todo \in SUBSET ReadSteps /\ ok \in BOOLEAN
    BY <1>0 DEF ReadSteps
  <2>4. read' = [read EXCEPT ![c].todo = todo, ![c].ok = ok]
    BY <1>4 DEF ReadReviews
  <2>5. ReadBecomes(c, todo, read[c].start, read[c].stop, page, read[c].slice, ok)
    <3> HIDE DEF todo, ok
    <3> QED
      BY <1>0, <2>3, <2>4, ReadSets
  <2> QED
    BY <1>4, <2>5 DEF ReadReviews, Checks
<1>5. CASE ClearCached(c)
  <2> DEFINE todo == (read[c].todo \ {"del"}) \cup {"refill"}
  <2>3. todo \in SUBSET ReadSteps
    BY <1>0 DEF ReadSteps
  <2>4. read' = [read EXCEPT ![c].todo = todo]
    BY <1>5 DEF ClearCached
  <2>5. ReadBecomes(c, todo, read[c].start, read[c].stop, read[c].page, read[c].slice, read[c].ok)
    <3> HIDE DEF todo
    <3> QED
      BY <1>0, <2>3, <2>4, ReadSets
  <2>6. ReadAt(c, "del")
    BY <1>5 DEF ClearCached
  <2>7. Clears(c)
    BY <2>5, <2>6 DEF Clears
  <2> QED
    BY <1>5, <2>7
<1>6. CASE FillCached(c)
  <2> DEFINE todo == read[c].todo \ {"refill"}
  <2>3. todo \in SUBSET ReadSteps
    BY <1>0 DEF ReadSteps
  <2>4. read' = [read EXCEPT ![c].todo = todo]
    BY <1>6 DEF FillCached
  <2>5. ReadBecomes(c, todo, read[c].start, read[c].stop, read[c].page, read[c].slice, read[c].ok)
    <3> HIDE DEF todo
    <3> QED
      BY <1>0, <2>3, <2>4, ReadSets
  <2> QED
    BY <1>6, <2>5 DEF FillCached, Fills
<1>7. CASE ReadStepFails(c)
  <2>1. PICK step \in read[c].todo : \E noticed \in {TRUE, step \notin {"del", "refill"}} :
          read' = [read EXCEPT ![c].todo = @ \ {step}, ![c].ok = @ /\ ~noticed]
    BY <1>7 DEF ReadStepFails
  <2>7. PICK noticed \in {TRUE, step \notin {"del", "refill"}} :
          read' = [read EXCEPT ![c].todo = @ \ {step}, ![c].ok = @ /\ ~noticed]
    BY <2>1
  <2> DEFINE todo == read[c].todo \ {step}
             ok == read[c].ok /\ ~noticed
  <2>3. todo \in SUBSET ReadSteps /\ ok \in BOOLEAN /\ step \in ReadSteps
    BY <1>0 DEF ReadSteps
  <2>4. read' = [read EXCEPT ![c].todo = todo, ![c].ok = ok]
    BY <2>7
  <2>5. ReadBecomes(c, todo, read[c].start, read[c].stop, read[c].page, read[c].slice, ok)
    <3> HIDE DEF todo, ok
    <3> QED
      BY <1>0, <2>3, <2>4, ReadSets
  <2>6. ~ReadAt(c, "start") \/ read[c].todo # {"start"}
    BY <1>7 DEF ReadStepFails, ReadAt
  <2> QED
    BY <1>7, <2>3, <2>5, <2>6 DEF ReadStepFails, ListFault, Gives, ReadAt
<1>8. CASE FindReviewsErrs(c)
  <2>1. {"reviews"} \in SUBSET ReadSteps /\ "find" \in ReadSteps
    BY DEF ReadSteps
  <2>2. read' = [read EXCEPT ![c].todo = {"reviews"}]
    BY <1>8 DEF FindReviewsErrs
  <2>3. ReadBecomes(c, {"reviews"}, read[c].start, read[c].stop, read[c].page, read[c].slice, read[c].ok)
    BY <1>0, <2>1, <2>2, ReadSets
  <2>4. ReadAt(c, "find") /\ read[c].todo # {"start"} /\ faulted' = faulted \cup {c}
    BY <1>8 DEF FindReviewsErrs, ListFault, ReadAt
  <2>5. Gives(c)
    BY <1>0, <2>1, <2>3, <2>4 DEF Gives
  <2> QED
    BY <1>8, <2>5
<1> QED
  BY <1>1, <1>2, <1>3, <1>4, <1>5, <1>6, <1>7, <1>8 DEF ReadNext


ReadsOnly == UNCHANGED <<now, stored, listed, upload>>

LEMMA ReadsChangeNoList ==
  ASSUME NEW c \in Reads, ReadNext(c)
  PROVE  ReadsOnly
BY DEF ReadNext, StartRead, RangeCached, FindReviews, ReadReviews, ClearCached, FillCached,
       FindReviewsErrs, ReadStepFails, stores, ReadsOnly

LEMMA RedisTyped ==
  ASSUME ListsType, [ListNext]_listVars
  PROVE  cached' \subseteq Entries /\ sure' \subseteq Reads
<1> USE DEF ListsType
<1>1. ASSUME NEW c \in ReviewUploads, UploadNext(c) PROVE cached' \subseteq Entries /\ sure' \subseteq Reads
  <2>1. Entry(c) \in Entries
    BY DEF Entry, Entries, UploadType
  <2> QED
    BY <1>1, <2>1 DEF UploadNext, StartUpload, StoreReview, FindDocument, InsertDocument, PushReview,
                      CountCached, AddToCached, FindErrs, UploadStepFails, stores, history
<1>2. ASSUME NEW c \in Reads, ReadNext(c) PROVE cached' \subseteq Entries /\ sure' \subseteq Reads
  <2>1. read[c].slice \subseteq Entries
    BY DEF ReadType
  <2> QED
    BY <1>2, <2>1 DEF ReadNext, StartRead, RangeCached, FindReviews, ReadReviews, ClearCached, FillCached,
                      FindReviewsErrs, ReadStepFails, stores, history
<1>3. CASE RestartRedis \/ UNCHANGED listVars
  BY <1>3 DEF RestartRedis, listVars, stores, history
<1> QED
  BY <1>1, <1>2, <1>3 DEF ListNext

LEMMA UploadKeepsRead ==
  ASSUME NEW c \in ReviewUploads, UploadNext(c)
  PROVE  read' = read
BY DEF UploadNext, StartUpload, StoreReview, FindDocument, InsertDocument, PushReview,
       CountCached, AddToCached, FindErrs, UploadStepFails, stores

\* A review goes in front of the list.
LEMMA InFront ==
  ASSUME NEW e \in Entries, NEW list \in Seq(Entries)
  PROVE  /\ <<e>> \o list \in Seq(Entries) /\ Len(<<e>> \o list) = Len(list) + 1
         /\ (<<e>> \o list)[1] = e
         /\ \A i \in 2..(Len(list) + 1) : (<<e>> \o list)[i] = list[i - 1]
OBVIOUS

LEMMA ListsTyped ==
  ASSUME ListsType, [ListNext]_listVars
  PROVE  ListsType'
<1>0. cached' \subseteq Entries /\ sure' \subseteq Reads
  BY RedisTyped
<1>1. ASSUME NEW c \in ReviewUploads, UploadNext(c) PROVE ListsType'
  <2>1. \E P : read' \in ReadType(P)
    BY <1>1, UploadKeepsRead DEF ListsType
  <2>2. CASE Begins(c) \/ KeepsReview(c) \/ Passes(c) \/ Skips(c)
    <3>1. /\ now' \in Nat /\ stored' \subseteq ReviewUploads /\ listed' = listed
      BY <2>2 DEF ListsType, Begins, KeepsReview, Passes, Skips
    <3>2. upload' \in UploadType
      BY <2>2 DEF Begins, KeepsReview, Passes, Skips, UploadBecomes
    <3> QED
      BY <1>0, <2>1, <3>1, <3>2 DEF ListsType
  <2>3. CASE Lists(c)
    <3>1. Entry(c) \in Entries
      BY DEF Entry, Entries, UploadType, ListsType
    <3>2. listed' \in Seq(Entries)
      BY <2>3, <3>1, InFront DEF Lists, ListsType
    <3> QED
      BY <1>0, <2>1, <2>3, <3>2 DEF ListsType, Lists, UploadBecomes
  <2> QED
    BY <1>1, <2>2, <2>3, UploadEffects
<1>2. ASSUME NEW c \in Reads, ReadNext(c) PROVE ListsType'
  <2>1. \E P : read' \in ReadType(P)
    BY <1>2, ReadEffects DEF StartsRead, TakesPage, TakesRest, Checks, Clears, Fills, Gives, ReadBecomes
  <2> QED
    BY <1>0, <1>2, <2>1, ReadsChangeNoList DEF ListsType, ReadsOnly
<1>3. CASE RestartRedis \/ UNCHANGED listVars
  <2>1. UNCHANGED <<now, stored, listed, upload, read>>
    BY <1>3 DEF RestartRedis, listVars, stores, calls
  <2> QED
    BY <1>0, <2>1 DEF ListsType
<1> QED
  BY <1>1, <1>2, <1>3 DEF ListNext

LEMMA StepsStayInOrder ==
  ASSUME ListsType, StepsInOrder, [ListNext]_listVars
  PROVE  StepsInOrder'
<1>1. ASSUME NEW c \in ReviewUploads, UploadNext(c) PROVE StepsInOrder'
  <2>1. /\ UploadAt(c, "start")' => upload'[c].todo = {"start"}
        /\ \A s, t \in upload'[c].todo \ {"store"} : s = t
    <3>0. /\ UploadAt(c, "start") => upload[c].todo = {"start"}
          /\ \A s, t \in upload[c].todo \ {"store"} : s = t
      BY DEF StepsInOrder
    <3>1. CASE Begins(c)
      BY <3>1 DEF Begins, UploadBecomes, UploadAt
    <3>2. CASE KeepsReview(c)
      BY <3>0, <3>2 DEF KeepsReview, UploadBecomes, UploadAt
    <3>3. CASE Lists(c)
      BY <3>0, <3>3 DEF Lists, UploadBecomes, UploadAt
    <3>4. CASE Passes(c)
      <4>1. PICK from \in {"find", "card", "zadd"}, to \in SUBSET {"insert", "push", "zadd"} :
              /\ UploadAt(c, from) /\ to \in {{}, {"insert"}, {"push"}, {"zadd"}}
              /\ UploadBecomes(c, (upload[c].todo \ {from}) \cup to, upload[c].at, upload[c].ok)
        BY <3>4 DEF Passes
      <4>2. upload'[c].todo = (upload[c].todo \ {from}) \cup to
        BY <4>1 DEF UploadBecomes
      <4> QED
        BY <3>0, <4>1, <4>2 DEF UploadAt
    <3>5. CASE Skips(c)
      BY <3>0, <3>5 DEF Skips, UploadBecomes, UploadAt
    <3> QED
      BY <1>1, <3>1, <3>2, <3>3, <3>4, <3>5, UploadEffects
  <2>2. \A d \in ReviewUploads : d # c => upload'[d] = upload[d]
    BY <1>1, UploadEffects DEF Begins, KeepsReview, Lists, Passes, Skips, UploadBecomes
  <2>3. read' = read
    BY <1>1, UploadKeepsRead
  <2> QED
    BY <2>1, <2>2, <2>3 DEF StepsInOrder, UploadAt, ReadAt
<1>2. ASSUME NEW c \in Reads, ReadNext(c) PROVE StepsInOrder'
  <2>1. ReadAt(c, "start")' => read'[c].todo = {"start"}
    BY <1>2, ReadEffects
       DEF StartsRead, TakesPage, TakesRest, Checks, Clears, Fills, Gives, ReadBecomes, StepsInOrder, ReadAt
  <2>2. \A d \in Reads : d # c => read'[d] = read[d]
    BY <1>2, ReadEffects DEF StartsRead, TakesPage, TakesRest, Checks, Clears, Fills, Gives, ReadBecomes
  <2>3. upload' = upload
    BY <1>2, ReadsChangeNoList DEF ReadsOnly
  <2> QED
    BY <2>1, <2>2, <2>3 DEF StepsInOrder, UploadAt, ReadAt
<1>3. CASE RestartRedis \/ UNCHANGED listVars
  BY <1>3 DEF RestartRedis, listVars, calls, StepsInOrder, UploadAt, ReadAt
<1> QED
  BY <1>1, <1>2, <1>3 DEF ListNext

LEMMA ReviewsStayListed ==
  ASSUME ListsType, StepsInOrder, TimesRight, ListedRight, DoneRight,
         NEW c \in ReviewUploads, UploadNext(c)
  PROVE  (TimesRight /\ ListedRight /\ DoneRight)'
<1>0. \A d \in ReviewUploads : d # c => upload'[d] = upload[d]
  BY UploadEffects DEF Begins, KeepsReview, Lists, Passes, Skips, UploadBecomes
<1>t. /\ now \in Nat /\ listed \in Seq(Entries) /\ Entry(c) \in Entries
      /\ \A d \in ReviewUploads : upload[d].at \in Nat
  BY DEF ListsType, UploadType, Entry, Entries
<1>l. \A i \in DOMAIN listed : listed[i].review \in ReviewUploads /\ listed[i] \in Entries
  <2>1. \A i \in DOMAIN listed : listed[i] \in Entries
    BY <1>t
  <2> QED
    BY <2>1 DEF Entries
<1>o. /\ UploadAt(c, "start") => upload[c].todo = {"start"}
      /\ \A s, t \in upload[c].todo \ {"store"} : s = t
  BY DEF StepsInOrder
<1>1. TimesRight'
  <2>1. CASE Begins(c)
    BY <1>0, <1>t, <2>1 DEF Begins, TimesRight, UploadAt, UploadBecomes
  <2>2. CASE KeepsReview(c) \/ Lists(c) \/ Passes(c) \/ Skips(c)
    <3>1. now' = now /\ upload'[c].at = upload[c].at
      <4>1. CASE KeepsReview(c)
        BY <4>1 DEF KeepsReview, UploadBecomes
      <4>2. CASE Lists(c)
        BY <4>2 DEF Lists, UploadBecomes
      <4>3. CASE Passes(c)
        <5>1. PICK todo, ok : UploadBecomes(c, todo, upload[c].at, ok)
          BY <4>3 DEF Passes
        <5> QED
          BY <4>3, <5>1 DEF Passes, UploadBecomes
      <4>4. CASE Skips(c)
        <5>1. PICK todo, ok : UploadBecomes(c, todo, upload[c].at, ok)
          BY <4>4 DEF Skips
        <5> QED
          BY <4>4, <5>1 DEF Skips, UploadBecomes
      <4> QED
        BY <2>2, <4>1, <4>2, <4>3, <4>4
    <3>2. ~UploadAt(c, "start")
      BY <1>o, <2>2 DEF KeepsReview, Lists, Passes, Skips, UploadAt
    <3> QED
      BY <1>0, <3>1, <3>2 DEF TimesRight, UploadAt
  <2> QED
    BY <2>1, <2>2, UploadEffects
<1>2. ListedRight' /\ DoneRight'
  <2>1. CASE Begins(c)
    <3>1. \A i \in DOMAIN listed : listed[i].review # c
      BY <1>l, <2>1 DEF ListedRight, Begins, UploadAt, Unlisted
    <3>2. ListedRight'
      BY <1>0, <1>l, <2>1, <3>1 DEF ListedRight, Begins, Entry
    <3>3. DoneRight'
      BY <1>0, <2>1 DEF DoneRight, Begins, IsListed, Unlisted, UploadBecomes
    <3> QED
      BY <3>2, <3>3
  <2>2. CASE Lists(c)
    <3>1. PICK step \in {"insert", "push"} :
            /\ UploadAt(c, step) /\ listed' = <<Entry(c)>> \o listed
            /\ UploadBecomes(c, (upload[c].todo \ {step}) \cup {"card"}, upload[c].at, upload[c].ok)
      BY <2>2 DEF Lists
    <3>2. /\ DOMAIN listed = 1..Len(listed) /\ Len(listed) \in Nat /\ DOMAIN listed' = 1..(Len(listed) + 1)
          /\ listed'[1] = Entry(c)
          /\ \A i \in 2..(Len(listed) + 1) : i - 1 \in DOMAIN listed /\ listed'[i] = listed[i - 1]
      BY <1>t, <3>1, InFront
    <3>3. \A i \in DOMAIN listed : listed[i].review # c
      BY <1>l, <3>1 DEF ListedRight, UploadAt, Unlisted
    <3>4. upload'[c].todo \cap Unlisted = {} /\ upload'[c].at = upload[c].at
      BY <3>1 DEF StepsInOrder, UploadAt, Unlisted, UploadBecomes
    <3>5. Entry(c)' = Entry(c) /\ Entry(c).review = c
      BY <3>4 DEF Entry
    <3>6. ASSUME NEW i \in DOMAIN listed'
          PROVE  \E d \in ReviewUploads :
                   /\ listed'[i] = [review |-> d, at |-> upload'[d].at]
                   /\ upload'[d].todo \cap Unlisted = {}
      <4>1. CASE i = 1
        <5>1. listed'[i] = [review |-> c, at |-> upload'[c].at]
          BY <3>2, <3>4, <4>1 DEF Entry
        <5> QED
          BY <3>4, <5>1
      <4>2. CASE i # 1
        <5>1. i \in 2..(Len(listed) + 1)
          BY <3>2, <4>2
        <5>2. PICK j \in DOMAIN listed : listed'[i] = listed[j]
          BY <3>2, <5>1
        <5>3. upload'[listed[j].review] = upload[listed[j].review]
          BY <1>0, <1>l, <3>3
        <5>4. listed[j] = [review |-> listed[j].review, at |-> upload[listed[j].review].at]
              /\ upload[listed[j].review].todo \cap Unlisted = {}
          BY DEF ListedRight, Entry
        <5> QED
          BY <1>l, <5>2, <5>3, <5>4
      <4> QED
        BY <4>1, <4>2
    <3>7. ASSUME NEW i \in DOMAIN listed', NEW j \in DOMAIN listed', listed'[i].review = listed'[j].review
          PROVE  i = j
      <4>1. CASE i = 1 \/ j = 1
        <5>1. \A m \in 2..(Len(listed) + 1) : listed'[m].review # c
          BY <3>2, <3>3
        <5>2. listed'[1].review = c
          BY <3>2, <3>5
        <5> QED
          BY <3>2, <3>7, <4>1, <5>1, <5>2
      <4>2. CASE i # 1 /\ j # 1
        <5>1. i \in 2..(Len(listed) + 1) /\ j \in 2..(Len(listed) + 1)
          BY <3>2, <4>2
        <5>2. i - 1 = j - 1
          BY <3>2, <3>7, <5>1 DEF ListedRight
        <5> QED
          BY <5>1, <5>2
      <4> QED
        BY <4>1, <4>2
    <3>8. \A d \in ReviewUploads : IsListed(d) => IsListed(d)'
      <4> SUFFICES ASSUME NEW d \in ReviewUploads, NEW i \in DOMAIN listed, listed[i].review = d
                   PROVE  \E j \in DOMAIN listed' : listed'[j].review = d
        BY DEF IsListed
      <4>1. i + 1 \in 2..(Len(listed) + 1) /\ (i + 1) - 1 = i
        BY <3>2
      <4>2. i + 1 \in DOMAIN listed' /\ listed'[i + 1] = listed[i]
        BY <3>2, <4>1
      <4> QED
        BY <4>2
    <3>9. IsListed(c)'
      <4>1. 1 \in DOMAIN listed' /\ listed'[1].review = c
        BY <3>2, <3>5
      <4> QED
        BY <4>1 DEF IsListed
    <3>10. DoneRight'
      <4>1. /\ stored' = stored /\ upload'[c].ok = upload[c].ok
            /\ upload'[c].todo \cap {"start", "store"} = {} => upload[c].todo \cap {"start", "store"} = {}
        BY <2>2, <3>1 DEF Lists, UploadBecomes
      <4> QED
        BY <1>0, <3>8, <3>9, <4>1 DEF DoneRight
    <3>11. ASSUME NEW i \in DOMAIN listed'
           PROVE  /\ listed'[i] = [review |-> listed'[i].review, at |-> upload'[listed'[i].review].at]
                  /\ upload'[listed'[i].review].todo \cap Unlisted = {}
      <4>1. PICK d \in ReviewUploads : /\ listed'[i] = [review |-> d, at |-> upload'[d].at]
                                       /\ upload'[d].todo \cap Unlisted = {}
        BY <3>6
      <4>2. listed'[i].review = d
        BY <4>1
      <4> QED
        BY <4>1, <4>2
    <3>12. ListedRight'
      BY <3>7, <3>11 DEF ListedRight, Entry
    <3> QED
      BY <3>10, <3>12
  <2>3. CASE KeepsReview(c) \/ Passes(c) \/ Skips(c)
    <3>1. listed' = listed /\ stored \subseteq stored' /\ upload'[c].at = upload[c].at
      <4>1. CASE KeepsReview(c)
        BY <4>1 DEF KeepsReview, UploadBecomes
      <4>2. CASE Passes(c)
        <5>1. PICK todo, ok : UploadBecomes(c, todo, upload[c].at, ok)
          BY <4>2 DEF Passes
        <5> QED
          BY <4>2, <5>1 DEF Passes, UploadBecomes
      <4>3. CASE Skips(c)
        <5>1. PICK todo, ok : UploadBecomes(c, todo, upload[c].at, ok)
          BY <4>3 DEF Skips
        <5> QED
          BY <4>3, <5>1 DEF Skips, UploadBecomes
      <4> QED
        BY <2>3, <4>1, <4>2, <4>3
    <3>2. /\ upload[c].todo \cap Unlisted = {} => upload'[c].todo \cap Unlisted = {}
          /\ upload'[c].ok =>
               /\ upload[c].ok
               /\ upload'[c].todo \cap {"start", "store"} = {} =>
                    upload[c].todo \cap {"start", "store"} = {} \/ c \in stored'
               /\ upload'[c].todo \cap Unlisted = {} => upload[c].todo \cap Unlisted = {}
      <4>1. CASE KeepsReview(c)
        BY <1>o, <4>1 DEF KeepsReview, UploadBecomes, Unlisted, UploadAt
      <4>2. CASE Passes(c)
        <5>1. PICK from \in {"find", "card", "zadd"}, to \in SUBSET {"insert", "push", "zadd"} :
                /\ UploadAt(c, from)
                /\ from = "find" => to \in {{"insert"}, {"push"}}
                /\ from # "find" => to \in {{}, {"zadd"}}
                /\ UploadBecomes(c, (upload[c].todo \ {from}) \cup to, upload[c].at, upload[c].ok)
          BY <4>2 DEF Passes
        <5>2. upload'[c].todo = (upload[c].todo \ {from}) \cup to /\ upload'[c].ok = upload[c].ok
          BY <5>1 DEF UploadBecomes
        <5>3. CASE from = "find"
          BY <5>1, <5>2, <5>3 DEF Unlisted, UploadAt
        <5>4. CASE from # "find"
          BY <5>1, <5>2, <5>4 DEF Unlisted, UploadAt
        <5> QED
          BY <5>3, <5>4
      <4>3. CASE Skips(c)
        <5>1. PICK step \in UploadSteps \ {"start"}, ok \in BOOLEAN :
                /\ UploadAt(c, step) /\ (ok => step \in {"card", "zadd"} /\ upload[c].ok)
                /\ UploadBecomes(c, upload[c].todo \ {step}, upload[c].at, ok)
          BY <4>3 DEF Skips
        <5>2. upload'[c].todo = upload[c].todo \ {step} /\ upload'[c].ok = ok
          BY <5>1 DEF UploadBecomes
        <5> QED
          BY <5>1, <5>2 DEF Unlisted, UploadAt
      <4> QED
        BY <2>3, <4>1, <4>2, <4>3
    <3>3. ListedRight'
      <4>1. \A d \in ReviewUploads : upload'[d].at = upload[d].at
        BY <1>0, <3>1
      <4>2. \A d \in ReviewUploads : upload[d].todo \cap Unlisted = {} => upload'[d].todo \cap Unlisted = {}
        BY <1>0, <3>2
      <4> QED
        BY <1>l, <3>1, <4>1, <4>2 DEF ListedRight, Entry
    <3>4. DoneRight'
      BY <1>0, <3>1, <3>2 DEF DoneRight, IsListed
    <3> QED
      BY <3>3, <3>4
  <2> QED
    BY <2>1, <2>2, <2>3, UploadEffects
<1> QED
  BY <1>1, <1>2

LEMMA ListingStays == ListingInv /\ [ListNext]_listVars => ListingInv'
<1> SUFFICES ASSUME ListingInv, [ListNext]_listVars PROVE ListingInv'
  OBVIOUS
<1>1. ListsType' /\ StepsInOrder'
  BY ListsTyped, StepsStayInOrder DEF ListingInv
<1>2. ASSUME NEW c \in ReviewUploads, UploadNext(c) PROVE (TimesRight /\ ListedRight /\ DoneRight)'
  BY <1>2, ReviewsStayListed DEF ListingInv
<1>3. ASSUME ReadsOnly PROVE (TimesRight /\ ListedRight /\ DoneRight)'
  BY <1>3 DEF ListingInv, ReadsOnly, TimesRight, ListedRight, DoneRight, UploadAt, Entry, IsListed
<1>4. CASE RestartRedis \/ UNCHANGED listVars
  <2>1. ReadsOnly
    BY <1>4 DEF RestartRedis, listVars, stores, calls, ReadsOnly
  <2> QED
    BY <1>1, <1>3, <2>1 DEF ListingInv
<1> QED
  BY <1>1, <1>2, <1>3, <1>4, ReadsChangeNoList DEF ListNext, ListingInv

LEMMA ListingStart == ListInit => ListingInv
<1> SUFFICES ASSUME ListInit PROVE ListingInv
  OBVIOUS
<1>1. ListsType
  <2>1. read \in ReadType({<<>>})
    BY DEF ListInit, ReadType, ReadSteps
  <2>2. upload \in UploadType
    BY DEF ListInit, UploadType, UploadSteps
  <2> QED
    BY <2>1, <2>2 DEF ListInit, ListsType
<1> QED
  BY <1>1 DEF ListInit, ListingInv, StepsInOrder, TimesRight, ListedRight, DoneRight, UploadAt, ReadAt,
              Unlisted

LEMMA ListingAlways == ListSpec => []ListingInv
BY ListingStart, ListingStays, PTL DEF ListSpec

\* A review whose upload succeeded is stored and in the list, once, however
\* many first reviews of the movie arrive together (MovieReviewHandler.h:47-183,
\* ReviewStorageHandler.h:40-107).
THEOREM UploadsAreListed == ListSpec => []UploadsListed
<1>1. ListingInv => UploadsListed
  <2> SUFFICES ASSUME ListingInv, NEW c \in ReviewUploads, upload[c].todo = {}, upload[c].ok
               PROVE  c \in stored /\ Cardinality({i \in DOMAIN listed : listed[i].review = c}) = 1
    BY DEF UploadsListed
  <2>1. c \in stored /\ IsListed(c)
    BY DEF ListingInv, DoneRight
  <2>2. PICK i \in DOMAIN listed : listed[i].review = c
    BY <2>1 DEF IsListed
  <2>3. {j \in DOMAIN listed : listed[j].review = c} = {i}
    BY <2>2 DEF ListingInv, ListedRight
  <2> QED
    BY <2>1, <2>3, FS_Singleton
<1> QED
  BY <1>1, ListingAlways, PTL


-----------------------------------------------------------------------------
(***************************************************************************)
(* Lists in the order of time and pages of them, whatever calls do: there  *)
(* is one list of some entries in that order, so that what Redis gives of  *)
(* the beginning of a list is the beginning of that list; and the rest of  *)
(* a page goes on where its beginning ends.                                *)
(***************************************************************************)

LEMMA SmallestNumber ==
  ASSUME NEW T \in SUBSET Nat, T # {}
  PROVE  \E m \in T : \A k \in T : m <= k
<1> DEFINE R == {p \in Nat \X Nat : p[1] < p[2]}
<1>1. IsWellFoundedOn(R, Nat)
  BY NatLessThanWellFounded DEF OpToRel
<1>2. PICK m \in T : \A k \in T : <<k, m>> \notin R
  BY <1>1, WFMin
<1>3. \A k \in Nat : k < m => <<k, m>> \in R
  OBVIOUS
<1> HIDE DEF R
<1>4. \A k \in T : k \in Nat /\ m \in Nat /\ ~(k < m)
  BY <1>2, <1>3
<1>5. \A k \in T : m <= k
  BY <1>4
<1> QED
  BY <1>5

LEMMA DistinctMembers ==
  ASSUME NEW n \in Nat, NEW f, \A i, j \in 1..n : f[i] = f[j] => i = j
  PROVE  /\ IsFiniteSet({f[i] : i \in 1..n}) /\ Cardinality({f[i] : i \in 1..n}) = n
<1> DEFINE S == {f[i] : i \in 1..n}
           g == [i \in 1..n |-> f[i]]
<1>1. g \in Bijection(1..n, S)
  BY DEF Bijection, Injection, Surjection, IsInjective
<1>2. ExistsBijection(1..n, S)
  BY <1>1 DEF ExistsBijection
<1>3. IsFiniteSet(1..n) /\ Cardinality(1..n) = n
  BY FS_Interval
<1> QED
  BY <1>2, <1>3, FS_Bijection

\* There is one list of some entries in the order of time.
OrdersByTime(f, n, S) ==
  /\ f \in [1..n -> S] /\ \A e \in S : e.at \in Nat /\ \E i \in 1..n : f[i] = e
  /\ \A i, j \in 1..n : i < j => f[i].at > f[j].at

LEMMA OneOrder ==
  ASSUME NEW n \in Nat, NEW S, NEW f, NEW g, OrdersByTime(f, n, S), OrdersByTime(g, n, S)
  PROVE  \A i \in 1..n : f[i] = g[i]
<1> USE DEF OrdersByTime
<1> SUFFICES ASSUME \E i \in 1..n : f[i] # g[i] PROVE FALSE
  OBVIOUS
<1> DEFINE T == {i \in 1..n : f[i] # g[i]}
<1>1. T \in SUBSET Nat /\ T # {}
  <2>1. PICK i \in 1..n : f[i] # g[i]
    OBVIOUS
  <2>2. i \in T
    BY <2>1
  <2>3. T \in SUBSET Nat
    OBVIOUS
  <2> HIDE DEF T
  <2> QED
    BY <2>2, <2>3
<1>2. PICK m \in T : \A k \in T : m <= k
  <2> HIDE DEF T
  <2> QED
    BY <1>1, SmallestNumber
<1>3. m \in 1..n /\ f[m] # g[m] /\ \A k \in 1..n : k < m => f[k] = g[k]
  BY <1>2
<1>4. f[m] \in S /\ g[m] \in S /\ f[m].at \in Nat /\ g[m].at \in Nat
  BY <1>3
<1>a. PICK x \in Nat, y \in Nat : x = f[m].at /\ y = g[m].at
  BY <1>4
<1>5. x < y
  <2>1. PICK a \in 1..n : g[a] = f[m]
    BY <1>4
  <2>2. CASE a < m
    <3>1. f[a] = f[m] /\ f[a].at > f[m].at
      BY <1>3, <2>1, <2>2
    <3>2. x > x
      BY <1>a, <3>1, Zenon
    <3> QED
      BY <3>2
  <2>3. CASE a > m
    <3>1. g[m].at > g[a].at
      BY <1>3, <2>3
    <3> QED
      BY <1>a, <2>1, <3>1
  <2> QED
    BY <1>3, <2>1, <2>2, <2>3
<1>6. y < x
  <2>1. PICK a \in 1..n : f[a] = g[m]
    BY <1>4
  <2>2. CASE a < m
    <3>1. g[a] = g[m] /\ g[a].at > g[m].at
      BY <1>3, <2>1, <2>2
    <3>2. y > y
      BY <1>a, <3>1, Zenon
    <3> QED
      BY <3>2
  <2>3. CASE a > m
    <3>1. f[m].at > f[a].at
      BY <1>3, <2>3
    <3> QED
      BY <1>a, <2>1, <3>1
  <2> QED
    BY <1>3, <2>1, <2>2, <2>3
<1> QED
  BY <1>5, <1>6

LEMMA NewestOfPart ==
  ASSUME NEW list \in Seq(Entries), InTimeOrder(list), NEW k \in 0..Len(list)
  PROVE  LET part == {list[i] : i \in 1..k}
         IN Newest(part) = SubSeq(list, 1, k) /\ Cardinality(part) = k
<1> DEFINE part == {list[i] : i \in 1..k}
           first == SubSeq(list, 1, k)
<1>1. /\ k \in Nat /\ 1..k \subseteq DOMAIN list
      /\ \A i \in 1..k : list[i] \in Entries /\ list[i].at \in Nat
      /\ \A i, j \in 1..k : i < j => list[i].at > list[j].at
  <2>1. k \in Nat /\ 1..k \subseteq DOMAIN list /\ \A i \in 1..k : list[i] \in Entries
    OBVIOUS
  <2>2. \A i \in 1..k : list[i].at \in Nat
    BY <2>1 DEF Entries
  <2> QED
    BY <2>1, <2>2 DEF InTimeOrder
<1>2. \A i, j \in 1..k : list[i] = list[j] => i = j
  BY <1>1
<1>3. Cardinality(part) = k
  BY <1>1, <1>2, DistinctMembers
<1>4. first = [i \in 1..k |-> list[i]]
  BY <1>1
<1>5. /\ first \in [1..k -> part] /\ InTimeOrder(first)
      /\ \A e \in part : \E i \in 1..k : first[i] = e
  <2> HIDE DEF first
  <2>1. first \in [1..k -> part] /\ DOMAIN first = 1..k /\ \A i \in 1..k : first[i] = list[i]
    BY <1>4
  <2>2. InTimeOrder(first)
    <3> SUFFICES ASSUME NEW i \in 1..k, NEW j \in 1..k, i < j PROVE first[i].at > first[j].at
      BY <2>1 DEF InTimeOrder
    <3>1. list[i].at > list[j].at
      BY <1>1
    <3>2. first[i] = list[i] /\ first[j] = list[j]
      BY <2>1
    <3> QED
      BY <3>1, <3>2
  <2>3. \A e \in part : \E i \in 1..k : first[i] = e
    BY <2>1
  <2> HIDE DEF part
  <2> QED
    BY <2>1, <2>2, <2>3
<1> HIDE DEF first
<1>6. Newest(part) \in [1..k -> part] /\ InTimeOrder(Newest(part))
  BY <1>3, <1>5 DEF Newest
<1> DEFINE newest == Newest(part)
<1>7. newest \in [1..k -> part] /\ DOMAIN newest = 1..k /\ DOMAIN first = 1..k
  BY <1>5, <1>6
<1>8. /\ \A i, j \in 1..k : i < j => first[i].at > first[j].at
      /\ \A i, j \in 1..k : i < j => newest[i].at > newest[j].at
  BY <1>5, <1>6, <1>7 DEF InTimeOrder
<1>9. \A e \in part : e.at \in Nat
  BY <1>1
<1>10. \A e \in part : \E i \in 1..k : newest[i] = e
  <2>1. IsFiniteSet(part)
    BY <1>1, <1>2, DistinctMembers
  <2>2. IsFiniteSet(1..k) /\ Cardinality(1..k) = k
    BY <1>1, FS_Interval
  <2> HIDE DEF part, newest
  <2>3. newest \in Injection(1..k, part)
    <3>1. \A i, j \in 1..k : newest[i] = newest[j] => i = j
      <4> SUFFICES ASSUME NEW i \in 1..k, NEW j \in 1..k, newest[i] = newest[j], i # j PROVE FALSE
        OBVIOUS
      <4>1. newest[i].at \in Nat /\ newest[i].at = newest[j].at
        BY <1>7, <1>9
      <4>2. i < j \/ j < i
        OBVIOUS
      <4> QED
        BY <1>8, <4>1, <4>2
    <3> QED
      BY <1>7, <3>1 DEF Injection, IsInjective
  <2>4. newest \in Surjection(1..k, part)
    BY <1>3, <2>1, <2>2, <2>3, FS_Injection
  <2> QED
    BY <2>4 DEF Surjection
<1>11. \A i \in 1..k : newest[i] = first[i]
  <2>1. k \in Nat
    BY <1>1
  <2>2. first \in [1..k -> part] /\ newest \in [1..k -> part]
    BY <1>5, <1>7
  <2>3. \A e \in part : (\E i \in 1..k : newest[i] = e) /\ (\E i \in 1..k : first[i] = e)
    BY <1>5, <1>10
  <2> HIDE DEF part, newest
  <2>4. (\A i, j \in 1..k : i < j => newest[i].at > newest[j].at)
    BY <1>8
  <2>5. \A i, j \in 1..k : i < j => first[i].at > first[j].at
    BY <1>8
  <2>6. OrdersByTime(newest, k, part)
    BY <1>9, <2>2, <2>3, <2>4 DEF OrdersByTime
  <2>7. OrdersByTime(first, k, part)
    BY <1>9, <2>2, <2>3, <2>5 DEF OrdersByTime
  <2> QED
    BY ONLY <2>1, <2>6, <2>7, OneOrder
<1>12. newest = first
  <2> HIDE DEF part, newest
  <2> QED
    BY <1>5, <1>7, <1>11
<1> QED
  BY <1>3, <1>12 DEF first

\* The reviews of n entries after the first a.
Shown(list, a, n) == [i \in 1..n |-> list[a + i].review]
Extent(list, a, b) ==
  LET last == IF b < Len(list) THEN b ELSE Len(list) IN IF a < last THEN last - a ELSE 0

LEMMA PageShown ==
  ASSUME NEW list \in Seq(Entries), NEW a \in Nat, NEW b \in Nat
  PROVE  Reviews(Page(list, a, b)) = Shown(list, a, Extent(list, a, b))
<1> DEFINE last == IF b < Len(list) THEN b ELSE Len(list)
           n == IF a < last THEN last - a ELSE 0
<1>1. last \in Nat /\ last <= Len(list) /\ n \in Nat
  OBVIOUS
<1>2. SubSeq(list, a + 1, last) = [i \in 1..n |-> list[a + i]]
  <2>1. CASE a < last
    <3> HIDE DEF last
    <3>1. n = last - a
      BY <2>1
    <3>2. SubSeq(list, a + 1, last) = [i \in 1..(last - a) |-> list[a + i]]
      BY <1>1, <2>1
    <3> QED
      BY <3>1, <3>2
  <2>2. CASE ~(a < last)
    <3> HIDE DEF last
    <3>1. n = 0 /\ SubSeq(list, a + 1, last) = <<>>
      BY <1>1, <2>2
    <3>2. [i \in 1..0 |-> list[a + i]] = <<>>
      OBVIOUS
    <3> QED
      BY <3>1, <3>2
  <2> QED
    BY <2>1, <2>2
<1>3. Extent(list, a, b) = n
  BY DEF Extent
<1>4. Page(list, a, b) = [i \in 1..n |-> list[a + i]]
  BY <1>2 DEF Page
<1> HIDE DEF n
<1> QED
  BY <1>3, <1>4 DEF Reviews, Shown

LEMMA PageOfFirst ==
  ASSUME NEW list \in Seq(Entries), NEW k \in 0..Len(list), NEW a \in Nat, NEW b \in Nat
  PROVE  LET n == IF b < k THEN (IF a < b THEN b - a ELSE 0) ELSE (IF a < k THEN k - a ELSE 0)
         IN /\ Reviews(Page(SubSeq(list, 1, k), a, b)) = Shown(list, a, n)
            /\ Len(Reviews(Page(SubSeq(list, 1, k), a, b))) = n
<1> DEFINE first == SubSeq(list, 1, k)
           n == IF b < k THEN (IF a < b THEN b - a ELSE 0) ELSE (IF a < k THEN k - a ELSE 0)
<1>1. first \in Seq(Entries) /\ Len(first) = k /\ \A i \in 1..k : first[i] = list[i]
  OBVIOUS
<1>2. n \in Nat /\ \A i \in 1..n : a + i \in 1..k
  OBVIOUS
<1> HIDE DEF first
<1>3. Extent(first, a, b) = n
  BY <1>1 DEF Extent
<1> HIDE DEF n
<1>4. Shown(first, a, n) = Shown(list, a, n)
  BY <1>1, <1>2 DEF Shown
<1>5. Len(Shown(list, a, n)) = n
  BY <1>2 DEF Shown
<1> QED
  BY <1>1, <1>3, <1>4, <1>5, PageShown DEF first, n

\* A page goes on where it ended.
LEMMA PageGoesOn ==
  ASSUME NEW list \in Seq(Entries), NEW a \in Nat, NEW b \in Nat, NEW m \in Nat,
         m <= Extent(list, a, b)
  PROVE  LET slice == Page(list, 0, b)
         IN Shown(list, a, m) \o SubSeq(Reviews(slice), a + m + 1, Len(slice))
              = Shown(list, a, Extent(list, a, b))
<1> DEFINE last == IF b < Len(list) THEN b ELSE Len(list)
           slice == Page(list, 0, b)
           n == Extent(list, a, b)
           R == {list[i].review : i \in 1..Len(list)}
           whole == Shown(list, 0, last)
           before == Shown(list, a, m)
           after == SubSeq(whole, a + m + 1, last)
<1>1. last \in Nat /\ last <= Len(list) /\ n = IF a < last THEN last - a ELSE 0
  BY DEF Extent
<1>2. Reviews(slice) = whole /\ Len(slice) = last
  <2>1. Extent(list, 0, b) = last
    BY DEF Extent
  <2>2. slice = SubSeq(list, 1, last)
    BY DEF Page
  <2>3. Len(slice) = last
    <3> HIDE DEF last, slice
    <3> QED
      BY <1>1, <2>2
  <2> QED
    BY <2>1, <2>3, PageShown
<1> HIDE DEF last, slice, n, R
<1>3. \A p, q \in Nat : (q = 0 \/ p + q <= Len(list)) =>
        /\ Shown(list, p, q) \in Seq(R) /\ Len(Shown(list, p, q)) = q
        /\ \A i \in 1..q : Shown(list, p, q)[i] = list[p + i].review
  <2> SUFFICES ASSUME NEW p \in Nat, NEW q \in Nat, q = 0 \/ p + q <= Len(list)
               PROVE  /\ Shown(list, p, q) \in Seq(R) /\ Len(Shown(list, p, q)) = q
                      /\ \A i \in 1..q : Shown(list, p, q)[i] = list[p + i].review
    OBVIOUS
  <2>1. \A i \in 1..q : list[p + i].review \in R
    BY DEF R
  <2> QED
    BY <2>1 DEF Shown
<1>4. n \in Nat /\ m <= n /\ (n = 0 \/ a + n = last)
  BY <1>1 DEF n
<1>5. whole \in Seq(R) /\ Len(whole) = last /\ \A i \in 1..last : whole[i] = list[i].review
  <2>1. last \in Nat /\ 0 + last <= Len(list)
    BY <1>1
  <2>2. /\ Shown(list, 0, last) \in Seq(R) /\ Len(Shown(list, 0, last)) = last
        /\ \A i \in 1..last : Shown(list, 0, last)[i] = list[0 + i].review
    BY <1>3, <2>1
  <2> QED
    BY <1>1, <2>2
<1>6. before \in Seq(R) /\ Len(before) = m /\ \A i \in 1..m : before[i] = list[a + i].review
  BY <1>1, <1>3, <1>4
<1>7. Shown(list, a, n) \in Seq(R) /\ Len(Shown(list, a, n)) = n
      /\ \A i \in 1..n : Shown(list, a, n)[i] = list[a + i].review
  BY <1>1, <1>3, <1>4
<1> HIDE DEF whole, before
<1>8. after \in Seq(R) /\ Len(after) = n - m /\ \A i \in 1..(n - m) : after[i] = list[a + m + i].review
  <2>1. \A i \in (a + m + 1)..last : whole[i] \in R
    BY <1>1, <1>5
  <2>2. a + m + 1 \in Int /\ last \in Int
    BY <1>1
  <2>3. /\ after \in Seq(R)
        /\ Len(after) = IF a + m + 1 <= last THEN last - (a + m + 1) + 1 ELSE 0
        /\ \A i \in 1 .. last - (a + m + 1) + 1 : after[i] = whole[(a + m + 1) + i - 1]
    <3> HIDE DEF after
    <3> QED
      BY ONLY <2>1, <2>2, SubSeqProperties DEF after
  <2> HIDE DEF after
  <2>4. Len(after) = n - m
    BY <1>1, <1>4, <2>3
  <2>5. ASSUME NEW i \in 1..(n - m) PROVE after[i] = list[a + m + i].review
    <3>1. i \in 1 .. last - (a + m + 1) + 1 /\ (a + m + 1) + i - 1 = a + m + i
          /\ a + m + i \in 1..last
      BY <1>1, <1>4
    <3> QED
      BY <1>5, <2>3, <3>1
  <2> QED
    BY <2>3, <2>4, <2>5
<1> HIDE DEF after
<1>9. /\ before \o after \in Seq(R) /\ Len(before \o after) = Len(before) + Len(after)
      /\ \A i \in 1 .. Len(before) + Len(after) :
           (before \o after)[i] = IF i <= Len(before) THEN before[i] ELSE after[i - Len(before)]
  BY <1>6, <1>8, ConcatProperties
<1>10. Len(before \o after) = n
  BY <1>4, <1>6, <1>8, <1>9
<1>11. ASSUME NEW i \in 1..n PROVE (before \o after)[i] = list[a + i].review
  <2>1. (before \o after)[i] = IF i <= m THEN before[i] ELSE after[i - m]
    BY <1>6, <1>9, <1>10
  <2>2. CASE i <= m
    BY <1>4, <1>6, <2>1, <2>2
  <2>3. CASE i > m
    <3>1. i - m \in 1..(n - m) /\ a + m + (i - m) = a + i
      BY <1>4, <2>3
    <3> QED
      BY <1>8, <2>1, <2>3, <3>1
  <2>4. i <= m \/ i > m
    BY <1>4
  <2> QED
    BY <2>2, <2>3, <2>4
<1>12. before \o after = Shown(list, a, n)
  BY <1>7, <1>9, <1>10, <1>11, SeqEqual
<1> QED
  BY <1>2, <1>12 DEF slice, n, before, after

-----------------------------------------------------------------------------
(***************************************************************************)
(* What Redis holds.  While calls take turns, it has the beginning of the  *)
(* list, except the review that is being added; the list is in the order   *)
(* of the timestamps, since the upload that runs is the latest.  After a   *)
(* race, a read that runs alone clears Redis and fills it again, so what   *)
(* it took from MongoDB and what Redis holds between its two commands      *)
(* belong to the invariant as well.                                        *)
(***************************************************************************)

Adding(c) == upload[c].todo \cap {"card", "zadd"} # {}
Part(first, last) == {listed[i] : i \in first..last}
Reach(c) == IF read[c].stop < Len(listed) THEN read[c].stop ELSE Len(listed)
Refilling(c) == read[c].todo \cap {"del", "refill"} # {}

\* Uploads run alone, in the order of their timestamps.
InTurn ==
  /\ InTimeOrder(listed)
  /\ UploadsActive # {} => ReadsActive = {}
  /\ \A c, d \in UploadsActive : c = d
  /\ \A c \in UploadsActive : upload[c].at = now

\* Redis has the first k reviews of the list, except the one that is being added.
CachedRight ==
  \E k \in 0..Len(listed) :
    \/ (\A c \in ReviewUploads : ~Adding(c)) /\ cached = Part(1, k)
    \/ /\ k >= 1 /\ cached = Part(2, k)
       /\ \E c \in ReviewUploads : Adding(c)
       /\ \A c \in ReviewUploads : Adding(c) => listed[1] = Entry(c)

TurnsRight == ~raced => InTurn /\ CachedRight

\* A read that no call overlapped runs alone, and finds Redis as it left it.
AloneRight ==
  \A c \in ReadsActive \ overlapped :
    UploadsActive = {} /\ ReadsActive = {c} /\ (ReadAt(c, "refill") => cached = {})

\* A read puts the beginning of the list back, unless an upload meanwhile
\* began.
SliceRight ==
  \A c \in Reads : Refilling(c) /\ (~raced \/ c \notin overlapped) => read[c].slice = Part(1, Reach(c))

RacesRight == TurnsRight /\ AloneRight /\ SliceRight

LEMMA UploadsTurn ==
  ASSUME ListingInv, NEW c \in ReviewUploads, UploadNext(c)
  PROVE  /\ read' = read /\ ReadsActive' = ReadsActive
         /\ \/ StartUpload(c) /\ Begins(c) /\ UploadsActive' = UploadsActive \cup {c}
            \/ /\ ~StartUpload(c) /\ ~Begins(c) /\ c \in UploadsActive /\ UploadsActive' \subseteq UploadsActive
               /\ UNCHANGED <<now, overlapped, sure>> /\ (~raced' => ~raced)
               /\ \A d \in ReviewUploads : upload'[d].at = upload[d].at /\ (d # c => upload'[d] = upload[d])
<1>0. /\ UploadAt(c, "start") => upload[c].todo = {"start"}
      /\ \A s, t \in upload[c].todo \ {"store"} : s = t
      /\ ListsType
  BY DEF ListingInv, StepsInOrder
<1>1. read' = read /\ ReadsActive' = ReadsActive
  BY UploadKeepsRead DEF ReadsActive
<1>2. CASE Begins(c)
  <2>1. StartUpload(c)
    BY <1>0, <1>2 DEF UploadNext, Begins, UploadAt, StoreReview, FindDocument, InsertDocument, PushReview,
                      CountCached, AddToCached, FindErrs, UploadStepFails
  <2>2. UploadsActive' = UploadsActive \cup {c}
    <3>1. upload'[c].todo \notin {{"start"}, {}} /\ \A d \in ReviewUploads : d # c => upload'[d] = upload[d]
      BY <1>2 DEF Begins, UploadBecomes
    <3> QED
      BY <3>1 DEF UploadsActive
  <2> QED
    BY <1>1, <1>2, <2>1, <2>2
<1>3. CASE ~Begins(c)
  <2>0. KeepsReview(c) \/ Lists(c) \/ Passes(c) \/ Skips(c)
    BY <1>0, <1>3, UploadEffects
  <2>1. \A d \in ReviewUploads : upload'[d].at = upload[d].at /\ (d # c => upload'[d] = upload[d])
    <3>1. PICK todo, ok : UploadBecomes(c, todo, upload[c].at, ok)
      BY <2>0, Zenon DEF KeepsReview, Lists, Passes, Skips
    <3> QED
      BY <3>1 DEF UploadBecomes
  <2>2. upload[c].todo \notin {{"start"}, {}}
    <3>1. PICK step \in {"store", "find", "insert", "push", "card", "zadd"} : UploadAt(c, step)
      <4>1. CASE Skips(c)
        BY <4>1 DEF Skips, UploadSteps
      <4>2. CASE Passes(c)
        BY <4>2 DEF Passes
      <4>3. CASE KeepsReview(c) \/ Lists(c)
        BY <4>3 DEF KeepsReview, Lists
      <4> QED
        BY <2>0, <4>1, <4>2, <4>3
    <3> QED
      BY <1>0, <3>1 DEF UploadAt
  <2>3. c \in UploadsActive
    BY <2>2 DEF UploadsActive
  <2>4. UploadsActive' \subseteq UploadsActive
    BY <2>1, <2>3 DEF UploadsActive
  <2>5. ~UploadAt(c, "start")
    BY <1>0, <2>2
  <2>6. UNCHANGED <<now, overlapped, sure>> /\ (~raced' => ~raced)
    BY <1>0, <2>5 DEF UploadNext, StartUpload, UploadAt, StoreReview, FindDocument, InsertDocument, PushReview,
                      CountCached, AddToCached, FindErrs, UploadStepFails, history, stores
  <2> QED
    BY <1>1, <1>3, <2>1, <2>3, <2>4, <2>5, <2>6 DEF StartUpload
<1> QED
  BY <1>2, <1>3

LEMMA ReadsTurn ==
  ASSUME ListingInv, NEW c \in Reads, ReadNext(c)
  PROVE  /\ ReadsOnly /\ UploadsActive' = UploadsActive
         /\ \A d \in Reads : d # c => read'[d] = read[d]
         /\ \/ StartRead(c) /\ StartsRead(c) /\ ReadsActive' \subseteq ReadsActive \cup {c}
            \/ /\ ~StartRead(c) /\ c \in ReadsActive /\ ReadsActive' \subseteq ReadsActive
               /\ ~ReadAt(c, "start")
<1>0. ListsType /\ (ReadAt(c, "start") => read[c].todo = {"start"})
  BY DEF ListingInv, StepsInOrder
<1>1. ReadsOnly /\ UploadsActive' = UploadsActive
  BY ReadsChangeNoList DEF ReadsOnly, UploadsActive
<1>2. \A d \in Reads : d # c => read'[d] = read[d]
  BY <1>0, ReadEffects DEF StartsRead, TakesPage, TakesRest, Checks, Clears, Fills, Gives, ReadBecomes
<1>3. CASE StartRead(c)
  <2>1. StartsRead(c)
    BY <1>0, <1>3, ReadEffects
       DEF StartRead, TakesPage, TakesRest, Checks, Clears, Fills, Gives, ReadAt
  <2>2. ReadsActive' \subseteq ReadsActive \cup {c}
    BY <1>2 DEF ReadsActive
  <2> QED
    BY <1>1, <1>2, <1>3, <2>1, <2>2
<1>4. CASE ~StartRead(c)
  <2>1. read[c].todo \notin {{"start"}, {}}
    BY <1>0, <1>4, ReadEffects DEF TakesPage, TakesRest, Checks, Clears, Fills, Gives, ReadAt
  <2>2. c \in ReadsActive
    BY <2>1 DEF ReadsActive
  <2>3. ReadsActive' \subseteq ReadsActive
    BY <1>2, <2>2 DEF ReadsActive
  <2> QED
    BY <1>0, <1>1, <1>2, <1>4, <2>1, <2>2, <2>3
<1> QED
  BY <1>3, <1>4

\* A new review is in front of the list and its time is the latest.
LEMMA OrderStays ==
  ASSUME ListingInv, InTurn, NEW c \in UploadsActive, Lists(c)
  PROVE  InTimeOrder(listed')
<1>1. /\ listed \in Seq(Entries) /\ Entry(c) \in Entries /\ c \in ReviewUploads /\ upload[c].at = now
  BY DEF ListingInv, ListsType, InTurn, UploadsActive, UploadType, Entry, Entries
<1>2. /\ DOMAIN listed = 1..Len(listed) /\ Len(listed) \in Nat /\ DOMAIN listed' = 1..(Len(listed) + 1)
      /\ listed'[1] = Entry(c)
      /\ \A i \in 2..(Len(listed) + 1) : i - 1 \in DOMAIN listed /\ listed'[i] = listed[i - 1]
  BY <1>1, InFront DEF Lists
<1>3. ASSUME NEW i \in DOMAIN listed PROVE now > listed[i].at
  <2>1. listed[i] \in Entries
    BY <1>1
  <2>2. PICK d \in ReviewUploads : d = listed[i].review
    BY <2>1 DEF Entries
  <2>3. listed[i].at = upload[d].at /\ upload[d].todo \cap Unlisted = {}
    BY <2>2 DEF ListingInv, ListedRight, Entry
  <2>4. upload[c].todo \cap {"insert", "push"} # {}
    BY DEF Lists, UploadAt
  <2>5. c # d /\ ~UploadAt(d, "start") /\ ~UploadAt(c, "start")
    BY <2>3, <2>4, <1>1 DEF Unlisted, UploadAt, ListingInv, StepsInOrder
  <2>6. upload[d].at <= now /\ upload[c].at # upload[d].at /\ upload[d].at \in Nat /\ now \in Nat
    BY <1>1, <2>5 DEF ListingInv, TimesRight, ListsType, UploadType
  <2> QED
    BY <1>1, <2>3, <2>6
<1>4. SUFFICES ASSUME NEW i \in DOMAIN listed', NEW j \in DOMAIN listed', i < j
               PROVE  listed'[i].at > listed'[j].at
  BY DEF InTimeOrder
<1>5. j \in 2..(Len(listed) + 1)
  BY <1>2, <1>4
<1>6. CASE i = 1
  <2>1. listed'[i].at = now
    BY <1>1, <1>2, <1>6 DEF Entry
  <2> QED
    BY <1>2, <1>3, <1>5, <2>1
<1>7. CASE i # 1
  <2>1. i \in 2..(Len(listed) + 1) /\ i - 1 < j - 1
    BY <1>2, <1>4, <1>7
  <2> QED
    BY <1>2, <1>5, <2>1 DEF InTurn, InTimeOrder
<1> QED
  BY <1>6, <1>7

\* Uploads that take turns keep Redis right.
LEMMA CachedStays ==
  ASSUME ListingInv, InTurn, CachedRight, NEW c \in UploadsActive, UploadNext(c), ~StartUpload(c),
         ~raced'
  PROVE  CachedRight' /\ InTimeOrder(listed')
<1>0. /\ c \in ReviewUploads /\ upload \in UploadType /\ listed \in Seq(Entries) /\ Entry(c) \in Entries
      /\ \A s, t \in upload[c].todo \ {"store"} : s = t
  BY DEF ListingInv, ListsType, StepsInOrder, UploadsActive, UploadType, Entry, Entries
<1>1. \A d \in ReviewUploads : upload'[d].at = upload[d].at /\ (d # c => upload'[d] = upload[d])
  BY <1>0, UploadsTurn
<1>2. \A d \in ReviewUploads : d # c => ~Adding(d) /\ ~Adding(d)'
  <2> SUFFICES ASSUME NEW d \in ReviewUploads, d # c PROVE ~Adding(d) /\ ~Adding(d)'
    OBVIOUS
  <2>1. d \notin UploadsActive
    BY DEF InTurn
  <2>2. upload[d].todo \in {{"start"}, {}}
    BY <2>1 DEF UploadsActive
  <2> QED
    BY <1>1, <2>2 DEF Adding
<1>3. Entry(c)' = Entry(c)
  BY <1>0, <1>1 DEF Entry
<1>4. PICK k \in 0..Len(listed) :
        \/ (\A d \in ReviewUploads : ~Adding(d)) /\ cached = Part(1, k)
        \/ /\ k >= 1 /\ cached = Part(2, k)
           /\ \E d \in ReviewUploads : Adding(d)
           /\ \A d \in ReviewUploads : Adding(d) => listed[1] = Entry(d)
  BY DEF CachedRight
<1>5. /\ ~Adding(c) => cached = Part(1, k)
      /\ Adding(c) => k >= 1 /\ cached = Part(2, k) /\ listed[1] = Entry(c)
  BY <1>0, <1>2, <1>4
<1>6. ASSUME NEW n \in 0..Len(listed'),
             \/ ~Adding(c)' /\ cached' = Part(1, n)'
             \/ Adding(c)' /\ n >= 1 /\ cached' = Part(2, n)' /\ listed'[1] = Entry(c)
      PROVE  CachedRight'
  <2>1. CASE ~Adding(c)' /\ cached' = Part(1, n)'
    <3>1. \A d \in ReviewUploads : ~Adding(d)'
      BY <1>2, <2>1
    <3> QED
      BY <2>1, <3>1 DEF CachedRight
  <2>2. CASE Adding(c)' /\ n >= 1 /\ cached' = Part(2, n)' /\ listed'[1] = Entry(c)
    <3>1. \A d \in ReviewUploads : Adding(d)' => listed'[1] = Entry(d)'
      BY <1>2, <1>3, <2>2
    <3> QED
      BY <1>0, <2>2, <3>1 DEF CachedRight
  <2> QED
    BY <1>6, <2>1, <2>2
<1>g. ASSUME NEW from, NEW to \in SUBSET UploadSteps, UploadGoes(c, from, to)
      PROVE  upload'[c].todo = (upload[c].todo \ {from}) \cup to
  <2>1. UploadBecomes(c, (upload[c].todo \ {from}) \cup to, upload[c].at, upload[c].ok)
    BY <1>0, <1>g, UploadGoesOn
  <2> QED
    BY <2>1 DEF UploadBecomes
<1>s. ASSUME UNCHANGED <<listed, cached>>, Adding(c)' <=> Adding(c)
      PROVE  CachedRight' /\ InTimeOrder(listed')
  <2>1. CachedRight'
    <3>1. k \in 0..Len(listed')
      BY <1>s
    <3>2. ~Adding(c)' => cached' = Part(1, k)'
      BY <1>5, <1>s DEF Part
    <3>3. Adding(c)' => k >= 1 /\ cached' = Part(2, k)' /\ listed'[1] = Entry(c)
      BY <1>5, <1>s DEF Part
    <3> QED
      BY <1>6, <3>1, <3>2, <3>3
  <2> QED
    BY <1>s, <2>1 DEF InTurn
<1>7. CASE StoreReview(c)
  <2>1. {} \in SUBSET UploadSteps
    OBVIOUS
  <2>2. upload'[c].todo = (upload[c].todo \ {"store"}) \cup {}
    BY <1>7, <1>g, <2>1 DEF StoreReview
  <2> QED
    BY <1>7, <1>s, <2>2 DEF StoreReview, Adding
<1>8. CASE FindDocument(c)
  <2>1. PICK to \in {{"insert"}, {"push"}} : UploadGoes(c, "find", to)
    BY <1>8 DEF FindDocument
  <2>2. to \in SUBSET UploadSteps
    BY DEF UploadSteps
  <2>3. upload'[c].todo = (upload[c].todo \ {"find"}) \cup to
    BY <1>g, <2>1, <2>2
  <2>4. "card" \notin upload[c].todo /\ "zadd" \notin upload[c].todo
    BY <1>0, <1>8 DEF FindDocument, UploadAt
  <2> QED
    BY <1>8, <1>s, <2>3, <2>4 DEF FindDocument, Adding, stores
<1>15. CASE FindErrs(c)
  <2>1. {"insert"} \in SUBSET UploadSteps /\ UploadGoes(c, "find", {"insert"})
    BY <1>15 DEF UploadSteps, FindErrs
  <2>2. upload'[c].todo = (upload[c].todo \ {"find"}) \cup {"insert"}
    BY <1>g, <2>1
  <2> QED
    BY <1>15, <1>s, <2>2 DEF FindErrs, Adding, stores
<1>9. CASE Lists(c) /\ UNCHANGED cached
  <2>1. PICK step \in {"insert", "push"} :
          /\ UploadAt(c, step) /\ listed' = <<Entry(c)>> \o listed
          /\ UploadBecomes(c, (upload[c].todo \ {step}) \cup {"card"}, upload[c].at, upload[c].ok)
    BY <1>9 DEF Lists
  <2>2. Adding(c)' /\ ~Adding(c)
    BY <1>0, <2>1 DEF Adding, UploadAt, UploadBecomes
  <2>3. /\ Len(listed') = Len(listed) + 1 /\ Len(listed) \in Nat /\ listed'[1] = Entry(c)
        /\ \A i \in 2..(Len(listed) + 1) : listed'[i] = listed[i - 1]
    BY <1>0, <2>1, InFront
  <2>4. k + 1 \in 0..Len(listed') /\ k + 1 >= 1
    BY <2>3
  <2>5. Part(2, k + 1)' = Part(1, k)
    <3>1. ASSUME NEW e PROVE (\E i \in 2..(k + 1) : listed'[i] = e) <=> (\E i \in 1..k : listed[i] = e)
      <4>1. ASSUME NEW i \in 2..(k + 1), listed'[i] = e PROVE \E j \in 1..k : listed[j] = e
        <5>1. i - 1 \in 1..k /\ listed'[i] = listed[i - 1]
          BY <2>3
        <5> QED
          BY <4>1, <5>1
      <4>2. ASSUME NEW i \in 1..k, listed[i] = e PROVE \E j \in 2..(k + 1) : listed'[j] = e
        <5>1. i + 1 \in 2..(k + 1) /\ i + 1 \in 2..(Len(listed) + 1) /\ (i + 1) - 1 = i
          BY <2>3
        <5>2. listed'[i + 1] = listed[i]
          BY <2>3, <5>1
        <5> QED
          BY <4>2, <5>1, <5>2
      <4> QED
        BY <4>1, <4>2
    <3> QED
      BY <3>1 DEF Part
  <2>6. cached' = Part(2, k + 1)'
    BY <1>5, <1>9, <2>2, <2>5
  <2>7. CachedRight'
    BY <1>6, <2>2, <2>3, <2>4, <2>6
  <2> QED
    BY <1>9, <2>7, OrderStays
<1>10. CASE InsertDocument(c) /\ listed # <<>>
  <2>1. /\ upload[c].todo \ {"insert"} \in SUBSET UploadSteps
        /\ upload[c].at \in Nat /\ upload[c].ok \in BOOLEAN
    BY <1>0 DEF UploadType
  <2>2. upload' = [upload EXCEPT ![c].todo = upload[c].todo \ {"insert"}, ![c].ok = FALSE]
    BY <1>10 DEF InsertDocument
  <2>3. upload'[c].todo = upload[c].todo \ {"insert"}
    <3>1. UploadBecomes(c, upload[c].todo \ {"insert"}, upload[c].at, FALSE)
      BY <1>0, <2>1, <2>2, UploadSets
    <3> QED
      BY <3>1 DEF UploadBecomes
  <2> QED
    BY <1>10, <1>s, <2>3 DEF InsertDocument, Adding
<1>11. CASE CountCached(c)
  <2>1. PICK to \in {{}, {"zadd"}} :
          UploadGoes(c, "card", to) /\ to = IF cached = {} THEN {} ELSE {"zadd"}
    BY <1>11 DEF CountCached
  <2>2. to \in SUBSET UploadSteps
    BY DEF UploadSteps
  <2>3. upload'[c].todo = (upload[c].todo \ {"card"}) \cup to
    BY <1>g, <2>1, <2>2
  <2>4. Adding(c) /\ "zadd" \notin upload[c].todo
    BY <1>0, <1>11 DEF CountCached, UploadAt, Adding
  <2>5. UNCHANGED <<listed, cached>>
    BY <1>11 DEF CountCached, stores
  <2>6. CASE cached = {}
    <3>1. ~Adding(c)'
      BY <2>1, <2>3, <2>4, <2>6 DEF Adding
    <3>2. 0 \in 0..Len(listed') /\ Part(1, 0)' = {}
      BY <1>0, <2>5 DEF Part
    <3>3. CachedRight'
      BY <1>6, <2>5, <2>6, <3>1, <3>2
    <3> QED
      BY <2>5, <3>3 DEF InTurn
  <2>7. CASE cached # {}
    <3>1. Adding(c)'
      BY <2>1, <2>3, <2>7 DEF Adding
    <3> QED
      BY <1>s, <2>4, <2>5, <3>1
  <2> QED
    BY <2>6, <2>7
<1>12. CASE AddToCached(c)
  <2>1. {} \in SUBSET UploadSteps
    OBVIOUS
  <2>2. upload'[c].todo = (upload[c].todo \ {"zadd"}) \cup {}
    BY <1>12, <1>g, <2>1 DEF AddToCached
  <2>3. Adding(c) /\ ~Adding(c)'
    BY <1>0, <1>12, <2>2 DEF AddToCached, UploadAt, Adding
  <2>4. listed' = listed /\ cached' = cached \cup {Entry(c)}
    BY <1>12 DEF AddToCached
  <2>5. cached = Part(2, k) /\ listed[1] = Entry(c) /\ k >= 1
    BY <1>5, <2>3
  <2>6. Part(2, k) \cup {listed[1]} = Part(1, k)
    <3>1. 1..k = {1} \cup 2..k
      BY <2>5
    <3> QED
      BY <3>1 DEF Part
  <2>7. cached' = Part(1, k)' /\ k \in 0..Len(listed')
    BY <2>4, <2>5, <2>6 DEF Part
  <2>8. CachedRight'
    BY <1>6, <2>3, <2>7
  <2> QED
    BY <2>4, <2>8 DEF InTurn
<1>13. (InsertDocument(c) /\ listed = <<>>) \/ PushReview(c) => Lists(c) /\ UNCHANGED cached
  <2> SUFFICES ASSUME (InsertDocument(c) /\ listed = <<>>) \/ PushReview(c)
               PROVE  Lists(c) /\ UNCHANGED cached
    OBVIOUS
  <2>1. Lists(c)
    BY <1>0, ListsReview DEF ListingInv
  <2>2. UNCHANGED cached
    BY DEF InsertDocument, PushReview
  <2> QED
    BY <2>1, <2>2
<1>14. ~\E step \in {"store", "find", "insert", "push", "card", "zadd"} : UploadStepFails(c, step)
  BY DEF UploadStepFails
<1> QED
  BY <1>7, <1>8, <1>9, <1>10, <1>11, <1>12, <1>13, <1>14, <1>15 DEF UploadNext

LEMMA UploadsRaceRight ==
  ASSUME ListingInv, RacesRight, NEW c \in ReviewUploads, UploadNext(c)
  PROVE  RacesRight'
<1>0. read' = read /\ ReadsActive' = ReadsActive /\ ReadsActive \subseteq Reads
  BY UploadsTurn DEF ReadsActive
<1>1. CASE StartUpload(c)
  <2>0. /\ UNCHANGED <<listed, cached>> /\ now' = now + 1
        /\ raced' = (raced \/ UploadsActive \cup ReadsActive # {})
        /\ overlapped' = overlapped \cup ReadsActive
    BY <1>1 DEF StartUpload, stores
  <2>1. Begins(c) /\ UploadsActive' = UploadsActive \cup {c}
    BY <1>1, UploadsTurn
  <2>2. AloneRight'
    BY <1>0, <2>0 DEF AloneRight
  <2>3. SliceRight'
    BY <1>0, <2>0 DEF RacesRight, SliceRight, Refilling, Part, Reach
  <2>4. ASSUME ~raced' PROVE (InTurn /\ CachedRight)'
    <3>1. ~raced /\ UploadsActive = {} /\ ReadsActive = {} /\ InTurn /\ CachedRight
      BY <2>0, <2>4 DEF RacesRight, TurnsRight
    <3>2. \A d \in ReviewUploads : ~Adding(d)
      BY <3>1 DEF UploadsActive, Adding
    <3>3. \A d \in ReviewUploads : ~Adding(d)'
      BY <2>1, <3>2 DEF Begins, UploadBecomes, Adding
    <3>4. CachedRight'
      BY <2>0, <3>1, <3>2, <3>3 DEF CachedRight, Part
    <3>5. upload'[c].at = now'
      BY <2>0, <2>1 DEF Begins, UploadBecomes
    <3>6. UploadsActive' = {c} /\ ReadsActive' = {} /\ listed' = listed
      BY <1>0, <2>0, <2>1, <3>1
    <3> QED
      BY <3>1, <3>4, <3>5, <3>6 DEF InTurn
  <2> QED
    BY <2>2, <2>3, <2>4 DEF RacesRight, TurnsRight
<1>2. CASE ~StartUpload(c)
  <2>0. /\ c \in UploadsActive /\ UploadsActive' \subseteq UploadsActive
        /\ UNCHANGED <<now, overlapped, sure>> /\ (~raced' => ~raced)
        /\ \A d \in ReviewUploads : upload'[d].at = upload[d].at
    BY <1>2, UploadsTurn
  <2>1. ReadsActive \subseteq overlapped
    BY <2>0 DEF RacesRight, AloneRight
  <2>2. AloneRight'
    BY <1>0, <2>0, <2>1 DEF AloneRight
  <2>3. SliceRight'
    <3> SUFFICES ASSUME NEW d \in Reads, Refilling(d)', ~raced' \/ d \notin overlapped'
                 PROVE  FALSE
      BY DEF SliceRight
    <3>1. d \in ReadsActive
      BY <1>0 DEF Refilling, ReadsActive
    <3>2. ~raced
      BY <2>0, <2>1, <3>1
    <3> QED
      BY <2>0, <3>1, <3>2 DEF RacesRight, TurnsRight, InTurn
  <2>4. ASSUME ~raced' PROVE (InTurn /\ CachedRight)'
    <3>1. InTurn /\ CachedRight
      BY <2>0, <2>4 DEF RacesRight, TurnsRight
    <3>2. CachedRight' /\ InTimeOrder(listed')
      BY <1>2, <2>0, <2>4, <3>1, CachedStays
    <3>3. InTurn'
      BY <1>0, <2>0, <3>1, <3>2 DEF InTurn, UploadsActive
    <3> QED
      BY <3>2, <3>3
  <2> QED
    BY <2>2, <2>3, <2>4 DEF RacesRight, TurnsRight
<1> QED
  BY <1>1, <1>2

LEMMA PartOfSlice ==
  ASSUME listed \in Seq(Entries), NEW stop \in Nat
  PROVE  Members(Page(listed, 0, stop)) = Part(1, IF stop < Len(listed) THEN stop ELSE Len(listed))
<1> DEFINE last == IF stop < Len(listed) THEN stop ELSE Len(listed)
           page == Page(listed, 0, stop)
<1>1. /\ page \in Seq(Entries) /\ Len(page) = last
      /\ \A i \in DOMAIN page : page[i] = listed[i]
  BY SliceFacts
<1> HIDE DEF page, last
<1>2. DOMAIN page = 1..last
  BY <1>1
<1>3. Members(page) = Part(1, last)
  BY <1>1, <1>2 DEF Members, Part
<1> QED
  BY <1>3 DEF page, last

\* A read that Redis does not serve in full puts the beginning of the list
\* back.
LEMMA SliceStays ==
  ASSUME ListingInv, RacesRight, NEW c \in Reads, ReadNext(c)
  PROVE  SliceRight'
<1>0. /\ ReadsOnly /\ \A d \in Reads : d # c => read'[d] = read[d]
      /\ ListsType /\ listed \in Seq(Entries) /\ Len(listed) \in Nat
      /\ \A d \in Reads : read[d].stop \in Nat
  <2>1. ReadsOnly /\ \A d \in Reads : d # c => read'[d] = read[d]
    BY ReadsTurn
  <2>2. ListsType
    BY DEF ListingInv
  <2>3. listed \in Seq(Entries) /\ \A d \in Reads : read[d].stop \in Nat
    BY <2>2 DEF ListsType, ReadType
  <2> QED
    BY <2>1, <2>2, <2>3
<1>1. SUFFICES ASSUME NEW d \in Reads, Refilling(d)', ~raced' \/ d \notin overlapped'
               PROVE  read'[d].slice = Part(1, Reach(d))'
  BY DEF SliceRight
<1>2. \A n : Part(1, n)' = Part(1, n)
  BY <1>0 DEF Part, ReadsOnly
<1>3. d \notin overlapped' => d \notin overlapped
  BY DEF ReadNext, StartRead, RangeCached, FindReviews, ReadReviews, ClearCached, FillCached,
         FindReviewsErrs, ReadStepFails, history
<1>4. ~raced' => ~raced \/ (FillCached(c) /\ c \notin overlapped)
  BY DEF ReadNext, StartRead, RangeCached, FindReviews, ReadReviews, ClearCached, FillCached,
         FindReviewsErrs, ReadStepFails, history
<1>5. CASE d # c
  <2>1. read'[d] = read[d] /\ Refilling(d) /\ d \in ReadsActive
    BY <1>0, <1>1, <1>5 DEF Refilling, ReadsActive
  <2>2. ~raced \/ d \notin overlapped
    <3>1. CASE FillCached(c) /\ c \notin overlapped
      <4>1. c \in ReadsActive
        BY <3>1 DEF FillCached, ReadAt, ReadsActive
      <4> QED
        BY <1>5, <2>1, <3>1, <4>1 DEF RacesRight, AloneRight
    <3> QED
      BY <1>1, <1>3, <1>4, <3>1
  <2>3. read[d].slice = Part(1, Reach(d))
    BY <2>1, <2>2 DEF RacesRight, SliceRight
  <2>4. Reach(d)' = Reach(d)
    BY <1>0, <2>1 DEF Reach, ReadsOnly
  <2> QED
    BY <1>2, <2>1, <2>3, <2>4 DEF Part
<1>6. CASE d = c
  <2>1. CASE TakesRest(c)
    <3> DEFINE stop == read[c].stop
    <3>1. read'[c].slice = Members(Page(listed, 0, stop)) /\ read'[c].stop = stop
      BY <2>1 DEF TakesRest, ReadBecomes
    <3>2. read'[c].slice = Part(1, IF stop < Len(listed) THEN stop ELSE Len(listed))
      BY <1>0, <3>1, PartOfSlice
    <3>3. Reach(c)' = IF stop < Len(listed) THEN stop ELSE Len(listed)
      BY <1>0, <3>1 DEF Reach, ReadsOnly
    <3> HIDE DEF stop
    <3> QED
      BY <1>0, <1>6, <3>2, <3>3 DEF Part, ReadsOnly
  <2>2. CASE StartsRead(c) \/ TakesPage(c)
    <3>1. read'[c].todo \in {{}, {"range"}, {"find"}, {"reviews"}}
      BY <2>2 DEF StartsRead, TakesPage, ReadBecomes
    <3> QED
      BY <1>1, <1>6, <3>1 DEF Refilling
  <2>3. CASE Fills(c)
    <3>1. "refill" \in read[c].todo /\ read'[c].slice = read[c].slice /\ read'[c].stop = read[c].stop
      BY <2>3 DEF Fills, ReadBecomes, ReadAt
    <3>2. Refilling(c) /\ c \in ReadsActive
      BY <3>1 DEF Refilling, ReadsActive
    <3>3. ~raced \/ c \notin overlapped
      BY <1>1, <1>3, <1>4, <1>6
    <3>4. read[c].slice = Part(1, Reach(c))
      BY <3>2, <3>3 DEF RacesRight, SliceRight
    <3>5. Reach(c)' = Reach(c)
      BY <1>0, <3>1 DEF Reach, ReadsOnly
    <3> QED
      BY <1>0, <1>6, <3>1, <3>4, <3>5 DEF Part, ReadsOnly
  <2>4. CASE Checks(c) \/ Clears(c) \/ Gives(c)
    <3>1. /\ read'[c].slice = read[c].slice /\ read'[c].stop = read[c].stop
          /\ read'[c].todo \cap {"del", "refill"} # {} => read[c].todo \cap {"del", "refill"} # {}
      BY <2>4 DEF Checks, Clears, Gives, ReadBecomes, ReadAt
    <3>2. Refilling(c)
      BY <1>1, <1>6, <3>1 DEF Refilling
    <3>3. ~raced \/ c \notin overlapped
      BY <1>1, <1>3, <1>4, <1>6
    <3>4. read[c].slice = Part(1, Reach(c))
      BY <3>2, <3>3 DEF RacesRight, SliceRight
    <3>5. Reach(c)' = Reach(c)
      BY <1>0, <3>1 DEF Reach, ReadsOnly
    <3> QED
      BY <1>0, <1>6, <3>1, <3>4, <3>5 DEF Part, ReadsOnly
  <2> QED
    BY <1>0, <2>1, <2>2, <2>3, <2>4, ReadEffects
<1> QED
  BY <1>5, <1>6

LEMMA AloneStays ==
  ASSUME ListingInv, RacesRight, NEW c \in Reads, ReadNext(c)
  PROVE  AloneRight'
<1>1. UploadsActive' = UploadsActive /\ ListsType
  BY ReadsTurn DEF ListingInv
<1>2. SUFFICES ASSUME NEW d \in ReadsActive', d \notin overlapped'
               PROVE  UploadsActive' = {} /\ ReadsActive' = {d} /\ (ReadAt(d, "refill")' => cached' = {})
  BY DEF AloneRight
<1>3. CASE StartRead(c)
  <2>1. /\ overlapped' = overlapped \cup ReadsActive
                           \cup (IF UploadsActive \cup ReadsActive = {} THEN {} ELSE {c})
        /\ StartsRead(c) /\ ReadsActive' \subseteq ReadsActive \cup {c}
    BY <1>3, ReadsTurn DEF StartRead
  <2>2. d = c /\ UploadsActive \cup ReadsActive = {}
    BY <1>2, <2>1
  <2>3. ~ReadAt(c, "refill")'
    BY <2>1 DEF StartsRead, ReadBecomes, ReadAt
  <2> QED
    BY <1>1, <1>2, <2>1, <2>2, <2>3
<1>4. CASE ~StartRead(c)
  <2>1. c \in ReadsActive /\ ReadsActive' \subseteq ReadsActive
    BY <1>4, ReadsTurn
  <2>2. overlapped' = overlapped
    BY <1>4 DEF ReadNext, RangeCached, FindReviews, ReadReviews, ClearCached, FillCached,
                FindReviewsErrs, ReadStepFails, history
  <2>3. UploadsActive = {} /\ ReadsActive = {d} /\ (ReadAt(d, "refill") => cached = {})
    BY <1>2, <2>1, <2>2 DEF RacesRight, AloneRight
  <2>4. d = c /\ ReadsActive' = {d}
    BY <1>2, <2>1, <2>3
  <2>5. ReadAt(c, "refill")' => cached' = {}
    <3>1. CASE ClearCached(c)
      BY <3>1 DEF ClearCached
    <3>2. CASE RangeCached(c) /\ TakesPage(c)
      BY <3>2 DEF TakesPage, ReadBecomes, ReadAt
    <3>3. CASE FindReviews(c) /\ TakesRest(c)
      BY <3>3 DEF TakesRest, ReadBecomes, ReadAt
    <3>4. CASE FillCached(c) /\ Fills(c)
      BY <3>4 DEF Fills, ReadBecomes, ReadAt
    <3>5. CASE (ReadReviews(c) /\ Checks(c)) \/ ((FindReviewsErrs(c) \/ ReadStepFails(c)) /\ Gives(c))
      <4>1. cached' = cached
        BY <3>5 DEF ReadReviews, FindReviewsErrs, ReadStepFails, stores
      <4>2. ReadAt(c, "refill")' => ReadAt(c, "refill")
        BY <3>5 DEF Checks, Gives, ReadBecomes, ReadAt
      <4> QED
        BY <2>3, <2>4, <4>1, <4>2
    <3> QED
      BY <1>1, <1>4, <3>1, <3>2, <3>3, <3>4, <3>5, ReadEffects
  <2> QED
    BY <1>1, <2>3, <2>4, <2>5
<1> QED
  BY <1>3, <1>4

LEMMA TurnsStay ==
  ASSUME ListingInv, RacesRight, NEW c \in Reads, ReadNext(c)
  PROVE  TurnsRight'
<1>0. /\ UploadsActive' = UploadsActive /\ UNCHANGED <<now, listed, upload>> /\ ListsType
      /\ \A a, b : Part(a, b)' = Part(a, b)
      /\ \A d \in ReviewUploads : (Adding(d)' <=> Adding(d)) /\ Entry(d)' = Entry(d)
  BY ReadsTurn DEF ListingInv, ReadsOnly, Part, Adding, Entry
<1>s. ASSUME UploadsActive = {} PROVE \A d \in ReviewUploads : ~Adding(d)
  BY <1>s DEF UploadsActive, Adding
<1>1. SUFFICES ASSUME ~raced' PROVE InTurn' /\ CachedRight'
  BY DEF TurnsRight
<1>2. CASE StartRead(c)
  <2>1. ~raced /\ UploadsActive = {} /\ cached' = cached
    BY <1>1, <1>2 DEF StartRead, stores
  <2>2. InTurn /\ CachedRight
    BY <2>1 DEF RacesRight, TurnsRight
  <2>3. InTurn'
    BY <1>0, <2>1, <2>2 DEF InTurn
  <2>4. CachedRight'
    BY <1>0, <2>1, <2>2 DEF CachedRight
  <2> QED
    BY <2>3, <2>4
<1>3. CASE ~StartRead(c) /\ ~FillCached(c)
  <2>1. ~raced /\ (cached' = cached \/ cached' = {})
    BY <1>1, <1>3 DEF ReadNext, RangeCached, FindReviews, ReadReviews, ClearCached,
                      FindReviewsErrs, ReadStepFails, history, stores
  <2>2. InTurn /\ CachedRight /\ c \in ReadsActive
    BY <1>3, <2>1, ReadsTurn DEF RacesRight, TurnsRight
  <2>3. UploadsActive = {}
    BY <2>2 DEF InTurn
  <2>4. InTurn'
    BY <1>0, <2>2, <2>3 DEF InTurn
  <2>5. CachedRight'
    <3>1. CASE cached' = cached
      BY <1>0, <2>2, <3>1 DEF CachedRight
    <3>2. CASE cached' = {}
      <4>1. 0 \in 0..Len(listed) /\ Part(1, 0)' = {}
        BY <1>0 DEF ListsType, Part
      <4>2. \A d \in ReviewUploads : ~Adding(d)'
        BY <1>0, <1>s, <2>3
      <4> QED
        BY <1>0, <3>2, <4>1, <4>2 DEF CachedRight
    <3> QED
      BY <2>1, <3>1, <3>2
  <2> QED
    BY <2>4, <2>5
<1>4. CASE FillCached(c)
  <2>1. /\ ReadAt(c, "refill") /\ cached' = cached \cup read[c].slice
        /\ ~raced \/ (c \notin overlapped /\ InTimeOrder(listed))
    BY <1>1, <1>4 DEF FillCached
  <2>2. c \in ReadsActive /\ Refilling(c)
    BY <2>1 DEF ReadAt, ReadsActive, Refilling
  <2>3. UploadsActive = {} /\ InTimeOrder(listed) /\ read[c].slice = Part(1, Reach(c))
    BY <2>1, <2>2 DEF RacesRight, TurnsRight, InTurn, AloneRight, SliceRight
  <2>4. InTurn'
    BY <1>0, <2>3 DEF InTurn
  <2>5. Len(listed) \in Nat /\ Reach(c) \in 0..Len(listed)
    <3>1. read[c].stop \in Nat
      BY <1>0 DEF ListsType, ReadType
    <3> QED
      BY <1>0, <3>1 DEF ListsType, Reach
  <2>6. PICK k \in 0..Len(listed) : cached = Part(1, k)
    <3>1. CASE ~raced
      BY <1>s, <2>3, <3>1 DEF RacesRight, TurnsRight, CachedRight
    <3>2. CASE raced
      <4>1. cached = {}
        BY <2>1, <2>2, <3>2 DEF RacesRight, AloneRight
      <4>2. 0 \in 0..Len(listed) /\ Part(1, 0) = {}
        BY <2>5 DEF Part
      <4> QED
        BY <4>1, <4>2
    <3> QED
      BY <3>1, <3>2
  <2>7. PICK n \in 0..Len(listed) : cached' = Part(1, n)
    <3>1. CASE k <= Reach(c)
      <4>1. 1..k \cup 1..Reach(c) = 1..Reach(c)
        BY <2>5, <3>1
      <4>2. cached' = Part(1, Reach(c))
        BY <2>1, <2>3, <2>6, <4>1 DEF Part
      <4> QED
        BY <2>5, <4>2
    <3>2. CASE Reach(c) <= k
      <4>1. 1..k \cup 1..Reach(c) = 1..k
        BY <2>5, <3>2
      <4>2. cached' = Part(1, k)
        BY <2>1, <2>3, <2>6, <4>1 DEF Part
      <4> QED
        BY <4>2
    <3> QED
      BY <2>5, <3>1, <3>2
  <2>8. \A d \in ReviewUploads : ~Adding(d)'
    BY <1>0, <1>s, <2>3
  <2>9. CachedRight'
    BY <1>0, <2>7, <2>8 DEF CachedRight
  <2> QED
    BY <2>4, <2>9
<1> QED
  BY <1>2, <1>3, <1>4

LEMMA RacesStay == ListingInv /\ RacesRight /\ [ListNext]_listVars => RacesRight'
<1> SUFFICES ASSUME ListingInv, RacesRight, [ListNext]_listVars PROVE RacesRight'
  OBVIOUS
<1>1. ASSUME NEW c \in ReviewUploads, UploadNext(c) PROVE RacesRight'
  BY <1>1, UploadsRaceRight
<1>2. ASSUME NEW c \in Reads, ReadNext(c) PROVE RacesRight'
  BY <1>2, TurnsStay, AloneStays, SliceStays DEF RacesRight
<1>3. CASE RestartRedis
  <2>0. UNCHANGED <<now, listed, upload, read, raced, overlapped>> /\ cached' = {}
    BY <1>3 DEF RestartRedis, calls, history
  <2>1. AloneRight' /\ SliceRight'
    BY <2>0 DEF RacesRight, AloneRight, SliceRight, UploadsActive, ReadsActive, ReadAt, Refilling,
                Part, Reach
  <2>2. InTurn => InTurn'
    BY <2>0 DEF InTurn, UploadsActive, ReadsActive
  <2>3. ASSUME CachedRight PROVE CachedRight'
    <3>0. \A d \in ReviewUploads : (Adding(d)' <=> Adding(d)) /\ Entry(d)' = Entry(d)
      BY <2>0 DEF Adding, Entry
    <3>1. PICK k \in 0..Len(listed) :
            \/ \A c \in ReviewUploads : ~Adding(c)
            \/ /\ k >= 1 /\ \E c \in ReviewUploads : Adding(c)
               /\ \A c \in ReviewUploads : Adding(c) => listed[1] = Entry(c)
      BY <2>3 DEF CachedRight
    <3>2. Len(listed) \in Nat /\ Part(1, 0)' = {} /\ Part(2, 1)' = {}
      BY DEF Part, ListingInv, ListsType
    <3>3. CASE \A c \in ReviewUploads : ~Adding(c)
      <4>1. 0 \in 0..Len(listed)
        BY <3>2
      <4> QED
        BY <2>0, <3>0, <3>2, <3>3, <4>1 DEF CachedRight
    <3>4. CASE /\ k >= 1 /\ \E c \in ReviewUploads : Adding(c)
               /\ \A c \in ReviewUploads : Adding(c) => listed[1] = Entry(c)
      <4>1. 1 \in 0..Len(listed) /\ 1 >= 1
        BY <3>2, <3>4
      <4> QED
        BY <2>0, <3>0, <3>2, <3>4, <4>1 DEF CachedRight
    <3> QED
      BY <3>1, <3>3, <3>4
  <2> QED
    BY <2>0, <2>1, <2>2, <2>3 DEF RacesRight, TurnsRight
<1>4. CASE UNCHANGED listVars
  <2>0. UNCHANGED <<now, listed, cached, upload, read, raced, overlapped>>
    BY <1>4 DEF listVars, stores, calls, history
  <2>1. AloneRight' /\ SliceRight'
    BY <2>0 DEF RacesRight, AloneRight, SliceRight, UploadsActive, ReadsActive, ReadAt, Refilling,
                Part, Reach
  <2>2. InTurn => InTurn'
    BY <2>0 DEF InTurn, UploadsActive, ReadsActive
  <2>3. CachedRight => CachedRight'
    BY <2>0 DEF CachedRight, Adding, Part, Entry
  <2> QED
    BY <2>0, <2>1, <2>2, <2>3 DEF RacesRight, TurnsRight
<1> QED
  BY <1>1, <1>2, <1>3, <1>4 DEF ListNext

LEMMA RacesStart == ListInit => RacesRight
<1> SUFFICES ASSUME ListInit PROVE RacesRight
  OBVIOUS
<1>1. UploadsActive = {} /\ ReadsActive = {} /\ listed = <<>> /\ cached = {}
  BY DEF ListInit, UploadsActive, ReadsActive
<1>2. (\A c \in ReviewUploads : ~Adding(c)) /\ (\A c \in Reads : ~Refilling(c))
  BY DEF ListInit, Adding, Refilling
<1>3. InTurn
  BY <1>1 DEF InTurn, InTimeOrder
<1>4. CachedRight
  <2>1. 0 \in 0..Len(listed) /\ Part(1, 0) = {}
    BY <1>1 DEF Part
  <2> QED
    BY <1>1, <1>2, <2>1 DEF CachedRight
<1> QED
  BY <1>1, <1>2, <1>3, <1>4 DEF RacesRight, TurnsRight, AloneRight, SliceRight

LEMMA RacesAlways == ListSpec => []RacesRight
<1>1. ListInit => ListingInv /\ RacesRight
  BY ListingStart, RacesStart
<1>2. ListingInv /\ RacesRight /\ [ListNext]_listVars => (ListingInv /\ RacesRight)'
  BY ListingStays, RacesStay
<1> QED
  BY <1>1, <1>2, PTL DEF ListSpec

\* Between calls Redis holds nothing or exactly the newest reviews of the
\* list, unless the last calls overlapped or lost a command; a read that runs
\* alone and finds too little there puts it right again
\* (MovieReviewHandler.h:155-183, 185-378).
THEOREM CachedIsNewestAlways == ListSpec => []CachedIsNewest
<1>1. ListingInv /\ RacesRight => CachedIsNewest
  <2> SUFFICES ASSUME ListingInv, RacesRight, UploadsActive \cup ReadsActive = {}, ~raced
               PROVE  Newest(cached) = Page(listed, 0, Cardinality(cached))
    BY DEF CachedIsNewest
  <2>1. listed \in Seq(Entries) /\ InTimeOrder(listed) /\ CachedRight
    BY DEF ListingInv, ListsType, RacesRight, TurnsRight, InTurn
  <2>2. \A c \in ReviewUploads : ~Adding(c)
    BY DEF UploadsActive, Adding
  <2>3. PICK k \in 0..Len(listed) : cached = Part(1, k)
    BY <2>1, <2>2 DEF CachedRight
  <2>4. Newest(cached) = SubSeq(listed, 1, k) /\ Cardinality(cached) = k
    BY <2>1, <2>3, NewestOfPart DEF Part
  <2>5. Page(listed, 0, k) = SubSeq(listed, 1, k)
    BY <2>1 DEF Page
  <2> QED
    BY <2>4, <2>5
<1> QED
  BY <1>1, ListingAlways, RacesAlways, PTL

-----------------------------------------------------------------------------
(***************************************************************************)
(* The page of a read.  Until an upload begins, neither the list nor what  *)
(* Redis may hold of it changes under a sure read: it first has the        *)
(* beginning of its page and then all of it.                               *)
(***************************************************************************)

WholePage(c) == Shown(listed, read[c].start, Extent(listed, read[c].start, read[c].stop))

\* Redis gives the beginning of the page, MongoDB the rest.
PageRight(c) ==
  /\ ReadAt(c, "range") => read[c].todo = {"range"}
  /\ ReadAt(c, "find") =>
       /\ read[c].todo = {"find"}
       /\ \E m \in Nat : /\ m <= Extent(listed, read[c].start, read[c].stop)
                         /\ read[c].page = Shown(listed, read[c].start, m)
  /\ ReadAt(c, "range") \/ ReadAt(c, "find") \/ ReadAt(c, "reviews") => read[c].ok = TRUE
  /\ ~ReadAt(c, "range") /\ ~ReadAt(c, "find") => read[c].page = WholePage(c)
  /\ read[c].todo \cap {"range", "find", "reviews"} = {} =>
       read[c].ok = (Members(read[c].page) \subseteq stored)

SureRight ==
  /\ \A c \in Reads : ReadAt(c, "start") => read[c].page = <<>> /\ read[c].ok = TRUE
  /\ \A c \in sure : UploadsActive = {} /\ ~raced /\ ~ReadAt(c, "start")
  /\ \A c \in sure \ faulted : PageRight(c)

LEMMA ShownFacts ==
  ASSUME listed \in Seq(Entries), NEW a \in Nat, NEW b \in Nat
  PROVE  LET n == Extent(listed, a, b)
         IN /\ n \in Nat /\ (n = 0 \/ a + n <= Len(listed))
            /\ b <= a => n = 0
            /\ \A m \in Nat : DOMAIN Shown(listed, a, m) = 1..m /\ Len(Shown(listed, a, m)) = m
            /\ Shown(listed, a, 0) = <<>>
            /\ ListedRight => Cardinality(Members(Shown(listed, a, n))) = n
<1> DEFINE n == Extent(listed, a, b)
<1>1. n \in Nat /\ (n = 0 \/ a + n <= Len(listed)) /\ (b <= a => n = 0) /\ Len(listed) \in Nat
  BY DEF Extent
<1>2. \A m \in Nat : DOMAIN Shown(listed, a, m) = 1..m /\ Len(Shown(listed, a, m)) = m
  BY DEF Shown
<1>3. Shown(listed, a, 0) = <<>>
  BY DEF Shown
<1> HIDE DEF n
<1>4. ASSUME ListedRight PROVE Cardinality(Members(Shown(listed, a, n))) = n
  <2> DEFINE page == Shown(listed, a, n)
  <2>1. DOMAIN page = 1..n /\ \A i \in 1..n : page[i] = listed[a + i].review
    BY <1>1 DEF Shown
  <2>2. \A i \in 1..n : a + i \in DOMAIN listed
    BY <1>1
  <2>3. ASSUME NEW i \in 1..n, NEW j \in 1..n, page[i] = page[j] PROVE i = j
    <3>1. a + i = a + j
      BY <1>4, <2>1, <2>2, <2>3 DEF ListedRight
    <3> QED
      BY <3>1
  <2> HIDE DEF page
  <2>4. Cardinality({page[i] : i \in 1..n}) = n
    <3>1. PICK m \in Nat : m = n
      BY <1>1
    <3>2. PICK f : f = page
      OBVIOUS
    <3>3. \A i, j \in 1..m : f[i] = f[j] => i = j
      BY <2>3, <3>1, <3>2
    <3>4. Cardinality({f[i] : i \in 1..m}) = m
      BY <3>3, DistinctMembers, Zenon
    <3> QED
      BY <3>1, <3>2, <3>4
  <2>5. Members(page) = {page[i] : i \in 1..n}
    BY <2>1, Zenon DEF Members
  <2>6. Cardinality(Members(page)) = n
    BY <2>4, <2>5
  <2> QED
    BY <2>6, Zenon DEF page
<1> QED
  BY <1>1, <1>2, <1>3, <1>4 DEF n

\* What a step of another call leaves of a page.
LEMMA PageKept ==
  ASSUME NEW c \in Reads, PageRight(c), UNCHANGED <<listed, stored>>, read'[c] = read[c]
  PROVE  PageRight(c)'
BY DEF PageRight, WholePage, Shown, Extent, ReadAt

LEMMA UploadsSureRight ==
  ASSUME ListingInv, SureRight, NEW c \in ReviewUploads, UploadNext(c)
  PROVE  SureRight'
<1>1. sure' = {}
  <2>1. CASE StartUpload(c)
    BY <2>1 DEF StartUpload
  <2>2. CASE ~StartUpload(c)
    <3>1. c \in UploadsActive /\ sure' = sure
      BY <2>2, UploadsTurn
    <3> QED
      BY <3>1 DEF SureRight
  <2> QED
    BY <2>1, <2>2
<1>2. read' = read
  BY UploadsTurn
<1> QED
  BY <1>1, <1>2 DEF SureRight, ReadAt

\* The part of a page that Redis has.
LEMMA RangeRight ==
  ASSUME ListingInv, RacesRight, NEW c \in Reads, TakesPage(c), UNCHANGED <<listed, stored>>,
         UploadsActive = {}, ~raced, PageRight(c)
  PROVE  PageRight(c)'
<1> DEFINE start == read[c].start
           stop == read[c].stop
           page == Reviews(Page(Newest(cached), start, stop))
<1>0. /\ listed \in Seq(Entries) /\ Len(listed) \in Nat /\ InTimeOrder(listed) /\ CachedRight
      /\ start \in Nat /\ stop \in Nat
  <2>1. ListsType /\ InTimeOrder(listed) /\ CachedRight
    BY DEF ListingInv, RacesRight, TurnsRight, InTurn
  <2>2. listed \in Seq(Entries) /\ start \in Nat /\ stop \in Nat
    BY <2>1 DEF ListsType, ReadType
  <2> QED
    BY <2>1, <2>2
<1>1. \A d \in ReviewUploads : ~Adding(d)
  BY DEF UploadsActive, Adding
<1>2. PICK k \in 0..Len(listed) : cached = Part(1, k)
  BY <1>0, <1>1 DEF CachedRight
<1>3. Newest(cached) = SubSeq(listed, 1, k)
  BY <1>0, <1>2, NewestOfPart DEF Part
<1> DEFINE m == IF stop < k THEN (IF start < stop THEN stop - start ELSE 0)
                ELSE (IF start < k THEN k - start ELSE 0)
           n == Extent(listed, start, stop)
<1>4. page = Shown(listed, start, m) /\ Len(page) = m
  <2> HIDE DEF start, stop
  <2>1. /\ Reviews(Page(SubSeq(listed, 1, k), start, stop)) = Shown(listed, start, m)
        /\ Len(Reviews(Page(SubSeq(listed, 1, k), start, stop))) = m
    BY <1>0, PageOfFirst
  <2> QED
    BY <1>3, <2>1
<1>5. m \in Nat /\ m <= n /\ (~(start + m < stop) => m = n)
  BY <1>0 DEF Extent
<1>6. /\ read'[c].page = page /\ read'[c].start = start /\ read'[c].stop = stop
      /\ read'[c].ok = read[c].ok
      /\ read'[c].todo = IF start + Len(page) < stop THEN {"find"} ELSE {"reviews"}
  BY DEF TakesPage, ReadBecomes
<1>7. read[c].ok = TRUE
  BY DEF TakesPage, PageRight
<1> HIDE DEF page, m, n, start, stop
<1>8. CASE start + m < stop
  <2>1. read'[c].todo = {"find"}
    BY <1>4, <1>6, <1>8
  <2>2. /\ m <= Extent(listed', read'[c].start, read'[c].stop)
        /\ read'[c].page = Shown(listed', read'[c].start, m)
    BY <1>4, <1>5, <1>6 DEF n
  <2> QED
    BY <1>5, <1>6, <1>7, <2>1, <2>2 DEF PageRight, ReadAt
<1>9. CASE ~(start + m < stop)
  <2>1. read'[c].todo = {"reviews"}
    BY <1>4, <1>6, <1>9
  <2>2. read'[c].page = WholePage(c)'
    BY <1>4, <1>5, <1>6, <1>9 DEF n, WholePage
  <2> QED
    BY <1>6, <1>7, <2>1, <2>2 DEF PageRight, ReadAt
<1> QED
  BY <1>8, <1>9

\* The part of a page that MongoDB gives.
LEMMA RestRight ==
  ASSUME ListingInv, NEW c \in Reads, TakesRest(c), UNCHANGED <<listed, stored>>, PageRight(c)
  PROVE  PageRight(c)'
<1> DEFINE start == read[c].start
           stop == read[c].stop
           slice == Page(listed, 0, stop)
           n == Extent(listed, start, stop)
<1>0. listed \in Seq(Entries) /\ start \in Nat /\ stop \in Nat
  BY DEF ListingInv, ListsType, ReadType
<1>1. PICK m \in Nat : m <= n /\ read[c].page = Shown(listed, start, m)
  BY DEF TakesRest, PageRight
<1>2. Len(Shown(listed, start, m)) = m
  BY <1>0, ShownFacts
<1>3. /\ read'[c].todo \in {{"reviews"}, {"reviews", "del"}}
      /\ read'[c].start = start /\ read'[c].stop = stop /\ read'[c].ok = read[c].ok
      /\ read'[c].page = read[c].page \o SubSeq(Reviews(slice), start + Len(read[c].page) + 1, Len(slice))
  BY DEF TakesRest, ReadBecomes
<1>4. read'[c].page = Shown(listed, start, n)
  <2> HIDE DEF start, stop
  <2>1. Shown(listed, start, m) \o SubSeq(Reviews(slice), start + m + 1, Len(slice)) = Shown(listed, start, n)
    BY <1>0, <1>1, PageGoesOn
  <2> QED
    BY <1>1, <1>2, <1>3, <2>1
<1>5. read'[c].page = WholePage(c)'
  BY <1>3, <1>4 DEF WholePage
<1>6. read[c].ok = TRUE
  BY DEF TakesRest, PageRight
<1>7. /\ ~ReadAt(c, "range")' /\ ~ReadAt(c, "find")' /\ read'[c].ok = TRUE
      /\ read'[c].todo \cap {"range", "find", "reviews"} # {}
  BY <1>3, <1>6 DEF ReadAt
<1> QED
  BY <1>5, <1>7 DEF PageRight

\* ReadReviews accepts the page, unless one of its reviews is not stored.
LEMMA CheckRight ==
  ASSUME ListingInv, NEW c \in Reads, Checks(c), UNCHANGED <<listed, stored>>, PageRight(c)
  PROVE  PageRight(c)'
<1> DEFINE start == read[c].start
           stop == read[c].stop
           page == read[c].page
           n == Extent(listed, start, stop)
<1>0. listed \in Seq(Entries) /\ start \in Nat /\ stop \in Nat /\ ListedRight
  BY DEF ListingInv, ListsType, ReadType
<1>1. /\ ReadAt(c, "reviews") /\ read'[c].todo = read[c].todo \ {"reviews"}
      /\ read'[c].start = start /\ read'[c].stop = stop /\ read'[c].page = page
      /\ read'[c].ok = (read[c].ok /\ Cardinality(Members(page)) = Len(page) /\ Members(page) \subseteq stored)
  BY DEF Checks, ReadBecomes
<1>2. ~ReadAt(c, "range") /\ ~ReadAt(c, "find") /\ read[c].ok = TRUE /\ page = Shown(listed, start, n)
  BY <1>1 DEF PageRight, ReadAt, WholePage
<1>3. Cardinality(Members(page)) = Len(page)
  <2> HIDE DEF start, stop
  <2>1. n \in Nat /\ (\A m \in Nat : Len(Shown(listed, start, m)) = m)
        /\ Cardinality(Members(Shown(listed, start, n))) = n
    BY <1>0, ShownFacts
  <2> QED
    BY <1>2, <2>1
<1>4. read'[c].ok = (Members(page) \subseteq stored)
  BY <1>1, <1>2, <1>3
<1>5. read'[c].page = WholePage(c)'
  BY <1>1, <1>2 DEF WholePage
<1>6. ~ReadAt(c, "range")' /\ ~ReadAt(c, "find")' /\ ~ReadAt(c, "reviews")'
  BY <1>1, <1>2 DEF ReadAt
<1> QED
  BY <1>1, <1>4, <1>5, <1>6 DEF PageRight

LEMMA RefillRight ==
  ASSUME NEW c \in Reads, Clears(c) \/ Fills(c), UNCHANGED <<listed, stored>>, PageRight(c)
  PROVE  PageRight(c)'
<1>1. /\ read'[c].start = read[c].start /\ read'[c].stop = read[c].stop
      /\ read'[c].page = read[c].page /\ read'[c].ok = read[c].ok
      /\ ReadAt(c, "reviews")' <=> ReadAt(c, "reviews")
      /\ ~ReadAt(c, "range") /\ ~ReadAt(c, "find") /\ ~ReadAt(c, "range")' /\ ~ReadAt(c, "find")'
  BY DEF Clears, Fills, ReadBecomes, PageRight, ReadAt
<1>2. WholePage(c)' = WholePage(c)
  BY <1>1 DEF WholePage
<1>3. /\ read[c].todo \cap {"range", "find", "reviews"} = {} <=> ~ReadAt(c, "reviews")
      /\ read'[c].todo \cap {"range", "find", "reviews"} = {} <=> ~ReadAt(c, "reviews")'
  BY <1>1 DEF ReadAt
<1> QED
  BY <1>1, <1>2, <1>3 DEF PageRight

LEMMA StartRight ==
  ASSUME ListingInv, NEW c \in Reads, StartsRead(c), UNCHANGED <<listed, stored>>,
         read[c].page = <<>> /\ read[c].ok = TRUE
  PROVE  PageRight(c)'
<1>0. listed \in Seq(Entries)
  BY DEF ListingInv, ListsType
<1>1. PICK start \in Nat, stop \in Nat :
        ReadBecomes(c, IF stop <= start THEN {} ELSE {"range"}, start, stop,
                    read[c].page, read[c].slice, read[c].ok)
  BY DEF StartsRead
<1>2. /\ read'[c].todo = IF stop <= start THEN {} ELSE {"range"}
      /\ read'[c].start = start /\ read'[c].stop = stop /\ read'[c].page = <<>> /\ read'[c].ok = TRUE
  BY <1>1 DEF ReadBecomes
<1>3. CASE stop <= start
  <2>1. Extent(listed, start, stop) = 0 /\ Shown(listed, start, 0) = <<>>
    BY <1>0, <1>3, ShownFacts
  <2>2. read'[c].page = WholePage(c)'
    BY <1>2, <2>1 DEF WholePage
  <2>3. Members(<<>>) = {}
    BY DEF Members
  <2> QED
    BY <1>2, <1>3, <2>2, <2>3 DEF PageRight, ReadAt
<1>4. CASE ~(stop <= start)
  BY <1>2, <1>4 DEF PageRight, ReadAt
<1> QED
  BY <1>3, <1>4

LEMMA ReadsSureRight ==
  ASSUME ListingInv, RacesRight, SureRight, NEW c \in Reads, ReadNext(c)
  PROVE  SureRight'
<1>0. /\ UNCHANGED <<listed, stored>> /\ UploadsActive' = UploadsActive /\ ListsType
      /\ \A d \in Reads : d # c => read'[d] = read[d]
  BY ReadsTurn DEF ReadsOnly, ListingInv
<1>1. faulted \subseteq faulted' /\ (~StartRead(c) => sure' = sure /\ (~raced => ~raced'))
  <2>1. CASE StartRead(c)
    BY <2>1 DEF StartRead, listFaults
  <2>2. CASE RangeCached(c) \/ FindReviews(c) \/ ReadReviews(c) \/ ClearCached(c)
    <3>1. UNCHANGED <<history, listFaults>>
      BY <2>2 DEF RangeCached, FindReviews, ReadReviews, ClearCached
    <3> QED
      BY <3>1 DEF history, listFaults
  <2>3. CASE FillCached(c)
    BY <2>3 DEF FillCached, listFaults
  <2>4. CASE FindReviewsErrs(c) \/ ReadStepFails(c)
    BY <2>4 DEF FindReviewsErrs, ReadStepFails, ListFault, history
  <2> QED
    BY <2>1, <2>2, <2>3, <2>4 DEF ReadNext
<1>2. ~ReadAt(c, "start")'
  <2>1. ReadAt(c, "start") => read[c].todo = {"start"}
    BY DEF ListingInv, StepsInOrder
  <2> QED
    BY <1>0, <2>1, ReadEffects
       DEF StartsRead, TakesPage, TakesRest, Checks, Clears, Fills, Gives, ReadBecomes, ReadAt
<1>3. \A d \in Reads : ReadAt(d, "start")' => read'[d].page = <<>> /\ read'[d].ok = TRUE
  BY <1>0, <1>2 DEF SureRight, ReadAt
<1>4. CASE StartRead(c)
  <2>1. /\ raced' = (raced \/ UploadsActive # {})
        /\ sure' = sure \cup (IF raced \/ UploadsActive # {} THEN {} ELSE {c})
        /\ ReadAt(c, "start") /\ StartsRead(c)
    BY <1>4, ReadsTurn DEF StartRead
  <2>2. ASSUME NEW d \in sure' PROVE UploadsActive' = {} /\ ~raced' /\ ~ReadAt(d, "start")'
    <3>1. UploadsActive = {} /\ ~raced
      BY <2>1 DEF SureRight
    <3>2. ~ReadAt(d, "start")'
      <4>1. CASE d = c
        BY <1>2, <4>1
      <4>2. CASE d # c
        <5>1. d \in sure /\ d \in Reads
          BY <2>1, <4>2 DEF ListingInv, ListsType
        <5> QED
          BY <1>0, <4>2, <5>1 DEF SureRight, ReadAt
      <4> QED
        BY <4>1, <4>2
    <3> QED
      BY <1>0, <2>1, <3>1, <3>2
  <2>3. ASSUME NEW d \in sure' \ faulted' PROVE PageRight(d)'
    <3>1. CASE d = c
      BY <1>0, <2>1, <3>1, StartRight DEF SureRight
    <3>2. CASE d # c
      <4>1. d \in sure \ faulted /\ d \in Reads
        BY <1>1, <2>1, <3>2 DEF ListingInv, ListsType
      <4> QED
        BY <1>0, <3>2, <4>1, PageKept DEF SureRight
    <3> QED
      BY <3>1, <3>2
  <2> QED
    BY <1>3, <2>2, <2>3 DEF SureRight
<1>5. CASE ~StartRead(c)
  <2>1. sure' = sure /\ sure \subseteq Reads
    BY <1>1, <1>5 DEF ListingInv, ListsType
  <2>2. ASSUME NEW d \in sure' PROVE UploadsActive' = {} /\ ~raced' /\ ~ReadAt(d, "start")'
    BY <1>0, <1>1, <1>2, <1>5, <2>1 DEF SureRight, ReadAt
  <2>3. ASSUME NEW d \in sure' \ faulted' PROVE PageRight(d)'
    <3>1. d \in sure \ faulted /\ d \in Reads /\ PageRight(d) /\ UploadsActive = {} /\ ~raced
      BY <1>1, <2>1 DEF SureRight
    <3>2. CASE d # c
      BY <1>0, <3>1, <3>2, PageKept
    <3>3. CASE d = c
      <4>1. CASE TakesPage(c)
        BY <1>0, <3>1, <3>3, <4>1, RangeRight
      <4>2. CASE TakesRest(c)
        BY <1>0, <3>1, <3>3, <4>2, RestRight
      <4>3. CASE Checks(c)
        BY <1>0, <3>1, <3>3, <4>3, CheckRight
      <4>4. CASE Clears(c) \/ Fills(c)
        BY <1>0, <3>1, <3>3, <4>4, RefillRight
      <4>5. ~Gives(c)
        BY <2>3, <3>3 DEF Gives
      <4> QED
        BY <1>0, <1>5, <4>1, <4>2, <4>3, <4>4, <4>5, ReadEffects
    <3> QED
      BY <3>2, <3>3
  <2> QED
    BY <1>3, <2>2, <2>3 DEF SureRight
<1> QED
  BY <1>4, <1>5

LEMMA SureStays == ListingInv /\ RacesRight /\ SureRight /\ [ListNext]_listVars => SureRight'
<1> SUFFICES ASSUME ListingInv, RacesRight, SureRight, [ListNext]_listVars PROVE SureRight'
  OBVIOUS
<1>1. ASSUME NEW c \in ReviewUploads, UploadNext(c) PROVE SureRight'
  BY <1>1, UploadsSureRight
<1>2. ASSUME NEW c \in Reads, ReadNext(c) PROVE SureRight'
  BY <1>2, ReadsSureRight
<1>3. CASE RestartRedis \/ UNCHANGED listVars
  <2>1. UNCHANGED <<stored, listed, upload, read, raced, sure, faulted>>
    BY <1>3 DEF RestartRedis, listVars, stores, calls, history, listFaults
  <2>2. \A c \in sure \ faulted : PageRight(c)'
    BY <2>1, PageKept DEF SureRight, ListingInv, ListsType
  <2> QED
    BY <2>1, <2>2 DEF SureRight, UploadsActive, ReadAt
<1> QED
  BY <1>1, <1>2, <1>3 DEF ListNext

LEMMA SureStart == ListInit => SureRight
BY DEF ListInit, SureRight

LEMMA SureAlways == ListSpec => []SureRight
<1>1. ListInit => ListingInv /\ RacesRight /\ SureRight
  BY ListingStart, RacesStart, SureStart
<1>2. ListingInv /\ RacesRight /\ SureRight /\ [ListNext]_listVars => (ListingInv /\ RacesRight /\ SureRight)'
  BY ListingStays, RacesStay, SureStays
<1> QED
  BY <1>1, <1>2, PTL DEF ListSpec

\* A read that began with such a list, and since which no upload has begun,
\* gives exactly its page of the list, whatever other reads replace in Redis
\* meanwhile, and fails only when a review of the page was never stored
\* (MovieReviewHandler.h:185-378, ReviewStorageHandler.h:108-257).
THEOREM PageOfListAlways == ListSpec => []PageOfList
<1>1. ListingInv /\ SureRight => PageOfList
  <2> SUFFICES ASSUME ListingInv, SureRight, NEW c \in sure \ faulted, read[c].todo = {}
               PROVE  /\ read[c].page = Reviews(Page(listed, read[c].start, read[c].stop))
                      /\ read[c].ok = (Members(read[c].page) \subseteq stored)
    BY DEF PageOfList
  <2>1. PageRight(c)
    BY DEF SureRight
  <2>2. read[c].page = WholePage(c) /\ read[c].ok = (Members(read[c].page) \subseteq stored)
    BY <2>1 DEF PageRight, ReadAt
  <2>3. listed \in Seq(Entries) /\ read[c].start \in Nat /\ read[c].stop \in Nat
    BY DEF ListingInv, ListsType, ReadType
  <2> QED
    BY <2>2, <2>3, PageShown DEF WholePage
<1> QED
  BY <1>1, ListingAlways, SureAlways, PTL

-----------------------------------------------------------------------------
(***************************************************************************)
(* The composing of a review.                                              *)
(***************************************************************************)
USE ComponentsAssumption, UploadsAssumption, FaultsAssumption

-----------------------------------------------------------------------------
(***************************************************************************)
(* Counting uploads and components.                                        *)
(***************************************************************************)
Places == {"idle", "add", "increment", "get", "mget", "store", "done", "failed"}

Incrementing == {u \in Uploads : pc[u] = "increment"}

LEMMA NeededType == Needed \in Nat
BY FS_CardinalityType DEF Needed

LEMMA IncrementingFinite ==
  IsFiniteSet(Incrementing) /\ Cardinality(Incrementing) \in Nat
<1>1. Incrementing \subseteq Uploads
  BY DEF Incrementing
<1>2. QED
  BY <1>1, FS_Subset, FS_CardinalityType

LEMMA IncrementingSame ==
  ASSUME pc \in [Uploads -> Places], NEW u \in Uploads, NEW b,
         pc' = [pc EXCEPT ![u] = b], pc[u] = "increment" <=> b = "increment"
  PROVE  Incrementing' = Incrementing
BY DEF Incrementing

LEMMA IncrementingLess ==
  ASSUME pc \in [Uploads -> Places], NEW u \in Uploads, NEW b,
         pc' = [pc EXCEPT ![u] = b], pc[u] = "increment", b # "increment"
  PROVE  Cardinality(Incrementing') = Cardinality(Incrementing) - 1
<1>1. Incrementing' = Incrementing \ {u} /\ u \in Incrementing
  BY DEF Incrementing
<1>2. QED
  BY <1>1, IncrementingFinite, FS_RemoveElement

LEMMA IncrementingMore ==
  ASSUME pc \in [Uploads -> Places], NEW u \in Uploads,
         pc' = [pc EXCEPT ![u] = "increment"], pc[u] # "increment"
  PROVE  Cardinality(Incrementing') = Cardinality(Incrementing) + 1
<1>1. Incrementing' = Incrementing \cup {u} /\ u \notin Incrementing
  BY DEF Incrementing
<1>2. QED
  BY <1>1, IncrementingFinite, FS_AddElement

Keys == Components \cup {"counter"}

\* If as many components are stored as there are, all are.
LEMMA StoredBound ==
  ASSUME items \subseteq Keys
  PROVE  /\ IsFiniteSet(Stored) /\ Cardinality(Stored) \in Nat
         /\ Stored \subseteq Components
         /\ Cardinality(Stored) >= Needed => Stored = Components
<1>1. Stored \subseteq Components
  BY DEF Stored, Keys
<1>2. /\ IsFiniteSet(Stored) /\ Cardinality(Stored) <= Cardinality(Components)
      /\ Cardinality(Components) = Cardinality(Stored) => Components = Stored
  BY <1>1, FS_Subset
<1>3. Cardinality(Stored) \in Nat /\ Cardinality(Components) \in Nat
  BY <1>2, FS_CardinalityType
<1>4. QED
  BY <1>1, <1>2, <1>3 DEF Needed

-----------------------------------------------------------------------------
(***************************************************************************)
(* Types.  That a finished call has no store outstanding rests on calls    *)
(* that are not composing having none.                                     *)
(***************************************************************************)
Got == {"none", "cut", "some", "all"}
Quiet == \A u \in Uploads : pc[u] \notin {"store", "failed"} => unsent[u] = {}

TypeInv == TypeOK /\ Quiet

LEMMA TypeInit == Init => TypeInv
BY DEF Init, TypeInv, TypeOK, Quiet

LEMMA PlaceAfterCount == \A n : AfterCount(n) \in {"mget", "done"}
BY DEF AfterCount

LEMMA FaultsStep ==
  ASSUME failures \in 0 .. MaxFaults, lost \in 0 .. MaxFaults, UNCHANGED failures \/ Failure
  PROVE  failures' \in 0 .. MaxFaults
BY DEF Failure

\* One call moves, and what it leaves outstanding fits its new place.
LEMMA TypeMove ==
  ASSUME TypeInv, NEW u \in Uploads, NEW b \in Places, NEW left \in SUBSET Stores,
         pc' = [pc EXCEPT ![u] = b], unsent' = [unsent EXCEPT ![u] = left],
         b \notin {"store", "failed"} => left = {},
         items' \subseteq Keys, counter' \in Nat,
         fetched' \in [Uploads -> Got],
         kept' \in [Stores -> SUBSET Uploads], guessed' \subseteq Uploads,
         failures' \in 0 .. MaxFaults, lost' = lost
  PROVE  TypeInv'
<1>1. pc' \in [Uploads -> Places] /\ unsent' \in [Uploads -> SUBSET Stores]
  BY DEF TypeInv, TypeOK, Places
<1>2. Quiet'
  BY <1>1 DEF TypeInv, TypeOK, Quiet
<1>3. \A v \in Uploads : pc'[v] = "done" => unsent'[v] = {}
  BY <1>2 DEF Quiet
<1>4. lost' \in 0 .. MaxFaults
  BY DEF TypeInv, TypeOK
<1>5. QED
  BY <1>1, <1>2, <1>3, <1>4 DEF TypeInv, TypeOK, Places, Got, Keys

\* A call that has nothing outstanding and goes where it need not have any.
LEMMA TypeQuiet ==
  ASSUME TypeInv, NEW u \in Uploads, NEW b \in Places,
         pc[u] \notin {"store", "failed"},
         pc' = [pc EXCEPT ![u] = b], UNCHANGED <<fetched, unsent, kept, lost>>,
         guessed' \subseteq guessed \cup {u},
         items' \subseteq Keys, counter' \in Nat, failures' \in 0 .. MaxFaults
  PROVE  TypeInv'
<1>1. unsent[u] = {} /\ unsent' = [unsent EXCEPT ![u] = {}]
  BY DEF TypeInv, TypeOK, Quiet
<1>2. /\ fetched' \in [Uploads -> Got] /\ kept' \in [Stores -> SUBSET Uploads]
      /\ guessed' \subseteq Uploads
  BY DEF TypeInv, TypeOK, Got
<1>3. QED
  BY <1>1, <1>2, TypeMove

LEMMA TypeStep ==
  ASSUME TypeInv, NEW u \in Uploads, UploadStep(u) \/ CallStep(u)
  PROVE  TypeInv'
<1>0. /\ items \subseteq Keys /\ counter \in Nat /\ Of[u] \in Components
      /\ fetched \in [Uploads -> Got]
      /\ unsent \in [Uploads -> SUBSET Stores]
      /\ kept \in [Stores -> SUBSET Uploads]
      /\ failures \in 0 .. MaxFaults /\ lost \in 0 .. MaxFaults
      /\ guessed \subseteq Uploads
  BY DEF TypeInv, TypeOK, Got, Keys
<1>1. CASE AddCounter(u) \/ AddComponent(u)
  <2>1. PICK b \in {"add", "get", "increment"} : pc' = [pc EXCEPT ![u] = b]
    BY <1>1 DEF AddCounter, AddComponent, Goto
  <2>2. /\ pc[u] \notin {"store", "failed"}
        /\ UNCHANGED <<fetched, unsent, kept, guessed, failures, lost>>
        /\ items' \subseteq Keys /\ counter' \in Nat
    BY <1>0, <1>1 DEF AddCounter, AddComponent, Keys, faults
  <2>3. b \in Places
    BY DEF Places
  <2>4. QED
    BY <1>0, <2>1, <2>2, <2>3, TypeQuiet
<1>2. CASE Increment(u) \/ IncrementLost(u) \/ GetCounter(u)
  <2>1. PICK b \in {"mget", "done", "failed"} : pc' = [pc EXCEPT ![u] = b]
    BY <1>2, PlaceAfterCount DEF Increment, IncrementLost, GetCounter, Goto
  <2>2. /\ pc[u] \notin {"store", "failed"} /\ UNCHANGED <<fetched, unsent, kept, lost>>
        /\ items' \subseteq Keys /\ counter' \in Nat /\ guessed' \subseteq guessed \cup {u}
    BY <1>0, <1>2 DEF Increment, IncrementLost, GetCounter, faults
  <2>3. UNCHANGED failures \/ Failure
    BY <1>2 DEF Increment, IncrementLost, GetCounter, faults
  <2>4. b \in Places
    BY DEF Places
  <2>5. QED
    BY <1>0, <2>1, <2>2, <2>3, <2>4, FaultsStep, TypeQuiet
<1>3. CASE Fetch(u) \/ FetchCut(u)
  <2>1. PICK got \in Got : Compose(u, got) /\ (UNCHANGED failures \/ Failure)
    BY <1>3 DEF Fetch, FetchCut, Got
  <2>2. /\ pc' = [pc EXCEPT ![u] = "store"]
        /\ unsent' = [unsent EXCEPT ![u] = Stores]
        /\ UNCHANGED <<items, counter, kept, guessed, lost>>
        /\ fetched' \in [Uploads -> Got]
    BY <1>0, <2>1 DEF Compose, Goto
  <2>3. "store" \in Places /\ Stores \in SUBSET Stores
    BY DEF Places
  <2>4. QED
    BY <1>0, <2>1, <2>2, <2>3, FaultsStep, TypeMove
<1>4. CASE Store(u) \/ StoreFails(u)
  <2>1. PICK s \in Stores, keptBy \in SUBSET {u} : Answer(u, s, keptBy)
    BY <1>4 DEF Store, StoreFails
  <2>2. /\ pc' = [pc EXCEPT ![u] = AfterStore(u, unsent[u] \ {s})]
        /\ unsent' = [unsent EXCEPT ![u] = unsent[u] \ {s}]
        /\ UNCHANGED <<items, counter, fetched, guessed, lost>>
    BY <2>1 DEF Answer, Goto
  <2>3. kept' \in [Stores -> SUBSET Uploads]
    BY <1>0, <2>1 DEF Answer
  <2>4. /\ AfterStore(u, unsent[u] \ {s}) \in Places
        /\ AfterStore(u, unsent[u] \ {s}) \notin {"store", "failed"} => unsent[u] \ {s} = {}
    BY DEF AfterStore, Places
  <2>5. unsent[u] \ {s} \in SUBSET Stores
    BY <1>0
  <2>6. UNCHANGED failures \/ Failure
    BY <1>4 DEF Store, StoreFails
  <2>7. QED
    BY <1>0, <2>2, <2>3, <2>4, <2>5, <2>6, FaultsStep, TypeMove
<1>5. CASE Fail(u)
  <2>1. /\ pc' = [pc EXCEPT ![u] = "failed"]
        /\ UNCHANGED <<items, counter, fetched, unsent, kept, guessed, lost>> /\ Failure
    BY <1>5 DEF Fail, Goto
  <2>2. unsent' = [unsent EXCEPT ![u] = unsent[u]] /\ unsent[u] \in SUBSET Stores
    BY <1>0, <2>1
  <2>3. "failed" \in Places
    BY DEF Places
  <2>4. QED
    BY <1>0, <2>1, <2>2, <2>3, FaultsStep, TypeMove
<1>6. QED
  BY <1>1, <1>2, <1>3, <1>4, <1>5 DEF UploadStep, CallStep, ComposeAndUpload

\* A step is a step of one call, a loss, or nothing.
LEMMA NextCases ==
  ASSUME [Next]_vars
  PROVE  \/ \E u \in Uploads : UploadStep(u) \/ CallStep(u)
         \/ Lose
         \/ UNCHANGED vars
<1> QED
  BY DEF Next, Upload

LEMMA TypeNext == TypeInv /\ [Next]_vars => TypeInv'
<1> SUFFICES ASSUME TypeInv, [Next]_vars PROVE TypeInv'
  OBVIOUS
<1>1. CASE Lose
  BY <1>1 DEF Lose, TypeInv, TypeOK, Quiet
<1>2. CASE UNCHANGED vars
  BY <1>2 DEF vars, TypeInv, TypeOK, Quiet
<1>3. QED
  BY <1>1, <1>2, NextCases, TypeStep

(***************************************************************************)
(* The variables keep their types, whatever is lost or fails, and no call  *)
(* returns before its stores have answered (ComposeReviewHandler.h:244).   *)
(***************************************************************************)
THEOREM ReviewTypeCorrect == Spec => []TypeOK
<1>1. TypeInv => TypeOK
  BY DEF TypeInv
<1>2. QED
  BY <1>1, TypeInit, TypeNext, PTL DEF Spec

-----------------------------------------------------------------------------
(***************************************************************************)
(* Until an item is lost, the counter stays behind the components, and so  *)
(* a call whose count is complete finds all of them.  Inductive with three *)
(* more parts: the types; that the counter is there once an upload has     *)
(* added it; and that a call that is about to fetch finds everything,      *)
(* unless it guessed the count.                                            *)
(***************************************************************************)
Begun == \A u \in Uploads : pc[u] \in {"add", "increment"} => "counter" \in items
Behind == counter + Cardinality(Incrementing) <= Cardinality(Stored)
Complete == \A u \in Uploads \ guessed : pc[u] = "mget" => Stored = Components
Whole == \A u \in Uploads \ guessed : pc[u] = "store" => fetched[u] # "some"

ReviewInv == Begun /\ Behind /\ Complete /\ Whole

LEMMA CounterAt == CounterNeverAhead <=> (lost = 0 => Behind)
BY DEF CounterNeverAhead, Behind, Incrementing

LEMMA ReviewInit == Init => ReviewInv
<1> SUFFICES ASSUME Init PROVE ReviewInv
  OBVIOUS
<1>1. Incrementing = {} /\ Stored = {}
  BY DEF Init, Incrementing, Stored
<1>2. Cardinality(Incrementing) = 0 /\ Cardinality(Stored) = 0
  BY <1>1, FS_EmptySet
<1>3. QED
  BY <1>2 DEF Init, ReviewInv, Begun, Behind, Complete, Whole

\* A step that leaves memcached alone and starts no composition.
LEMMA KeepsInv ==
  ASSUME TypeInv, ReviewInv, NEW u \in Uploads,
         NEW b \in Places \ {"add", "increment", "mget"},
         pc' = [pc EXCEPT ![u] = b], UNCHANGED <<items, counter, guessed>>,
         \A v \in Uploads \ {u} : fetched'[v] = fetched[v],
         b = "store" /\ u \notin guessed => fetched'[u] # "some"
  PROVE  ReviewInv'
<1>0. pc \in [Uploads -> Places] /\ items \subseteq Keys /\ counter \in Nat
  BY DEF TypeInv, TypeOK, Places, Keys
<1>1. Stored' = Stored
  BY DEF Stored
<1>2. Behind'
  <2>1. CASE pc[u] = "increment"
    <3>1. Cardinality(Incrementing') = Cardinality(Incrementing) - 1
      BY <1>0, <2>1, IncrementingLess
    <3>2. QED
      BY <1>0, <1>1, <3>1, IncrementingFinite, StoredBound DEF ReviewInv, Behind
  <2>2. CASE pc[u] # "increment"
    <3>1. Incrementing' = Incrementing
      BY <1>0, <2>2, IncrementingSame
    <3>2. QED
      BY <1>1, <3>1 DEF ReviewInv, Behind
  <2>3. QED
    BY <2>1, <2>2
<1>3. Begun' /\ Complete' /\ Whole'
  BY <1>0, <1>1 DEF ReviewInv, Begun, Complete, Whole
<1>4. QED
  BY <1>2, <1>3 DEF ReviewInv

\* A call that has counted composes only if everything is there.
LEMMA CountInv ==
  ASSUME TypeInv, ReviewInv, NEW u \in Uploads, NEW n \in Nat, NEW b,
         b \in {AfterCount(n)}, n + Cardinality(Incrementing') <= Cardinality(Stored),
         pc' = [pc EXCEPT ![u] = b], UNCHANGED <<items, fetched, guessed>>, counter' = n
  PROVE  ReviewInv'
<1>0. pc \in [Uploads -> Places] /\ items \subseteq Keys
  BY DEF TypeInv, TypeOK, Places, Keys
<1>1. Stored' = Stored
  BY DEF Stored
<1>2. Behind'
  BY <1>1 DEF Behind
<1>3. Complete'
  <2>1. ASSUME b = "mget" PROVE Stored = Components
    <3>1. n = Needed
      BY <2>1 DEF AfterCount
    <3>2. Incrementing' \subseteq Uploads
      BY DEF Incrementing
    <3>3. Cardinality(Incrementing') \in Nat
      BY <3>2, FS_Subset, FS_CardinalityType
    <3>4. QED
      BY <1>0, <3>1, <3>3, NeededType, StoredBound
  <2>2. QED
    BY <1>0, <1>1, <2>1 DEF ReviewInv, Complete
<1>4. Begun' /\ Whole'
  <2>1. b \notin {"store", "add", "increment"}
    BY PlaceAfterCount
  <2>2. QED
    BY <1>0, <2>1 DEF ReviewInv, Begun, Whole
<1>5. QED
  BY <1>2, <1>3, <1>4 DEF ReviewInv

LEMMA ReviewStep ==
  ASSUME TypeInv, ReviewInv, NEW u \in Uploads, UploadStep(u) \/ CallStep(u)
  PROVE  ReviewInv'
<1>0. /\ pc \in [Uploads -> Places] /\ items \subseteq Keys
      /\ counter \in Nat /\ Of[u] \in Components /\ Of[u] # "counter"
      /\ fetched \in [Uploads -> Got]
  BY DEF TypeInv, TypeOK, Places, Keys, Got
<1>1. CASE AddCounter(u)
  <2>1. /\ pc[u] = "idle" /\ pc' = [pc EXCEPT ![u] = "add"]
        /\ items' = items \cup {"counter"} /\ counter' \in {0, counter}
        /\ UNCHANGED <<fetched, guessed>>
    BY <1>1 DEF AddCounter, Goto
  <2>2. Stored' = Stored
    BY <2>1 DEF Stored
  <2>3. Incrementing' = Incrementing
    BY <1>0, <2>1, IncrementingSame
  <2>4. Behind'
    BY <1>0, <2>1, <2>2, <2>3, IncrementingFinite, StoredBound DEF ReviewInv, Behind
  <2>5. Begun' /\ Complete' /\ Whole'
    BY <1>0, <2>1, <2>2 DEF ReviewInv, Begun, Complete, Whole
  <2>6. QED
    BY <2>4, <2>5 DEF ReviewInv
<1>2. CASE AddComponent(u) /\ Of[u] \in items
  <2>1. pc' = [pc EXCEPT ![u] = "get"] /\ UNCHANGED <<items, counter, fetched, guessed>>
    BY <1>2 DEF AddComponent, Goto
  <2>2. "get" \in Places \ {"add", "increment", "mget"}
    BY DEF Places
  <2>3. QED
    BY <2>1, <2>2, KeepsInv
<1>3. CASE AddComponent(u) /\ Of[u] \notin items
  <2>1. /\ pc[u] = "add" /\ pc' = [pc EXCEPT ![u] = "increment"]
        /\ items' = items \cup {Of[u]} /\ UNCHANGED <<counter, fetched, guessed>>
    BY <1>3 DEF AddComponent, Goto
  <2>2. Stored' = Stored \cup {Of[u]} /\ Of[u] \notin Stored
    BY <1>0, <1>3, <2>1 DEF Stored
  <2>3. Cardinality(Stored') = Cardinality(Stored) + 1
    BY <1>0, <2>2, StoredBound, FS_AddElement
  <2>4. Cardinality(Incrementing') = Cardinality(Incrementing) + 1
    BY <1>0, <2>1, IncrementingMore
  <2>5. Behind'
    BY <1>0, <2>1, <2>3, <2>4, IncrementingFinite, StoredBound DEF ReviewInv, Behind
  <2>6. Begun'
    BY <1>0, <2>1 DEF ReviewInv, Begun
  <2>7. Complete' /\ Whole'
    BY <1>0, <2>1, <2>2 DEF ReviewInv, Complete, Whole
  <2>8. QED
    BY <2>5, <2>6, <2>7 DEF ReviewInv
<1>4. CASE Increment(u)
  <2>1. /\ pc[u] = "increment" /\ pc' = [pc EXCEPT ![u] = AfterCount(counter + 1)]
        /\ counter' = counter + 1 /\ UNCHANGED <<items, fetched, guessed>>
    BY <1>4 DEF Increment, Goto
  <2>2. Cardinality(Incrementing') = Cardinality(Incrementing) - 1
    BY <1>0, <2>1, PlaceAfterCount, IncrementingLess
  <2>3. counter + 1 + Cardinality(Incrementing') <= Cardinality(Stored)
    BY <1>0, <2>2, IncrementingFinite, StoredBound DEF ReviewInv, Behind
  <2>4. counter + 1 \in Nat
    BY <1>0
  <2>5. QED
    BY <2>1, <2>3, <2>4, CountInv
<1>5. CASE IncrementLost(u)
  <2>1. PICK b \in {"mget", "done"} :
          /\ pc[u] = "increment" /\ pc' = [pc EXCEPT ![u] = b]
          /\ b = "mget" => u \in guessed'
    BY <1>5, PlaceAfterCount DEF IncrementLost, Goto
  <2>2. /\ counter' = counter \/ counter' = counter + 1
        /\ guessed \subseteq guessed' /\ UNCHANGED <<items, fetched>>
    BY <1>5 DEF IncrementLost
  <2>3. Cardinality(Incrementing') = Cardinality(Incrementing) - 1
    BY <1>0, <2>1, IncrementingLess
  <2>4. Behind'
    BY <1>0, <2>2, <2>3, IncrementingFinite, StoredBound DEF ReviewInv, Behind, Stored
  <2>5. \A v \in Uploads \ guessed' : v \notin guessed /\ (v # u => pc'[v] = pc[v])
    BY <1>0, <2>1, <2>2
  <2>6. Begun' /\ Complete' /\ Whole'
    BY <1>0, <2>1, <2>2, <2>5 DEF ReviewInv, Begun, Complete, Whole, Stored
  <2>7. QED
    BY <2>4, <2>6 DEF ReviewInv
<1>6. CASE GetCounter(u)
  <2>1. CASE "counter" \in items
    <3>1. /\ pc[u] = "get" /\ pc' = [pc EXCEPT ![u] = AfterCount(counter)]
          /\ UNCHANGED <<items, counter, fetched, guessed>>
      BY <1>6, <2>1 DEF GetCounter, Goto
    <3>2. Incrementing' = Incrementing
      BY <1>0, <3>1, PlaceAfterCount, IncrementingSame
    <3>3. counter + Cardinality(Incrementing') <= Cardinality(Stored)
      BY <3>2 DEF ReviewInv, Behind
    <3>4. QED
      BY <1>0, <3>1, <3>3, CountInv
  <2>2. CASE "counter" \notin items
    <3>1. pc' = [pc EXCEPT ![u] = "failed"] /\ UNCHANGED <<items, counter, fetched, guessed>>
      BY <1>6, <2>2 DEF GetCounter, Goto
    <3>2. "failed" \in Places \ {"add", "increment", "mget"}
      BY DEF Places
    <3>3. QED
      BY <3>1, <3>2, KeepsInv
  <2>3. QED
    BY <2>1, <2>2
<1>7. CASE Fetch(u) \/ FetchCut(u)
  <2>1. PICK got : Compose(u, got) /\ (u \notin guessed => got # "some")
    BY <1>0, <1>7 DEF Fetch, FetchCut, Compose, ReviewInv, Complete
  <2>2. /\ pc[u] = "mget" /\ pc' = [pc EXCEPT ![u] = "store"]
        /\ fetched' = [fetched EXCEPT ![u] = got]
        /\ UNCHANGED <<items, counter, guessed>>
    BY <2>1 DEF Compose, Goto
  <2>3. "store" \in Places \ {"add", "increment", "mget"}
    BY DEF Places
  <2>4. QED
    BY <1>0, <2>1, <2>2, <2>3, KeepsInv
<1>8. CASE Store(u) \/ StoreFails(u)
  <2>1. PICK b \in {"done", "store", "failed"} :
           /\ pc[u] = "store" /\ pc' = [pc EXCEPT ![u] = b]
           /\ UNCHANGED <<items, counter, fetched, guessed>>
    BY <1>8 DEF Store, StoreFails, Answer, AfterStore, Goto
  <2>2. u \notin guessed => fetched'[u] # "some"
    BY <2>1 DEF ReviewInv, Whole
  <2>3. b \in Places \ {"add", "increment", "mget"}
    BY DEF Places
  <2>4. QED
    BY <2>1, <2>2, <2>3, KeepsInv
<1>9. CASE Fail(u)
  <2>1. pc' = [pc EXCEPT ![u] = "failed"] /\ UNCHANGED <<items, counter, fetched, guessed>>
    BY <1>9 DEF Fail, Goto
  <2>2. "failed" \in Places \ {"add", "increment", "mget"}
    BY DEF Places
  <2>3. QED
    BY <2>1, <2>2, KeepsInv
<1>10. QED
  BY <1>1, <1>2, <1>3, <1>4, <1>5, <1>6, <1>7, <1>8, <1>9
     DEF UploadStep, CallStep, ComposeAndUpload

SafeInv == TypeInv /\ (lost = 0 => ReviewInv)

LEMMA SafeInit == Init => SafeInv
BY TypeInit, ReviewInit DEF SafeInv

\* Once an item is lost, it stays lost.
LEMMA LostGrows == TypeInv /\ [Next]_vars => (lost' = lost /\ ~Lose) \/ lost' # 0
<1> SUFFICES ASSUME TypeInv, [Next]_vars PROVE (lost' = lost /\ ~Lose) \/ lost' # 0
  OBVIOUS
<1>1. lost \in Nat
  BY FaultsAssumption DEF TypeInv, TypeOK
<1>2. CASE Lose
  BY <1>1, <1>2 DEF Lose
<1>3. CASE UNCHANGED vars
  BY <1>3 DEF vars, Lose
<1>4. ASSUME NEW u \in Uploads, UploadStep(u) PROVE lost' = lost
  BY <1>4 DEF UploadStep, AddCounter, AddComponent, Increment, IncrementLost,
     GetCounter, faults
<1>5. ASSUME NEW u \in Uploads, CallStep(u) PROVE lost' = lost
  BY <1>5 DEF CallStep, ComposeAndUpload, Fetch, FetchCut, Compose, Store, StoreFails, Fail, Answer, faults
<1>6. QED
  BY <1>1, <1>2, <1>3, <1>4, <1>5, NextCases DEF Lose

LEMMA SafeNext == SafeInv /\ [Next]_vars => SafeInv'
<1> SUFFICES ASSUME SafeInv, [Next]_vars PROVE SafeInv'
  OBVIOUS
<1>1. TypeInv'
  BY TypeNext DEF SafeInv
<1>2. ASSUME lost' = 0 PROVE ReviewInv'
  <2>1. lost = 0 /\ ~Lose
    BY <1>2, LostGrows DEF SafeInv
  <2>2. TypeInv /\ ReviewInv
    BY <2>1 DEF SafeInv
  <2>3. CASE UNCHANGED vars
    BY <2>2, <2>3 DEF vars, ReviewInv, Begun, Behind, Complete, Whole, Stored, Incrementing
  <2>4. CASE \E u \in Uploads : UploadStep(u) \/ CallStep(u)
    BY <2>2, <2>4, ReviewStep
  <2>5. QED
    BY <2>1, <2>3, <2>4, NextCases
<1>3. QED
  BY <1>1, <1>2 DEF SafeInv

(***************************************************************************)
(* Until an item is lost, the counter never runs ahead of the components,  *)
(* whatever is uploaded twice and wherever calls fail                      *)
(* (ComposeReviewHandler.h:275-347).                                       *)
(***************************************************************************)
THEOREM CounterStaysBehind == Spec => []CounterNeverAhead
<1>1. SafeInv => CounterNeverAhead
  BY CounterAt DEF SafeInv, ReviewInv
<1>2. QED
  BY <1>1, SafeInit, SafeNext, PTL DEF Spec

(***************************************************************************)
(* Until an item is lost, a call that was answered five by memcached and   *)
(* whose fetch was not cut composes of all the components there are,       *)
(* whatever goes wrong in the others                                       *)
(* (ComposeReviewHandler.h:76-168, 334-359).                               *)
(***************************************************************************)
THEOREM ReviewsAreWhole == Spec => []ComposesWhole
<1>1. SafeInv => ComposesWhole
  BY DEF SafeInv, ReviewInv, Whole, ComposesWhole
<1>2. QED
  BY <1>1, SafeInit, SafeNext, PTL DEF Spec
-----------------------------------------------------------------------------
(***************************************************************************)
(* One call composes.  While every component has arrived once, whoever     *)
(* adds a component is the first to do so, and the call that composes is   *)
(* the one that brought the counter to its end: nobody is left to count.   *)
(***************************************************************************)
OnceEach == \A u, v \in Started : Of[u] = Of[v] => u = v

\* What is stored was added by a call.
AddedBy == \A c \in Stored : \E u \in Uploads : pc[u] \notin {"idle", "add"} /\ Of[u] = c

NobodyReads == \A u \in Uploads : pc[u] # "get"
CountIsOver == Composers \ guessed # {} => counter = Needed /\ "counter" \in items
OneComposer == \A u, v \in Composers \ guessed : u = v

OnceInv == AddedBy /\ (OnceEach => NobodyReads /\ CountIsOver /\ OneComposer)

LEMMA OnceInit == Init => OnceInv
BY DEF Init, OnceInv, AddedBy, NobodyReads, CountIsOver, OneComposer, Composers, Stored

\* A step of a call leaves the places of the others.
LEMMA Moves ==
  ASSUME TypeInv, NEW u \in Uploads, UploadStep(u) \/ CallStep(u)
  PROVE  /\ \A v \in Uploads : v # u => pc'[v] = pc[v] /\ fetched'[v] = fetched[v]
         /\ pc'[u] # "idle"
         /\ pc[u] \notin {"idle", "add"} => pc'[u] \notin {"idle", "add"}
<1>1. pc \in [Uploads -> Places] /\ fetched \in [Uploads -> Got]
  BY DEF TypeInv, TypeOK, Places, Got
<1>2. CASE AddCounter(u) \/ AddComponent(u) \/ Fetch(u) \/ FetchCut(u) \/ Fail(u)
  BY <1>1, <1>2 DEF AddCounter, AddComponent, Fetch, FetchCut, Compose, Fail, Goto
<1>3. CASE Increment(u) \/ IncrementLost(u) \/ GetCounter(u)
  BY <1>1, <1>3, PlaceAfterCount DEF Increment, IncrementLost, GetCounter, Goto
<1>4. CASE Store(u) \/ StoreFails(u)
  BY <1>1, <1>4 DEF Store, StoreFails, Answer, AfterStore, Goto
<1> QED
  BY <1>2, <1>3, <1>4 DEF UploadStep, CallStep, ComposeAndUpload

LEMMA OnceStep ==
  ASSUME TypeInv, ReviewInv, OnceInv, NEW u \in Uploads, UploadStep(u) \/ CallStep(u)
  PROVE  OnceInv'
<1>0. /\ pc \in [Uploads -> Places] /\ items \subseteq Keys /\ counter \in Nat
      /\ Of[u] \in Components /\ Of[u] # "counter" /\ fetched \in [Uploads -> Got]
  BY DEF TypeInv, TypeOK, Places, Keys, Got
<1>1. AddedBy'
  <2>1. Stored' = Stored \/ (AddComponent(u) /\ Stored' = Stored \cup {Of[u]})
    BY <1>0 DEF UploadStep, CallStep, ComposeAndUpload, AddCounter, AddComponent, Increment, IncrementLost,
                GetCounter, Fetch, FetchCut, Compose, Store, StoreFails, Fail, Answer, Stored
  <2>2. AddComponent(u) => pc'[u] \notin {"idle", "add"}
    BY <1>0 DEF AddComponent, Goto
  <2> QED
    BY <2>1, <2>2, Moves DEF OnceInv, AddedBy
<1>2. ASSUME OnceEach' PROVE NobodyReads' /\ CountIsOver' /\ OneComposer'
  <2>1. Started \subseteq Started'
    BY Moves DEF Started
  <2>2. OnceEach /\ NobodyReads /\ CountIsOver /\ OneComposer /\ AddedBy
    BY <1>2, <2>1 DEF OnceEach, OnceInv
  <2>3. ASSUME pc[u] = "add" PROVE Of[u] \notin Stored
    <3>1. u \in Started /\ \A v \in Uploads : pc[v] \notin {"idle", "add"} => v \in Started
      BY <2>3 DEF Started
    <3> QED
      BY <2>2, <2>3, <3>1 DEF AddedBy, OnceEach
  <2>4. ASSUME Composers \ guessed # {} PROVE Incrementing = {}
    <3>1. counter = Needed /\ Needed \in Nat
      BY <2>2, <2>4, NeededType DEF CountIsOver
    <3>2. Cardinality(Stored) <= Needed /\ Cardinality(Stored) \in Nat
      BY <1>0, StoredBound, FS_Subset DEF Needed
    <3>3. Cardinality(Incrementing) = 0
      BY <3>1, <3>2, IncrementingFinite DEF ReviewInv, Behind
    <3> QED
      BY <3>3, IncrementingFinite, FS_EmptySet
  <2>5. NobodyReads'
    <3>1. pc'[u] # "get"
      BY <1>0, <2>2, <2>3, PlaceAfterCount
      DEF UploadStep, CallStep, ComposeAndUpload, AddCounter, AddComponent, Increment, IncrementLost,
          GetCounter, Fetch, FetchCut, Compose, Store, StoreFails, Fail, Answer, AfterStore, Goto, NobodyReads, Stored
    <3> QED
      BY <2>2, <3>1, Moves DEF NobodyReads
  <2> DEFINE told == Composers \ guessed
  <2>6. CASE Increment(u)
    <3>1. told = {} /\ told' \subseteq {u}
      BY <1>0, <2>4, <2>6, Moves DEF Increment, Incrementing, Composers
    <3>2. told' # {} => counter' = Needed /\ "counter" \in items'
      BY <1>0, <2>6, <3>1 DEF Increment, AfterCount, Goto, Composers, ReviewInv, Whole
    <3> QED
      BY <2>5, <3>1, <3>2 DEF CountIsOver, OneComposer, Needed
  <2>7. CASE ~Increment(u)
    <3>1. guessed \subseteq guessed'
      BY DEF UploadStep, CallStep, ComposeAndUpload, AddCounter, AddComponent, Increment, IncrementLost,
             GetCounter, Fetch, FetchCut, Compose, Store, StoreFails, Fail, Answer
    <3>2. u \in Composers' => u \in Composers \cup guessed'
      BY <1>0, <2>2, <2>7
      DEF UploadStep, CallStep, ComposeAndUpload, AddCounter, AddComponent, IncrementLost,
          GetCounter, Fetch, FetchCut, Compose, Store, StoreFails, Fail, Answer, AfterStore, Goto,
          NobodyReads, Composers
    <3>3. told' \subseteq told
      BY <3>1, <3>2, Moves DEF Composers
    <3>4. told # {} => counter' = counter /\ "counter" \in items'
      BY <1>0, <2>2, <2>4, <2>7
      DEF UploadStep, CallStep, ComposeAndUpload, AddCounter, AddComponent, IncrementLost,
          GetCounter, Fetch, FetchCut, Compose, Store, StoreFails, Fail, Answer, CountIsOver, Incrementing
    <3> QED
      BY <2>2, <2>5, <3>3, <3>4 DEF CountIsOver, OneComposer, Needed
  <2> QED
    BY <2>6, <2>7
<1> QED
  BY <1>1, <1>2 DEF OnceInv

OnceSafe == lost = 0 => OnceInv

LEMMA OnceNext == SafeInv /\ OnceSafe /\ [Next]_vars => OnceSafe'
<1> SUFFICES ASSUME SafeInv, OnceSafe, [Next]_vars, lost' = 0 PROVE OnceInv'
  BY DEF OnceSafe
<1>1. lost = 0 /\ ~Lose /\ TypeInv /\ ReviewInv /\ OnceInv
  BY LostGrows DEF SafeInv, OnceSafe
<1>2. CASE UNCHANGED vars
  BY <1>1, <1>2 DEF vars, OnceInv, AddedBy, OnceEach, NobodyReads, CountIsOver, OneComposer, Composers,
                    Started, Stored
<1> QED
  BY <1>1, <1>2, OnceStep, NextCases

(***************************************************************************)
(* Until an item is lost or a component arrives twice, one call at most    *)
(* composes the review because memcached answered five, whatever else      *)
(* goes wrong (ComposeReviewHandler.h:334-359).                            *)
(***************************************************************************)
THEOREM OneCallComposes == Spec => []ComposedOnce
<1>1. OnceSafe => ComposedOnce
  BY DEF OnceSafe, OnceInv, OnceEach, OneComposer, ComposedOnce
<1>2. Init => OnceSafe
  BY OnceInit DEF OnceSafe
<1> QED
  BY <1>1, <1>2, SafeInit, SafeNext, OnceNext, PTL DEF Spec
=============================================================================
