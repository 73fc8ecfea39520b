------------------------------ MODULE Catalogue ------------------------------
(***************************************************************************)
(* The services that read documents through memcached:                     *)
(*   hotelReservation/services/{rate,profile,review}/server.go, whose      *)
(*   documents are inserted by initializeDatabase whenever the service     *)
(*   starts (cmd/{rate,profile,review}/db.go);                             *)
(*   mediaMicroservices/src/{MovieInfo,CastInfo,Plot,MovieId}Service,      *)
(*   whose documents are written by calls, and PageService, which puts a   *)
(*   page together from three of them; ReviewStorageService, and           *)
(*   socialNetwork/src/PostStorageService for one post at a time;          *)
(*   mediaMicroservices/src/UserService, whose accounts are in UserLookups. *)
(*                                                                         *)
(* A value is the number of copies of the key's document it shows: more    *)
(* than one when a restarted service has inserted it again, none when a    *)
(* failed read was cached.  GetRates reads the whole inventory whatever    *)
(* hotel missed, so a value of the rate service has such a number for      *)
(* every hotel.                                                            *)
(***************************************************************************)
EXTENDS UserLookups, FiniteSets

CONSTANTS
  Keys,
  Unreviewed,       \* the hotels nobody has reviewed
  Unpriced,         \* the hotels without rate plans
  Scenarios,        \* what may be asked: functions from calls to [op, keys, part, of]
  UserScenarios,    \* what may be asked of the user service (see visit)
  MaxGoroutines,    \* the tasks of a hotel call, 50 in the code
  MaxFailures, MaxRestarts, MaxEvictions    \* bounds

Hotel == [GetRates |-> "rate", GetProfiles |-> "profile", GetReviews |-> "review"]
Reader == [ReadMovieInfo |-> "movie-info", ReadCastInfo |-> "cast-info",
           ReadPlot |-> "plot", UploadMovieId |-> "movie-id",
           ReadReviews |-> "review-storage", ReadPost |-> "post-storage"]
Writer == [WriteMovieInfo |-> "movie-info", WriteCastInfo |-> "cast-info",
           WritePlot |-> "plot", RegisterMovieId |-> "movie-id",
           StoreReview |-> "review-storage", StorePost |-> "post-storage"]
ListReads == {"ReadCastInfo", "ReadReviews"}
ServiceOf(op) == CASE op \in DOMAIN Hotel -> Hotel[op]
                   [] op \in DOMAIN Reader -> Reader[op]
                   [] op \in DOMAIN Writer -> Writer[op]
                   [] OTHER -> "page"
HotelServices == Range(Hotel)
Services == HotelServices \cup Range(Reader)

ASSUME CatalogueAssumption ==
  /\ MaxGoroutines \in Nat \ {0} /\ {MaxFailures, MaxRestarts, MaxEvictions} \subseteq Nat
  /\ Unreviewed \subseteq Keys /\ Unpriced \subseteq Keys /\ None \notin Nat \cup [Keys -> Nat]

Operations == DOMAIN Hotel \cup DOMAIN Reader \cup DOMAIN Writer \cup {"ReadPage"}

\* A write names a document; a page has its three parts, which are reads.
ASSUME ScenariosAssumption ==
  \A asked \in Scenarios : \A c \in DOMAIN asked :
    /\ asked[c].op \in Operations /\ asked[c].keys \in Seq(Keys)
    /\ asked[c].op \in DOMAIN Writer => asked[c].keys /= <<>>
    /\ asked[c].part /= "none" => asked[c].op \in DOMAIN Reader
    /\ asked[c].op = "ReadPage" =>
         \A part \in {"info", "cast", "plot"} :
           \E p \in DOMAIN asked : asked[p].of = c /\ asked[p].part = part

ASSUME UserScenariosAssumption ==
  \A visits \in UserScenarios : \A v \in DOMAIN visits :
    /\ visits[v].op \in UserOperations
    /\ visits[v].op /= "UploadUserWithUserId" => visits[v].name \in Names

VARIABLES
  ask,              \* ask[c]: what call c asks for
  documents,        \* documents[s][k]: the copies in MongoDB
  memcached,        \* memcached[s][k]: the value, or None
  background,       \* background[s]: the Sets of goroutines nobody waits for
  call,             \* where each call is
  restarts, evictions, failures,
  faulted,          \* history: the calls a command of which failed
  unread,           \* history: the <<service, hotel>> a read for which failed
  absent            \* history: the calls that began without a document they ask for

stores == <<documents, memcached, background>>
history == <<faulted, unread, absent>>
documentVars == <<ask, stores, call, restarts, evictions, failures, history>>
vars == <<documentVars, userVars>>

Members(s) == {s[i] : i \in DOMAIN s}
Calls == DOMAIN ask
Op(c) == ask[c].op
Svc(c) == ServiceOf(Op(c))
At(c, place) == call[c].at = place
Over(c) == call[c].at \in {"done", "failed", "died"}
Nothing(s) == IF s = "rate" THEN [h \in Keys |-> 0] ELSE 0
\* answer[k]: what looking k up, in memcached or MongoDB, added to the answer.
NewCall(s) == [at |-> "idle", ids |-> <<>>, next |-> <<>>, answer |-> [k \in Keys |-> Nothing(s)],
               sets |-> {}, tasks |-> {}, ok |-> TRUE]

\* The documents initializeDatabase inserts.
Bare(s) == CASE s = "review" -> Unreviewed [] s = "rate" -> Unpriced [] OTHER -> {}
Inserted(s, k) == IF s \in HotelServices /\ k \notin Bare(s) THEN 1 ELSE 0

Init ==
  /\ \/ ask \in Scenarios /\ UsersStart(<<>>)
     \/ ask = <<>> /\ \E visits \in UserScenarios : UsersStart(visits)
  /\ documents = [s \in Services |-> [k \in Keys |-> Inserted(s, k)]]
  /\ memcached = [s \in Services |-> [k \in Keys |-> None]]
  /\ background = [s \in Services |-> {}]
  /\ call = [c \in Calls |-> NewCall(Svc(c))]
  /\ restarts = 0 /\ evictions = 0 /\ failures = 0
  /\ faulted = {} /\ unread = {} /\ absent = {}

Goto(c, place) == call' = [call EXCEPT ![c].at = place]
Put(c, record) == call' = [call EXCEPT ![c] = record]

\* The parts of a page are calls of their own, which the page starts.
PartOf(c, part) == CHOOSE p \in Calls : ask[p].of = c /\ ask[p].part = part
IsStarted(c) ==
  CASE ask[c].part = "none" -> TRUE
    [] ask[c].part = "info" -> At(ask[c].of, "info")
    [] OTHER -> At(ask[c].of, "parts")

Lacks(c) == Op(c) \in DOMAIN Reader /\ \E k \in Members(ask[c].keys) : documents[Svc(c)][k] = 0

\* A read of a list asked for nothing has nothing to do, and asked for one
\* document twice refuses.
Begin(c) ==
  /\ At(c, "idle") /\ IsStarted(c)
  /\ Goto(c, CASE Op(c) = "RegisterMovieId" -> "look"
               [] Op(c) \in DOMAIN Writer -> "insert"
               [] Op(c) = "ReadPage" -> "info"
               [] Op(c) \in ListReads /\ ask[c].keys = <<>> -> "done"
               [] Op(c) \in ListReads /\ ~IsInjective(ask[c].keys) -> "failed"
               [] OTHER -> "get")
  /\ absent' = absent \cup (IF Lacks(c) THEN {c} ELSE {})
  /\ UNCHANGED <<ask, stores, restarts, evictions, failures, faulted, unread>>

-----------------------------------------------------------------------------
(* The reads. *)

Wanted(c) == Members(ask[c].keys)
Hits(c) == {k \in Wanted(c) : memcached[Svc(c)][k] /= None}
FromCache(c, hits) == [k \in Keys |-> IF k \in hits THEN memcached[Svc(c)][k] ELSE Nothing(Svc(c))]

\* Mutant: a hit is looked up in MongoDB as well.
MissingAll(c, hits) == Wanted(c)

Missing(c, hits) == Wanted(c) \ hits

\* The identifiers of the missing documents come from a map, in any order,
\* and each goroutine starts with one of them; a movie id is given to the
\* other services and to memcached again, found there or not.
GetHits(c, hits) ==
  /\ At(c, "get")
  /\ \E ids \in SetToSeqs(Missing(c, hits)) :
       Put(c, [call[c] EXCEPT
         !.at = IF ids /= <<>> THEN "find" ELSE IF Op(c) = "UploadMovieId" THEN "set" ELSE "done",
         !.ids = ids,
         !.next = [w \in 1..(IF Len(ids) < MaxGoroutines THEN Len(ids) ELSE MaxGoroutines) |-> w],
         !.answer = FromCache(c, hits),
         !.sets = IF Op(c) = "UploadMovieId" THEN {<<k, FromCache(c, hits)[k]>> : k \in hits} ELSE {},
         !.tasks = IF Op(c) = "UploadMovieId" THEN {"compose", "rating"} ELSE {}])
  /\ UNCHANGED <<ask, stores, restarts, evictions, history>>

\* Get and GetMulti.
Get(c) == GetHits(c, Hits(c)) /\ UNCHANGED failures

\* Find with no filter gives every plan, Find by hotel every review, FindOne
\* and a cursor's first document one.
Found(c, k) ==
  LET copies == documents[Svc(c)]
  IN CASE Op(c) = "GetRates" -> copies
       [] Op(c) = "GetReviews" -> copies[k]
       [] OTHER -> IF copies[k] = 0 THEN 0 ELSE 1

Plus(s, u, v) == IF s = "rate" THEN [h \in Keys |-> u[h] + v[h]] ELSE u + v

\* A goroutine of GetRates or GetProfiles looks one hotel up, appends what it
\* finds to the answer and leaves its Set to another goroutine.
HasTurn(c, w) ==
  /\ At(c, "find") /\ Op(c) \in {"GetRates", "GetProfiles"}
  /\ w \in DOMAIN call[c].next /\ call[c].next[w] <= Len(call[c].ids)
KeyOf(c, w) == call[c].ids[call[c].next[w]]
Adds(c, w, value) ==
  /\ HasTurn(c, w)
  /\ background' = [background EXCEPT ![Svc(c)] = @ \cup {<<KeyOf(c, w), value>>}]
  /\ Put(c, [call[c] EXCEPT !.answer[KeyOf(c, w)] = Plus(Svc(c), @, value),
                              !.next[w] = @ + Len(call[c].next)])
  /\ UNCHANGED <<ask, documents, memcached, restarts, evictions, absent>>

Work(c, w) == Adds(c, w, Found(c, KeyOf(c, w))) /\ UNCHANGED <<failures, faulted, unread>>

WorkEnds(c) ==
  /\ At(c, "find") /\ Op(c) \in {"GetRates", "GetProfiles"}
  /\ \A w \in DOMAIN call[c].next : call[c].next[w] > Len(call[c].ids)
  /\ Goto(c, "done")
  /\ UNCHANGED <<ask, stores, restarts, evictions, failures, history>>

\* The Sets run after or before the call has answered, each on its own.
SetInBackground(s) ==
  \E item \in background[s] :
    /\ background' = [background EXCEPT ![s] = @ \ {item}]
    /\ memcached' = [memcached EXCEPT ![s][item[1]] = item[2]]
    /\ UNCHANGED <<ask, documents, call, restarts, evictions, failures, history>>

\* Mutant: what was found is compared with all that was asked for.
FoundAll(c, found) == found = Wanted(c)

Complete(c, found) == found = Members(call[c].ids)

\* Mutant: a document that was not found is cached as such.
CacheNothingToo(c, found) == Members(call[c].ids)

Cacheable(c, found) == IF Op(c) = "GetReviews" THEN Members(call[c].ids) ELSE found

\* The other reads ask MongoDB once and wait for their Sets.  A document that
\* is not there is an error and is not cached; a read of a list caches those
\* it did find before it fails.
Find(c) ==
  LET found == {k \in Members(call[c].ids) : documents[Svc(c)][k] > 0}
  IN /\ At(c, "find") /\ Op(c) \in DOMAIN Reader \cup {"GetReviews"}
     /\ Put(c, [call[c] EXCEPT
          !.at = IF Cacheable(c, found) = {} THEN "failed" ELSE "set",
          !.answer = [k \in Keys |-> IF k \in found THEN Found(c, k) ELSE @[k]],
          !.sets = {<<k, Found(c, k)>> : k \in Cacheable(c, found)},
          !.ok = Complete(c, found) \/ Op(c) = "GetReviews"])
     /\ UNCHANGED <<ask, stores, restarts, evictions, failures, history>>

Set(c) ==
  /\ At(c, "set")
  /\ \E item \in call[c].sets :
       /\ memcached' = [memcached EXCEPT ![Svc(c)][item[1]] = item[2]]
       /\ call' = [call EXCEPT ![c].sets = @ \ {item}]
  /\ UNCHANGED <<ask, documents, background, restarts, evictions, failures, history>>

\* UploadMovieId: the tasks that call the compose-review and rating services.
UploadTask(c) ==
  /\ At(c, "set")
  /\ \E task \in call[c].tasks : call' = [call EXCEPT ![c].tasks = @ \ {task}]
  /\ UNCHANGED <<ask, stores, restarts, evictions, failures, history>>

Return(c) ==
  /\ At(c, "set") /\ call[c].sets = {} /\ call[c].tasks = {}
  /\ Goto(c, IF call[c].ok THEN "done" ELSE "failed")
  /\ UNCHANGED <<ask, stores, restarts, evictions, failures, history>>

GetRates(c) == Op(c) = "GetRates" /\ (Get(c) \/ WorkEnds(c) \/ \E w \in 1..MaxGoroutines : Work(c, w))
GetProfiles(c) == Op(c) = "GetProfiles" /\ (Get(c) \/ WorkEnds(c) \/ \E w \in 1..MaxGoroutines : Work(c, w))
GetReviews(c) == Op(c) = "GetReviews" /\ (Get(c) \/ Find(c) \/ Set(c) \/ Return(c))
ReadMovieInfo(c) == Op(c) = "ReadMovieInfo" /\ (Get(c) \/ Find(c) \/ Set(c) \/ Return(c))
ReadCastInfo(c) == Op(c) = "ReadCastInfo" /\ (Get(c) \/ Find(c) \/ Set(c) \/ Return(c))
ReadPlot(c) == Op(c) = "ReadPlot" /\ (Get(c) \/ Find(c) \/ Set(c) \/ Return(c))
ReadReviews(c) == Op(c) = "ReadReviews" /\ (Get(c) \/ Find(c) \/ Set(c) \/ Return(c))
ReadPost(c) == Op(c) = "ReadPost" /\ (Get(c) \/ Find(c) \/ Set(c) \/ Return(c))
UploadMovieId(c) ==
  Op(c) = "UploadMovieId" /\ (Get(c) \/ Find(c) \/ Set(c) \/ UploadTask(c) \/ Return(c))

-----------------------------------------------------------------------------
(* The writes: an insert, which the unique index refuses the second time;   *)
(* there is none of review ids, which ComposeReview gives out once.          *)

Insert(c) ==
  LET k == Head(ask[c].keys)
  IN /\ At(c, "insert")
     /\ IF documents[Svc(c)][k] > 0 /\ Op(c) /= "StoreReview"
        THEN Goto(c, "failed") /\ UNCHANGED documents
        ELSE Goto(c, "done") /\ documents' = [documents EXCEPT ![Svc(c)][k] = @ + 1]
     /\ UNCHANGED <<ask, memcached, background, restarts, evictions, failures, history>>

\* RegisterMovieId looks first.
LookFirst(c) ==
  /\ At(c, "look")
  /\ Goto(c, IF documents[Svc(c)][Head(ask[c].keys)] > 0 THEN "failed" ELSE "insert")
  /\ UNCHANGED <<ask, stores, restarts, evictions, failures, history>>

WriteMovieInfo(c) == Op(c) = "WriteMovieInfo" /\ Insert(c)
WriteCastInfo(c) == Op(c) = "WriteCastInfo" /\ Insert(c)
WritePlot(c) == Op(c) = "WritePlot" /\ Insert(c)
StoreReview(c) == Op(c) = "StoreReview" /\ Insert(c)
StorePost(c) == Op(c) = "StorePost" /\ Insert(c)
RegisterMovieId(c) == Op(c) = "RegisterMovieId" /\ (LookFirst(c) \/ Insert(c))

-----------------------------------------------------------------------------
(* ReadPage: the movie's information first, which names its plot and cast. *)

InfoRead(c) ==
  LET info == PartOf(c, "info")
  IN /\ At(c, "info") /\ Over(info)
     /\ Goto(c, IF At(info, "done") THEN "parts" ELSE "failed")
     /\ UNCHANGED <<ask, stores, restarts, evictions, failures, history>>

PartsRead(c) ==
  LET parts == {PartOf(c, "cast"), PartOf(c, "plot")}
  IN /\ At(c, "parts") /\ \A p \in parts : Over(p)
     /\ Goto(c, IF call[c].ok /\ \A p \in parts : At(p, "done") THEN "done" ELSE "failed")
     /\ UNCHANGED <<ask, stores, restarts, evictions, failures, history>>

ReadPage(c) == Op(c) = "ReadPage" /\ (InfoRead(c) \/ PartsRead(c))

-----------------------------------------------------------------------------
(* Failures. *)

FailureHappens == failures < MaxFailures /\ failures' = failures + 1
Fails(c) == FailureHappens /\ faulted' = faulted \cup {c}

\* A media call throws, once its tasks have ended; so does a page, whose
\* reviews the movie-review service reads (see ReviewLists).  A registration
\* whose look-up fails goes on as if the title were new.  Two reads also
\* throw when they have the document and no client to cache it with.
CallFails(c) ==
  /\ Fails(c) /\ Op(c) \notin DOMAIN Hotel
  /\ \/ call[c].at \in {"get", "find", "look", "insert"} /\ Goto(c, "failed")
     \/ At(c, "look") /\ Goto(c, "insert")
     \/ Op(c) \in {"ReadMovieInfo", "ReadPost"} /\ At(c, "set") /\ Goto(c, "failed")
     \/ \E task \in call[c].tasks :
          At(c, "set") /\ call' = [call EXCEPT ![c].tasks = @ \ {task}, ![c].ok = FALSE]
     \/ call[c].at \in {"info", "parts"} /\ call' = [call EXCEPT ![c].ok = FALSE]
  /\ UNCHANGED <<ask, stores, restarts, evictions, unread, absent>>

\* Nobody minds a Set that fails.
SetFails(c) ==
  /\ FailureHappens /\ At(c, "set")
  /\ \E item \in call[c].sets : call' = [call EXCEPT ![c].sets = @ \ {item}]
  /\ UNCHANGED <<ask, stores, restarts, evictions, history>>

SetInBackgroundFails(s) ==
  /\ FailureHappens
  /\ \E item \in background[s] : background' = [background EXCEPT ![s] = @ \ {item}]
  /\ UNCHANGED <<ask, documents, memcached, call, restarts, evictions, history>>

\* A memcached_fetch that fails ends a reply to mget as the last item does.
FetchEnds(c) ==
  /\ FailureHappens /\ Op(c) \in ListReads
  /\ \E hits \in SUBSET Hits(c) : GetHits(c, hits)

\* GetProfiles logs a failed FindOne; GetRates and GetReviews do not look at
\* the error of All, which leaves the list empty.  Each answers and caches
\* what it has: nothing.
ReadsNothing(c, keys) == Fails(c) /\ unread' = unread \cup {<<Svc(c), k>> : k \in keys}

WorkReadsNothing(c, w) == Adds(c, w, Nothing(Svc(c))) /\ ReadsNothing(c, {KeyOf(c, w)})

FindReadsNothing(c) ==
  /\ At(c, "find") /\ Op(c) = "GetReviews" /\ ReadsNothing(c, Members(call[c].ids))
  /\ Put(c, [call[c] EXCEPT !.at = "set", !.sets = {<<k, 0>> : k \in Members(call[c].ids)}])
  /\ UNCHANGED <<ask, stores, restarts, evictions, absent>>

\* initializeDatabase: no index refuses what is there already.
InsertAgain(s) == documents' = [documents EXCEPT ![s] = [k \in Keys |-> @[k] + Inserted(s, k)]]

\* A hotel service panics when a Get or, except for profiles, a Find fails
\* outright; whatever else happens to it, its container starts again.
Restart(s) ==
  /\ restarts < MaxRestarts /\ restarts' = restarts + 1
  /\ s \in HotelServices /\ \E c \in Calls : Svc(c) = s
  /\ InsertAgain(s)
  /\ background' = [background EXCEPT ![s] = {}]
  /\ call' = [c \in Calls |-> IF Svc(c) = s /\ ~Over(c) /\ ~At(c, "idle")
                              THEN [call[c] EXCEPT !.at = "died"] ELSE call[c]]
  /\ UNCHANGED <<ask, memcached, evictions, failures, history>>

Evict(s, k) ==
  /\ evictions < MaxEvictions /\ evictions' = evictions + 1
  /\ memcached[s][k] /= None
  /\ memcached' = [memcached EXCEPT ![s][k] = None]
  /\ UNCHANGED <<ask, documents, background, call, restarts, failures, history>>

CallNext(c) ==
  \/ Begin(c) \/ GetRates(c) \/ GetProfiles(c) \/ GetReviews(c)
  \/ ReadMovieInfo(c) \/ ReadCastInfo(c) \/ ReadPlot(c) \/ UploadMovieId(c) \/ ReadPage(c)
  \/ ReadReviews(c) \/ ReadPost(c) \/ StoreReview(c) \/ StorePost(c)
  \/ WriteMovieInfo(c) \/ WriteCastInfo(c) \/ WritePlot(c) \/ RegisterMovieId(c)
  \/ CallFails(c) \/ SetFails(c) \/ FetchEnds(c) \/ FindReadsNothing(c)
  \/ \E w \in 1..MaxGoroutines : WorkReadsNothing(c, w)

AllOver == (\A c \in Calls : Over(c) \/ (At(c, "idle") /\ ~IsStarted(c))) /\ \A s \in Services : background[s] = {}

DocumentsNext ==
  \/ \E c \in Calls : CallNext(c)
  \/ \E s \in Services : SetInBackground(s) \/ SetInBackgroundFails(s) \/ Restart(s)
  \/ \E s \in Services, k \in Keys : Evict(s, k)

UserFails ==
  FailureHappens /\ \E v \in Visits : VisitFails(v) \/ FindsNobody(v) \/ InsertFails(v)
UserEvicted ==
  /\ evictions < MaxEvictions /\ evictions' = evictions + 1
  /\ \E name \in Names, item \in Items : EvictItem(name, item)
UsersNext ==
  \/ UserStep /\ UNCHANGED documentVars
  \/ UserFails /\ UNCHANGED <<ask, stores, call, restarts, evictions, history>>
  \/ UserEvicted /\ UNCHANGED <<ask, stores, call, restarts, failures, history>>

Next ==
  \/ DocumentsNext /\ UNCHANGED userVars
  \/ UsersNext
  \/ AllOver /\ (\A v \in Visits : Left(v)) /\ UNCHANGED vars

Spec == Init /\ [][Next]_vars

-----------------------------------------------------------------------------
\* The values that show a document: as many copies as there are, or as there
\* were when it was cached; nothing for a hotel a read for which failed.
Some(copies) == IF copies = 0 THEN {0} ELSE 1..copies
Shows(s, k) ==
  (CASE s = "rate" -> {plans \in [Keys -> Nat] : \A h \in Keys : plans[h] \in Some(documents[s][h])}
     [] s = "review" -> Some(documents[s][k])
     [] OTHER -> {1})
  \cup (IF <<s, k>> \in unread THEN {Nothing(s)} ELSE {})

\* What memcached holds, or a goroutine is about to give it, shows a document
\* that is in MongoDB: what is absent is never cached, so that a document
\* written later is seen.  What is kept of a name is of its first account.
CacheHoldsDocuments ==
  /\ \A s \in Services, k \in Keys :
       \A value \in {memcached[s][k]} \cup {item[2] : item \in {i \in background[s] : i[1] = k}} :
         value /= None =>
           value \in Shows(s, k) /\ (s \in HotelServices \/ documents[s][k] > 0)
  /\ KeptOfFirst

\* A read that succeeds gives every document it was asked for, once until the
\* service restarts, and nothing else: who cached what, and when, does not
\* show.  Of a hotel a read for which failed, now or when it was cached, it
\* may give nothing.  A call of GetRates gives, for each hotel asked for, the
\* plans of every hotel.  A login that is given a token has the password of
\* the account.
AnswersExact ==
  /\ \A c \in Calls :
       At(c, "done") /\ Op(c) \in DOMAIN Hotel \cup DOMAIN Reader =>
         \A k \in Keys :
           call[c].answer[k] \in IF k \in Wanted(c) THEN Shows(Svc(c), k) ELSE {Nothing(Svc(c))}
  /\ LoginsRight

\* A media call fails only if a command of it failed, if a document it asks
\* for was not there when it began or the one it writes was there, or if it
\* asks for one twice; a page only if one of its parts did.  A registration
\* is refused for the name, a login for the name, the password or spoiled data.
FailsForAReason ==
  /\ \A c \in Calls :
       At(c, "failed") =>
         \/ c \in faulted \cup absent \/ ~IsInjective(ask[c].keys)
         \/ Op(c) \in DOMAIN Writer /\ documents[Svc(c)][Head(ask[c].keys)] > 0
         \/ \E p \in Calls : ask[p].of = c /\ ask[p].part /= "none" /\ At(p, "failed")
  /\ RefusedForAReason
=============================================================================
