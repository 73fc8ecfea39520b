# A verification of the microservice benchmarks

This directory holds TLA+ models of the parts of this repository whose
correctness depends on interleavings, failures and ordering, in all four
applications: `hotelReservation`, `socialNetwork`, `mediaMicroservices` and
`daprApps_v1`. TLC checks them on small instances and TLAPS proves the most
important invariants of all four for every value of the constants.
`PROJECT.json` lists the runs, the mutants that show each property can fail, the
source lines every definition stands for, the findings, the hazards and the
theorems.

Contents: [inventory](#inventory), [modules](#modules-and-the-code),
[runs](#runs), [findings](#findings), [proofs](#proofs),
[limits](#what-is-only-model-checked-and-what-is-not-modelled), [plan](#plan).

## Inventory

The repository holds three benchmark applications (`hotelReservation` in Go
over gRPC, `socialNetwork` and `mediaMicroservices` in C++ over thrift), the
Dapr applications in Go and Python, load generators and deployment files. Every
service is a process with many threads or goroutines and shares state with the
others only through MongoDB, Redis, memcached, events and calls.

| part | state | operations | what is hard | what makes it correct |
|---|---|---|---|---|
| ring buffer (`interceptor/ringbuffer.go`) | head, tail, slots, two counters, all without a lock | TryPush by every request, PopAll by the flush loop and by every drain | compare-and-swap races, slots stored after they are claimed, unsigned differences, a tail stored without compare-and-swap | a position has one owner, nothing accepted is lost, calls are counted once, a push returns |
| timing aggregator (`timing_interceptor_ringbuffer.go`) | intermediate buffer under a mutex, stats channel, context | AddTimingData, drain, window flush, Stop | drains overlap each other, the flush and Stop | everything pushed reaches a window, Stop returns |
| timing interceptors (`timing_interceptor.go`) | per request: active calls, pause start, paused time, as atomics | pause and resume by concurrent downstream calls | the counter and the start time change in two steps | paused time is the time with calls outstanding |
| windowed sampler (`services/perf`) | samples, counters of the processors, tickers, file | StartRun, takeSample, periodic flush, StopRun | two tickers, a file write under the mutex, windows dropped when the channel is full | requests and counts add up, StopRun ends with every sample written |
| reservation service | counts per night in memcached, reservations in Mongo | MakeReservation, CheckAvailability | read, check and write are separate calls of two stores; evictions; a panic in between; a start that inserts again | no night is overbooked, the cache does not understate Mongo, rooms that are free can be booked |
| rate, profile, review services | memcached in front of Mongo | get-multi, lookups of the misses by goroutines, Sets nobody waits for | late Sets, failed lookups, a start that inserts again | an answer is what Mongo holds |
| client pools (`socialNetwork/src/ClientPool.h`, `mediaMicroservices/src/ClientPool.h`) | deque of idle clients, a count, mutex and condition variable | Pop, Push, Keepalive, Remove | deadlines, notification after the unlock, constructors and connections that throw, a push without the mutex | one owner per client, a right count, no thread asleep beside a free client |
| social graph | every edge four times: two documents in Mongo, two sorted sets in Redis | Follow, Unfollow, by name or id, GetFollowers, GetFollowees, InsertUser | three concurrent tasks per edit, refills from stale reads, Redis servers that restart empty | both ends of an edge agree, Redis shows no edge that is not there |
| users, unique ids | Mongo documents; a clock and a counter under a mutex | registrations, look-ups, ComposeUniqueId | look up then insert; truncated counter; a clock that steps back | names and identifiers are unique |
| compose-post, post storage, timelines | posts in Mongo and memcached, user timelines in Mongo and Redis, home timelines in Redis | ComposePost with its parts, StorePost, ReadPosts, Write/ReadUserTimeline, Write/ReadHomeTimeline | order of the three writes, reads that mix Redis and Mongo, fan-out to followers that change | a timeline names only stored posts and each once, a page is exact, followers get the post |
| compose-review | per request: five items and a counter in memcached | five uploads, composition, three stores | uploads race to be the fifth, items expire, uploads repeat, a store fails | a review is composed once, of all its parts, and reaches every store |
| media stores (movie-review, user-review, review-storage) | lists in Mongo, newest part in Redis, reviews in Mongo and memcached | UploadReview, ReadReviews, StoreReview | first reviews of a movie, a read that replaces the sorted set with two commands | a review is listed once, a page is exact |
| media catalogue (movie-info, cast-info, plot, page, movie-id) | documents in Mongo and memcached | writes, reads, RegisterMovieId, UploadMovieId, ReadPage | parts written while a page is read, twin registrations, partly cached lists | an answer is exact, a failure has a reason |
| log-ins and look-ups of users | accounts in Mongo, items per name in memcached | registrations, uploads of an author's id, GetUserId, both Logins | items cached apart, used after the document is released; twin registrations | a token is for the right password |
| Dapr stores and shared code | items with etags in Redis behind a sidecar | get, save, delete, read-modify-write with retries | etags that start again after a deletion, saves that failed and happened | no edit is lost |
| Dapr social network | posts, metas, comments, upvotes, graph, timelines; events | front end, post, user, graph, timeline-read, timeline-update with a worker pool, two analyses | events late, twice, out of order; deletions racing edits; handlers that wait for each other | timelines list what they should, nothing listed is missing, updates end |
| Dapr video site | videos, metas, dates, ratings; events | upload, view, rate, copies and thumbnails | a rating stored in two places | ratings add up, a video of a date is there |
| Dapr video pipeline | two queues in memory per stage, worker processes, frames | video-meta, video-scene, face-detect | workers that end at a failure, events acknowledged when queued | what was asked for is made unless a worker gave it up or the detection raised |
| search, frontend, geo, recommendation, attractions, user of the hotels | none, or filled once at start | reads and transformations | nothing beyond the calls | not modelled |
| generated code, vendored code, lua front ends, load generators, deployment, data | | | | not modelled |

How they interact: a gRPC request of `hotelReservation` passes the server
interceptor, which calls `AddTimingData`; the aggregator sends one record per
window to the sampler over a channel. Thrift services call one another through
a client pool per callee: every handler pops a client, calls, and pushes it
back or removes it. Handlers share nothing else in memory; the parts of a
request meet in memcached, Redis or Mongo. Dapr services call each other and
their stores through sidecars, and publish events that a broker delivers to
subscribers.

## Modules and the code

Every definition that stands for code is listed under `map` with its lines. An
action is a step between two accesses to shared state, or a critical section.
Arrows read "is extended by":

    BoundedChannel (INSTANCE) - RingBufferContract <- RingBuffer -> TimingAggregator
    TimingContext, WindowedSampler -> RequestTiming
    Reservation    ClientPool    MediaClientPool    ComposeReview    ReviewLists
    UserLookups -> Catalogue
    Services -> SocialGraph; Services -> UniqueId -> UserAccounts;
      Services -> PostStorage -> Timelines; these three -> ComposePost -> SocialNetwork
    DaprStore -> DaprTimelines -> DaprSocial, DaprVideo, DaprPipe -> DaprApps

### Timing in the hotel services

**`RingBuffer`** has one action per atomic access of `TryPush` (`CallTryPush`,
`LoadHead`, `LoadTail`, `Claim`/`LoseRace`, `WriteSlot`, `CountPush`,
`CountDrop`) and of `PopAll` (`CallPopAll`, `PopLoadHead`, one `CopySlot` per
slot, `StoreTail`, `ReturnPopAll`). `head`, `tail`, `dropped`, `pushed` are the
Go atomics. Slots are plain memory: a store or a copy that overlaps another
store may leave or read `Torn`, a mixture. Differences are taken in `uint64`
(`U64`), whose width is `Word`. `early` is a history variable: positions copied
before their owner stored. `PopBatch` and `Reset` have no caller in the
repository and are left out.

**`RingBufferContract`** closes the ring with callers that do anything, and
states what it owes to a single consumer. **`BoundedChannel`** is the abstract
promise: a channel of `Capacity` reports, accepted or refused once, refused only
when full or after `MaxRetries` lost races. The refinement mapping counts a
report as accepted at the compare-and-swap and as taken when `tail` passes it.

**`TimingAggregator`** extends the ring with everybody who uses it: a request
pushes and perhaps starts a drain (`AddTimingData`), a drain pops and appends
(`Drain`), the flush loop pops, closes the window and sends it (`Tick`,
`FinalFlush`, `FlushStep`), `Stop` cancels and waits. The intermediate buffer
and windows are numbers of data, since `RequestCount` is the only statistic the
properties are about.

**`TimingContext`** is the clock of one request and any number of downstream
calls, one step per atomic instruction and per reading of the time. The search
service, the one that is timed, makes its two calls one after the other; the
interceptors allow more, and so does the module. `inside` and `engaged` measure
the time with a call in its invoker and with a call between its two bookings:
the paused time must lie between them. `disturbed` records that a call began
while another was opening or closing a pause.

**`WindowedSampler`** is the sampling loop, the goroutine that writes the file
now and then, and `StopRun`. A reading of the counters adds up each event over
the processors as `perf_window_sample` does, in the order of the events, with the
difference to the last value in machine words. An event that no processor gives a
value of ends the reading with an error: the sample gets no deltas, although the
events before it already have their new last value. `lost` records that growth.
The aggregator appears here as its windows: the requests
of the current one and the send that drops a window. **`RequestTiming`** puts
the two together.

### Hotel and media services with one store behind a cache

**`Reservation`** is one hotel, its nights in memcached and Mongo, and one step
per call of a store. A night stands for the key the code builds. `Evict` is
memcached's freedom, `Crash` ends every call in flight, as a panic does, and the
start that follows inserts the shipped room again (`Reinserted`). Two errors are
discarded in the code and here: `SetFails` keeps an old count while the call goes
on to insert, and `FindFails` reads no reservation. `uncounted` records, night by
night, the rooms such an error leaves out of a count. The capacity is constant, so reading it through its own cache entry is part of the check.
`CheckAvailability` is one step: it makes one read of the counts (`GetMulti`),
and what follows depends on nothing shared.

**`Catalogue`** is every service that reads documents through memcached: the
rate, profile and review services of the hotels, and movie-info, cast-info, plot,
movie-id, page and review-storage of the media services, with `ReadPost` of the
social network's post storage. A value is the number of copies of the
document it shows, because restarts of hotel services insert them again. A value of
the rate service has such a number for every hotel, since a lookup of one hotel
reads the plans of all. The goroutines of a hotel call take
the missing hotels with a stride as in the code; their Sets are in `background`
and happen at any time or never. A lookup whose error is logged or discarded
(`FindOne` of a profile, `All` of rates and reviews) answers and caches nothing:
`WorkReadsNothing` and `FindReadsNothing`, with the hotel in `unread`; `Nothing(s)`
is that value. A `Get` that fails, or a `Find` that fails outright, panics and is a
`Restart`. `FetchEnds` is a reply to mget that breaks off: the read goes on with
the hits it has. `ReadPage` starts calls of its own for its
parts. **`UserLookups`** adds the user services of both applications: items of
a name are read, set and evicted on their own; an item names the account it came
from or is `Spoiled`, since the media `Login` uses the salt and the password
after it has released the document they point into. `SocialLogin` keeps one item
and copies it, and is checked to have none of these troubles. A registration whose
find fails takes the name for free (`FindsNobody`), and an insert that answers an
error may have been carried out (`InsertFails`).

**`ReviewLists`** follows the list of one movie (or user): an upload inserts into
Mongo and, if Redis holds a part of the list, into Redis; a read takes its page
from Redis or reads Mongo and replaces the sorted set with two commands; it then
asks the review storage. `raced` records that calls overlapped on a list or that
a command failed, after which Redis and Mongo may differ. Nobody asks a cursor for
its error: an upload takes it for a movie without a list and inserts (`FindErrs`,
which the unique index refuses when there is one), a read answers the short page
it has (`FindReviewsErrs`). Neither does anybody look at the replies of Redis, so a
command lost there is noticed only when no client is had for it.

**`ComposeReview`** is one request: `items` is what memcached holds for it,
`counter` the value of the counter item. An upload adds the counter, adds its
component, and increments, or reads the counter if the component was there. The
upload that sees five fetches and stores in three services at once. `Lose` is
eviction or expiry, `Fail` an exception or a crash, `StoreFails` a store that
throws. `IncrementLost` is the increment whose return code nobody looks at, because
the item is gone or because memcached did not answer, whether or not it had
incremented: the value it leaves is uninitialised, so it is five (`guessed`) or it
is not. `FetchCut` is a connection that breaks in the middle of the fetch, which the
code takes for the end of the components: the call composes what it has.

**`ClientPool`** and **`MediaClientPool`** have one action per critical section
and per call outside it (constructor, connection, deletion, notification). A
waiter leaves `wait_until` notified, at its deadline (`Deadline`, after which the
predicate is tried once more, `LastTry`) or spuriously. In the media pool the
deque is two ends and its slots, so that the push without the mutex after a
failed connection is its real sequence: read the end, write the slot, read the
end again or not (as the compiler chose), store the end. When two of them
interleave, the end may pass a slot that nobody stored (or fall behind the start,
which makes the size enormous). A pop that takes such a slot (`TakeStray`) finds
what the memory held before, any client the model knows of, or no client at all
and ends in `crashed`.

### The social network

**`Services`** is what all calls share: users, calls, a budget of failing
commands, Redis servers that restart empty, and the calls a cursor has `misled`: its
error, which three of its readers never ask for, looks like a user without
followers (`FindFollowersErrs`), a timeline that ends (`FindTimelineErrs`) or
mentioned users nobody knows (`MissMentions`). **`SocialGraph`** keeps every edge in
four places and lets the three tasks of a `Follow` or `Unfollow` run in any
order; a list comes from Redis and, when it is empty there, from Mongo, from
where Redis is filled again with what was read a while ago. **`UniqueId`** is the
clock, the counter and the digits that are kept (`Span` values), with the exit
when the clock is behind and the restart that forgets the counter.
**`UserAccounts`** has both registrations; its look-ups by name are one step,
which `UserLookups` follows through memcached.
**`PostStorage`** stores posts and reads them through memcached. **`Timelines`**
writes and reads both kinds of timelines; the page of a user timeline is taken
from Redis by position and completed from Mongo. A `$push` that reports an error
(`PushErrs`) may have been carried out, and is sent again (`RepeatPush`); any other
command that fails is modelled as not carried out. **`ComposePost`** gathers the parts
of a post concurrently, stores it, and then runs the two deferred timeline
updates. **`SocialNetwork`** composes them under the requests of the gateway: a
scenario is the accounts and edges at its start, one request per call, and which
calls wait for which.

### The Dapr applications

**`DaprStore`** has items with etags and *processes* that send a sequence of
commands, one after the other, until the first error: `Store`, `Edit` (a
read-modify-write that is tried again `MaxTry` times when the etag has changed),
`Need` (a read that fails the handler when nothing is there), `Delete`,
`Publish`. A command that fails may have been carried out. A timeline that is
sorted before it is cut may leave posts of one time in any order (`ByTime`), as
`sort.Slice` does. A handler is thus its
sequence of commands, and all handlers of **`DaprSocial`** and **`DaprVideo`** are
such sequences: register, follow, unfollow, save, delete, comment, upvote, read a
timeline; upload, view, rate, list the videos of a date.

**`DaprTimelines`** has the events and their subscribers. A delivery is a
handler that runs for one event; the handler of timeline-update asks for the
followers, pushes one job per timeline to the workers and only then takes their
results. The analyses of a post and the copies of a video are handlers of one
or two commands. **`DaprPipe`** is the pipeline: a stage puts an event on one of
two queues and acknowledges it, its workers take the urgent ones first. A
video or frame that cannot be read or decoded is dropped (`ReadFails`), after an
exception of the detection a frame is saved as it was read (`DetectFails`), and a save
or publication that fails ends the worker process for good (`WorkerDies`).
**`DaprApps`** composes all of them under scenarios of at most four requests.

Modules named `MC...` give the constants of the runs; modules named `...Proofs`
hold the theorems.

## Runs

| run | instance | shows |
|---|---|---|
| `ring_one_consumer` | 5 pushes, 1 consumer, 4 slots, 1 retry | `InOrderOnce`, and that the ring is a bounded channel (`ImplementsChannel`) |
| `aggregator` | 2 requests with their drains, flush loop, Stop; 2 slots, 2 retries, channel of 1 | `PositionsOwnedOnce`, `CallsAccounted`, `PushedIsReported`, `StopReturns`, `EveryPushReturns`, however many goroutines pop |
| `aggregator_twice` | 3 requests | the finding below |
| `request_timing` | a request with 2 downstream calls in 4 units of time; sampled runs, one with 2 events on 2 processors and 2 reads that fail | `PausedWithinCalls`, `TotalsAddUp`, `StopRunEnds` |
| `reservation` | 3 calls, 2 nights, 3 rooms, 1 booked, 1 crash, 1 discarded error, a check | `NoOverbooking`, `CacheCoversStore`, `NoSpuriousRefusal` |
| `catalogue` | 9 scenarios of up to 8 calls on 3 documents, 5 of up to 4 calls of the user services; 2 goroutines per hotel call; 1 failure, 1 restart, 1 eviction | `CacheHoldsDocuments`, `AnswersExact`, `FailsForAReason` |
| `pool` | 4 threads, 2 calls each, minimum 1, maximum 2, 3 clients | `CurrCountsClients`, `OneOwner`, `NoLostWakeup`, `WaiterServed` |
| `media_pool` | 3 threads, 2 calls each, maximum 2, 2 clients (a pool never makes more than its maximum) | `NeverShared`, `WaiterServed` |
| `review` | 3 components, the rating sent twice, 1 fault: a failure anywhere, a cut fetch, an unanswered increment or a lost item | `ComposesWhole`, `ComposedOnce`, `ReviewReachesStores` |
| `review_stores` | 3 uploads, 2 reads, two at a time, 1 failure, Redis restarts | `UploadsListed`, `CachedIsNewest`, `PageOfList` |
| `social_network` | 14 scenarios of up to 4 calls and 4 users, 1 failure, Redis restarts, 1 clock set back | `IdsDistinct`, `AccountsAgree`, `EdgesAgree`, `RedisMirrorsDocuments`, `ReadsSucceed`, `PageExact`, `FollowersServed` |
| `dapr` | 12 scenarios of up to 4 requests and 2 handlers of events at a time, 2 timeline workers, 4 pipeline workers, up to 3 failures | `EditsKept`, `TimelinesServed`, `NothingMissing`, `RatingsAgree`, `UpdatesEnd` |

Why these bounds are enough to meet the cases:

- *Ring.* Five data in four slots fill the ring, use a slot again on the second
  lap and let one pop take a batch of three; a lost race ends the call there,
  and is tried again in the aggregator's run, whose limit is two. `Word` is far
  above any position the instance reaches: the counters of a process do not
  wrap, differences that go negative do. In the aggregator two slots and three
  consumers make pops overlap in every way, including a tail that moves back.
- *Timing.* Two calls are the fewest that overlap, and four units of time let
  each be open alone, both be open, and none. Two processors let one reading
  fail and the other not; two events let the second fail on both after the first
  was brought up to date; a channel of one is full as soon as the sampler is a
  window late.
- *Reservation.* Two nights make the check of the second night, the random
  order of the writes and a crash between two inserts happen; three calls let
  one finish while two overlap; three rooms with one booked make both one-room
  and two-room requests succeed, be refused, and overbook when they race.
- *Catalogue.* Three keys and two goroutines give one goroutine a second round;
  a key without a document, a key written meanwhile and a key asked for twice are
  each in some scenario. Two registrations of one name, two log-ins and one
  eviction leave every part of a name in memcached.
- *Pools.* With a maximum of two and three or four threads somebody waits while
  clients are returned, removed, and fail to connect, and two connections fail
  at once. A third client is only named so that a deleted one may be followed
  by a new one.
- *Review.* Three components stand for the five, which only ever are counted: one
  can be first, one last and one between them, and one upload is repeated (the
  proofs are for any set of components). One fault anywhere covers every single
  fault. The lists take two overlapping calls at a time, of five.
- *Social network.* The scenarios are chosen so that the calls of each share a
  document or a sorted set: edits of one pair and of two pairs with a common
  user, edits beside a refill, twin registrations, composes beside reads of both
  timelines, a follower that unfollows meanwhile. `Span` 2 and one millisecond
  make the counter's digits run out.
- *Dapr.* `MaxTry` 3 stands for 100 in the code: two writers of an item make one
  try again, and a handler that others overtake often enough gives up. `MaxTimelineLen` 2 truncates a list
  in scenarios with an old post. Two workers and three outstanding jobs are full
  with the two handlers of `Crowd`, and with no other scenario.

Bounds on counters are constants: `MaxRetries`, `MaxTime`, `MaxCalls`,
`MaxGoroutines`, `MaxCrashes`, `MaxRestarts`, `MaxEvictions`, `MaxFailures`,
`MaxFaults`, `MaxListFailures`, `MaxActive`, `MaxClock`, `MaxSetBacks`, and the faults and deliveries
of a Dapr scenario. `CHECK_DEADLOCK FALSE` stands where the system may stop:
calls are finite, a worker of the pipeline ends at its first failure, and
handlers of timeline-update really can wait for each other.

Symmetry over producers, requests or uploads is used in safety runs only. Two
runs have a `VIEW`. `ring_one_consumer` leaves out the locals that no later step
of a call of `TryPush` reads. `aggregator` leaves out the contents of slots,
results and channel, which no step and none of its properties depends on.

**Histories.** Many properties hold only until something the code does not
handle has happened, and a history variable says when: a slot read before it was
stored (`early`), a call beginning while another opens or closes a pause
(`disturbed`), overlapping reservations
(`overlapped`), the rooms discarded errors left out (`uncounted`), a constructor that threw (`threw`), a connection that failed
(`refused`), an item lost (`lost`), an increment left unanswered that gave a five (`guessed`), a list on which calls overlapped (`raced`), an
edge whose requests overlapped or lost a task (`crossed`), an edge edited during
a refill (`stale`), names that two registrations found free (`twins`), calls that took
the error of a cursor for the end of its documents (`misled`), users whose timelines
in Redis and MongoDB may differ or list a post twice (`blurred`), an item used after its document was
released (`spoiled`), more jobs than workers and queue take (`crowded`). Each is
set by the narrowest event that breaks the property; the findings and the list
of divergences say what happens after.

**Fairness.** In the aggregator, goroutines that have been started run (weak
fairness of a push step, a drain, a flush step), and the `select` with two ready
cases picks at random, so neither the ticker nor the cancelled context is passed
over for ever (strong fairness of `Tick` and `FinalFlush`). Nobody is obliged to
send a request, call `Stop` or receive from the channel. The sampler's loops and
`StopRun` go on (`SamplerFairness`), and a `select` that finds the context done
again and again takes it; nobody has to call `StopRun`. In the pools, a thread
that can run does and a call on a client ends; deadlines are not assumed to
pass, so `WaiterServed` shows that waiters are served by the others. In the media
pool this includes the mutex: a thread that waits for it gets it. In
compose-review only some started call goes on; clients owe nothing. In the Dapr
applications some handler or worker goes on while one of them can
(`HandlersWork`); clients need not send and brokers need not deliver.

## Findings

**A request is counted twice** (`aggregator_twice`). `PopAll` "should only be
called by ONE goroutine", but every request may start a drain that calls it
beside the flush loop. Two overlapping pops copy the same slots, and windows
report more requests than there were.

Met on the way, with no run of their own. The properties of the passing runs
except these cases by name, and dropping the exception shows each of them.

*Timing.*

- `TryPush` publishes the position before it stores the datum; a pop copies the
  slot before the store, moves the tail past it, and the next lap hands the slot
  to another producer while the first is still storing, although
  `ringbuffer.go:94` says "We own the slot".
- Overlapping pops move `tail` back (`ringbuffer.go:160`), after which the ring
  may hold more than `Size - 1` data.
- `Stop` waits for the flush loop and not for drains: a drain that appends after
  the last flush is never reported.
- Overlapping downstream calls may book a pause twice or lose its start
  (`timing_interceptor.go:205`, `:239`), and the processing time may be negative.
  The search service does not overlap its two calls, so this is latent.
- A reading that fails on one processor makes the unsigned difference of
  `perf_window_sample` wrap. One that fails for an event on all processors has
  already moved the last values of the events before it
  (`perf_api_windowed.c:302`), and the sampler drops their deltas
  (`windowed_sampler.go:305`): that growth is in no sample, although
  `perf_api_windowed.h:36` promises the delta since the last sample. `StopRun`
  runs before the aggregator's `Stop`, so the last window is never sampled, and
  the deferred clean-up at `cmd/search/main.go:81` does not run on SIGTERM.
- The basic timing mode has no window interval, and `time.NewTicker` panics on
  zero (`services/search/server.go:79`).

*Hotel services.*

- Two reservations that both read a count before either writes it overbook
  (`reservation/server.go:204`). One after the other overbook too, if the first
  could not set its count: the error of that Set is not looked at (line 205), the
  rooms are inserted, and the old count answers the next call. The error of
  reading the reservations found is dropped likewise (line 158; the test after it
  looks at an older one), and the night counts as empty.
- The capacities are filed under `hotel_cap` and looked up under `hotel`, so
  `CheckAvailability` finds every cached night full; and the branch at line 371
  needs an `ErrCacheMiss` that `GetMulti` never returns, so a night that is not
  cached counts as free whatever Mongo says.
- Every start inserts the initial documents again: rate plans and reviews double
  beside cached copies, and a room is reserved that cached counts do not cover.
- A call for rates answers with the plans of every hotel, once per hotel asked for,
  although `GetRates` "gets rates for hotels" (`rate/server.go:105`): the lookup of
  a hotel that missed has no filter (line 178), and each appends all it found and
  caches it under that hotel. `AnswersExact` takes a value of the rate service for
  what it is, the whole inventory.
- The lookup of a profile that fails, and a failure while rates or reviews are
  read from their cursor (`rate/server.go:184`, `review/server.go:159`), are
  answered and cached as nothing for ever: the error tested after `All` is that of
  `Find`. A failed Get ends the process, a failed Set is not noticed.

*Client pools and media services.*

- The media pool pushes without its mutex after a failed connection
  (`ClientPool.h:113`): two such pushes may write one slot, which loses a client
  that stays counted, or leave a slot that nobody wrote to be popped: its memory
  may still name a client in use, which two threads then share (`Disjoint` alone
  fails in the run), or crash the process; and they notify nobody. Clients are pushed back after an exception as
  well, so a callee that restarts costs a failed call per pooled client.
- A constructor that throws leaves other waiters of the social pool asleep
  although a place is free (`ClientPool.h:103`).
- A repeated upload finds a counter that is five and composes the review again.
  With one component evicted, a review is composed with an empty part: keys
  missing from the reply of `memcached_mget` are not an error, and neither is a
  connection that breaks before the last of them is fetched
  (`ComposeReviewHandler.h:131`). An increment that was not answered leaves a
  counter nobody set (line 335): the call may compose too early, or beside the one
  that should. `ComposesWhole` and `ComposedOnce` leave out exactly these calls.
- A cursor that fails reads as "no document" (`MovieReviewHandler.h:90`, 267): an
  upload to a list that exists is refused by the unique index, a read answers a
  short page.
- Compose-review stores a review and lists it from different threads, so a list
  may name a review that is not stored, for good if that store failed.
- `ReadCastInfo` refuses a list that names a member twice; a page read before its
  parts are written fails.
- The media user service has no unique index on names, so twin registrations
  both succeed and the first document answers every look-up. One registration is
  enough if its find fails: the cursor's error is only asked for when a document
  came (`mediaMicroservices/.../UserHandler.h:201-224`, 297-320), and the taken
  name is inserted again. `Login` with only
  some of a name's three items in memcached (which one
  `UploadUserWithUsername` is enough for) reads the document, takes only what
  was not cached, checks nothing and answers neither token nor error; so it does
  for an id of 0. It uses the salt and the password, also to cache them, after
  it has destroyed the cursor they belong to.
- `UpdateRating` of movie-info opens the collection "social-graph"
  (`MovieInfoHandler.h:380`), and nobody calls it.

*Social network.*

- An overlapping follow and unfollow of one pair, or a failed task, leaves half
  an edge; a follow beside a registration changes no document and says nothing.
- A refill of Redis after a concurrent unfollow keeps the edge in Redis for
  good. A Redis that restarted and took one new follower answers with that one
  only.
- An author without followers in Redis and Mongo cannot compose: the refill
  sends a ZADD of nothing, which throws.
- A clock that is set back ends the process, and the next one may issue ids
  again; the 4097th id of a millisecond repeats the first.
- The user timelines in Redis and Mongo may differ after a refill raced a write,
  and pages that mix them then skip or repeat positions, never posts.
- Three readers go through a cursor and never ask for its error. `ReadUserTimeline`
  (`UserTimelineHandler.h:258`) answers a short page as if the timeline ended
  there; `GetFollowers` (`SocialGraphHandler.h:554`) answers no followers, so that
  a post composed then reaches nobody's home timeline; and the look-up of mentions
  (`UserMentionHandler.h:190`) drops the users it has not found yet, without
  failing the compose. `GetFollowees` and the look-ups of `UserHandler.h` do ask.
- `WriteUserTimeline` sends its `$push` again after any error, without the upsert
  (`UserTimelineHandler.h:131-140`). When the first was carried out after all, the
  document lists the post twice; when it was not and the user has no document
  yet, the second finds none, and the call succeeds although MongoDB has no entry.

*Dapr applications.*

- The handler of timeline-update queues all jobs before it takes a result, and
  workers block on results nobody takes: handlers with more jobs together than
  the workers (500 as deployed) and the queue (1000) wait for ever.
- The worker cuts off the author's own timeline, which the comment beside it says is
  never done (`timeline-update/main.go:386`); the reader searches a
  list for its place as if it were sorted, and it is sorted at random, three
  times in a thousand. The workers draw from one generator (`main.go:99`, used in
  line 227), which is not safe for concurrent use and can end the process with an
  index out of range.
- A re-rating is counted as a new rating, because the user's id is looked up
  instead of the video's (`user-rating/main.go:239`).
- After a deletion an item's etag starts again, so an edit of the deleted item
  may be saved over one of its successor; edits that race a deletion bring keys
  of a deleted post back; an event delivered again after the removal puts a
  deleted post back on timelines. Two posts of one user in one millisecond have
  one id.
- Any failed save or publication ends a worker process of the pipeline, and a
  video of no length does in video-scene; what it had in hand and all that its
  stage still gets is lost, since events are acknowledged when queued.
- An exception of the face detection that is not one of its library's is logged,
  and the frame saved again as it was read, as if no face were on it
  (`face-detect/server.py:176-179`).

## Proofs

Eight modules hold theorems, all of the form `Spec => []P` or `Spec => P`, from
the named `ASSUME`s of the component's module (sizes and limits are natural
numbers, sets of threads are finite, `Miss` is not a number, and so on). The
constants are otherwise arbitrary: any number of producers, threads, nights,
uploads, calls, documents or users, any size, any number of faults. Where the
inputs of a model are scenarios, a `ScenariosAssumption` says what a scenario may
ask for and nothing else: an operation the service has, a write that names a
document, a page with its three parts, users that are ids the social network can
make. TLC evaluates each of these on the scenarios of the runs.

### The timing stack

**`TimingProofs`** holds the proofs about the ring and about the pauses of a request.
For any number of consumers: `TypeCorrect`,
`TailStaysBehindHead`, `EveryPositionOwnedOnce`, `EveryCallCounted`. Tail stays
behind head because a pop loads tail before head; the invariant adds, for each
pop, that the batch it is copying ends at or below head. The positions handed
out are exactly those below head, which makes the ownership inductive; the
counters follow by counting producers at each place. With one consumer:
`OneSlotStaysEmpty`, `TailAdvances`, `RingImplementsChannel`, `DeliveredInOrder`.
`OneSlotEmpty` is not inductive: the check uses a tail that may be stale. `RoomInv`
carries what the check established for a producer at its compare-and-swap, which
stays true because with one consumer tail only advances. The refinement adds
`RetryInv`: a producer that lost `n` races has seen head grow `n` times, so a
refusal after `MaxRetries` races is one the channel allows. `DeliveredInOrder`
(`InOrderOnce`) needs the contents of the slots, and holds until a slot is read
before its owner has stored (`early`): `StoresInTime` (a store still to come is for
a position the consumer has not read), `StoredInSlot` (a datum stored for a
position not yet read is in its slot, because positions less than `Size` apart
never share one), `BatchInOrder` and the same of `delivered`; `LengthInv` ties the
lengths of both to `tail`.

`PausesWithinCalls` (`PausedWithinCalls`) is for any number of downstream calls. `TimingInv` says that `activeCallCount` counts the calls
pushed and not popped (`CountRight`), and, until a call begins while another one
opens or closes a pause, that whoever opens or closes a pause is the only call in
progress (`PausesAlone`) and that the time accounted, with the part of the pause in
progress, lies between `inside` and `engaged` (`AccountsRight`): by the stored start
of the pause while it is stored, by the stamp the call has read before that.

`TotalsAlwaysAddUp` (`TotalsAddUp`) is about sums over sequences. Induction over the
numbers is not taken from a theorem of the library, whose induction theorems have
operators as parameters, but proved from the well-foundedness of finite sets: a set
of numbers has a least element (`LeastNat`), so a set with 0 and all successors has
all numbers (`Induction`). It gives the partial sums of a sequence (`TotalExists`,
`SumIs`) and with them what a sum becomes when a window is appended or received
(`SumAppend`, `SumTail`). `TotalsInv` adds to the property that a sample is in the
making exactly from its reading to its `append`, and has no requests until the
receive. Deltas are of a word of any size (`ModAdds`), so the totals are right across
a wrap, and across processors that could not be read. An event's growth goes into
a sample or into `lost`, and either way the sum of the two becomes the new last
value (`GrowthAccounted`).

### Hotel and media services

**`ReservationProofs`.** `ReservationTypeCorrect`, `NotOverbooked`,
`CountsCover`, `RefusalsHaveAReason`. That an insert stays below the capacity
depends on a check many steps earlier, against a count from memcached. The
invariant `Undisturbed` carries, for the one call in flight, that every count it
planned covers what is taken (`Taken`: what Mongo holds, less what restarts
inserted again and discarded errors left out) and the rooms asked for, that the nights behind
it fit, and, while it inserts, that the remaining nights still fit and their
cached counts include it; and for memcached that no count is below what is
taken. It holds until two calls overlap. `RefusalsHaveAReason`
(`NoSpuriousRefusal`) is about calls that do overlap and overwrite each other's
counts: no count anywhere exceeds what was booked at the start, inserted again by
restarts and admitted since. `LimitInv` says so of memcached (`CacheLimited`), of
what a call has planned (`PlanLimited`, which allows its own rooms on top until it
is admitted), and of Mongo (`StoreLimited`), where the rooms of admitted calls that
have not inserted yet count as well; they are counted as the elements of a set,
`Owed`.

**`CatalogueProofs`.** `CacheIsOfDocuments` (`CacheHoldsDocuments`),
`ReadsAnswerExactly` (`AnswersExact`), `FailuresHaveReasons`
(`FailsForAReason`), each about documents and about users. For the users,
`UsersInv` says that every item in memcached is of the first account with its
name, which stays the first, or spoiled (`KeptRight`), and where each call is with
what it has found and answered (`VisitRight`). For the documents, `DocumentsInv`
is about the stores, memcached and the Sets still to come (`StoresInv`), and about
each call (`CallRight`): `Finding` says what a read knows of the documents it
still misses, `Rounds` that goroutine `w` of `G` has done exactly every `G`-th of
them up to where it is, so that together they miss none and do none twice
(`TurnKey`: what is looked up next has added nothing to the answer yet);
`Reason` keeps the reason a call may fail for. `Grow` states what no step undoes
(documents stay, histories grow), from which whatever showed a document keeps
showing it while other calls move.

**`ReviewProofs`** is about `ReviewLists` and `ComposeReview`. Of the lists:
`UploadsAreListed` (`UploadsListed`) with `ListingInv`: an upload takes its steps
one after the other, beside storing; timestamps are distinct; what is listed is
there once, as its upload's entry. `CachedIsNewestAlways` (`CachedIsNewest`) with
`RacesRight`: while calls take turns (`InTurn`), Redis has the beginning of the
list, without the review that is being added (`CachedRight`), and a read that no
call overlapped runs alone and finds Redis as it cleared it (`AloneRight`), holding
a beginning of the list (`SliceRight`), so that its refill is right even after a
race. `PageOfListAlways` (`PageOfList`) with `SureRight`: what a read has of its page
is the beginning of that page, then the whole (`PageRight`). These rest on lemmas
about lists: entries with distinct times have one order (`OneOrder`, by the least
position where two orders differ), so what Redis sorts is the beginning of what
MongoDB keeps (`NewestOfPart`), and a page goes on where its beginning ends
(`PageGoesOn`). A read that lost a command itself is exempt, here as in the run.
Of compose-review: `ReviewTypeCorrect`, `CounterStaysBehind`,
`ReviewsAreWhole`, `OneCallComposes`. Until an item is lost, the counter and the
increments still to come are at most the components stored (`Behind`), also when an
increment is not answered, since it was carried out at most once; a call that
was told the count reached the number of components therefore finds all of them
(`Complete`), and a fetch that is not cut short returns all of them (`Whole`). For `OneCallComposes`
(`ComposedOnce`) the invariant is `OnceInv`: while every component has arrived
once, nobody reads the counter instead of adding (`NobodyReads`, since what is
stored was added by a call, `AddedBy`), a call that composes left the counter at
its end (`CountIsOver`), and there is one of them (`OneComposer`).

### The client pools

**`ClientPoolProofs`.** `PoolTypeCorrect`, `CountStaysRight`, `ClientsAreOwned`,
`NoWakeupIsLost`. The count is proved together with the types. Ownership splits
into distinct idle clients, idle clients apart from those in hand, and clients in
hand of one thread each. `NoLostWakeup` is strengthened to `Balanced`: as long as
somebody waits, the clients that are idle or may be created are at most the
threads awake; each return adds one client and one thread that will notify, each
notification trades the notifier for the thread it wakes.

**`MediaClientPoolProofs`.** `ClientsNeverShared` (`NeverShared`), although a push
writes the end of the pool without the lock and may move it backwards. `Owned`
therefore speaks of every slot from `start` on, the slots beyond the end included:
until a pop strays, none holds what a thread has (`HeldOrWaiting`), no two hold
one client (`WaitsOnce`), and no two threads do (`HeldByOne`). That no pop strays
before two pushes overlap is `Orderly`: until then one push at most is under way,
it has read the end it will move, and every slot between the ends is stored.

### The social network

**`SocialNetworkProofs`.** `IdsMadeAsSpecified` is the part of the network that
makes ids implementing `UniqueId` (`SocialSpec => IdSpec`), with any number of
calls at once; `IdsAreDistinct` (`IdsDistinct`) follows with `IdInv`: until the
clock is set back, one call at a time is inside the lock and the counter is the
number of ids of the last millisecond, so that the first `Span` of them take
different places. `AccountsAlwaysAgree`, `EdgesAlwaysAgree`
and `RedisAlwaysMirrors` (`AccountsAgree`, `EdgesAgree`, `RedisMirrorsDocuments`)
share `CoreInv`: types and ids, whoever acts is a user (`ActorsInv`), nobody
inserts a name that is there or that another call inserts unless the name has
twins (`AccountsInv`), and for every pair of users that no two calls edit at once,
`EdgeInv`: the edits under way agree with what is wanted, a document that differs
from it has a task left that sees to it, and so has a list in Redis that lacks an
entry (`RedisComplete`) or has one too many (`RedisSound`, until a fill races an
edit). `FollowersAreServed` (`FollowersServed`) spans compose-post, social-graph
and home-timeline: `ServedInv` says where everybody owed a post is until the
delivery, among the mentioned, among the followers Redis keeps until they are
read, in the answer that was read, or in what is still to be delivered, unless the
error of a cursor misled the compose.

Two more theorems are about what readers see. `ReadsAlwaysSucceed`
(`ReadsSucceed`) rests on `TimelinesInv`: each compose has a time of its own and
stands among the stored posts exactly from the step that stores it on
(`TimesInv`); user timelines, in MongoDB and in Redis, hold only posts their user
has sent (`Sent`), and home timelines only stored ones (`ListsInv`); and a read under way has a page of stored posts, each once, which is
also what its read of posts asks for (`ReadsInv`). That MongoDB completes a page
without repeating a post is a fact about lists (`CompletePosted`). `PagesAreExact`
(`PageExact`) adds the order. For a user that is not blurred (`OrderInv`), one
compose at most writes the timelines; the document is in the order of time, any
compose that has yet to push is later than all of it, and what Redis has, with or
without the slice a read is about to give it, leaves no gap in the document except
for the one entry that is on its way (`NoGaps`, `OnTheWay`). The newest entries of
such a set are the beginning of the document (`NewestBegins`), so a page from Redis
is a beginning of the right page (`PageBegun`), and the rest of the document
completes it (`PageCompleted`). A `$push` is sent again only to a
document that is there, or its user is blurred (`RepeatInv`). `AloneInv` keeps this for the reads that overlap no
compose and that no cursor misled: nobody writes, so the document stays as it is
while the page is made.
Times are integers that differ, so a set of entries has one list in their order
(`NewestListed`); this is why `Newest` and `Without` are defined by what they are
instead of with `SortSeq` and `SelectSeq`, of which the prover knows nothing.

### The Dapr applications

**`DaprProofs`.** `NothingIsMissing` (`NothingMissing`): for any users, posts, videos
and requests, any deliveries, workers and failures, no handler or reader finds an
item missing that something names, but for the posts somebody asked to delete.
The property is about a moment, the read, and what makes it true is spread over
handlers that have ended: a timeline names a post because an update put it there,
because an event asked for it, because the front end published it after its save.
`NeedsInv` therefore says of each place a name can be that what it names is in
`There`, the items stored and those of posts being deleted, a set that never
shrinks (`There` is `DOMAIN items` with `Gone`):

- commands a process has still to send need only what is in `There` or what an
  earlier one of them stores, and delete only what is in `Gone` (`TodoReady`,
  `ProcsReady`); this holds of every request (`IsRequest`) and is kept by dropping
  the first command once it is carried out, so the order of the commands in the
  handlers is what the proof uses;
- the elements of stored lists (`ListsReady`), of values that were read and are
  about to be saved, and of pages that were read;
- the posts of updates and of the jobs pushed to the workers, which are exactly the
  jobs sent and not yet answered (`UpdatesReady`, `JobsRight`);
- the events published, queued and at the stages of the pipeline (`PendingReady`,
  `LinesReady`, `CrewReady`), where a frame is in the store before its event is in
  the line.

`EditsAreKept` (`EditsKept`) is about updates that race: each reads an item with its
etag, edits the value and saves it if the etag is still the item's. `CallsInv` is
what makes this lose nothing. An etag grows with every save of a key that is never
deleted, so a value that was read with the etag the item still has is the item's
value (`SeenFresh`), and the save adds one edit to it. Lists that are sets have
each element once (`OnceEach`); a comment that is still to be made is not there
(`CommentsNew`). Then an element an update added leaves only by an update to the
contrary, which some request must have sent (`EditsHold`), and the views of a video
are as many as the viewers who are done with theirs (`ViewsCounted`). `FindingsInv`
says the same of the handlers of events, whose commands are those of their event and
none other. For the pipeline, `FramesInv` follows each request from stage to stage: it
waits in a queue, a worker that is alive has still to ask for its frames, every
frame of it waits, is being marked or is marked, or a worker gave it up or saved it
without marks (`lost`); any other worker of a frame marks it (`Marking`). That no other process stores frames (`FramesOwned`) keeps the marks.

`TimelinesAreServed` (`TimelinesServed`) follows an event from its publication to the
timelines of its handler, through jobs, workers and results that different
processes hold. `TimelinesInv` says who may touch a timeline, and what is known of
it at each place:

- only the workers edit timelines (`OthersElsewhere`), each exactly the one its job
  names, for a handler that waits for its result (`WorkersKnown`, `TaskOf`), so
  neither the event nor the keys of that handler change meanwhile (`JobStays`);
- a post stands on a timeline once (`TimelinesOnce`), since a worker that finds it
  saves nothing and a save that was overtaken is refused;
- a removal is of a post somebody deletes (`RemovesKnown`), whose save was over by
  then (`AfterOver`), so the events that add it are all published; when a removal
  runs alone none of them is under way, and none will be (`RemovesLast`, `Silent`);
- the timeline of a job that is done (`JobsServed`), of a result that was taken
  (`ResultsServed`) and of an event that was handled (`HandledServed`) is `Served`:
  the post is there, or deleted, or the timeline is `Full`; for a removal that ran
  alone, it is not there.

`Full` counts the posts on the timeline and the deleted ones together: a removal
moves a post from the one to the other and a cut leaves `MaxTimelineLen` of them, so
a timeline that was full stays so (`FullFrom`, `FullByCut`), however many updates
follow. `ServedStays` is the step all three need; TLC checked `TimelinesInv` on the
scenarios of `dapr` before it was proved.

`ScenariosAssumption` says what clients may ask for: the requests of the front ends
(`IsRequest`), a deletion of a post only after its save is over (its id comes with
the answer), no two comments alike (their ids have the user and the time), and
stored lists that name stored items.

## What is only model-checked, and what is not modelled

Checked by TLC only, because the prover does not reason about fairness or
`ENABLED`: the liveness properties `PushedIsReported`, `StopReturns`,
`EveryPushReturns`, `StopRunEnds`, `WaiterServed`, `ReviewReachesStores` and
`UpdatesEnd`. One invariant is not proved either, `RatingsAgree`: the total of the
ratings of a video is a sum over the users who rated it, and what one more rating
does to such a sum takes induction over sets, which the library states with an
operator as a parameter and the prover cannot instantiate. It would also need
assumptions that the runs meet and `ScenariosAssumption` does not state: that no
user has the id of a video (`Replaced` looks a rating up under the id of the user)
and that the ratings and totals stored at first agree.
The modules of the ring, reservations, the social pool, compose-review,
the lists of reviews and the social network have a type invariant that can be
added to a configuration (TLC agrees with each on the instances above). The first
four are proved, and of the social network those of the ids, of the graph and of
compose-post.

Abstracted: the timing values and statistics other than the number of requests,
log output, tracing spans, the meaning of performance counters, JSON and BSON
encodings, texts, media and what analyses find in them. Deadlines are
nondeterministic; clocks appear where ids and pauses are made. Memcached, Mongo
and Redis are taken at their word: a `Set`, an `add`, an `increment`, an insert or
a `ZADD` is one atomic step, keys may vanish from memcached at any time and never
from Mongo, and a Redis server may restart empty, since no deployment file gives
it a disk. The broker of the Dapr applications may deliver late, in any order
and twice.

Not modelled, with the reason (`PROJECT.json` has them all):

- geo, recommendation, user and attractions of the hotels load their data once
  and answer from it; search and frontend call others one after another and keep
  no state; registry, dialer, tuning and TLS are start-up configuration.
- rating and text of the media services pass one part on to compose-review,
  which is the upload modelled there; the sums rating keeps in Redis are read by
  nobody.
- url-shorten and media of the social network transform one request's words, and
  `GetExtendedUrls` is not implemented. `WriteHomeTimelineService` is
  commented out of the build.
- Recommendation, translation and the proxies of the Dapr applications only read
  or pass on; the trending service has no source in the repository.
- That the workers of timeline-update race for their random generator is in the
  model only as any outcome of the draw (`Results`), not as an end of the process.
- `PopBatch`, `Reset`, `ComposeCreatorWithUsername`, the media pool's `Remove` and `UpdateRating` have
  no caller.
- More than half of the implementation's lines are generated by thrift
  (`gen-cpp`) or vendored (`wrk2`, `PicoSHA2`, bundled data); what they do enters
  the models as the call, reply or exception the handlers see. The map therefore
  covers the handlers and cannot cover much of the rest.

## Plan

Done: the timing stack, reservations, the catalogue with its users, both client
pools, compose-review and the lists of reviews, the social network from
registration to timelines, the Dapr applications and the pipeline; proofs for
all of them.

Left: `RatingsAgree` of `DaprApps`, once sums over sets can be reasoned about; and
liveness, which needs a prover for fairness.
