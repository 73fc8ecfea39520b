----------------------------- MODULE Reservation -----------------------------
(***************************************************************************)
(* The reservation service                                                 *)
(* (hotelReservation/services/reservation/server.go): MakeReservation and  *)
(* CheckAvailability over two stores, memcached (a count per night) and    *)
(* MongoDB (the reservations).  Every call to a store is a step.  Hotels   *)
(* do not interact, so there is one.  A night is named by the key both     *)
(* operations build for it, hotel_out_out.                                 *)
(*                                                                         *)
(* The capacity never changes: reading it through the cache or from Mongo  *)
(* gives the same number, and is part of the capacity check.  Memcached    *)
(* may evict any key; the service may crash (it panics on most errors of a *)
(* store), which loses the calls in flight and neither store.  Two errors  *)
(* are not looked at, of a Set and of reading the reservations found: the  *)
(* call goes on, with an old count in memcached or with none from Mongo    *)
(* (All leaves the list empty if it fails).  Whenever the service starts,  *)
(* initializeDatabase (cmd/reservation/db.go) inserts the reservations it  *)
(* ships with, and nothing in Mongo refuses those that are there already.  *)
(***************************************************************************)
EXTENDS Integers, FiniteSets

CONSTANTS Requests,     \* calls of MakeReservation
          Checks,       \* calls of CheckAvailability
          LastNight,    \* nights are 1..LastNight
          Rooms,        \* the numbers of rooms asked for
          Capacity,     \* rooms of the hotel
          Booked,       \* rooms of each night a start of the service reserves in Mongo
          MaxCrashes,   \* bound on the crashes explored
          MaxFailures,  \* bound on the errors nobody looks at
          Miss          \* memcached has no value

ASSUME NightsAssumption == LastNight \in Nat \ {0}
ASSUME RoomsAssumption == Rooms \subseteq Nat \ {0}
ASSUME CapacityAssumption ==
  Capacity \in Nat /\ Booked \in Nat /\ Booked <= Capacity
ASSUME BoundsAssumption == MaxCrashes \in Nat /\ MaxFailures \in Nat
ASSUME MissAssumption == Miss \notin Nat

VARIABLES
  memc,       \* the count memcached holds for each night, or Miss
  mongo,      \* the rooms reserved in Mongo for each night
  pc,         \* where each MakeReservation is
  stay,       \* its nights and rooms
  night,      \* the night it is at
  planned,    \* its memc_date_num_map
  crashes,    \* crashes so far
  failures,   \* errors so far that nobody looked at
  admitted,   \* history: rooms of the calls that passed all the checks
  overlapped, \* history: a call started while another was in flight
  uncounted,  \* history: rooms of a night left out of a count by such errors
  answer      \* what each CheckAvailability answered

stores == <<memc, mongo>>
locals == <<pc, stay, night, planned>>
histories == <<admitted, overlapped, uncounted>>
faults == <<crashes, failures>>
vars == <<stores, locals, faults, histories, answer>>

Nights == 1 .. LastNight
Counts == Nat \cup {Miss}
Stays == [first : Nights, last : Nights, rooms : Rooms]

NightsOf(s) == s.first .. s.last
InFlight == {r \in Requests : pc[r] \in {"get", "find", "check", "set", "insert"}}

NoAnswer == "none"

\* The rooms a restart has reserved again.
Reinserted == crashes * Booked

Init ==
  /\ memc = [n \in Nights |-> Miss]
  /\ mongo = [n \in Nights |-> Booked]
  /\ pc = [r \in Requests |-> "idle"]
  /\ stay \in [Requests -> {s \in Stays : s.first <= s.last}]
  /\ night = [r \in Requests |-> stay[r].first]
  /\ planned = [r \in Requests |-> [n \in Nights |-> Miss]]
  /\ crashes = 0 /\ failures = 0
  /\ admitted = [n \in Nights |-> 0]
  /\ overlapped = FALSE
  /\ uncounted = [n \in Nights |-> 0]
  /\ answer = [c \in Checks |-> NoAnswer]

-----------------------------------------------------------------------------
(***************************************************************************)
(* MakeReservation                                                         *)
(***************************************************************************)

Goto(r, label) == pc' = [pc EXCEPT ![r] = label]

Begin(r) ==
  /\ pc[r] = "idle"
  /\ overlapped' = (overlapped \/ InFlight # {})
  /\ Goto(r, "get")
  /\ UNCHANGED <<stores, stay, night, planned, faults, admitted, uncounted,
                 answer>>

\* memc_date_num_map[memc_key] = count + int(req.RoomNumber)
Plan(r, count) ==
  planned' = [planned EXCEPT ![r][night[r]] = count + stay[r].rooms]

GetHit(r) ==
  /\ pc[r] = "get"
  /\ memc[night[r]] # Miss
  /\ Plan(r, memc[night[r]])
  /\ Goto(r, "check")
  /\ UNCHANGED <<stores, stay, night, faults, histories, answer>>

GetMiss(r) ==
  /\ pc[r] = "get"
  /\ memc[night[r]] = Miss
  /\ Goto(r, "find")
  /\ UNCHANGED <<stores, stay, night, planned, faults, histories, answer>>

Find(r) ==
  /\ pc[r] = "find"
  /\ Plan(r, mongo[night[r]])
  /\ Goto(r, "check")
  /\ UNCHANGED <<stores, stay, night, faults, histories, answer>>

Fail == failures < MaxFailures /\ failures' = failures + 1 /\ UNCHANGED crashes

\* The error of curr.All is discarded, and no reservation counted.
FindFails(r) ==
  /\ pc[r] = "find"
  /\ Fail
  /\ Plan(r, 0)
  /\ uncounted' = [uncounted EXCEPT ![night[r]] = @ + mongo[night[r]]]
  /\ Goto(r, "check")
  /\ UNCHANGED <<stores, stay, night, admitted, overlapped, answer>>

\* Mutant: the rooms asked for are left out of the check.
FitsBefore(r) == planned[r][night[r]] - stay[r].rooms <= Capacity

Fits(r) == planned[r][night[r]] <= Capacity

CheckNight(r) ==
  /\ pc[r] = "check" /\ Fits(r) /\ night[r] < stay[r].last
  /\ night' = [night EXCEPT ![r] = @ + 1]
  /\ Goto(r, "get")
  /\ UNCHANGED <<stores, stay, planned, faults, histories, answer>>

CheckLastNight(r) ==
  /\ pc[r] = "check" /\ Fits(r) /\ night[r] = stay[r].last
  /\ admitted' = [n \in Nights |->
       admitted[n] + IF n \in NightsOf(stay[r]) THEN stay[r].rooms ELSE 0]
  /\ Goto(r, "set")
  /\ UNCHANGED <<stores, stay, night, planned, faults, overlapped,
                 uncounted, answer>>

Refuse(r) ==
  /\ pc[r] = "check" /\ ~Fits(r)
  /\ Goto(r, "refused")
  /\ UNCHANGED <<stores, stay, night, planned, faults, histories, answer>>

\* Mutants: the count that was read is written back; the count is added to
\* what memcached holds by now.
NewCountStale(r, n) == planned[r][n] - stay[r].rooms
NewCountTwice(r, n) == planned[r][n] + stay[r].rooms

NewCount(r, n) == planned[r][n]

\* One memcached Set of the loop over the map, whose order is random.
SetCount(r) ==
  /\ pc[r] = "set"
  /\ \E n \in Nights :
       /\ planned[r][n] # Miss
       /\ memc' = [memc EXCEPT ![n] = NewCount(r, n)]
       /\ planned' = [planned EXCEPT ![r][n] = Miss]
  /\ UNCHANGED <<mongo, pc, stay, night, faults, histories, answer>>

\* The error of a Set is not looked at: a count that was there stays, and the
\* rooms of this call are not in it.
SetFails(r) ==
  /\ pc[r] = "set"
  /\ Fail
  /\ \E n \in Nights :
       /\ planned[r][n] # Miss
       /\ planned' = [planned EXCEPT ![r][n] = Miss]
       /\ uncounted' = [uncounted EXCEPT ![n] =
            @ + IF memc[n] # Miss THEN stay[r].rooms ELSE 0]
  /\ UNCHANGED <<stores, pc, stay, night, admitted, overlapped, answer>>

StartInserts(r) ==
  /\ pc[r] = "set"
  /\ \A n \in Nights : planned[r][n] = Miss
  /\ night' = [night EXCEPT ![r] = stay[r].first]
  /\ Goto(r, "insert")
  /\ UNCHANGED <<stores, stay, planned, faults, histories, answer>>

Insert(r) ==
  /\ pc[r] = "insert"
  /\ mongo' = [mongo EXCEPT ![night[r]] = @ + stay[r].rooms]
  /\ IF night[r] < stay[r].last
       THEN night' = [night EXCEPT ![r] = @ + 1] /\ UNCHANGED pc
       ELSE Goto(r, "done") /\ UNCHANGED night
  /\ UNCHANGED <<memc, stay, planned, faults, histories, answer>>

MakeReservation(r) ==
  \/ Begin(r) \/ GetHit(r) \/ GetMiss(r) \/ Find(r) \/ FindFails(r)
  \/ CheckNight(r) \/ CheckLastNight(r) \/ Refuse(r)
  \/ SetCount(r) \/ SetFails(r) \/ StartInserts(r) \/ Insert(r)

-----------------------------------------------------------------------------
(***************************************************************************)
(* CheckAvailability.  GetMulti of the memcached client reports a partial  *)
(* miss by leaving keys out, never by ErrCacheMiss, so that the branches   *)
(* that query Mongo are never taken: only cached nights are looked at.     *)
(* The capacities read from memcached are filed under their key, hotel_cap,*)
(* and looked up under the hotel: the lookup gives the zero value.         *)
(***************************************************************************)

CapacitySeen == 0

Available(s) ==
  \A n \in NightsOf(s) : memc[n] # Miss => memc[n] + s.rooms <= CapacitySeen

CheckAvailability(c) ==
  /\ answer[c] = NoAnswer
  /\ \E s \in {t \in Stays : t.first <= t.last} :
       answer' = [answer EXCEPT ![c] = IF Available(s) THEN "available" ELSE "full"]
  /\ UNCHANGED <<stores, locals, faults, histories>>

-----------------------------------------------------------------------------
(***************************************************************************)
(* The environment                                                         *)
(***************************************************************************)

Evict(n) ==
  /\ memc[n] # Miss
  /\ memc' = [memc EXCEPT ![n] = Miss]
  /\ UNCHANGED <<mongo, locals, faults, histories, answer>>

\* InsertMany of initializeDatabase.
InsertShipped == mongo' = [n \in Nights |-> mongo[n] + Booked]

Crash ==
  /\ crashes < MaxCrashes
  /\ crashes' = crashes + 1
  /\ InsertShipped
  /\ pc' = [r \in Requests |-> IF r \in InFlight THEN "lost" ELSE pc[r]]
  /\ UNCHANGED <<memc, stay, night, planned, failures, histories, answer>>

Next ==
  \/ \E r \in Requests : MakeReservation(r)
  \/ \E c \in Checks : CheckAvailability(c)
  \/ \E n \in Nights : Evict(n)
  \/ Crash

Spec == Init /\ [][Next]_vars

-----------------------------------------------------------------------------
(***************************************************************************)
(* Types, and the places a call can be in.                                 *)
(***************************************************************************)
TypeOK ==
  /\ memc \in [Nights -> Counts]
  /\ mongo \in [Nights -> Nat]
  /\ pc \in [Requests -> {"idle", "get", "find", "check", "set", "insert",
                          "done", "refused", "lost"}]
  /\ stay \in [Requests -> {s \in Stays : s.first <= s.last}]
  /\ night \in [Requests -> Nights]
  /\ \A r \in Requests : night[r] \in NightsOf(stay[r])
  /\ planned \in [Requests -> [Nights -> Counts]]
  /\ crashes \in Nat /\ failures \in Nat
  /\ admitted \in [Nights -> Nat] /\ overlapped \in BOOLEAN
  /\ uncounted \in [Nights -> Nat]

(***************************************************************************)
(* As long as calls do not overlap, a night is overbooked by no more rooms *)
(* than errors nobody looked at left out of its counts, whatever is        *)
(* evicted and wherever a call crashes; and by none without such an error. *)
(* Rooms that a restart has inserted again are beside the point            *)
(* (server.go:133-231).                                                    *)
(***************************************************************************)
NoOverbooking ==
  ~overlapped =>
    \A n \in Nights : mongo[n] <= Capacity + Reinserted + uncounted[n]

(***************************************************************************)
(* As long as calls do not overlap, a cached count covers what Mongo holds *)
(* whenever no call is in flight, even after crashes, but for what a       *)
(* restart has inserted again and what those errors left out: the counts   *)
(* are set before the inserts (server.go:203-231).                         *)
(***************************************************************************)
CacheCoversStore ==
  ~overlapped /\ InFlight = {} =>
    \A n \in Nights : memc[n] # Miss =>
      memc[n] + Reinserted + uncounted[n] >= mongo[n]

(***************************************************************************)
(* A call is refused only if the rooms of the calls admitted before it     *)
(* leave too few on one of its nights: interleaved calls may lose each     *)
(* other's counts, and never add rooms nobody asked for                    *)
(* (server.go:135-199).                                                    *)
(***************************************************************************)
NoSpuriousRefusal ==
  \A r \in Requests : pc[r] = "refused" =>
    \E n \in NightsOf(stay[r]) :
      Booked + Reinserted + admitted[n] + stay[r].rooms > Capacity

=============================================================================
