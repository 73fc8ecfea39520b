-------------------------- MODULE ReservationProofs --------------------------
(***************************************************************************)
(* Calls of MakeReservation that do not overlap overbook a night by no     *)
(* more rooms than the errors the code discards left out of its counts,    *)
(* and leave every cached count at or above what Mongo holds but for them, *)
(* for any number of calls, nights and rooms, whatever memcached evicts    *)
(* and wherever a call crashes.                                            *)
(*                                                                         *)
(* NoOverbooking is not inductive: that Insert stays below the capacity    *)
(* depends on a check made many steps earlier, on counts that came from    *)
(* memcached.  The invariant carries, for the one call in flight, what it  *)
(* has established so far, and for memcached that no count is below what   *)
(* Mongo holds.  What a restart inserts again and what a discarded error   *)
(* left out are beside the point of both: the invariant speaks of the      *)
(* other rooms, Taken, which such an error lowers and nothing else does.   *)
(***************************************************************************)
EXTENDS Reservation, TLAPS, FiniteSetTheorems

\* A call that has not started has planned nothing.
NothingPlanned ==
  \A r \in Requests : pc[r] = "idle" =>
    night[r] = stay[r].first /\ \A n \in Nights : planned[r][n] = Miss

Alone == \A r, s \in InFlight : r = s

Taken(n) == mongo[n] - Reinserted - uncounted[n]

Covered(n) == memc[n] # Miss => memc[n] >= Taken(n)

\* A planned count is what is taken, or more, and the rooms asked for.
PlanCovers(r) ==
  \A n \in Nights : planned[r][n] # Miss =>
    planned[r][n] >= Taken(n) + stay[r].rooms

\* The nights before the one the call is at are planned and fit.
Checked(r) ==
  \A n \in NightsOf(stay[r]) : n < night[r] =>
    planned[r][n] # Miss /\ planned[r][n] <= Capacity

\* The rooms fit the night in Mongo, and its cached count includes them.
Fitting(r, n) == Taken(n) + stay[r].rooms <= Capacity
Cached(r, n) == memc[n] # Miss => memc[n] >= Taken(n) + stay[r].rooms

Established(r) ==
  /\ pc[r] \in {"get", "find", "check", "set"} => PlanCovers(r)
  /\ pc[r] \in {"get", "find", "check"} => Checked(r)
  /\ pc[r] = "check" => planned[r][night[r]] # Miss
  /\ pc[r] = "set" => \A n \in NightsOf(stay[r]) :
       Fitting(r, n) /\ (planned[r][n] = Miss => Cached(r, n))
  /\ pc[r] = "insert" => \A n \in NightsOf(stay[r]) :
       n >= night[r] => Fitting(r, n) /\ Cached(r, n)

Undisturbed ==
  /\ Alone
  /\ \A n \in Nights : Taken(n) <= Capacity /\ Covered(n)
  /\ \A r \in Requests : Established(r)

IInv == TypeOK /\ NothingPlanned /\ (~overlapped => Undisturbed)

-----------------------------------------------------------------------------
LEMMA StayFacts ==
  ASSUME TypeOK, NEW r \in Requests
  PROVE  /\ stay[r].first \in Nights /\ stay[r].last \in Nights
         /\ stay[r].rooms \in Nat /\ stay[r].first <= stay[r].last
         /\ NightsOf(stay[r]) \subseteq Nights
         /\ night[r] \in NightsOf(stay[r]) /\ night[r] \in Nights
         /\ \A n \in Int : n \in NightsOf(stay[r]) <=>
              stay[r].first <= n /\ n <= stay[r].last
<1>1. stay[r] \in Stays /\ stay[r].first <= stay[r].last
      /\ night[r] \in Nights /\ night[r] \in NightsOf(stay[r])
  BY DEF TypeOK
<1>2. stay[r].first \in Nights /\ stay[r].last \in Nights /\ stay[r].rooms \in Rooms
  BY <1>1 DEF Stays
<1>3. stay[r].rooms \in Nat
  BY <1>2, RoomsAssumption
<1>4. /\ NightsOf(stay[r]) \subseteq Nights
      /\ \A n \in Int : n \in NightsOf(stay[r]) <=>
           stay[r].first <= n /\ n <= stay[r].last
  BY <1>2, NightsAssumption DEF Nights, NightsOf
<1> QED
  BY <1>1, <1>2, <1>3, <1>4

LEMMA TakenFacts ==
  ASSUME TypeOK
  PROVE  Reinserted \in Nat /\ \A n \in Nights : Taken(n) \in Int /\ Taken(n) <= mongo[n]
<1>1. crashes \in Nat /\ Booked \in Nat
  BY CapacityAssumption DEF TypeOK
<1>2. Reinserted \in Nat
  BY <1>1 DEF Reinserted
<1>3. \A n \in Nights : mongo[n] \in Nat /\ uncounted[n] \in Nat
  BY DEF TypeOK
<1> QED
  BY <1>2, <1>3 DEF Taken

\* Only a restart inserts again, and only an error leaves rooms out.
LEMMA TakenStays ==
  ASSUME UNCHANGED <<mongo, crashes, uncounted>>
  PROVE  \A n \in Nights : Taken(n)' = Taken(n)
BY DEF Taken, Reinserted

LEMMA NothingAtFirst == Init => IInv
<1> SUFFICES ASSUME Init PROVE IInv
  OBVIOUS
<1> USE DEF Init
<1>1. \A r \in Requests : stay[r] \in Stays /\ stay[r].first <= stay[r].last
  OBVIOUS
<1>2. \A r \in Requests : stay[r].first \in Nights
                          /\ stay[r].first \in NightsOf(stay[r])
  BY <1>1, NightsAssumption DEF Stays, Nights, NightsOf
<1>3. TypeOK
  <2>1. memc \in [Nights -> Counts] /\ planned \in [Requests -> [Nights -> Counts]]
    BY DEF Counts
  <2>2. /\ mongo \in [Nights -> Nat] /\ admitted \in [Nights -> Nat]
        /\ uncounted \in [Nights -> Nat]
    BY CapacityAssumption
  <2>3. night \in [Requests -> Nights]
        /\ \A r \in Requests : night[r] \in NightsOf(stay[r])
    BY <1>2
  <2>4. /\ pc \in [Requests -> {"idle", "get", "find", "check", "set", "insert",
                                "done", "refused", "lost"}]
        /\ stay \in [Requests -> {s \in Stays : s.first <= s.last}]
        /\ crashes \in Nat /\ failures \in Nat /\ overlapped \in BOOLEAN
    OBVIOUS
  <2> QED
    BY <2>1, <2>2, <2>3, <2>4 DEF TypeOK
<1>4. NothingPlanned
  BY DEF NothingPlanned
<1>5. Undisturbed
  <2>1. Alone /\ \A r \in Requests : Established(r)
    BY DEF Alone, InFlight, Established
  <2>2. \A n \in Nights : Taken(n) <= Capacity /\ Covered(n)
    BY <1>3, TakenFacts, CapacityAssumption DEF Covered
  <2> QED
    BY <2>1, <2>2 DEF Undisturbed
<1> QED
  BY <1>3, <1>4, <1>5 DEF IInv

-----------------------------------------------------------------------------
LEMMA TypesStay == TypeOK /\ [Next]_vars => TypeOK'
<1> SUFFICES ASSUME TypeOK, [Next]_vars PROVE TypeOK'
  OBVIOUS
<1> USE DEF Goto
<1>1. ASSUME NEW r \in Requests, Begin(r) PROVE TypeOK'
  BY <1>1 DEF Begin, TypeOK, stores, faults
<1>2. ASSUME NEW r \in Requests, GetHit(r) PROVE TypeOK'
  <2>1. memc[night[r]] + stay[r].rooms \in Counts
    BY <1>2, StayFacts DEF GetHit, TypeOK, Counts
  <2>2. planned' \in [Requests -> [Nights -> Counts]]
    BY <1>2, <2>1 DEF GetHit, Plan, TypeOK
  <2> QED
    BY <1>2, <2>2 DEF GetHit, TypeOK, stores, histories, faults
<1>3. ASSUME NEW r \in Requests, GetMiss(r) PROVE TypeOK'
  BY <1>3 DEF GetMiss, TypeOK, stores, histories, faults
<1>4. ASSUME NEW r \in Requests, Find(r) PROVE TypeOK'
  <2>1. mongo[night[r]] + stay[r].rooms \in Counts
    BY <1>4, StayFacts DEF Find, TypeOK, Counts
  <2>2. planned' \in [Requests -> [Nights -> Counts]]
    BY <1>4, <2>1 DEF Find, Plan, TypeOK
  <2> QED
    BY <1>4, <2>2 DEF Find, TypeOK, stores, histories, faults
<1>5. ASSUME NEW r \in Requests, CheckNight(r) PROVE TypeOK'
  <2>1. night[r] + 1 \in NightsOf(stay[r]) /\ night[r] + 1 \in Nights
    <3>1. night[r] \in Int /\ stay[r].last \in Int /\ night[r] + 1 <= stay[r].last
          /\ stay[r].first <= night[r] + 1
      BY <1>5, StayFacts, NightsAssumption DEF CheckNight, Nights
    <3> QED
      BY <3>1, StayFacts
  <2>2. night' \in [Requests -> Nights]
        /\ \A q \in Requests : night'[q] \in NightsOf(stay[q])
    BY <1>5, <2>1 DEF CheckNight, TypeOK
  <2> QED
    BY <1>5, <2>2 DEF CheckNight, TypeOK, stores, histories, faults, NightsOf
<1>6. ASSUME NEW r \in Requests, CheckLastNight(r) PROVE TypeOK'
  <2>1. admitted' \in [Nights -> Nat]
    BY <1>6, StayFacts DEF CheckLastNight, TypeOK
  <2> QED
    BY <1>6, <2>1 DEF CheckLastNight, TypeOK, stores, faults
<1>7. ASSUME NEW r \in Requests, Refuse(r) PROVE TypeOK'
  BY <1>7 DEF Refuse, TypeOK, stores, histories, faults
<1>8. ASSUME NEW r \in Requests, SetCount(r) PROVE TypeOK'
  <2>1. PICK n \in Nights : /\ memc' = [memc EXCEPT ![n] = planned[r][n]]
                            /\ planned' = [planned EXCEPT ![r][n] = Miss]
    BY <1>8 DEF SetCount, NewCount
  <2>2. memc' \in [Nights -> Counts] /\ planned' \in [Requests -> [Nights -> Counts]]
    BY <2>1 DEF TypeOK, Counts
  <2> QED
    BY <1>8, <2>2 DEF SetCount, TypeOK, histories, faults
<1>9. ASSUME NEW r \in Requests, StartInserts(r) PROVE TypeOK'
  <2>1. stay[r].first \in Nights /\ stay[r].first \in NightsOf(stay[r])
    BY StayFacts, NightsAssumption DEF Nights
  <2>2. night' \in [Requests -> Nights]
        /\ \A q \in Requests : night'[q] \in NightsOf(stay[q])
    BY <1>9, <2>1 DEF StartInserts, TypeOK
  <2> QED
    BY <1>9, <2>2 DEF StartInserts, TypeOK, stores, histories, faults, NightsOf
<1>10. ASSUME NEW r \in Requests, Insert(r) PROVE TypeOK'
  <2>1. mongo' \in [Nights -> Nat]
    BY <1>10, StayFacts DEF Insert, TypeOK
  <2>2. night[r] < stay[r].last =>
          night[r] + 1 \in NightsOf(stay[r]) /\ night[r] + 1 \in Nights
    BY StayFacts DEF Nights
  <2>3. night' \in [Requests -> Nights]
        /\ \A q \in Requests : night'[q] \in NightsOf(stay[q])
    BY <1>10, <2>2 DEF Insert, TypeOK
  <2>4. pc' \in [Requests -> {"idle", "get", "find", "check", "set", "insert",
                              "done", "refused", "lost"}]
    BY <1>10 DEF Insert, TypeOK
  <2> QED
    BY <1>10, <2>1, <2>3, <2>4 DEF Insert, TypeOK, histories, faults, NightsOf
<1>11. ASSUME NEW c \in Checks, CheckAvailability(c) PROVE TypeOK'
  BY <1>11 DEF CheckAvailability, TypeOK, stores, locals, histories, faults
<1>12. ASSUME NEW n \in Nights, Evict(n) PROVE TypeOK'
  BY <1>12 DEF Evict, TypeOK, locals, histories, faults, Counts
<1>13. ASSUME Crash PROVE TypeOK'
  <2>1. mongo' \in [Nights -> Nat]
    BY <1>13, CapacityAssumption DEF Crash, InsertShipped, TypeOK
  <2> QED
    BY <1>13, <2>1 DEF Crash, TypeOK, histories, faults
<1>14. ASSUME UNCHANGED vars PROVE TypeOK'
  BY <1>14 DEF TypeOK, vars, stores, locals, histories, faults
<1>15. ASSUME NEW r \in Requests, FindFails(r) PROVE TypeOK'
  <2>1. 0 + stay[r].rooms \in Counts
    BY StayFacts DEF Counts
  <2>2. planned' \in [Requests -> [Nights -> Counts]]
    BY <1>15, <2>1 DEF FindFails, Plan, TypeOK
  <2>3. uncounted' \in [Nights -> Nat]
    BY <1>15 DEF FindFails, TypeOK
  <2> QED
    <3>1. UNCHANGED <<memc, mongo, stay, night, admitted, overlapped, crashes>>
          /\ failures' = failures + 1
      BY <1>15 DEF FindFails, Fail, stores
    <3>2. pc' \in [Requests -> {"idle", "get", "find", "check", "set", "insert",
                                "done", "refused", "lost"}]
      BY <1>15 DEF FindFails, TypeOK
    <3> QED
      BY <2>2, <2>3, <3>1, <3>2 DEF TypeOK, NightsOf
<1>16. ASSUME NEW r \in Requests, SetFails(r) PROVE TypeOK'
  <2>1. PICK n \in Nights :
          /\ planned' = [planned EXCEPT ![r][n] = Miss]
          /\ uncounted' = [uncounted EXCEPT ![n] =
               @ + IF memc[n] # Miss THEN stay[r].rooms ELSE 0]
    BY <1>16 DEF SetFails
  <2>2. planned' \in [Requests -> [Nights -> Counts]]
    BY <2>1 DEF TypeOK, Counts
  <2>3. uncounted' \in [Nights -> Nat]
    BY <2>1, StayFacts DEF TypeOK
  <2> QED
    BY <1>16, <2>2, <2>3 DEF SetFails, Fail, TypeOK, stores
<1> QED
  BY <1>1, <1>2, <1>3, <1>4, <1>5, <1>6, <1>7, <1>8, <1>9, <1>10, <1>11,
     <1>12, <1>13, <1>14, <1>15, <1>16 DEF Next, MakeReservation

LEMMA IdleStaysIdle == TypeOK /\ NothingPlanned /\ [Next]_vars => NothingPlanned'
<1> SUFFICES ASSUME TypeOK, NothingPlanned, [Next]_vars,
                    NEW q \in Requests, pc'[q] = "idle"
             PROVE  night'[q] = stay'[q].first
                    /\ \A n \in Nights : planned'[q][n] = Miss
  BY DEF NothingPlanned
<1>1. pc[q] = "idle" /\ night'[q] = night[q] /\ stay'[q] = stay[q]
      /\ planned'[q] = planned[q]
  <2> USE DEF Goto, TypeOK
  <2>1. CASE \E r \in Requests : \/ Begin(r) \/ GetHit(r) \/ GetMiss(r)
                                \/ Find(r) \/ FindFails(r)
    BY <2>1 DEF Begin, GetHit, GetMiss, Find, FindFails, Plan
  <2>2. CASE \E r \in Requests : CheckNight(r) \/ CheckLastNight(r) \/ Refuse(r)
    BY <2>2 DEF CheckNight, CheckLastNight, Refuse
  <2>3. CASE \E r \in Requests : SetCount(r) \/ SetFails(r) \/ StartInserts(r) \/ Insert(r)
    BY <2>3 DEF SetCount, SetFails, StartInserts, Insert
  <2>4. CASE \/ \E c \in Checks : CheckAvailability(c)
             \/ \E n \in Nights : Evict(n)
             \/ Crash
             \/ UNCHANGED vars
    BY <2>4 DEF CheckAvailability, Evict, Crash, vars, locals
  <2> QED
    BY <2>1, <2>2, <2>3, <2>4 DEF Next, MakeReservation
<1> QED
  BY <1>1 DEF NothingPlanned

-----------------------------------------------------------------------------
(***************************************************************************)
(* When r moves and nobody else is in flight, only r and the stores have   *)
(* to be looked at.                                                        *)
(***************************************************************************)
LEMMA OneMoves ==
  ASSUME NEW r \in Requests,
         \A q \in Requests \ {r} : q \notin InFlight /\ pc'[q] = pc[q],
         \A n \in Nights : Taken(n)' <= Capacity /\ Covered(n)',
         Established(r)'
  PROVE  Undisturbed'
<1>1. \A q \in Requests \ {r} :
        pc'[q] \notin {"get", "find", "check", "set", "insert"}
  BY DEF InFlight
<1>2. Alone'
  BY <1>1 DEF Alone, InFlight
<1>3. \A q \in Requests : Established(q)'
  BY <1>1 DEF Established
<1> QED
  BY <1>2, <1>3 DEF Undisturbed

LEMMA AloneMeansOthersRest ==
  ASSUME Alone, NEW r \in InFlight
  PROVE  \A q \in Requests \ {r} : q \notin InFlight
BY DEF Alone, InFlight

LEMMA BeginKeeps ==
  ASSUME IInv, Undisturbed, ~overlapped', NEW r \in Requests, Begin(r)
  PROVE  Undisturbed'
<1>1. \A q \in Requests \ {r} : q \notin InFlight /\ pc'[q] = pc[q]
  BY DEF Begin, Goto, IInv, TypeOK
<1>2. \A n \in Nights : Taken(n)' <= Capacity /\ Covered(n)'
  BY TakenStays DEF Begin, stores, histories, faults, Undisturbed, Covered
<1>3. pc'[r] = "get"
  BY DEF Begin, Goto, IInv, TypeOK
<1>4. night'[r] = stay'[r].first /\ \A n \in Nights : planned'[r][n] = Miss
  BY DEF Begin, IInv, NothingPlanned
<1>5. PlanCovers(r)'
  BY <1>4 DEF PlanCovers
<1>6. Checked(r)'
  <2>1. stay'[r] = stay[r] /\ night'[r] = night[r]
    BY DEF Begin
  <2> QED
    BY <1>4, <2>1, StayFacts, NightsAssumption DEF Checked, IInv, NightsOf, Nights
<1>7. Established(r)'
  BY <1>3, <1>5, <1>6 DEF Established
<1> QED
  BY <1>1, <1>2, <1>7, OneMoves

(***************************************************************************)
(* A read, hit or miss, plans a count that covers what Mongo holds.        *)
(***************************************************************************)
LEMMA ReadKeeps ==
  ASSUME IInv, Undisturbed, NEW r \in Requests,
         GetHit(r) \/ GetMiss(r) \/ Find(r) \/ FindFails(r)
  PROVE  Undisturbed'
<1>0. /\ r \in InFlight /\ PlanCovers(r) /\ Checked(r)
      /\ UNCHANGED <<memc, stay, night>>
  BY DEF GetHit, GetMiss, Find, FindFails, stores, InFlight, Undisturbed, Established
<1>1. \A q \in Requests \ {r} : q \notin InFlight /\ pc'[q] = pc[q]
  BY <1>0, AloneMeansOthersRest
     DEF Undisturbed, GetHit, GetMiss, Find, FindFails, Goto, IInv, TypeOK
<1>2. /\ night[r] \in Nights /\ stay[r].rooms \in Nat
      /\ NightsOf(stay[r]) \subseteq Nights
      /\ \A n \in Nights : mongo[n] \in Nat /\ Taken(n) \in Int /\ Taken(n) <= mongo[n]
  BY StayFacts, TakenFacts DEF IInv, TypeOK
<1>3. /\ \A n \in Nights : Taken(n)' \in Int /\ Taken(n)' <= Taken(n)
      /\ FindFails(r) => Taken(night[r])' <= 0
  <2>1. CASE FindFails(r)
    <3>1. Reinserted' = Reinserted /\ Reinserted \in Nat /\ mongo' = mongo
      BY <2>1, TakenFacts DEF FindFails, Fail, Reinserted, stores, IInv
    <3>2. \A n \in Nights :
            /\ mongo[n] \in Nat /\ uncounted[n] \in Nat
            /\ uncounted'[n] = uncounted[n] + IF n = night[r] THEN mongo[n] ELSE 0
      BY <2>1, <1>2 DEF FindFails, IInv, TypeOK
    <3>3. \A n \in Nights : Taken(n)' = Taken(n) - IF n = night[r] THEN mongo[n] ELSE 0
      BY <1>2, <3>1, <3>2 DEF Taken
    <3>4. \A n \in Nights : Taken(n)' \in Int /\ Taken(n)' <= Taken(n)
      BY <1>2, <3>3
    <3>5. PICK k \in Nights : k = night[r]
      BY <1>2
    <3>6. Taken(k)' <= 0
      BY <1>2, <3>3, <3>5
    <3>7. night'[r] = k
      BY <1>0, <3>5
    <3> QED
      BY <3>4, <3>5, <3>6, <3>7
  <2>2. CASE ~FindFails(r)
    BY <1>2, <2>2, TakenStays DEF GetHit, GetMiss, Find, stores, histories, faults
  <2> QED
    BY <2>1, <2>2
<1>4. \A n \in Nights : Taken(n)' <= Capacity /\ Covered(n)'
  <2>1. \A n \in Nights : memc[n] # Miss => memc[n] \in Nat
    BY DEF IInv, TypeOK, Counts
  <2> QED
    BY <1>0, <1>2, <1>3, <2>1, CapacityAssumption DEF Undisturbed, Covered
<1>5. \A n \in Nights : planned[r][n] # Miss =>
        planned[r][n] \in Nat /\ planned[r][n] >= Taken(n)' + stay[r].rooms
  BY <1>0, <1>2, <1>3 DEF PlanCovers, IInv, TypeOK, Counts
<1>6. CASE GetMiss(r)
  <2>1. pc'[r] = "find" /\ planned' = planned
    BY <1>6 DEF GetMiss, Goto, IInv, TypeOK
  <2>2. PlanCovers(r)' /\ Checked(r)'
    BY <1>0, <1>5, <2>1 DEF PlanCovers, Checked
  <2> QED
    BY <1>1, <1>4, <2>1, <2>2, OneMoves DEF Established
<1>7. CASE GetHit(r) \/ Find(r) \/ FindFails(r)
  <2>1. PICK c \in Nat : Plan(r, c) /\ c >= Taken(night[r])'
    <3>1. CASE GetHit(r)
      BY <1>2, <1>3, <3>1 DEF GetHit, Undisturbed, Covered, IInv, TypeOK, Counts
    <3>2. CASE Find(r)
      BY <1>2, <1>3, <3>2 DEF Find
    <3>3. CASE FindFails(r)
      BY <1>2, <1>3, <3>3 DEF FindFails
    <3> QED
      BY <1>7, <3>1, <3>2, <3>3
  <2>2. /\ pc'[r] = "check"
        /\ \A n \in Nights : planned'[r][n] =
             IF n = night[r] THEN c + stay[r].rooms ELSE planned[r][n]
    BY <1>2, <1>7, <2>1 DEF GetHit, Find, FindFails, Plan, Goto, IInv, TypeOK
  <2>3. PlanCovers(r)'
    BY <1>0, <1>2, <1>3, <1>5, <2>1, <2>2 DEF PlanCovers
  <2>4. Checked(r)'
    <3>1. \A n \in NightsOf(stay[r]) : n < night[r] =>
            n # night[r] /\ planned'[r][n] = planned[r][n]
      BY <1>2, <2>2 DEF Nights
    <3> QED
      BY <1>0, <3>1 DEF Checked
  <2>5. planned'[r][night'[r]] # Miss
    BY <1>0, <1>2, <2>1, <2>2, MissAssumption
  <2> QED
    BY <1>1, <1>4, <2>2, <2>3, <2>4, <2>5, OneMoves DEF Established
<1> QED
  BY <1>6, <1>7

(***************************************************************************)
(* A call that passed every check has room on every one of its nights.     *)
(***************************************************************************)
LEMMA ChecksKeep ==
  ASSUME IInv, Undisturbed, NEW r \in Requests,
         CheckNight(r) \/ CheckLastNight(r) \/ Refuse(r)
  PROVE  Undisturbed'
<1>0. /\ r \in InFlight /\ PlanCovers(r) /\ Checked(r)
      /\ planned[r][night[r]] # Miss
      /\ UNCHANGED <<memc, stay, planned>>
      /\ \A n \in Nights : Taken(n)' = Taken(n)
  BY TakenStays DEF CheckNight, CheckLastNight, Refuse, stores, histories, faults, InFlight, Undisturbed,
         Established
<1>1. \A q \in Requests \ {r} : q \notin InFlight /\ pc'[q] = pc[q]
  BY <1>0, AloneMeansOthersRest
     DEF Undisturbed, CheckNight, CheckLastNight, Refuse, Goto, IInv, TypeOK
<1>2. \A n \in Nights : Taken(n)' <= Capacity /\ Covered(n)'
  BY <1>0 DEF Undisturbed, Covered
<1>3. PlanCovers(r)'
  BY <1>0 DEF PlanCovers
<1>4. /\ NightsOf(stay[r]) \subseteq Nights /\ night[r] \in Int
      /\ \A n \in Nights : n \in Int /\ Taken(n) \in Int
      /\ stay[r].rooms \in Nat /\ stay[r].last \in Int
      /\ \A n \in NightsOf(stay[r]) : n <= stay[r].last
  <2>1. \A n \in Nights : n \in Int /\ Taken(n) \in Int
    BY NightsAssumption, TakenFacts DEF IInv, Nights
  <2>2. /\ NightsOf(stay[r]) \subseteq Nights /\ night[r] \in Nights
        /\ stay[r].rooms \in Nat /\ stay[r].last \in Nights
    BY StayFacts DEF IInv
  <2>3. \A n \in NightsOf(stay[r]) : n <= stay[r].last
    BY StayFacts, <2>1, <2>2 DEF IInv
  <2> QED
    BY <2>1, <2>2, <2>3
<1>5. CASE CheckNight(r)
  <2>1. pc'[r] = "get" /\ night'[r] = night[r] + 1 /\ planned[r][night[r]] <= Capacity
    BY <1>5 DEF CheckNight, Goto, Fits, IInv, TypeOK
  <2>2. \A n \in NightsOf(stay[r]) : n < night[r] + 1 => n < night[r] \/ n = night[r]
    BY <1>4
  <2>3. Checked(r)'
    BY <1>0, <2>1, <2>2 DEF Checked
  <2> QED
    BY <1>1, <1>2, <1>3, <2>1, <2>3, OneMoves DEF Established
<1>6. CASE CheckLastNight(r)
  <2>1. pc'[r] = "set" /\ night[r] = stay[r].last /\ planned[r][night[r]] <= Capacity
    BY <1>6 DEF CheckLastNight, Goto, Fits, IInv, TypeOK
  <2>2. \A n \in NightsOf(stay[r]) : planned[r][n] # Miss /\ planned[r][n] <= Capacity
    BY <1>0, <1>4, <2>1 DEF Checked
  <2>3. \A n \in NightsOf(stay[r]) : planned[r][n] \in Nat
    BY <1>4, <2>2 DEF IInv, TypeOK, Counts
  <2>4. \A n \in NightsOf(stay[r]) : Fitting(r, n)
    BY <1>0, <1>4, <2>2, <2>3, CapacityAssumption DEF PlanCovers, Fitting
  <2>5. \A n \in NightsOf(stay[r]) : Fitting(r, n)' /\ planned'[r][n] # Miss
    BY <1>0, <1>4, <2>2, <2>4 DEF Fitting
  <2> QED
    BY <1>0, <1>1, <1>2, <1>3, <2>1, <2>5, OneMoves DEF Established
<1>7. CASE Refuse(r)
  <2>1. pc'[r] = "refused"
    BY <1>7 DEF Refuse, Goto, IInv, TypeOK
  <2> QED
    BY <1>1, <1>2, <2>1, OneMoves DEF Established
<1> QED
  BY <1>5, <1>6, <1>7

LEMMA SetCountKeeps ==
  ASSUME IInv, Undisturbed, NEW r \in Requests, SetCount(r)
  PROVE  Undisturbed'
<1>0. /\ r \in InFlight /\ PlanCovers(r) /\ pc[r] = "set" /\ pc' = pc
      /\ UNCHANGED <<stay, night>>
      /\ \A n \in Nights : Taken(n)' = Taken(n)
      /\ \A n \in NightsOf(stay[r]) :
           Fitting(r, n) /\ (planned[r][n] = Miss => Cached(r, n))
  BY TakenStays DEF SetCount, histories, faults, InFlight, Undisturbed, Established
<1>1. \A q \in Requests \ {r} : q \notin InFlight /\ pc'[q] = pc[q]
  BY <1>0, AloneMeansOthersRest DEF Undisturbed
<1>2. PICK n \in Nights : /\ planned[r][n] # Miss
                          /\ memc' = [memc EXCEPT ![n] = planned[r][n]]
                          /\ planned' = [planned EXCEPT ![r][n] = Miss]
  BY DEF SetCount, NewCount
<1>3. /\ memc'[n] = planned[r][n] /\ memc'[n] \in Nat
      /\ memc'[n] >= Taken(n) + stay[r].rooms
      /\ \A k \in Nights : k # n => memc'[k] = memc[k]
  BY <1>0, <1>2 DEF PlanCovers, IInv, TypeOK, Counts
<1>4. /\ planned'[r][n] = Miss
      /\ \A k \in Nights : k # n => planned'[r][k] = planned[r][k]
  BY <1>2 DEF IInv, TypeOK
<1>5. stay[r].rooms \in Nat /\ Taken(n) \in Int /\ NightsOf(stay[r]) \subseteq Nights
  BY StayFacts, TakenFacts DEF IInv
<1>6. \A k \in Nights : Taken(k)' <= Capacity /\ Covered(k)'
  BY <1>0, <1>3, <1>5 DEF Undisturbed, Covered
<1>7. PlanCovers(r)'
  BY <1>0, <1>4 DEF PlanCovers
<1>8. \A k \in NightsOf(stay[r]) :
        Fitting(r, k)' /\ (planned'[r][k] = Miss => Cached(r, k)')
  BY <1>0, <1>3, <1>4, <1>5 DEF Fitting, Cached
<1> QED
  BY <1>0, <1>1, <1>6, <1>7, <1>8, OneMoves DEF Established

(***************************************************************************)
(* A count that could not be set lacks the rooms of the call, which are    *)
(* the rooms then left out.                                                *)
(***************************************************************************)
LEMMA SetFailsKeeps ==
  ASSUME IInv, Undisturbed, NEW r \in Requests, SetFails(r)
  PROVE  Undisturbed'
<1>0. /\ r \in InFlight /\ PlanCovers(r) /\ pc[r] = "set" /\ pc' = pc
      /\ UNCHANGED <<memc, mongo, stay, night, crashes>>
      /\ \A n \in NightsOf(stay[r]) :
           Fitting(r, n) /\ (planned[r][n] = Miss => Cached(r, n))
  BY DEF SetFails, Fail, stores, InFlight, Undisturbed, Established
<1>1. \A q \in Requests \ {r} : q \notin InFlight /\ pc'[q] = pc[q]
  BY <1>0, AloneMeansOthersRest DEF Undisturbed
<1>2. PICK n \in Nights : /\ planned' = [planned EXCEPT ![r][n] = Miss]
                          /\ uncounted' = [uncounted EXCEPT ![n] =
                               @ + IF memc[n] # Miss THEN stay[r].rooms ELSE 0]
  BY DEF SetFails
<1>3. /\ planned'[r][n] = Miss
      /\ \A k \in Nights : k # n => planned'[r][k] = planned[r][k]
  BY <1>2 DEF IInv, TypeOK
<1>4. /\ stay[r].rooms \in Nat /\ NightsOf(stay[r]) \subseteq Nights
      /\ \A k \in Nights : Taken(k) \in Int
      /\ \A k \in Nights : memc[k] # Miss => memc[k] \in Nat
      /\ \A k \in Nights : planned[r][k] # Miss => planned[r][k] \in Nat
  BY StayFacts, TakenFacts DEF IInv, TypeOK, Counts
<1>5. \A k \in Nights :
        Taken(k)' = Taken(k) - IF k = n /\ memc[k] # Miss THEN stay[r].rooms ELSE 0
  <2>1. Reinserted' = Reinserted /\ Reinserted \in Nat
    BY <1>0, TakenFacts DEF Reinserted, IInv
  <2>2. \A k \in Nights : /\ mongo[k] \in Nat /\ uncounted[k] \in Nat
                          /\ uncounted'[k] = uncounted[k] +
                               IF k = n /\ memc[k] # Miss THEN stay[r].rooms ELSE 0
    BY <1>2 DEF IInv, TypeOK
  <2> QED
    BY <1>0, <1>4, <2>1, <2>2 DEF Taken
<1>6. \A k \in Nights : Taken(k)' \in Int /\ Taken(k)' <= Taken(k)
  BY <1>4, <1>5
<1>7. \A k \in Nights : Taken(k)' <= Capacity /\ Covered(k)'
  BY <1>0, <1>4, <1>6, CapacityAssumption DEF Undisturbed, Covered
<1>8. PlanCovers(r)'
  BY <1>0, <1>3, <1>4, <1>6 DEF PlanCovers
<1>9. \A k \in NightsOf(stay[r]) : Fitting(r, k)'
  BY <1>0, <1>4, <1>6, CapacityAssumption DEF Fitting
<1>10. \A k \in NightsOf(stay[r]) : planned'[r][k] = Miss => Cached(r, k)'
  <2> SUFFICES ASSUME NEW k \in NightsOf(stay[r]), planned'[r][k] = Miss,
                      memc[k] # Miss
               PROVE  memc[k] >= Taken(k)' + stay[r].rooms
    BY <1>0 DEF Cached
  <2>1. memc[k] \in Nat /\ Taken(k) \in Int /\ memc[k] >= Taken(k)
    BY <1>4 DEF Undisturbed, Covered
  <2>2. CASE k = n
    BY <1>4, <1>5, <2>1, <2>2
  <2>3. CASE k # n
    BY <1>0, <1>3, <1>4, <1>5, <2>1, <2>3 DEF Cached
  <2> QED
    BY <2>2, <2>3
<1> QED
  BY <1>0, <1>1, <1>7, <1>8, <1>9, <1>10, OneMoves DEF Established

LEMMA StartInsertsKeeps ==
  ASSUME IInv, Undisturbed, NEW r \in Requests, StartInserts(r)
  PROVE  Undisturbed'
<1>0. /\ r \in InFlight /\ UNCHANGED <<memc, stay>>
      /\ \A n \in Nights : Taken(n)' = Taken(n)
      /\ NightsOf(stay[r]) \subseteq Nights
      /\ \A n \in NightsOf(stay[r]) : Fitting(r, n) /\ Cached(r, n)
  BY StayFacts, TakenStays DEF StartInserts, stores, histories, faults, InFlight, Undisturbed, Established, IInv
<1>1. \A q \in Requests \ {r} : q \notin InFlight /\ pc'[q] = pc[q]
  BY <1>0, AloneMeansOthersRest DEF Undisturbed, StartInserts, Goto, IInv, TypeOK
<1>2. \A n \in Nights : Taken(n)' <= Capacity /\ Covered(n)'
  BY <1>0 DEF Undisturbed, Covered
<1>3. pc'[r] = "insert"
  BY DEF StartInserts, Goto, IInv, TypeOK
<1>4. \A n \in NightsOf(stay[r]) : Fitting(r, n)' /\ Cached(r, n)'
  BY <1>0 DEF Fitting, Cached
<1> QED
  BY <1>0, <1>1, <1>2, <1>3, <1>4, OneMoves DEF Established

(***************************************************************************)
(* An insert uses up the room the check found and no more, and the count   *)
(* in memcached includes it already.                                       *)
(***************************************************************************)
LEMMA InsertKeeps ==
  ASSUME IInv, Undisturbed, NEW r \in Requests, Insert(r)
  PROVE  Undisturbed'
<1>0. /\ r \in InFlight /\ UNCHANGED <<memc, stay>>
      /\ \A n \in NightsOf(stay[r]) : n >= night[r] => Fitting(r, n) /\ Cached(r, n)
  BY DEF Insert, InFlight, Undisturbed, Established
<1>1. \A q \in Requests \ {r} : q \notin InFlight /\ pc'[q] = pc[q]
  BY <1>0, AloneMeansOthersRest DEF Undisturbed, Insert, Goto, IInv, TypeOK
<1>2. /\ night[r] \in NightsOf(stay[r]) /\ night[r] \in Nights /\ night[r] \in Int
      /\ stay[r].rooms \in Nat /\ NightsOf(stay[r]) \subseteq Nights
      /\ \A n \in NightsOf(stay[r]) : n \in Int
  BY StayFacts DEF IInv, Nights
<1>3. \A n \in Nights : /\ Taken(n) \in Int
                        /\ n = night[r] => Taken(n)' = Taken(n) + stay[r].rooms
                        /\ n # night[r] => Taken(n)' = Taken(n)
  <2>1. \A n \in Nights : /\ mongo[n] \in Int
                          /\ n = night[r] => mongo'[n] = mongo[n] + stay[r].rooms
                          /\ n # night[r] => mongo'[n] = mongo[n]
    BY <1>2 DEF Insert, IInv, TypeOK
  <2>2. Reinserted' = Reinserted /\ uncounted' = uncounted
    BY DEF Insert, Reinserted, histories, faults
  <2>3. Reinserted \in Nat /\ \A n \in Nights : uncounted[n] \in Nat
    BY TakenFacts DEF IInv, TypeOK
  <2> QED
    BY <1>2, <2>1, <2>2, <2>3 DEF Taken
<1>4. Fitting(r, night[r]) /\ Cached(r, night[r])
  BY <1>0, <1>2
<1>5. \A n \in Nights : Taken(n)' <= Capacity /\ Covered(n)'
  BY <1>0, <1>3, <1>4 DEF Undisturbed, Fitting, Cached, Covered
<1>6. CASE night[r] < stay[r].last
  <2>1. pc'[r] = "insert" /\ night'[r] = night[r] + 1
    BY <1>6 DEF Insert, Goto, IInv, TypeOK
  <2>2. \A n \in NightsOf(stay[r]) : n >= night[r] + 1 => n >= night[r] /\ n # night[r]
    BY <1>2
  <2>3. \A n \in NightsOf(stay[r]) : n >= night'[r] => Fitting(r, n)' /\ Cached(r, n)'
    BY <1>0, <1>2, <1>3, <2>1, <2>2 DEF Fitting, Cached
  <2> QED
    BY <1>0, <1>1, <1>5, <2>1, <2>3, OneMoves DEF Established
<1>7. CASE ~(night[r] < stay[r].last)
  <2>1. pc'[r] = "done"
    BY <1>7 DEF Insert, Goto, IInv, TypeOK
  <2> QED
    BY <1>1, <1>5, <2>1, OneMoves DEF Established
<1> QED
  BY <1>6, <1>7

LEMMA EnvironmentKeeps ==
  ASSUME IInv, Undisturbed,
         \/ \E c \in Checks : CheckAvailability(c)
         \/ \E n \in Nights : Evict(n)
         \/ Crash
         \/ UNCHANGED vars
  PROVE  Undisturbed'
<1>1. CASE UNCHANGED <<stores, locals, faults, histories>>
  <2>1. /\ UNCHANGED <<memc, pc, stay, night, planned>>
        /\ \A n \in Nights : Taken(n)' = Taken(n)
    BY <1>1, TakenStays DEF stores, locals, histories, faults
  <2>2. \A r \in Requests : NightsOf(stay[r]) \subseteq Nights
    BY StayFacts DEF IInv
  <2>3. Alone' /\ \A n \in Nights : Taken(n)' <= Capacity /\ Covered(n)'
    BY <2>1 DEF Undisturbed, Alone, InFlight, Covered
  <2>4. ASSUME NEW r \in Requests PROVE Established(r)'
    BY <2>1, <2>2 DEF Undisturbed, Established, PlanCovers, Checked, Fitting, Cached
  <2> QED
    BY <2>3, <2>4 DEF Undisturbed
<1>2. ASSUME NEW n \in Nights, Evict(n) PROVE Undisturbed'
  <2>1. /\ UNCHANGED <<pc, stay, night, planned>>
        /\ \A k \in Nights : Taken(k)' = Taken(k)
        /\ \A k \in Nights : memc'[k] = memc[k] \/ memc'[k] = Miss
    BY <1>2, TakenStays DEF Evict, locals, histories, faults, IInv, TypeOK
  <2>2. \A r \in Requests : NightsOf(stay[r]) \subseteq Nights
    BY StayFacts DEF IInv
  <2>3. Alone' /\ \A k \in Nights : Taken(k)' <= Capacity /\ Covered(k)'
    BY <2>1 DEF Undisturbed, Alone, InFlight, Covered
  <2>4. ASSUME NEW r \in Requests PROVE Established(r)'
    BY <2>1, <2>2 DEF Undisturbed, Established, PlanCovers, Checked, Fitting, Cached
  <2> QED
    BY <2>3, <2>4 DEF Undisturbed
<1>3. CASE Crash
  <2>1. \A r \in Requests : pc'[r] \notin {"get", "find", "check", "set", "insert"}
    BY <1>3 DEF Crash, InFlight, IInv, TypeOK
  <2>2. \A n \in Nights : Taken(n)' <= Capacity /\ Covered(n)'
    <3>1. \A n \in Nights : Taken(n)' = Taken(n)
      <4>1. crashes \in Nat /\ Booked \in Nat
        BY CapacityAssumption DEF IInv, TypeOK
      <4>2. Reinserted' = Reinserted + Booked
        BY <1>3, <4>1 DEF Crash, Reinserted
      <4>3. \A n \in Nights : /\ mongo[n] \in Nat /\ mongo'[n] = mongo[n] + Booked
                              /\ uncounted[n] \in Nat /\ uncounted'[n] = uncounted[n]
        BY <1>3 DEF Crash, InsertShipped, IInv, TypeOK, histories
      <4> QED
        BY <4>1, <4>2, <4>3, TakenFacts DEF Taken, IInv
    <3> QED
      BY <1>3, <3>1 DEF Crash, Undisturbed, Covered
  <2> QED
    BY <2>1, <2>2 DEF Undisturbed, Alone, InFlight, Established
<1> QED
  BY <1>1, <1>2, <1>3 DEF CheckAvailability, vars

-----------------------------------------------------------------------------
LEMMA StepKeepsInvariant == IInv /\ [Next]_vars => IInv'
<1> SUFFICES ASSUME IInv, [Next]_vars PROVE IInv'
  OBVIOUS
<1>1. TypeOK' /\ NothingPlanned'
  BY TypesStay, IdleStaysIdle DEF IInv
<1>2. ASSUME ~overlapped' PROVE Undisturbed'
  <2>1. ~overlapped
    <3>1. CASE \E r \in Requests : MakeReservation(r)
      BY <1>2, <3>1 DEF MakeReservation, Begin, GetHit, GetMiss, Find, FindFails,
         CheckNight, CheckLastNight, Refuse, SetCount, SetFails, StartInserts,
         Insert, histories
    <3>2. CASE ~ \E r \in Requests : MakeReservation(r)
      BY <1>2, <3>2 DEF Next, CheckAvailability, Evict, Crash, vars, histories
    <3> QED
      BY <3>1, <3>2
  <2>2. Undisturbed
    BY <2>1 DEF IInv
  <2> QED
    BY <1>2, <2>2, BeginKeeps, ReadKeeps, ChecksKeep, SetCountKeeps, SetFailsKeeps,
       StartInsertsKeeps, InsertKeeps, EnvironmentKeeps DEF Next, MakeReservation
<1> QED
  BY <1>1, <1>2 DEF IInv

LEMMA InvariantHolds == Spec => []IInv
BY NothingAtFirst, StepKeepsInvariant, PTL DEF Spec

(***************************************************************************)
(* Every variable keeps its type (server.go:107-241).                      *)
(***************************************************************************)
THEOREM ReservationTypeCorrect == Spec => []TypeOK
<1>1. IInv => TypeOK
  BY DEF IInv
<1> QED
  BY InvariantHolds, <1>1, PTL

(***************************************************************************)
(* Until calls overlap, no night is overbooked by more rooms than the      *)
(* discarded errors of a Set or a read left out of its counts, and what    *)
(* restarts insert again (server.go:133-231).                              *)
(***************************************************************************)
THEOREM NotOverbooked == Spec => []NoOverbooking
<1>1. IInv => NoOverbooking
  <2> SUFFICES ASSUME IInv, ~overlapped, NEW n \in Nights
               PROVE  mongo[n] <= Capacity + Reinserted + uncounted[n]
    BY DEF NoOverbooking
  <2>1. mongo[n] \in Nat /\ uncounted[n] \in Nat /\ Taken(n) <= Capacity
    BY DEF IInv, TypeOK, Undisturbed
  <2> QED
    BY <2>1, TakenFacts, CapacityAssumption DEF Taken, IInv
<1> QED
  BY InvariantHolds, <1>1, PTL

(***************************************************************************)
(* Until calls overlap, a cached count is never below what Mongo holds     *)
(* while no call is in flight, crashes included, but for what restarts     *)
(* insert again and what discarded errors left out (server.go:203-231).    *)
(***************************************************************************)
THEOREM CountsCover == Spec => []CacheCoversStore
<1>1. IInv => CacheCoversStore
  <2> SUFFICES ASSUME IInv, ~overlapped, NEW n \in Nights, memc[n] # Miss
               PROVE  memc[n] + Reinserted + uncounted[n] >= mongo[n]
    BY DEF CacheCoversStore
  <2>1. /\ mongo[n] \in Nat /\ uncounted[n] \in Nat /\ memc[n] \in Nat
        /\ memc[n] >= Taken(n)
    BY DEF IInv, TypeOK, Undisturbed, Covered, Counts
  <2> QED
    BY <2>1, TakenFacts DEF Taken, IInv
<1> QED
  BY InvariantHolds, <1>1, PTL

-----------------------------------------------------------------------------
(***************************************************************************)
(* No refusal is spurious, whether or not calls overlap.  What a refusal   *)
(* rests on is a count read long before it, from memcached or from Mongo:  *)
(* the invariant bounds every count, wherever it is kept, by the rooms     *)
(* booked at the starts and those of the admitted calls.  For Mongo this   *)
(* is only inductive if the rooms an admitted call has yet to insert are   *)
(* counted in; they are counted as the elements of a set, Owed.            *)
(***************************************************************************)
Limit(n) == Booked + Reinserted + admitted[n]

Asking(r) == pc[r] \in {"get", "find", "check"}

ToInsert(r, n) ==
  /\ n \in NightsOf(stay[r])
  /\ pc[r] = "set" \/ (pc[r] = "insert" /\ n >= night[r])

RoomsOf(r) == {r} \X (1 .. stay[r].rooms)
Owed(n) == UNION {RoomsOf(r) : r \in {q \in Requests : ToInsert(q, n)}}

CacheLimited == \A n \in Nights : memc[n] # Miss => memc[n] <= Limit(n)

StoreLimited ==
  \A n \in Nights :
    IsFiniteSet(Owed(n)) /\ mongo[n] + Cardinality(Owed(n)) <= Limit(n)

PlanLimited(r) ==
  /\ \A n \in Nights : planned[r][n] # Miss =>
       /\ Asking(r) => /\ n \in NightsOf(stay[r])
                       /\ planned[r][n] <= Limit(n) + stay[r].rooms
       /\ pc[r] = "set" => planned[r][n] <= Limit(n)
  /\ pc[r] = "check" => planned[r][night[r]] # Miss

LimitInv ==
  /\ CacheLimited
  /\ StoreLimited
  /\ \A r \in Requests : PlanLimited(r)
  /\ NoSpuriousRefusal


\* A night that leaves the call too few rooms.
TooFewAt(r, n) == Limit(n) + stay[r].rooms > Capacity

LEMMA LimitGrows ==
  ASSUME TypeOK, [Next]_vars, NEW n \in Nights
  PROVE  Limit(n) \in Nat /\ Limit(n)' \in Nat /\ Limit(n) <= Limit(n)'
<1>1. /\ admitted[n] \in Nat /\ crashes \in Nat /\ Booked \in Nat
      /\ Reinserted \in Nat
  BY TakenFacts, CapacityAssumption DEF TypeOK
<1>2. CASE \E r \in Requests : CheckLastNight(r)
  <2>1. PICK r \in Requests : CheckLastNight(r)
    BY <1>2
  <2>2. admitted'[n] \in Nat /\ admitted[n] <= admitted'[n] /\ Reinserted' = Reinserted
    BY <1>1, <2>1, StayFacts DEF CheckLastNight, Reinserted, faults
  <2> QED
    BY <1>1, <2>2 DEF Limit
<1>3. CASE Crash
  <2>1. Reinserted' = Reinserted + Booked /\ admitted' = admitted
    BY <1>1, <1>3 DEF Crash, Reinserted, histories, faults
  <2> QED
    BY <1>1, <2>1 DEF Limit
<1>4. CASE ~(\E r \in Requests : CheckLastNight(r)) /\ ~Crash
  <2>1. UNCHANGED <<admitted, crashes>>
    BY <1>4 DEF Next, MakeReservation, Begin, GetHit, GetMiss, Find, FindFails, Fail,
       CheckNight, Refuse, SetCount, SetFails, StartInserts, Insert,
       CheckAvailability, Evict, vars, histories, faults
  <2> QED
    BY <1>1, <2>1 DEF Limit, Reinserted
<1> QED
  BY <1>2, <1>3, <1>4

LEMMA StaysFixed == [Next]_vars => stay' = stay
BY DEF Next, MakeReservation, Begin, GetHit, GetMiss, Find, FindFails, CheckNight,
   CheckLastNight, Refuse, SetCount, SetFails, StartInserts, Insert,
   CheckAvailability, Evict, Crash, vars, locals

\* A step of one call leaves the others where they are.
LEMMA OthersStay ==
  ASSUME TypeOK, NEW r \in Requests, MakeReservation(r), NEW q \in Requests, q # r
  PROVE  pc'[q] = pc[q] /\ night'[q] = night[q] /\ planned'[q] = planned[q]
<1> USE DEF Goto, TypeOK
<1>1. CASE Begin(r) \/ GetHit(r) \/ GetMiss(r) \/ Find(r) \/ FindFails(r)
  BY <1>1 DEF Begin, GetHit, GetMiss, Find, FindFails, Plan
<1>2. CASE CheckNight(r) \/ CheckLastNight(r) \/ Refuse(r)
  BY <1>2 DEF CheckNight, CheckLastNight, Refuse
<1>3. CASE SetCount(r) \/ SetFails(r) \/ StartInserts(r) \/ Insert(r)
  BY <1>3 DEF SetCount, SetFails, StartInserts, Insert
<1> QED
  BY <1>1, <1>2, <1>3 DEF MakeReservation

(***************************************************************************)
(* What was established of a call that does not move stays: the limits     *)
(* only grow.                                                              *)
(***************************************************************************)
LEMMA RestingPlan ==
  ASSUME TypeOK, [Next]_vars, NEW q \in Requests, PlanLimited(q),
         pc'[q] = pc[q], night'[q] = night[q], planned'[q] = planned[q]
  PROVE  PlanLimited(q)'
<1>1. stay' = stay /\ stay[q].rooms \in Nat
  BY StaysFixed, StayFacts
<1>2. \A n \in Nights : planned[q][n] # Miss => planned[q][n] \in Nat
  BY DEF TypeOK, Counts
<1>3. \A n \in Nights : /\ Limit(n) \in Nat /\ Limit(n)' \in Nat
                        /\ Limit(n) <= Limit(n)'
  BY LimitGrows
<1>4. ASSUME NEW n \in Nights, planned'[q][n] # Miss
      PROVE  /\ Asking(q)' => /\ n \in NightsOf(stay'[q])
                              /\ planned'[q][n] <= Limit(n)' + stay'[q].rooms
             /\ pc'[q] = "set" => planned'[q][n] <= Limit(n)'
  <2>1. /\ Asking(q) => /\ n \in NightsOf(stay[q])
                        /\ planned[q][n] <= Limit(n) + stay[q].rooms
        /\ pc[q] = "set" => planned[q][n] <= Limit(n)
    BY <1>4 DEF PlanLimited
  <2>2. Asking(q)' <=> Asking(q)
    BY DEF Asking
  <2>3. Limit(n) <= Limit(n)' /\ planned[q][n] \in Nat
        /\ Limit(n) \in Nat /\ Limit(n)' \in Nat
    BY <1>2, <1>3, <1>4
  <2> QED
    BY <1>1, <2>1, <2>2, <2>3
<1>5. pc'[q] = "check" => planned'[q][night'[q]] # Miss
  BY DEF PlanLimited
<1> QED
  BY <1>4, <1>5 DEF PlanLimited

LEMMA RefusalsStand ==
  ASSUME TypeOK, [Next]_vars, NoSpuriousRefusal, NEW q \in Requests, pc[q] = "refused"
  PROVE  \E n \in NightsOf(stay'[q]) : TooFewAt(q, n)'
<1>1. PICK n \in NightsOf(stay[q]) : Limit(n) + stay[q].rooms > Capacity
  BY DEF NoSpuriousRefusal, Limit
<1>2. n \in Nights /\ stay' = stay /\ stay[q].rooms \in Nat
  BY StaysFixed, StayFacts
<1>3. Limit(n)' + stay[q].rooms > Capacity
  BY <1>1, <1>2, LimitGrows, CapacityAssumption
<1> QED
  BY <1>1, <1>2, <1>3 DEF TooFewAt

\* What is owed for a night no longer includes some calls.
LEMMA OwedLess ==
  ASSUME StoreLimited, stay' = stay, NEW n \in Nights,
         \A q \in Requests : ToInsert(q, n)' => ToInsert(q, n)
  PROVE  /\ IsFiniteSet(Owed(n)') /\ Cardinality(Owed(n)') \in Nat
         /\ Cardinality(Owed(n)) \in Nat
         /\ Cardinality(Owed(n)') <= Cardinality(Owed(n))
<1>1. Owed(n)' \subseteq Owed(n)
  BY DEF Owed, RoomsOf
<1>2. IsFiniteSet(Owed(n))
  BY DEF StoreLimited
<1> QED
  BY <1>1, <1>2, FS_Subset, FS_CardinalityType

LEMMA StoreRests ==
  ASSUME TypeOK, [Next]_vars, StoreLimited, mongo' = mongo,
         \A n \in Nights, q \in Requests : ToInsert(q, n)' => ToInsert(q, n)
  PROVE  StoreLimited'
<1> SUFFICES ASSUME NEW n \in Nights
             PROVE  /\ IsFiniteSet(Owed(n)')
                    /\ mongo'[n] + Cardinality(Owed(n)') <= Limit(n)'
  BY DEF StoreLimited
<1>1. /\ IsFiniteSet(Owed(n)') /\ Cardinality(Owed(n)') \in Nat
      /\ Cardinality(Owed(n)) \in Nat
      /\ Cardinality(Owed(n)') <= Cardinality(Owed(n))
  BY OwedLess, StaysFixed
<1>2. mongo[n] \in Nat /\ mongo[n] + Cardinality(Owed(n)) <= Limit(n)
  BY DEF StoreLimited, TypeOK
<1> QED
  BY <1>1, <1>2, LimitGrows

LEMMA CacheRests ==
  ASSUME TypeOK, [Next]_vars, CacheLimited,
         \A n \in Nights : memc'[n] = memc[n] \/ memc'[n] = Miss
  PROVE  CacheLimited'
<1> SUFFICES ASSUME NEW n \in Nights, memc'[n] # Miss PROVE memc'[n] <= Limit(n)'
  BY DEF CacheLimited
<1>1. memc[n] \in Nat /\ memc'[n] = memc[n] /\ memc[n] <= Limit(n)
  BY DEF TypeOK, Counts, CacheLimited
<1> QED
  BY <1>1, LimitGrows


-----------------------------------------------------------------------------
(***************************************************************************)
(* When r moves, only r and the stores have to be looked at.               *)
(***************************************************************************)
LEMMA MoverLimited ==
  ASSUME TypeOK, [Next]_vars, LimitInv, NEW r \in Requests, MakeReservation(r),
         CacheLimited', StoreLimited', PlanLimited(r)',
         pc'[r] = "refused" => \E n \in NightsOf(stay'[r]) : TooFewAt(r, n)'
  PROVE  LimitInv'
<1>1. ASSUME NEW q \in Requests, q # r PROVE PlanLimited(q)'
  BY <1>1, OthersStay, RestingPlan DEF LimitInv
<1>2. ASSUME NEW q \in Requests, pc'[q] = "refused"
      PROVE  \E n \in NightsOf(stay'[q]) : TooFewAt(q, n)'
  <2>1. CASE q = r
    BY <1>2, <2>1
  <2>2. CASE q # r
    <3>1. pc[q] = "refused"
      BY <1>2, <2>2, OthersStay
    <3> QED
      BY <3>1, RefusalsStand DEF LimitInv
  <2> QED
    BY <2>1, <2>2
<1>3. NoSpuriousRefusal'
  BY <1>2 DEF NoSpuriousRefusal, TooFewAt, Limit
<1> QED
  BY <1>1, <1>3 DEF LimitInv

LEMMA MoverOwes ==
  ASSUME TypeOK, [Next]_vars, NEW r \in Requests, MakeReservation(r)
  PROVE  \A n \in Nights, q \in Requests \ {r} : ToInsert(q, n)' <=> ToInsert(q, n)
BY OthersStay, StaysFixed DEF ToInsert

(***************************************************************************)
(* A call that reads plans the count it read and its own rooms.            *)
(***************************************************************************)
LEMMA ReadLimited ==
  ASSUME TypeOK, NothingPlanned, [Next]_vars, LimitInv, NEW r \in Requests,
         Begin(r) \/ GetHit(r) \/ GetMiss(r) \/ Find(r) \/ FindFails(r)
  PROVE  LimitInv'
<1>0. MakeReservation(r)
  BY DEF MakeReservation
<1>1. /\ UNCHANGED <<memc, mongo, stay, night, admitted, crashes>>
      /\ pc[r] \in {"idle", "get", "find"} /\ pc'[r] \in {"get", "find", "check"}
  BY DEF Begin, GetHit, GetMiss, Find, FindFails, Fail, stores, histories, faults,
         Goto, TypeOK
<1>2. \A n \in Nights : Limit(n) \in Nat /\ Limit(n)' = Limit(n)
  BY <1>1, LimitGrows DEF Limit, Reinserted
<1>3. CacheLimited'
  BY <1>1, CacheRests DEF LimitInv
<1>4. StoreLimited'
  <2>1. \A n \in Nights : ~ToInsert(r, n)'
    BY <1>1 DEF ToInsert
  <2>2. \A n \in Nights, q \in Requests : ToInsert(q, n)' => ToInsert(q, n)
    BY <1>0, <2>1, MoverOwes
  <2> QED
    BY <1>1, <2>2, StoreRests DEF LimitInv
<1>5. /\ night[r] \in Nights /\ night[r] \in NightsOf(stay[r]) /\ stay[r].rooms \in Nat
  BY StayFacts
<1>6. CASE Begin(r) \/ GetMiss(r)
  <2>1. pc'[r] # "check" /\ planned' = planned /\ Asking(r)' /\ pc'[r] # "set"
    BY <1>6 DEF Begin, GetMiss, Goto, TypeOK, Asking
  <2>2. ASSUME NEW n \in Nights, planned[r][n] # Miss
        PROVE  n \in NightsOf(stay[r]) /\ planned[r][n] <= Limit(n) + stay[r].rooms
    <3>1. GetMiss(r) /\ Asking(r)
      BY <1>6, <2>2 DEF Begin, NothingPlanned, GetMiss, Asking
    <3> QED
      BY <2>2, <3>1 DEF LimitInv, PlanLimited
  <2>3. PlanLimited(r)'
    BY <1>1, <1>2, <2>1, <2>2 DEF PlanLimited
  <2> QED
    BY <1>0, <1>1, <1>3, <1>4, <2>3, MoverLimited
<1>7. CASE GetHit(r) \/ Find(r) \/ FindFails(r)
  <2>1. PICK c \in Nat : Plan(r, c) /\ c <= Limit(night[r])
    <3>1. CASE GetHit(r)
      BY <1>5, <3>1 DEF GetHit, LimitInv, CacheLimited, TypeOK, Counts
    <3>2. CASE Find(r)
      <4>1. /\ IsFiniteSet(Owed(night[r])) /\ mongo[night[r]] \in Nat
            /\ mongo[night[r]] + Cardinality(Owed(night[r])) <= Limit(night[r])
        BY <1>5 DEF LimitInv, StoreLimited, TypeOK
      <4>2. Cardinality(Owed(night[r])) \in Nat
        BY <4>1, FS_CardinalityType
      <4>3. mongo[night[r]] <= Limit(night[r])
        BY <1>2, <1>5, <4>1, <4>2
      <4> QED
        BY <3>2, <4>1, <4>3 DEF Find
    <3>3. CASE FindFails(r)
      BY <1>2, <1>5, <3>3 DEF FindFails
    <3> QED
      BY <1>7, <3>1, <3>2, <3>3
  <2>2. /\ pc'[r] = "check" /\ Asking(r)'
        /\ \A n \in Nights : planned'[r][n] =
             IF n = night[r] THEN c + stay[r].rooms ELSE planned[r][n]
    BY <1>5, <1>7, <2>1 DEF GetHit, Find, FindFails, Plan, Goto, TypeOK, Asking
  <2>3. Asking(r)
    BY <1>7 DEF GetHit, Find, FindFails, Asking
  <2>4. ASSUME NEW n \in Nights, planned'[r][n] # Miss
        PROVE  n \in NightsOf(stay[r]) /\ planned'[r][n] <= Limit(n) + stay[r].rooms
    <3>1. CASE n = night[r]
      BY <1>2, <1>5, <2>1, <2>2, <3>1
    <3>2. CASE n # night[r]
      BY <2>2, <2>3, <2>4, <3>2 DEF LimitInv, PlanLimited
    <3> QED
      BY <3>1, <3>2
  <2>5. planned'[r][night[r]] # Miss
    BY <1>5, <2>1, <2>2, MissAssumption
  <2>6. PlanLimited(r)'
    BY <1>1, <1>2, <2>2, <2>4, <2>5 DEF PlanLimited
  <2> QED
    BY <1>0, <1>3, <1>4, <2>2, <2>6, MoverLimited
<1> QED
  BY <1>6, <1>7

(***************************************************************************)
(* A call that goes on to its next night, or is refused.  The count that   *)
(* refuses it is within the limit of the night but for its own rooms.      *)
(***************************************************************************)
LEMMA CheckLimited ==
  ASSUME TypeOK, [Next]_vars, LimitInv, NEW r \in Requests, CheckNight(r) \/ Refuse(r)
  PROVE  LimitInv'
<1>0. MakeReservation(r)
  BY DEF MakeReservation
<1>1. /\ UNCHANGED <<memc, mongo, stay, planned, admitted, crashes>>
      /\ pc[r] = "check" /\ pc'[r] \in {"get", "refused"}
  BY DEF CheckNight, Refuse, stores, histories, faults, Goto, TypeOK
<1>2. \A n \in Nights : Limit(n) \in Nat /\ Limit(n)' = Limit(n)
  BY <1>1, LimitGrows DEF Limit, Reinserted
<1>3. CacheLimited'
  BY <1>1, CacheRests DEF LimitInv
<1>4. StoreLimited'
  <2>1. \A n \in Nights : ~ToInsert(r, n)'
    BY <1>1 DEF ToInsert
  <2>2. \A n \in Nights, q \in Requests : ToInsert(q, n)' => ToInsert(q, n)
    BY <1>0, <2>1, MoverOwes
  <2> QED
    BY <1>1, <2>2, StoreRests DEF LimitInv
<1>5. Asking(r)
  BY <1>1 DEF Asking
<1>6. \A n \in Nights : planned[r][n] # Miss =>
        n \in NightsOf(stay[r]) /\ planned[r][n] <= Limit(n) + stay[r].rooms
  BY <1>5 DEF LimitInv, PlanLimited
<1>7. PlanLimited(r)'
  BY <1>1, <1>2, <1>6 DEF PlanLimited
<1>8. ASSUME pc'[r] = "refused" PROVE \E n \in NightsOf(stay'[r]) : TooFewAt(r, n)'
  <2>1. ~Fits(r) /\ stay' = stay
    BY <1>1, <1>8 DEF CheckNight, Refuse, Goto, TypeOK
  <2>2. /\ night[r] \in Nights /\ night[r] \in NightsOf(stay[r])
        /\ stay[r].rooms \in Nat
    BY StayFacts
  <2>3. planned[r][night[r]] # Miss /\ planned[r][night[r]] \in Nat
    BY <1>1, <2>2 DEF LimitInv, PlanLimited, TypeOK, Counts
  <2>4. Limit(night[r]) + stay[r].rooms > Capacity
    BY <1>2, <1>6, <2>1, <2>2, <2>3, CapacityAssumption DEF Fits
  <2> QED
    <3>1. PICK k \in Nights : k = night[r]
      BY <2>2
    <3>2. Limit(k)' + stay'[r].rooms > Capacity
      BY <1>2, <2>1, <2>4, <3>1
    <3> QED
      BY <2>1, <2>2, <3>1, <3>2 DEF TooFewAt
<1> QED
  BY <1>0, <1>3, <1>4, <1>7, <1>8, MoverLimited


LEMMA RoomsCounted ==
  ASSUME TypeOK, NEW r \in Requests
  PROVE  IsFiniteSet(RoomsOf(r)) /\ Cardinality(RoomsOf(r)) = stay[r].rooms
<1>1. stay[r].rooms \in Nat
  BY StayFacts
<1>2. PICK k \in Nat : k = stay[r].rooms
  BY <1>1
<1>3. IsFiniteSet(1 .. k) /\ Cardinality(1 .. k) = k
  BY FS_Interval
<1>4. IsFiniteSet({r}) /\ Cardinality({r}) = 1
  BY FS_Singleton
<1>5. IsFiniteSet({r} \X (1 .. k)) /\ Cardinality({r} \X (1 .. k)) = 1 * k
  BY <1>3, <1>4, FS_Product
<1> QED
  BY <1>2, <1>5 DEF RoomsOf

(***************************************************************************)
(* A call that passed its last check raises the limit of its nights by the *)
(* rooms it now owes them.                                                 *)
(***************************************************************************)
LEMMA AdmitLimited ==
  ASSUME TypeOK, [Next]_vars, LimitInv, NEW r \in Requests, CheckLastNight(r)
  PROVE  LimitInv'
<1>0. MakeReservation(r)
  BY DEF MakeReservation
<1>1. /\ UNCHANGED <<memc, mongo, stay, planned, night, crashes>>
      /\ pc[r] = "check" /\ pc'[r] = "set"
  BY DEF CheckLastNight, stores, faults, Goto, TypeOK
<1>2. \A n \in Nights : Limit(n) \in Nat /\ Limit(n)' \in Nat /\ Limit(n) <= Limit(n)'
  BY LimitGrows
<1>3. /\ stay[r].rooms \in Nat /\ NightsOf(stay[r]) \subseteq Nights
  BY StayFacts
<1>4. \A n \in NightsOf(stay[r]) : Limit(n)' = Limit(n) + stay[r].rooms
  <2> SUFFICES ASSUME NEW n \in NightsOf(stay[r])
               PROVE  Limit(n)' = Limit(n) + stay[r].rooms
    OBVIOUS
  <2>1. admitted'[n] = admitted[n] + stay[r].rooms /\ admitted[n] \in Nat
    BY <1>3 DEF CheckLastNight, TypeOK
  <2>2. Reinserted' = Reinserted /\ Reinserted \in Nat /\ Booked \in Nat
    BY <1>1, TakenFacts, CapacityAssumption DEF Reinserted
  <2> QED
    BY <1>3, <2>1, <2>2 DEF Limit
<1>5. CacheLimited'
  BY <1>1, CacheRests DEF LimitInv
<1>6. StoreLimited'
  <2> SUFFICES ASSUME NEW n \in Nights
               PROVE  /\ IsFiniteSet(Owed(n)')
                      /\ mongo'[n] + Cardinality(Owed(n)') <= Limit(n)'
    BY DEF StoreLimited
  <2>1. /\ IsFiniteSet(Owed(n)) /\ mongo[n] \in Nat /\ mongo'[n] = mongo[n]
        /\ mongo[n] + Cardinality(Owed(n)) <= Limit(n)
    BY <1>1 DEF LimitInv, StoreLimited, TypeOK
  <2>2. Cardinality(Owed(n)) \in Nat
    BY <2>1, FS_CardinalityType
  <2>3. CASE n \in NightsOf(stay[r])
    <3>1. ToInsert(r, n)' /\ ~ToInsert(r, n)
      BY <1>1, <2>3 DEF ToInsert
    <3>2. Owed(n)' = Owed(n) \cup RoomsOf(r)
      BY <1>0, <1>1, <3>1, MoverOwes DEF Owed, RoomsOf
    <3>3. IsFiniteSet(RoomsOf(r)) /\ Cardinality(RoomsOf(r)) = stay[r].rooms
      BY RoomsCounted
    <3>4. /\ IsFiniteSet(Owed(n)')
          /\ Cardinality(Owed(n)') = Cardinality(Owed(n)) + stay[r].rooms
                                       - Cardinality(Owed(n) \cap RoomsOf(r))
      BY <2>1, <3>2, <3>3, FS_Union
    <3>5. Cardinality(Owed(n) \cap RoomsOf(r)) \in Nat
      <4>1. IsFiniteSet(Owed(n) \cap RoomsOf(r))
        BY <2>1, FS_Subset
      <4> QED
        BY <4>1, FS_CardinalityType
    <3>6. Limit(n)' = Limit(n) + stay[r].rooms
      BY <1>4, <2>3
    <3> QED
      BY <1>2, <1>3, <2>1, <2>2, <3>4, <3>5, <3>6
  <2>4. CASE n \notin NightsOf(stay[r])
    <3>1. ~ToInsert(r, n)'
      BY <1>1, <2>4 DEF ToInsert
    <3>2. \A q \in Requests : ToInsert(q, n)' => ToInsert(q, n)
      BY <1>0, <3>1, MoverOwes
    <3>3. /\ IsFiniteSet(Owed(n)') /\ Cardinality(Owed(n)') \in Nat
          /\ Cardinality(Owed(n)') <= Cardinality(Owed(n))
      BY <1>1, <3>2, OwedLess DEF LimitInv
    <3> QED
      BY <1>2, <2>1, <2>2, <3>3
  <2> QED
    BY <2>3, <2>4
<1>7. PlanLimited(r)'
  <2>1. Asking(r) /\ ~Asking(r)' /\ pc'[r] # "check"
    BY <1>1 DEF Asking
  <2>2. ASSUME NEW n \in Nights, planned'[r][n] # Miss PROVE planned'[r][n] <= Limit(n)'
    <3>1. n \in NightsOf(stay[r]) /\ planned[r][n] <= Limit(n) + stay[r].rooms
      BY <1>1, <2>1, <2>2 DEF LimitInv, PlanLimited
    <3> QED
      BY <1>1, <1>4, <3>1
  <2> QED
    BY <2>1, <2>2 DEF PlanLimited
<1> QED
  BY <1>0, <1>1, <1>5, <1>6, <1>7, MoverLimited

LEMMA SetCountLimited ==
  ASSUME TypeOK, [Next]_vars, LimitInv, NEW r \in Requests, SetCount(r)
  PROVE  LimitInv'
<1>0. MakeReservation(r)
  BY DEF MakeReservation
<1>1. UNCHANGED <<mongo, stay, pc, night, admitted, crashes>> /\ pc[r] = "set"
  BY DEF SetCount, histories, faults
<1>2. \A n \in Nights : Limit(n) \in Nat /\ Limit(n)' = Limit(n)
  BY <1>1, LimitGrows DEF Limit, Reinserted
<1>3. PICK n \in Nights : /\ planned[r][n] # Miss
                          /\ memc' = [memc EXCEPT ![n] = planned[r][n]]
                          /\ planned' = [planned EXCEPT ![r][n] = Miss]
  BY DEF SetCount, NewCount
<1>4. planned[r][n] <= Limit(n)
  BY <1>1, <1>3 DEF LimitInv, PlanLimited
<1>5. CacheLimited'
  BY <1>2, <1>3, <1>4 DEF LimitInv, CacheLimited, TypeOK
<1>6. StoreLimited'
  <2>1. \A k \in Nights, q \in Requests : ToInsert(q, k)' => ToInsert(q, k)
    BY <1>1 DEF ToInsert
  <2> QED
    BY <1>1, <2>1, StoreRests DEF LimitInv
<1>7. PlanLimited(r)'
  <2>1. \A k \in Nights : planned'[r][k] # Miss => planned'[r][k] = planned[r][k]
    BY <1>3 DEF TypeOK
  <2>2. ~Asking(r)' /\ pc'[r] # "check"
    BY <1>1 DEF Asking
  <2> QED
    BY <1>1, <1>2, <2>1, <2>2 DEF LimitInv, PlanLimited
<1> QED
  BY <1>0, <1>1, <1>5, <1>6, <1>7, MoverLimited

LEMMA SetFailsLimited ==
  ASSUME TypeOK, [Next]_vars, LimitInv, NEW r \in Requests, SetFails(r)
  PROVE  LimitInv'
<1>0. MakeReservation(r)
  BY DEF MakeReservation
<1>1. UNCHANGED <<memc, mongo, stay, pc, night, admitted, crashes>> /\ pc[r] = "set"
  BY DEF SetFails, Fail, stores
<1>2. \A n \in Nights : Limit(n)' = Limit(n)
  BY <1>1 DEF Limit, Reinserted
<1>3. CacheLimited'
  BY <1>1, CacheRests DEF LimitInv
<1>4. StoreLimited'
  <2>1. \A k \in Nights, q \in Requests : ToInsert(q, k)' => ToInsert(q, k)
    BY <1>1 DEF ToInsert
  <2> QED
    BY <1>1, <2>1, StoreRests DEF LimitInv
<1>5. PlanLimited(r)'
  <2>1. PICK n \in Nights : planned' = [planned EXCEPT ![r][n] = Miss]
    BY DEF SetFails
  <2>2. \A k \in Nights : planned'[r][k] # Miss => planned'[r][k] = planned[r][k]
    BY <2>1 DEF TypeOK
  <2>3. ~Asking(r)' /\ pc'[r] # "check"
    BY <1>1 DEF Asking
  <2> QED
    BY <1>1, <1>2, <2>2, <2>3 DEF LimitInv, PlanLimited
<1> QED
  BY <1>0, <1>1, <1>3, <1>4, <1>5, MoverLimited

LEMMA StartInsertsLimited ==
  ASSUME TypeOK, [Next]_vars, LimitInv, NEW r \in Requests, StartInserts(r)
  PROVE  LimitInv'
<1>0. MakeReservation(r)
  BY DEF MakeReservation
<1>1. UNCHANGED <<memc, mongo, stay>> /\ pc[r] = "set" /\ pc'[r] = "insert"
  BY DEF StartInserts, stores, Goto, TypeOK
<1>2. CacheLimited'
  BY <1>1, CacheRests DEF LimitInv
<1>3. StoreLimited'
  <2>1. \A n \in Nights : ToInsert(r, n)' => ToInsert(r, n)
    BY <1>1 DEF ToInsert
  <2>2. \A n \in Nights, q \in Requests : ToInsert(q, n)' => ToInsert(q, n)
    BY <1>0, <2>1, MoverOwes
  <2> QED
    BY <1>1, <2>2, StoreRests DEF LimitInv
<1>4. PlanLimited(r)'
  BY <1>1 DEF PlanLimited, Asking
<1> QED
  BY <1>0, <1>1, <1>2, <1>3, <1>4, MoverLimited

(***************************************************************************)
(* An insert pays what the call owes the night it is at.                   *)
(***************************************************************************)
LEMMA InsertLimited ==
  ASSUME TypeOK, [Next]_vars, LimitInv, NEW r \in Requests, Insert(r)
  PROVE  LimitInv'
<1>0. MakeReservation(r)
  BY DEF MakeReservation
<1>1. /\ UNCHANGED <<memc, stay, planned, admitted, crashes>> /\ pc[r] = "insert"
      /\ pc'[r] \in {"insert", "done"}
  BY DEF Insert, histories, faults, Goto, TypeOK
<1>2. \A n \in Nights : Limit(n) \in Nat /\ Limit(n)' = Limit(n)
  BY <1>1, LimitGrows DEF Limit, Reinserted
<1>3. /\ night[r] \in Nights /\ night[r] \in NightsOf(stay[r]) /\ stay[r].rooms \in Nat
      /\ NightsOf(stay[r]) \subseteq Nights
      /\ night[r] \in Int /\ stay[r].last \in Int
      /\ \A n \in NightsOf(stay[r]) : n \in Int /\ n <= stay[r].last
  BY StayFacts DEF Nights
<1>4. CacheLimited'
  BY <1>1, CacheRests DEF LimitInv
<1>5. PlanLimited(r)'
  BY <1>1 DEF PlanLimited, Asking
<1>6. \A n \in Nights : ToInsert(r, n)' <=> ToInsert(r, n) /\ n # night[r]
  <2>1. CASE night[r] < stay[r].last
    <3>1. pc'[r] = "insert" /\ night'[r] = night[r] + 1
      BY <1>1, <2>1 DEF Insert, TypeOK
    <3>2. \A n \in NightsOf(stay[r]) : n >= night[r] + 1 <=> n >= night[r] /\ n # night[r]
      BY <1>3
    <3> QED
      BY <1>1, <3>1, <3>2 DEF ToInsert
  <2>2. CASE ~(night[r] < stay[r].last)
    <3>1. pc'[r] = "done"
      BY <2>2 DEF Insert, Goto, TypeOK
    <3>2. \A n \in NightsOf(stay[r]) : n >= night[r] => n = night[r]
      BY <1>3, <2>2
    <3> QED
      BY <1>1, <3>1, <3>2 DEF ToInsert
  <2> QED
    BY <2>1, <2>2
<1>7. ASSUME NEW n \in Nights
      PROVE  /\ IsFiniteSet(Owed(n)')
             /\ mongo'[n] + Cardinality(Owed(n)') <= Limit(n)'
  <2>1. /\ IsFiniteSet(Owed(n)) /\ mongo[n] \in Nat
        /\ mongo[n] + Cardinality(Owed(n)) <= Limit(n)
    BY <1>7 DEF LimitInv, StoreLimited, TypeOK
  <2>2. Cardinality(Owed(n)) \in Nat /\ Limit(n) \in Nat /\ Limit(n)' = Limit(n)
    BY <1>2, <2>1, FS_CardinalityType
  <2>3. \A q \in Requests \ {r} : ToInsert(q, n)' <=> ToInsert(q, n)
    BY <1>0, <1>7, MoverOwes
  <2>4. CASE n # night[r]
    <3>1. mongo'[n] = mongo[n]
      BY <2>4 DEF Insert, TypeOK
    <3>2. \A q \in Requests : ToInsert(q, n)' => ToInsert(q, n)
      BY <1>6, <2>3
    <3>3. /\ IsFiniteSet(Owed(n)') /\ Cardinality(Owed(n)') \in Nat
          /\ Cardinality(Owed(n)') <= Cardinality(Owed(n))
      BY <1>1, <1>7, <3>2, OwedLess DEF LimitInv
    <3> QED
      BY <2>1, <2>2, <3>1, <3>3
  <2>5. CASE n = night[r]
    <3>1. mongo'[n] = mongo[n] + stay[r].rooms
      BY <1>3, <2>5 DEF Insert, TypeOK
    <3>2. ToInsert(r, n) /\ ~ToInsert(r, n)'
      BY <1>1, <1>3, <1>6, <2>5 DEF ToInsert
    <3>3. Owed(n)' = Owed(n) \ RoomsOf(r) /\ RoomsOf(r) \subseteq Owed(n)
      BY <1>1, <2>3, <3>2 DEF Owed, RoomsOf
    <3>4. Cardinality(RoomsOf(r)) = stay[r].rooms /\ Owed(n) \cap RoomsOf(r) = RoomsOf(r)
      BY <3>3, RoomsCounted
    <3>5. /\ IsFiniteSet(Owed(n)')
          /\ Cardinality(Owed(n)') = Cardinality(Owed(n)) - stay[r].rooms
      <4>1. /\ IsFiniteSet(Owed(n) \ RoomsOf(r))
            /\ Cardinality(Owed(n) \ RoomsOf(r)) =
                 Cardinality(Owed(n)) - Cardinality(Owed(n) \cap RoomsOf(r))
        BY <2>1, FS_Difference
      <4> QED
        BY <3>3, <3>4, <4>1
    <3> QED
      BY <1>3, <2>1, <2>2, <3>1, <3>5
  <2> QED
    BY <2>4, <2>5
<1>8. StoreLimited'
  BY <1>7 DEF StoreLimited
<1> QED
  BY <1>0, <1>1, <1>4, <1>5, <1>8, MoverLimited


(***************************************************************************)
(* A crash forgets what the calls in flight owe, and what a start inserts  *)
(* raises the limit as much as the store.                                  *)
(***************************************************************************)
LEMMA CrashLimited ==
  ASSUME TypeOK, [Next]_vars, LimitInv, Crash
  PROVE  LimitInv'
<1>1. /\ UNCHANGED <<memc, stay, planned, night, admitted>>
      /\ \A r \in Requests : /\ pc'[r] \notin {"get", "find", "check", "set", "insert"}
                             /\ pc'[r] = "refused" => pc[r] = "refused"
  BY DEF Crash, InFlight, histories, faults, TypeOK
<1>2. CacheLimited'
  BY <1>1, CacheRests DEF LimitInv
<1>3. ASSUME NEW n \in Nights
      PROVE  /\ IsFiniteSet(Owed(n)')
             /\ mongo'[n] + Cardinality(Owed(n)') <= Limit(n)'
  <2>1. \A q \in Requests : ~ToInsert(q, n)'
    BY <1>1 DEF ToInsert
  <2>2. Owed(n)' = {}
    BY <2>1 DEF Owed
  <2>3. IsFiniteSet(Owed(n)') /\ Cardinality(Owed(n)') = 0
    BY <2>2, FS_EmptySet
  <2>4. Cardinality(Owed(n)) \in Nat /\ mongo[n] + Cardinality(Owed(n)) <= Limit(n)
    BY <1>3, FS_CardinalityType DEF LimitInv, StoreLimited
  <2>5. /\ mongo'[n] = mongo[n] + Booked /\ mongo[n] \in Nat
        /\ crashes \in Nat /\ Booked \in Nat /\ admitted[n] \in Nat
    BY CapacityAssumption DEF Crash, InsertShipped, TypeOK
  <2>6. Reinserted' = Reinserted + Booked /\ Reinserted \in Nat
    BY <2>5, TakenFacts DEF Crash, Reinserted
  <2>7. Limit(n)' = Limit(n) + Booked /\ Limit(n) \in Nat
    BY <1>1, <2>5, <2>6 DEF Limit
  <2> QED
    BY <2>3, <2>4, <2>5, <2>7
<1>4. StoreLimited'
  BY <1>3 DEF StoreLimited
<1>5. \A r \in Requests : PlanLimited(r)'
  BY <1>1 DEF PlanLimited, Asking
<1>6. NoSpuriousRefusal'
  <2>1. \A r \in Requests : pc'[r] = "refused" =>
          \E n \in NightsOf(stay'[r]) : TooFewAt(r, n)'
    BY <1>1, RefusalsStand DEF LimitInv
  <2> QED
    BY <2>1 DEF NoSpuriousRefusal, TooFewAt, Limit
<1> QED
  BY <1>2, <1>4, <1>5, <1>6 DEF LimitInv

LEMMA OtherStepsLimited ==
  ASSUME TypeOK, [Next]_vars, LimitInv,
         \/ \E c \in Checks : CheckAvailability(c)
         \/ \E n \in Nights : Evict(n)
         \/ UNCHANGED vars
  PROVE  LimitInv'
<1>1. /\ UNCHANGED <<mongo, pc, stay, planned, night, admitted, crashes>>
      /\ \A n \in Nights : memc'[n] = memc[n] \/ memc'[n] = Miss
  BY DEF CheckAvailability, Evict, vars, stores, locals, histories, faults, TypeOK
<1>2. CacheLimited'
  BY <1>1, CacheRests DEF LimitInv
<1>3. StoreLimited'
  <2>1. \A n \in Nights, q \in Requests : ToInsert(q, n)' => ToInsert(q, n)
    BY <1>1 DEF ToInsert
  <2> QED
    BY <1>1, <2>1, StoreRests DEF LimitInv
<1>4. \A r \in Requests : PlanLimited(r)'
  BY <1>1, RestingPlan DEF LimitInv
<1>5. NoSpuriousRefusal'
  <2>1. \A r \in Requests : pc'[r] = "refused" =>
          \E n \in NightsOf(stay'[r]) : TooFewAt(r, n)'
    BY <1>1, RefusalsStand DEF LimitInv
  <2> QED
    BY <2>1 DEF NoSpuriousRefusal, TooFewAt, Limit
<1> QED
  BY <1>2, <1>3, <1>4, <1>5 DEF LimitInv

LEMMA LimitedAtFirst == Init => LimitInv
<1> SUFFICES ASSUME Init PROVE LimitInv
  OBVIOUS
<1>1. \A r \in Requests : pc[r] = "idle" /\ \A n \in Nights : planned[r][n] = Miss
  BY DEF Init
<1>2. CacheLimited /\ (\A r \in Requests : PlanLimited(r)) /\ NoSpuriousRefusal
  BY <1>1 DEF Init, CacheLimited, PlanLimited, NoSpuriousRefusal
<1>3. ASSUME NEW n \in Nights
      PROVE  IsFiniteSet(Owed(n)) /\ mongo[n] + Cardinality(Owed(n)) <= Limit(n)
  <2>1. \A q \in Requests : ~ToInsert(q, n)
    BY <1>1 DEF ToInsert
  <2>2. Owed(n) = {}
    BY <2>1 DEF Owed
  <2>3. IsFiniteSet(Owed(n)) /\ Cardinality(Owed(n)) = 0
    BY <2>2, FS_EmptySet
  <2>4. mongo[n] = Booked /\ admitted[n] = 0 /\ crashes = 0 /\ Booked \in Nat
    BY CapacityAssumption DEF Init
  <2> QED
    BY <2>3, <2>4 DEF Limit, Reinserted
<1>4. StoreLimited
  BY <1>3 DEF StoreLimited
<1> QED
  BY <1>2, <1>4 DEF LimitInv

LEMMA StepKeepsLimits == IInv /\ LimitInv /\ [Next]_vars => LimitInv'
<1> SUFFICES ASSUME IInv, LimitInv, [Next]_vars PROVE LimitInv'
  OBVIOUS
<1>1. TypeOK /\ NothingPlanned
  BY DEF IInv
<1>2. CASE \E r \in Requests : MakeReservation(r)
  BY <1>1, <1>2, ReadLimited, CheckLimited, AdmitLimited, SetCountLimited,
     SetFailsLimited, StartInsertsLimited, InsertLimited DEF MakeReservation
<1>3. CASE Crash
  BY <1>1, <1>3, CrashLimited
<1>4. CASE \/ \E c \in Checks : CheckAvailability(c)
           \/ \E n \in Nights : Evict(n)
           \/ UNCHANGED vars
  BY <1>1, <1>4, OtherStepsLimited
<1> QED
  BY <1>2, <1>3, <1>4 DEF Next

(***************************************************************************)
(* A refused call has a night on which the rooms booked, and those of the  *)
(* calls admitted so far, leave it too few, however the calls interleave,  *)
(* whatever memcached evicts and wherever the service crashes              *)
(* (server.go:135-199).                                                    *)
(***************************************************************************)
THEOREM RefusalsHaveAReason == Spec => []NoSpuriousRefusal
<1>1. LimitInv => NoSpuriousRefusal
  BY DEF LimitInv
<1> QED
  BY InvariantHolds, LimitedAtFirst, StepKeepsLimits, <1>1, PTL DEF Spec

=============================================================================
