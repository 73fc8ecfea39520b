--------------------------- MODULE CatalogueProofs ---------------------------
(***************************************************************************)
(* Proofs about Catalogue: for any keys, names, scenarios and bounds.      *)
(* First the user services, whose state the others do not touch, then the  *)
(* documents.                                                              *)
(***************************************************************************)
EXTENDS Catalogue, FiniteSetTheorems, WellFoundedInduction, TLAPS

\* A set of numbers has a smallest member.
LEMMA SmallestOfSet ==
  ASSUME NEW T \in SUBSET Nat, T # {}
  PROVE  \E m \in T : \A k \in T : m <= k
<1> DEFINE R == {p \in Nat \X Nat : p[1] < p[2]}
<1>1. IsWellFoundedOn(R, Nat)
  BY NatLessThanWellFounded DEF OpToRel
<1>2. PICK m \in T : \A k \in T : <<k, m>> \notin R
  BY <1>1, WFMin
<1>3. \A k \in Nat : k < m => <<k, m>> \in R
  OBVIOUS
<1> HIDE DEF R
<1>4. \A k \in T : k \in Nat /\ m \in Nat /\ ~(k < m)
  BY <1>2, <1>3
<1>5. \A k \in T : m <= k
  BY <1>4
<1> QED
  BY <1>5

-----------------------------------------------------------------------------
(***************************************************************************)
(* The user services.                                                      *)
(***************************************************************************)

\* What is known of a name in memcached or by a call belongs to its account.
OfFirst(name, item, value) ==
  /\ Registered(name)
  /\ \/ value = Account(name)
     \/ value = Spoiled /\ item \in {"salt", "password"} /\ name \in spoiled

Person == {[name |-> Name(v), password |-> visit[v].password, user |-> visit[v].user] : v \in Visits}

\* What a call still has to keep is any sequence Keeps made.
SessionType(S) ==
  [at : {"idle", "look", "insert", "get id", "get password", "get salt", "get login", "find",
         "check", "upload", "set", "done", "refused", "failed"},
   found : [Items -> Nat \cup {None}], sets : S,
   answer : {"none", "token", "empty", "uploaded"}, known : BOOLEAN]

SessionsIn(S) == session \in [Visits -> SessionType(S)]

PeopleType == people \in Seq(Person)
KeptType == kept \in [Names -> [Items -> Nat \cup {None}]]
VisitsType ==
  \A v \in Visits : /\ visit[v].op \in UserOperations
                    /\ visit[v].op /= "UploadUserWithUserId" => Name(v) \in Names
UsersType == PeopleType /\ KeptType /\ VisitsType /\ \E S : SessionsIn(S)

KeptRight ==
  \A name \in Names, item \in Items :
    kept[name][item] /= None => OfFirst(name, item, kept[name][item])

\* Where a call can be, and that the name is registered from then on.
VisitPlaced(v, name) ==
  /\ session[v].at \in {"look", "insert"} => visit[v].op \in Registrations
  /\ session[v].at \in {"get id", "get password", "get salt", "get login", "find", "check"} =>
       visit[v].op \notin Registrations \cup {"UploadUserWithUserId"}
  /\ session[v].at \in {"check", "upload", "set"} =>
       visit[v].op = "UploadUserWithUserId" \/ Registered(name)
  /\ session[v].sets /= <<>> => visit[v].op /= "UploadUserWithUserId" /\ Registered(name)
  /\ session[v].known => Registered(name)
  /\ session[v].at \in {"idle", "get id", "get password", "get salt", "get login", "find", "check"} =>
       session[v].answer = "none"

FoundRight(v, name) ==
  \A item \in Items :
    session[v].found[item] /= None => OfFirst(name, item, session[v].found[item])

LoginRight(v, name) ==
  /\ session[v].answer = "token" =>
       Registered(name) /\ people[Account(name)].password = visit[v].password
  /\ session[v].answer = "empty" =>
       /\ Registered(name) /\ visit[v].op /= "SocialLogin"
       /\ people[Account(name)].user = 0 \/ (visit[v].op = "Login" /\ Partly(v))

RefusalRight(v, name) ==
  Place(v, "refused") =>
    IF visit[v].op \in Registrations THEN Registered(name)
    ELSE \/ ~session[v].known \/ name \in spoiled
         \/ /\ visit[v].op \in {"Login", "SocialLogin"} /\ Registered(name)
            /\ people[Account(name)].password /= visit[v].password

VisitRight(v) ==
  \A name : name = Name(v) =>
    /\ VisitPlaced(v, name) /\ FoundRight(v, name)
    /\ LoginRight(v, name) /\ RefusalRight(v, name)

UsersInv == UsersType /\ KeptRight /\ \A v \in Visits : VisitRight(v)

\* The first account with a name, and that no other is.
LEMMA AccountIsFirst ==
  ASSUME UsersType, NEW name, Registered(name)
  PROVE  /\ Account(name) \in DOMAIN people
         /\ people[Account(name)].name = name
         /\ \A j \in 1 .. (Account(name) - 1) : people[j].name /= name
<1> DEFINE T == {i \in DOMAIN people : people[i].name = name}
<1>1. DOMAIN people = 1 .. Len(people) /\ Len(people) \in Nat
  BY DEF UsersType, PeopleType, KeptType, VisitsType
<1>2. T \in SUBSET Nat /\ T # {}
  BY <1>1 DEF Registered
<1>3. PICK m \in T : \A k \in T : m <= k
  BY <1>2, SmallestOfSet
<1>4. \A j \in 1 .. (m - 1) : people[j].name /= name
  <2> SUFFICES ASSUME NEW j \in 1 .. (m - 1), people[j].name = name
               PROVE  FALSE
    OBVIOUS
  <2>1. j \in T /\ j < m
    BY <1>1, <1>2, <1>3
  <2> QED
    BY <2>1, <1>1, <1>3
<1>5. \E i \in DOMAIN people : people[i].name = name /\ \A j \in 1 .. (i - 1) : people[j].name /= name
  BY <1>3, <1>4
<1> QED
  BY <1>5 DEF Account

\* A document put after the others changes no account that is there.
AccountsStay ==
  \A name : Registered(name) =>
    /\ Registered(name)'
    /\ \A i \in {Account(name)} : Account(name)' = i /\ people'[i] = people[i]

LEMMA InsertKeepsAccounts ==
  ASSUME UsersType, UsersType', NEW person \in Person, people' = Append(people, person)
  PROVE  AccountsStay
<1> SUFFICES ASSUME NEW name, Registered(name), NEW i, i = Account(name)
             PROVE  Registered(name)' /\ Account(name)' = i /\ people'[i] = people[i]
  BY DEF AccountsStay
<1>1. DOMAIN people = 1 .. Len(people) /\ Len(people) \in Nat /\ people \in Seq(Person)
  BY DEF UsersType, PeopleType, KeptType, VisitsType
<1>2. i \in DOMAIN people /\ people[i].name = name /\ \A j \in 1 .. (i - 1) : people[j].name /= name
  BY AccountIsFirst
<1>3. /\ Len(people') = Len(people) + 1 /\ DOMAIN people' = 1 .. (Len(people) + 1)
      /\ \A j \in 1 .. Len(people) : people'[j] = people[j]
  BY <1>1
<1>4. i \in DOMAIN people' /\ people'[i] = people[i]
  BY <1>1, <1>2, <1>3
<1>5. \A j \in 1 .. (i - 1) : people'[j].name /= name
  BY <1>1, <1>2, <1>3
<1>6. people'[i].name = name
  BY <1>2, <1>4
<1>7. Registered(name)'
  BY <1>4, <1>6 DEF Registered
<1>8. Account(name)' = i
  <2>1. PICK a : a = Account(name)'
    OBVIOUS
  <2>2. \E k \in DOMAIN people' : /\ people'[k].name = name
                                  /\ \A j \in 1 .. (k - 1) : people'[j].name /= name
    BY <1>4, <1>5, <1>6
  <2>3. a \in DOMAIN people' /\ people'[a].name = name
        /\ \A j \in 1 .. (a - 1) : people'[j].name /= name
    BY <2>1, <2>2 DEF Account
  <2>4. ~(a < i) /\ ~(i < a) /\ a \in Nat /\ i \in Nat
    BY <1>1, <1>2, <1>3, <1>5, <1>6, <2>3
  <2> QED
    BY <2>1, <2>4
<1> QED
  BY <1>4, <1>7, <1>8

LEMMA SameAccounts == UNCHANGED people => AccountsStay
BY DEF AccountsStay, Registered, Account

-----------------------------------------------------------------------------
\* What no step of the user services undoes.
UsersGrow == AccountsStay /\ spoiled \subseteq spoiled' /\ UNCHANGED visit

LEMMA OfFirstStays ==
  ASSUME UsersGrow, NEW name, NEW item, NEW value, OfFirst(name, item, value)
  PROVE  OfFirst(name, item, value)'
BY DEF UsersGrow, AccountsStay, OfFirst

LEMMA KeptStays ==
  ASSUME UsersGrow, KeptRight, UNCHANGED kept
  PROVE  KeptRight'
<1> SUFFICES ASSUME NEW name \in Names, NEW item \in Items, NEW value,
                    value = kept[name][item], value /= None
             PROVE  OfFirst(name, item, value)'
  BY DEF KeptRight, OfFirst
<1>1. OfFirst(name, item, value)
  BY DEF KeptRight
<1> QED
  BY <1>1, OfFirstStays

\* A call that does not move stays right.
LEMMA VisitStays ==
  ASSUME UsersGrow, NEW v \in Visits, session'[v] = session[v], VisitRight(v)
  PROVE  VisitRight(v)'
<1> SUFFICES ASSUME NEW name, name = Name(v)
             PROVE  /\ VisitPlaced(v, name)' /\ FoundRight(v, name)'
                    /\ LoginRight(v, name)' /\ RefusalRight(v, name)'
  BY DEF VisitRight, Name, UsersGrow
<1>1. VisitPlaced(v, name) /\ FoundRight(v, name) /\ LoginRight(v, name) /\ RefusalRight(v, name)
  BY DEF VisitRight
<1>2. visit' = visit /\ spoiled \subseteq spoiled'
  BY DEF UsersGrow
<1>3. Registered(name) =>
        Registered(name)' /\ people'[Account(name)'] = people[Account(name)]
  BY DEF UsersGrow, AccountsStay
<1>4. VisitPlaced(v, name)'
  BY <1>1, <1>2, <1>3 DEF VisitPlaced
<1>5. FoundRight(v, name)'
  <2> SUFFICES ASSUME NEW item \in Items, NEW value, value = session[v].found[item], value /= None
               PROVE  OfFirst(name, item, value)'
    BY DEF FoundRight, OfFirst
  <2> QED
    BY <1>1, OfFirstStays DEF FoundRight
<1>6. Partly(v)' <=> Partly(v)
  BY <1>2 DEF Partly, Needs
<1>7. LoginRight(v, name)'
  BY <1>1, <1>2, <1>3, <1>6 DEF LoginRight
<1>8. RefusalRight(v, name)'
  BY <1>1, <1>2, <1>3 DEF RefusalRight, Place
<1> QED
  BY <1>4, <1>5, <1>7, <1>8

LEMMA SameNames ==
  ASSUME UNCHANGED people
  PROVE  \A name : (Registered(name)' <=> Registered(name)) /\ Account(name)' = Account(name)
BY DEF Registered, Account

LEMMA SessionFields ==
  ASSUME NEW S, NEW r \in SessionType(S)
  PROVE  /\ r.at \in {"idle", "look", "insert", "get id", "get password", "get salt", "get login",
                     "find", "check", "upload", "set", "done", "refused", "failed"}
         /\ r.found \in [Items -> Nat \cup {None}] /\ r.sets \in S
         /\ r.answer \in {"none", "token", "empty", "uploaded"} /\ r.known \in BOOLEAN
BY DEF SessionType

LEMMA SessionsWith ==
  ASSUME UsersInv, NEW sets
  PROVE  \E S : sets \in S /\ session \in [Visits -> SessionType(S)]
<1>1. PICK S : session \in [Visits -> SessionType(S)]
  BY DEF UsersInv, UsersType, PeopleType, KeptType, VisitsType, SessionsIn
<1>2. \A r \in SessionType(S) : r \in SessionType(S \cup {sets})
  BY DEF SessionType
<1> QED
  BY <1>1, <1>2

\* Most steps only move their call.
LEMMA VisitMoves ==
  ASSUME UsersInv, NEW v \in Visits, NEW S, session \in [Visits -> SessionType(S)],
         NEW r \in SessionType(S), session' = [session EXCEPT ![v] = r],
         UNCHANGED <<visit, people, kept>>, spoiled \subseteq spoiled', VisitRight(v)'
  PROVE  UsersInv'
<1>1. UsersGrow
  BY SameAccounts DEF UsersGrow
<1>2. UsersType'
  <2>1. session' \in [Visits -> SessionType(S)]
    OBVIOUS
  <2>2. people' \in Seq(Person) /\ Visits' = Visits /\ Person' = Person
    BY DEF UsersInv, UsersType, PeopleType, KeptType, VisitsType, Visits, Name, Person
  <2>3. kept' \in [Names -> [Items -> Nat \cup {None}]]
    BY DEF UsersInv, UsersType, PeopleType, KeptType, VisitsType
  <2>5. SessionsIn(S)'
    BY <2>1, <2>2 DEF SessionsIn
  <2>6. PeopleType'
    BY <2>2 DEF PeopleType
  <2>7. KeptType'
    BY <2>3 DEF KeptType
  <2>8. VisitsType'
    BY DEF UsersInv, UsersType, VisitsType, Name, Visits
  <2> QED
    BY <2>5, <2>6, <2>7, <2>8 DEF UsersType
<1>3. KeptRight'
  BY <1>1, KeptStays DEF UsersInv
<1>4. \A u \in Visits : u # v => session'[u] = session[u]
  OBVIOUS
<1>5. \A u \in Visits : VisitRight(u)'
  BY <1>1, <1>4, VisitStays DEF UsersInv
<1> QED
  BY <1>2, <1>3, <1>5 DEF UsersInv, Visits

\* The same, when what was found stays and there is no answer yet or no new one.
LEMMA PlaceMoves ==
  ASSUME UsersInv, NEW v \in Visits, NEW S, session \in [Visits -> SessionType(S)],
         NEW r \in SessionType(S), session' = [session EXCEPT ![v] = r],
         UNCHANGED <<visit, people, kept, spoiled>>,
         r.found = session[v].found, r.answer = session[v].answer,
         NEW name, name = Name(v), VisitPlaced(v, name)', RefusalRight(v, name)'
  PROVE  UsersInv'
<1>1. VisitPlaced(v, name) /\ FoundRight(v, name) /\ LoginRight(v, name)
  BY DEF UsersInv, VisitRight
<1>2. session'[v] = r
  BY DEF UsersInv, UsersType, PeopleType, KeptType, VisitsType
<1>3. UsersGrow
  BY SameAccounts DEF UsersGrow
<1>4. FoundRight(v, name)'
  <2> SUFFICES ASSUME NEW item \in Items, NEW value, value = session[v].found[item], value /= None
               PROVE  OfFirst(name, item, value)'
    BY <1>2 DEF FoundRight, OfFirst
  <2> QED
    BY <1>1, <1>3, OfFirstStays DEF FoundRight
<1>5. Partly(v)' <=> Partly(v)
  BY <1>2 DEF Partly, Needs
<1>6. LoginRight(v, name)'
  BY <1>1, <1>2, <1>5, SameNames DEF LoginRight
<1>7. VisitRight(v)'
  BY <1>4, <1>6 DEF VisitRight, Name
<1> QED
  BY <1>7, VisitMoves

LEMMA BeginVisitStep ==
  ASSUME UsersInv, NEW v \in Visits, BeginVisit(v)
  PROVE  UsersInv'
<1> DEFINE place == CASE visit[v].op \in Registrations -> "look"
                   [] visit[v].op \in {"UploadUserWithUsername", "GetUserId"} -> "get id"
                   [] visit[v].op = "UploadUserWithUserId" -> "upload"
                   [] visit[v].op = "Login" -> "get password"
                   [] visit[v].op = "SocialLogin" -> "get login"
           r == [session[v] EXCEPT !.known = Registered(Name(v)), !.at = place]
<1>0. PICK S : session \in [Visits -> SessionType(S)]
  BY DEF UsersInv, UsersType, PeopleType, KeptType, VisitsType, SessionsIn
<1>1. visit[v].op \in UserOperations /\ session[v] \in SessionType(S)
  BY <1>0 DEF UsersInv, UsersType, PeopleType, KeptType, VisitsType
<1>2. /\ place \in {"look", "get id", "upload", "get password", "get login"}
      /\ place = "look" => visit[v].op \in Registrations
      /\ place = "upload" => visit[v].op = "UploadUserWithUserId"
      /\ place \in {"get id", "get password", "get login"} =>
           visit[v].op \notin Registrations \cup {"UploadUserWithUserId"}
  BY <1>1 DEF UserOperations, Registrations
<1> HIDE DEF place
<1>3. PICK known \in BOOLEAN : known = Registered(Name(v))
  BY DEF Registered
<1>4. r = [session[v] EXCEPT !.known = known, !.at = place]
  BY <1>3
<1>5. r \in SessionType(S)
  BY <1>1, <1>2, <1>4 DEF SessionType
<1>6. r.found = session[v].found /\ r.answer = session[v].answer
      /\ r.sets = session[v].sets /\ r.known = known /\ r.at = place
  BY <1>1, <1>4 DEF SessionType
<1>7. session' = [session EXCEPT ![v] = r]
  <2>1. session' = [session EXCEPT ![v].known = Registered(Name(v)), ![v].at = place]
    BY DEF BeginVisit, place
  <2>2. PICK p : p = place
    OBVIOUS
  <2>3. session' = [session EXCEPT ![v].known = known, ![v].at = p]
    BY <1>3, <2>1, <2>2
  <2> QED
    BY <1>0, <1>1, <1>4, <2>2, <2>3 DEF SessionType
<1> HIDE DEF r
<1>8. session'[v] = r
  BY <1>0, <1>7
<1>9. session[v].at = "idle" /\ UNCHANGED <<visit, people, kept, spoiled>>
  BY DEF BeginVisit, Place
<1>10. PICK name : name = Name(v)
  OBVIOUS
<1>11. VisitPlaced(v, name)
  BY <1>10 DEF UsersInv, VisitRight
<1>12. VisitPlaced(v, name)'
  BY <1>2, <1>3, <1>6, <1>8, <1>9, <1>10, <1>11, SameNames DEF VisitPlaced
<1>13. RefusalRight(v, name)'
  BY <1>2, <1>6, <1>8 DEF RefusalRight, Place
<1> QED
  BY <1>0, <1>5, <1>6, <1>7, <1>9, <1>10, <1>12, <1>13, PlaceMoves

\* The same, when only the place changes.
LEMMA VisitGoes ==
  ASSUME UsersInv, NEW v \in Visits, NEW place, Moves(v, place),
         place \in {"look", "insert", "find", "check", "upload", "set", "done", "refused", "failed"},
         UNCHANGED <<visit, people, kept, spoiled>>,
         NEW name, name = Name(v),
         place \in {"look", "insert"} => visit[v].op \in Registrations,
         place \in {"find", "check"} =>
           visit[v].op \notin Registrations \cup {"UploadUserWithUserId"} /\ session[v].answer = "none",
         place \in {"check", "upload", "set"} =>
           visit[v].op = "UploadUserWithUserId" \/ Registered(name),
         place = "refused" =>
           IF visit[v].op \in Registrations THEN Registered(name) ELSE ~session[v].known
  PROVE  UsersInv'
<1> DEFINE r == [session[v] EXCEPT !.at = place]
<1>0. PICK S : session \in [Visits -> SessionType(S)]
  BY DEF UsersInv, UsersType, PeopleType, KeptType, VisitsType, SessionsIn
<1>1. session[v] \in SessionType(S)
  BY <1>0
<1>2. r \in SessionType(S) /\ session' = [session EXCEPT ![v] = r]
  BY <1>0, <1>1 DEF Moves, SessionType
<1>3. r.at = place /\ r.found = session[v].found /\ r.answer = session[v].answer
      /\ r.sets = session[v].sets /\ r.known = session[v].known
  BY <1>1 DEF SessionType
<1> HIDE DEF r
<1>4. session'[v] = r
  BY <1>0, <1>2
<1>5. VisitPlaced(v, name)
  BY DEF UsersInv, VisitRight
<1>6. VisitPlaced(v, name)'
  BY <1>3, <1>4, <1>5, SameNames DEF VisitPlaced
<1>7. RefusalRight(v, name)'
  BY <1>3, <1>4, SameNames DEF RefusalRight, Place
<1> QED
  BY <1>0, <1>2, <1>3, <1>6, <1>7, PlaceMoves

LEMMA LookForNameStep ==
  ASSUME UsersInv, NEW v \in Visits, visit[v].op \in Registrations, LookForName(v)
  PROVE  UsersInv'
<1>1. PICK name : name = Name(v)
  OBVIOUS
<1>2. CASE Registered(name)
  <2>1. Moves(v, "refused") /\ UNCHANGED <<visit, people, kept, spoiled>>
    BY <1>1, <1>2 DEF LookForName
  <2> QED
    BY <1>1, <1>2, <2>1, VisitGoes
<1>3. CASE ~Registered(name)
  <2>1. Moves(v, "insert") /\ UNCHANGED <<visit, people, kept, spoiled>>
    BY <1>1, <1>3 DEF LookForName
  <2> QED
    BY <1>1, <2>1, VisitGoes
<1> QED
  BY <1>2, <1>3

\* A document is added whether the call is told so or not.
LEMMA AddsPersonStep ==
  ASSUME UsersInv, NEW v \in Visits, AddsPerson(v), UNCHANGED <<visit, kept, spoiled>>,
         NEW place \in {"done", "failed"}, Moves(v, place)
  PROVE  UsersInv'
<1> DEFINE person == [name |-> Name(v), password |-> visit[v].password, user |-> visit[v].user]
           r == [session[v] EXCEPT !.at = place]
<1>1. person \in Person
  BY DEF Person
<1>2. people' = Append(people, person)
  BY DEF AddsPerson
<1> HIDE DEF person
<1>3. visit' = visit /\ kept' = kept /\ spoiled' = spoiled
  OBVIOUS
<1>0. PICK S : session \in [Visits -> SessionType(S)]
  BY DEF UsersInv, UsersType, PeopleType, KeptType, VisitsType, SessionsIn
<1>4. session[v] \in SessionType(S)
  BY <1>0
<1>5. r \in SessionType(S) /\ session' = [session EXCEPT ![v] = r]
  BY <1>0, <1>4 DEF Moves, SessionType
<1>6. r.at \in {"done", "failed"} /\ r.found = session[v].found /\ r.answer = session[v].answer
      /\ r.sets = session[v].sets /\ r.known = session[v].known
  BY <1>4 DEF SessionType
<1> HIDE DEF r
<1>7. UsersType'
  <2>1. people' \in Seq(Person)
    BY <1>1, <1>2 DEF UsersInv, UsersType, PeopleType, KeptType, VisitsType
  <2>2. Person' = Person /\ Visits' = Visits
    BY <1>3 DEF Person, Visits, Name
  <2>3. session' \in [Visits -> SessionType(S)]
    BY <1>0, <1>5
  <2>4. \A u \in Visits : /\ visit'[u].op \in UserOperations
                         /\ visit'[u].op /= "UploadUserWithUserId" => Name(u)' \in Names
    BY <1>3 DEF UsersInv, UsersType, PeopleType, KeptType, VisitsType, Name
  <2>5. SessionsIn(S)'
    BY <2>2, <2>3 DEF SessionsIn
  <2>6. PeopleType' /\ KeptType' /\ VisitsType'
    BY <1>3, <2>1, <2>2, <2>4 DEF UsersInv, UsersType, PeopleType, KeptType, VisitsType
  <2> QED
    BY <2>5, <2>6 DEF UsersType
<1>8. UsersGrow
  <2>1. UsersType
    BY DEF UsersInv
  <2> QED
    BY <1>1, <1>2, <1>3, <1>7, <2>1, InsertKeepsAccounts DEF UsersGrow
<1>9. KeptRight'
  BY <1>3, <1>8, KeptStays DEF UsersInv
<1>10. session'[v] = r /\ \A u \in Visits : u # v => session'[u] = session[u]
  BY <1>0, <1>5
<1>11. VisitRight(v)'
  <2> SUFFICES ASSUME NEW name, name = Name(v)
               PROVE  /\ VisitPlaced(v, name)' /\ FoundRight(v, name)'
                      /\ LoginRight(v, name)' /\ RefusalRight(v, name)'
    BY <1>3 DEF VisitRight, Name
  <2>1. VisitPlaced(v, name) /\ FoundRight(v, name) /\ LoginRight(v, name)
    BY DEF UsersInv, VisitRight
  <2>2. Registered(name) =>
          Registered(name)' /\ people'[Account(name)'] = people[Account(name)]
    BY <1>8 DEF UsersGrow, AccountsStay
  <2>3. VisitPlaced(v, name)'
    BY <1>3, <1>6, <1>10, <2>1, <2>2 DEF VisitPlaced
  <2>4. FoundRight(v, name)'
    <3> SUFFICES ASSUME NEW item \in Items, NEW value, value = session[v].found[item], value /= None
                 PROVE  OfFirst(name, item, value)'
      BY <1>6, <1>10 DEF FoundRight, OfFirst
    <3> QED
      BY <1>8, <2>1, OfFirstStays DEF FoundRight
  <2>5. Partly(v)' <=> Partly(v)
    BY <1>3, <1>6, <1>10 DEF Partly, Needs
  <2>6. LoginRight(v, name)'
    BY <1>3, <1>6, <1>10, <2>1, <2>2, <2>5 DEF LoginRight
  <2>7. RefusalRight(v, name)'
    BY <1>6, <1>10 DEF RefusalRight, Place
  <2> QED
    BY <2>3, <2>4, <2>6, <2>7
<1>12. \A u \in Visits : VisitRight(u)'
  BY <1>8, <1>10, <1>11, VisitStays DEF UsersInv
<1> QED
  BY <1>3, <1>7, <1>9, <1>12 DEF UsersInv, Visits

LEMMA InsertUserStep ==
  ASSUME UsersInv, NEW v \in Visits, InsertUser(v)
  PROVE  UsersInv'
BY AddsPersonStep DEF InsertUser

LEMMA InsertFailsStep ==
  ASSUME UsersInv, NEW v \in Visits, InsertFails(v)
  PROVE  UsersInv'
BY AddsPersonStep DEF InsertFails

LEMMA FindsNobodyStep ==
  ASSUME UsersInv, NEW v \in Visits, FindsNobody(v)
  PROVE  UsersInv'
<1>1. PICK name : name = Name(v)
  OBVIOUS
<1>2. visit[v].op \in Registrations
  BY <1>1 DEF UsersInv, VisitRight, VisitPlaced, FindsNobody, Place
<1> QED
  BY <1>1, <1>2, VisitGoes DEF FindsNobody

LEMMA UseType ==
  ASSUME NEW v \in Visits, visit[v].op \in UserOperations,
         visit[v].op \notin Registrations \cup {"UploadUserWithUserId"}
  PROVE  Use(v) \in {"check", "upload", "set"}
BY DEF Use, UserOperations

\* A call that has found enough has found something.
LEMMA NeedsSomething ==
  ASSUME NEW v \in Visits
  PROVE  ToSet(Needs(v)) /= {}
<1>1. CASE visit[v].op = "Login"
  <2>1. Needs(v) = <<"salt", "password", "id">>
    BY <1>1 DEF Needs
  <2>2. "salt" \in ToSet(Needs(v))
    BY <2>1 DEF ToSet
  <2> QED
    BY <2>2
<1>2. CASE visit[v].op = "SocialLogin"
  <2>1. Needs(v) = <<"login">>
    BY <1>2 DEF Needs
  <2>2. "login" \in ToSet(Needs(v))
    BY <2>1 DEF ToSet
  <2> QED
    BY <2>2
<1>3. CASE visit[v].op \notin {"Login", "SocialLogin"}
  <2>1. Needs(v) = <<"id">>
    BY <1>3 DEF Needs
  <2>2. "id" \in ToSet(Needs(v))
    BY <2>1 DEF ToSet
  <2> QED
    BY <2>2
<1> QED
  BY <1>1, <1>2, <1>3

\* A call that has moved without an answer, or to a refusal.
LEMMA LookUpMoves ==
  ASSUME UsersInv, NEW v \in Visits, NEW S, session \in [Visits -> SessionType(S)],
         NEW r \in SessionType(S), session' = [session EXCEPT ![v] = r],
         UNCHANGED <<visit, people, kept, spoiled>>,
         NEW name, name = Name(v), visit[v].op \notin Registrations \cup {"UploadUserWithUserId"},
         r.answer = "none", r.known = session[v].known, r.sets = session[v].sets \/ Registered(name),
         r.at \notin {"look", "insert", "refused"}, r.at \in {"check", "upload", "set"} => Registered(name),
         \A item \in Items : r.found[item] /= None => OfFirst(name, item, r.found[item])
  PROVE  UsersInv'
<1>1. session'[v] = r
  OBVIOUS
<1>2. VisitPlaced(v, name)
  BY DEF UsersInv, VisitRight
<1>3. VisitPlaced(v, name)'
  BY <1>1, <1>2, SameNames DEF VisitPlaced
<1>4. FoundRight(v, name)'
  <2>1. UsersGrow
    BY SameAccounts DEF UsersGrow
  <2> SUFFICES ASSUME NEW item \in Items, NEW value, value = r.found[item], value /= None
               PROVE  OfFirst(name, item, value)'
    BY <1>1 DEF FoundRight, OfFirst
  <2> QED
    BY <2>1, OfFirstStays
<1>5. LoginRight(v, name)' /\ RefusalRight(v, name)'
  BY <1>1 DEF LoginRight, RefusalRight, Place
<1>6. VisitRight(v)'
  BY <1>3, <1>4, <1>5 DEF VisitRight, Name
<1> QED
  BY <1>6, VisitMoves

LEMMA ItemPlaces ==
  /\ \A item \in Items : Gets[item] \in {"get password", "get salt", "get id", "get login"}
  /\ \A item \in DOMAIN After : After[item] \in {"get salt", "get id"}
<1>1. /\ Gets["id"] = "get id" /\ Gets["salt"] = "get salt"
      /\ Gets["password"] = "get password" /\ Gets["login"] = "get login"
  BY DEF Gets
<1>2. After["password"] = "get salt" /\ After["salt"] = "get id" /\ DOMAIN After = {"password", "salt"}
  BY DEF After
<1>3. \A item \in Items : item = "id" \/ item = "salt" \/ item = "password" \/ item = "login"
  BY DEF Items
<1> QED
  BY <1>1, <1>2, <1>3

LEMMA GetItemStep ==
  ASSUME UsersInv, NEW v \in Visits, visit[v].op \in UserOperations, GetItem(v)
  PROVE  UsersInv'
<1>0. PICK S : session \in [Visits -> SessionType(S)]
  BY DEF UsersInv, UsersType, SessionsIn
<1>1. PICK item \in Items :
        /\ Place(v, Gets[item])
        /\ session' = [session EXCEPT ![v].found = [session[v].found EXCEPT ![item] = kept[Name(v)][item]],
              ![v].at = IF item \in DOMAIN After THEN After[item]
                        ELSE IF Enough(v, [session[v].found EXCEPT ![item] = kept[Name(v)][item]])
                             THEN Use(v) ELSE "find"]
        /\ UNCHANGED <<visit, people, kept, spoiled>>
  BY DEF GetItem
<1>2. PICK name : name = Name(v)
  OBVIOUS
<1>3. session[v].at \in {"get password", "get salt", "get id", "get login"}
  BY <1>1, ItemPlaces DEF Place
<1>4. VisitPlaced(v, name) /\ FoundRight(v, name)
  BY <1>2 DEF UsersInv, VisitRight
<1>5. /\ visit[v].op \notin Registrations \cup {"UploadUserWithUserId"}
      /\ session[v].answer = "none"
  BY <1>3, <1>4 DEF VisitPlaced
<1>6. name \in Names
  BY <1>2, <1>5 DEF UsersInv, UsersType, VisitsType
<1>7. PICK value : value = kept[name][item]
  OBVIOUS
<1>8. value \in Nat \cup {None} /\ (value /= None => OfFirst(name, item, value))
  BY <1>6, <1>7 DEF UsersInv, UsersType, KeptType, KeptRight
<1>9. session[v] \in SessionType(S)
  BY <1>0
<1>10. PICK found : found = [session[v].found EXCEPT ![item] = value]
  OBVIOUS
<1>11. /\ found \in [Items -> Nat \cup {None}]
       /\ \A i \in Items : found[i] = IF i = item THEN value ELSE session[v].found[i]
  BY <1>8, <1>9, <1>10 DEF SessionType
<1>12. \A i \in Items : found[i] /= None => OfFirst(name, i, found[i])
  BY <1>4, <1>8, <1>11 DEF FoundRight
<1>13. PICK place : place = IF item \in DOMAIN After THEN After[item]
                           ELSE IF Enough(v, found) THEN Use(v) ELSE "find"
  OBVIOUS
<1>14. place \in {"get salt", "get id", "check", "upload", "set", "find"}
  <2>1. CASE item \in DOMAIN After
    BY <1>13, <2>1, ItemPlaces
  <2>2. CASE item \notin DOMAIN After
    BY <1>5, <1>13, <2>2, UseType
  <2> QED
    BY <2>1, <2>2
<1>15. place \in {"check", "upload", "set"} => Registered(name)
  <2> SUFFICES ASSUME place \in {"check", "upload", "set"}
               PROVE  Registered(name)
    OBVIOUS
  <2>1. item \notin DOMAIN After /\ Enough(v, found)
    BY <1>13, ItemPlaces
  <2>2. Cached(found) /= {}
    BY <2>1, NeedsSomething DEF Enough
  <2>3. PICK i \in Items : found[i] /= None
    BY <2>2 DEF Cached
  <2> QED
    BY <1>12, <2>3 DEF OfFirst
<1> DEFINE r == [session[v] EXCEPT !.found = found, !.at = place]
<1>16. r \in SessionType(S)
  BY <1>9, <1>11, <1>14 DEF SessionType
<1>17. r.answer = "none" /\ r.sets = session[v].sets /\ r.known = session[v].known
       /\ r.found = found /\ r.at = place
  BY <1>5, <1>9 DEF SessionType
<1>18. session' = [session EXCEPT ![v] = r]
  <2>1. session' = [session EXCEPT ![v].found = found, ![v].at = place]
    BY <1>1, <1>2, <1>7, <1>10, <1>13
  <2> QED
    BY <1>0, <1>9, <2>1 DEF SessionType
<1> HIDE DEF r
<1> QED
  BY <1>0, <1>1, <1>2, <1>5, <1>12, <1>14, <1>15, <1>16, <1>17, <1>18, LookUpMoves

LEMMA FindUserStep ==
  ASSUME UsersInv, NEW v \in Visits, visit[v].op \in UserOperations, FindUser(v)
  PROVE  UsersInv'
<1>1. PICK name : name = Name(v)
  OBVIOUS
<1>2. session[v].at = "find" /\ UNCHANGED <<visit, people, kept, spoiled>>
  BY DEF FindUser, Place
<1>3. VisitPlaced(v, name) /\ FoundRight(v, name)
  BY <1>1 DEF UsersInv, VisitRight
<1>4. visit[v].op \notin Registrations \cup {"UploadUserWithUserId"} /\ session[v].answer = "none"
  BY <1>2, <1>3 DEF VisitPlaced
<1>5. CASE ~Registered(name)
  <2>1. Moves(v, "refused")
    BY <1>1, <1>5 DEF FindUser
  <2>2. ~session[v].known
    BY <1>3, <1>5 DEF VisitPlaced
  <2> QED
    BY <1>1, <1>2, <1>4, <2>1, <2>2, VisitGoes
<1>6. CASE Registered(name)
  <2>1. session' = [session EXCEPT ![v].at = Use(v), ![v].sets = Keeps(v)]
    BY <1>1, <1>6 DEF FindUser
  <2>2. PICK sets : sets = Keeps(v)
    OBVIOUS
  <2>3. PICK S : sets \in S /\ session \in [Visits -> SessionType(S)]
    BY SessionsWith
  <2>4. PICK place \in {"check", "upload", "set"} : place = Use(v)
    BY <1>4, UseType
  <2>5. session[v] \in SessionType(S)
    BY <2>3
  <2> DEFINE r == [session[v] EXCEPT !.at = place, !.sets = sets]
  <2>6. r \in SessionType(S) /\ r.answer = session[v].answer /\ r.known = session[v].known
        /\ r.found = session[v].found /\ r.at = place
    BY <2>3, <2>4, <2>5 DEF SessionType
  <2>7. session' = [session EXCEPT ![v] = r]
    BY <2>1, <2>2, <2>3, <2>4, <2>5 DEF SessionType
  <2> HIDE DEF r
  <2>8. \A item \in Items : r.found[item] /= None => OfFirst(name, item, r.found[item])
    BY <1>3, <2>6 DEF FoundRight
  <2> QED
    BY <1>1, <1>2, <1>4, <1>6, <2>3, <2>4, <2>6, <2>7, <2>8, LookUpMoves
<1> QED
  BY <1>5, <1>6

\* An answer that is right when it is given.
LEMMA AnswerMoves ==
  ASSUME UsersInv, NEW v \in Visits, NEW answer \in {"token", "empty", "uploaded"},
         session' = [session EXCEPT ![v].at = "set", ![v].answer = answer],
         UNCHANGED <<visit, people, kept>>, spoiled \subseteq spoiled',
         NEW name, name = Name(v),
         visit[v].op = "UploadUserWithUserId" \/ Registered(name),
         answer = "token" => Registered(name) /\ people[Account(name)].password = visit[v].password,
         answer = "empty" =>
           /\ Registered(name) /\ visit[v].op /= "SocialLogin"
           /\ people[Account(name)].user = 0 \/ (visit[v].op = "Login" /\ Partly(v))
  PROVE  UsersInv'
<1>0. PICK S : session \in [Visits -> SessionType(S)]
  BY DEF UsersInv, UsersType, SessionsIn
<1>1. session[v] \in SessionType(S)
  BY <1>0
<1> DEFINE r == [session[v] EXCEPT !.at = "set", !.answer = answer]
<1>2. r \in SessionType(S) /\ r.answer = answer /\ r.known = session[v].known
      /\ r.found = session[v].found /\ r.at = "set" /\ r.sets = session[v].sets
  BY <1>1 DEF SessionType
<1>3. session' = [session EXCEPT ![v] = r]
  BY <1>0, <1>1 DEF SessionType
<1> HIDE DEF r
<1>4. session'[v] = r
  BY <1>0, <1>3
<1>5. VisitPlaced(v, name) /\ FoundRight(v, name)
  BY DEF UsersInv, VisitRight
<1>6. VisitPlaced(v, name)'
  BY <1>2, <1>4, <1>5, SameNames DEF VisitPlaced
<1>7. FoundRight(v, name)'
  <2>1. UsersGrow
    BY SameAccounts DEF UsersGrow
  <2> SUFFICES ASSUME NEW item \in Items, NEW value, value = session[v].found[item], value /= None
               PROVE  OfFirst(name, item, value)'
    BY <1>2, <1>4 DEF FoundRight, OfFirst
  <2> QED
    BY <1>5, <2>1, OfFirstStays DEF FoundRight
<1>8. Partly(v)' <=> Partly(v)
  BY <1>2, <1>4 DEF Partly, Needs
<1>9. LoginRight(v, name)' /\ RefusalRight(v, name)'
  BY <1>2, <1>4, <1>8, SameNames DEF LoginRight, RefusalRight, Place
<1>10. VisitRight(v)'
  BY <1>6, <1>7, <1>9 DEF VisitRight, Name
<1> QED
  BY <1>0, <1>2, <1>3, <1>10, VisitMoves

\* A value Login or SocialLogin checks is of the account, or spoiled.
LEMMA ValueOfFirst ==
  ASSUME UsersInv, NEW v \in Visits, visit[v].op \in {"Login", "SocialLogin"},
         NEW item \in {"salt", "password"}, NEW value \in Value(v, item)
  PROVE  value = Account(Name(v)) \/ value = Spoiled
<1> DEFINE needed == IF visit[v].op = "SocialLogin" THEN "login" ELSE item
<1>1. needed \in Items
  BY DEF Items
<1>2. CASE session[v].found[needed] = None
  <2>1. value \in Rest(v, needed)
    BY <1>2 DEF Value
  <2> QED
    BY <2>1 DEF Rest
<1>3. CASE session[v].found[needed] /= None
  <2>1. value = session[v].found[needed]
    BY <1>3 DEF Value
  <2> HIDE DEF needed
  <2>2. OfFirst(Name(v), needed, value)
    BY <1>1, <1>3, <2>1 DEF UsersInv, VisitRight, FoundRight
  <2> QED
    BY <2>2 DEF OfFirst
<1> QED
  BY <1>2, <1>3

LEMMA CheckStep ==
  ASSUME UsersInv, NEW v \in Visits, visit[v].op \in {"Login", "SocialLogin"}, Check(v)
  PROVE  UsersInv'
<1>1. PICK name : name = Name(v)
  OBVIOUS
<1>2. session[v].at = "check" /\ UNCHANGED <<visit, people, kept>>
  BY DEF Check, Place
<1>3. VisitPlaced(v, name) /\ FoundRight(v, name)
  BY <1>1 DEF UsersInv, VisitRight
<1>4. Registered(name) /\ session[v].answer = "none"
  BY <1>2, <1>3 DEF VisitPlaced
<1>5. CASE ~Whole(v)
  <2>1. session' = [session EXCEPT ![v].at = "set", ![v].answer = "empty"] /\ spoiled' = spoiled
    BY <1>5 DEF Check
  <2>2. visit[v].op = "Login" /\ (Partly(v) \/ people[Account(name)].user = 0)
    BY <1>1, <1>5 DEF Whole, User
  <2> QED
    BY <1>1, <1>2, <1>4, <2>1, <2>2, AnswerMoves
<1>6. CASE Whole(v)
  <2>1. PICK salt \in Value(v, "salt"), password \in Value(v, "password") :
          /\ IF salt = password /\ salt /= Spoiled /\ people[salt].password = visit[v].password
             THEN session' = [session EXCEPT ![v].at = "set", ![v].answer = "token"]
             ELSE Moves(v, "refused")
          /\ Spoils(v, {salt, password})
    BY <1>6 DEF Check
  <2>2. /\ salt = Account(name) \/ salt = Spoiled
        /\ password = Account(name) \/ password = Spoiled
    BY <1>1, ValueOfFirst
  <2>3. /\ spoiled \subseteq spoiled'
        /\ salt = Spoiled \/ password = Spoiled => name \in spoiled'
    BY <1>1, <2>1 DEF Spoils
  <2>4. CASE salt = password /\ salt /= Spoiled /\ people[salt].password = visit[v].password
    <3>1. session' = [session EXCEPT ![v].at = "set", ![v].answer = "token"]
      BY <2>1, <2>4
    <3> QED
      BY <1>1, <1>2, <1>4, <2>2, <2>3, <2>4, <3>1, AnswerMoves
  <2>5. CASE ~(salt = password /\ salt /= Spoiled /\ people[salt].password = visit[v].password)
    <3>1. Moves(v, "refused")
      BY <2>1, <2>5
    <3>2. name \in spoiled' \/ people[Account(name)].password /= visit[v].password
      BY <2>2, <2>3, <2>5
    <3>3. PICK S : session \in [Visits -> SessionType(S)]
      BY DEF UsersInv, UsersType, SessionsIn
    <3>4. session[v] \in SessionType(S)
      BY <3>3
    <3> DEFINE r == [session[v] EXCEPT !.at = "refused"]
    <3>5. r \in SessionType(S) /\ r.answer = session[v].answer /\ r.known = session[v].known
          /\ r.found = session[v].found /\ r.at = "refused" /\ r.sets = session[v].sets
      BY <3>4 DEF SessionType
    <3>6. session' = [session EXCEPT ![v] = r]
      BY <3>1, <3>3, <3>4 DEF Moves, SessionType
    <3> HIDE DEF r
    <3>7. session'[v] = r
      BY <3>3, <3>6
    <3>8. VisitPlaced(v, name)' /\ LoginRight(v, name)'
      BY <1>2, <1>3, <1>4, <3>5, <3>7, SameNames DEF VisitPlaced, LoginRight
    <3>9. FoundRight(v, name)'
      <4>1. UsersGrow
        BY <1>2, <2>3, SameAccounts DEF UsersGrow
      <4> SUFFICES ASSUME NEW item \in Items, NEW value, value = session[v].found[item], value /= None
                   PROVE  OfFirst(name, item, value)'
        BY <3>5, <3>7 DEF FoundRight, OfFirst
      <4> QED
        BY <1>3, <4>1, OfFirstStays DEF FoundRight
    <3>10. RefusalRight(v, name)'
      BY <1>2, <1>4, <3>2, SameNames DEF RefusalRight, Registrations
    <3>11. VisitRight(v)'
      BY <1>1, <1>2, <3>8, <3>9, <3>10 DEF VisitRight, Name
    <3> QED
      BY <1>2, <2>3, <3>3, <3>5, <3>6, <3>11, VisitMoves
  <2> QED
    BY <2>4, <2>5
<1> QED
  BY <1>5, <1>6

LEMMA UploadUserStep ==
  ASSUME UsersInv, NEW v \in Visits,
         visit[v].op \in {"UploadUserWithUsername", "UploadUserWithUserId"}, UploadUser(v)
  PROVE  UsersInv'
<1>1. PICK name : name = Name(v)
  OBVIOUS
<1>2. VisitPlaced(v, name)
  BY <1>1 DEF UsersInv, VisitRight
<1>3. visit[v].op = "UploadUserWithUserId" \/ Registered(name)
  BY <1>2 DEF VisitPlaced, UploadUser, Place
<1>4. CASE Uploads(v)
  BY <1>1, <1>3, <1>4, AnswerMoves DEF UploadUser
<1>5. CASE ~Uploads(v)
  <2>1. visit[v].op /= "UploadUserWithUserId" /\ people[Account(name)].user = 0
    BY <1>1, <1>5 DEF Uploads, User
  <2> QED
    BY <1>1, <1>3, <1>5, <2>1, AnswerMoves DEF UploadUser
<1> QED
  BY <1>4, <1>5

LEMMA LeaveStep ==
  ASSUME UsersInv, NEW v \in Visits, Leave(v)
  PROVE  UsersInv'
<1>1. PICK name : name = Name(v)
  OBVIOUS
<1> QED
  BY <1>1, VisitGoes DEF Leave

\* A call that only has less to keep.
LEMMA SetsShrink ==
  ASSUME UsersInv, NEW v \in Visits, NEW sets, UsersGrow, UNCHANGED people,
         session[v].sets /= <<>>, session' = [session EXCEPT ![v].sets = sets]
  PROVE  (\E S : SessionsIn(S)') /\ \A u \in Visits : VisitRight(u)'
<1>1. PICK S : sets \in S /\ session \in [Visits -> SessionType(S)]
  BY SessionsWith
<1>2. session[v] \in SessionType(S)
  BY <1>1
<1> DEFINE r == [session[v] EXCEPT !.sets = sets]
<1>3. r \in SessionType(S) /\ r.answer = session[v].answer /\ r.known = session[v].known
      /\ r.found = session[v].found /\ r.at = session[v].at /\ r.sets = sets
  BY <1>1, <1>2 DEF SessionType
<1>4. session' = [session EXCEPT ![v] = r]
  BY <1>1, <1>2 DEF SessionType
<1> HIDE DEF r
<1>5. session'[v] = r /\ \A u \in Visits : u # v => session'[u] = session[u]
  BY <1>1, <1>4
<1>6. visit' = visit /\ spoiled \subseteq spoiled'
  BY DEF UsersGrow
<1>7. SessionsIn(S)'
  BY <1>1, <1>3, <1>4, <1>6 DEF SessionsIn, Visits
<1>8. VisitRight(v)'
  <2> SUFFICES ASSUME NEW name, name = Name(v)
               PROVE  /\ VisitPlaced(v, name)' /\ FoundRight(v, name)'
                      /\ LoginRight(v, name)' /\ RefusalRight(v, name)'
    BY <1>6 DEF VisitRight, Name
  <2>1. VisitPlaced(v, name) /\ FoundRight(v, name) /\ LoginRight(v, name) /\ RefusalRight(v, name)
    BY DEF UsersInv, VisitRight
  <2>2. VisitPlaced(v, name)'
    BY <1>3, <1>5, <1>6, <2>1, SameNames DEF VisitPlaced
  <2>3. FoundRight(v, name)'
    <3> SUFFICES ASSUME NEW item \in Items, NEW value, value = session[v].found[item], value /= None
                 PROVE  OfFirst(name, item, value)'
      BY <1>3, <1>5 DEF FoundRight, OfFirst
    <3> QED
      BY <2>1, OfFirstStays DEF FoundRight
  <2>4. Partly(v)' <=> Partly(v)
    BY <1>3, <1>5, <1>6 DEF Partly, Needs
  <2>5. LoginRight(v, name)'
    BY <1>3, <1>5, <1>6, <2>1, <2>4, SameNames DEF LoginRight
  <2>6. RefusalRight(v, name)'
    BY <1>3, <1>5, <1>6, <2>1, SameNames DEF RefusalRight, Place
  <2> QED
    BY <2>2, <2>3, <2>5, <2>6
<1>9. \A u \in Visits : VisitRight(u)'
  BY <1>5, <1>8, VisitStays DEF UsersInv
<1> QED
  BY <1>7, <1>9

LEMMA KeepItemStep ==
  ASSUME UsersInv, NEW v \in Visits, KeepItem(v)
  PROVE  UsersInv'
<1>1. PICK item : item = Head(session[v].sets)
  OBVIOUS
<1>2. PICK name : name = Name(v)
  OBVIOUS
<1>3. PICK value \in Rest(v, item) :
        /\ kept' = [kept EXCEPT ![name][item] = value]
        /\ Spoils(v, {value})
  BY <1>1, <1>2 DEF KeepItem
<1>4. /\ session[v].sets /= <<>> /\ UNCHANGED <<visit, people>>
      /\ session' = [session EXCEPT ![v].sets = Tail(session[v].sets)]
  BY DEF KeepItem, UsersInv, UsersType, SessionsIn
<1>5. Registered(name) /\ visit[v].op /= "UploadUserWithUserId"
  BY <1>2, <1>4 DEF UsersInv, VisitRight, VisitPlaced
<1>6. name \in Names
  BY <1>2, <1>5 DEF UsersInv, UsersType, VisitsType
<1>7. spoiled \subseteq spoiled' /\ (value = Spoiled => name \in spoiled')
  BY <1>2, <1>3 DEF Spoils
<1>8. value = Account(name) \/ (value = Spoiled /\ item \in {"salt", "password"})
  BY <1>2, <1>3 DEF Rest
<1>9. UsersGrow
  BY <1>4, <1>7, SameAccounts DEF UsersGrow
<1>10. (\E S : SessionsIn(S)') /\ \A u \in Visits : VisitRight(u)'
  BY <1>4, <1>9, SetsShrink
<1>11. value \in Nat
  <2>1. Account(name) \in DOMAIN people /\ people \in Seq(Person)
    BY <1>5, AccountIsFirst DEF UsersInv, UsersType, PeopleType
  <2>2. Account(name) \in Nat
    BY <2>1
  <2> QED
    BY <1>8, <2>2 DEF Spoiled
<1>12. KeptType' /\ \A n \in Names, i \in Items :
         kept'[n][i] = IF n = name /\ i = item THEN value ELSE kept[n][i]
  BY <1>3, <1>6, <1>11 DEF UsersInv, UsersType, KeptType
<1>13. OfFirst(name, item, value)'
  BY <1>4, <1>5, <1>7, <1>8, SameNames DEF OfFirst
<1>14. KeptRight'
  <2> SUFFICES ASSUME NEW n \in Names, NEW i \in Items, NEW val, val = kept'[n][i], val /= None
               PROVE  OfFirst(n, i, val)'
    BY DEF KeptRight, OfFirst
  <2>1. CASE n = name /\ i = item
    BY <1>12, <1>13, <2>1
  <2>2. CASE ~(n = name /\ i = item)
    <3>1. OfFirst(n, i, val)
      BY <1>12, <2>2 DEF UsersInv, KeptRight
    <3> QED
      BY <1>9, <3>1, OfFirstStays
  <2> QED
    BY <2>1, <2>2
<1>15. PeopleType' /\ VisitsType'
  BY <1>4 DEF UsersInv, UsersType, PeopleType, VisitsType, Person, Visits, Name
<1> QED
  BY <1>4, <1>10, <1>12, <1>14, <1>15 DEF UsersInv, UsersType, Visits

LEMMA VisitFailsStep ==
  ASSUME UsersInv, NEW v \in Visits, VisitFails(v)
  PROVE  UsersInv'
<1>1. PICK name : name = Name(v)
  OBVIOUS
<1>2. UNCHANGED <<visit, people, kept, spoiled>>
  BY DEF VisitFails
<1>3. VisitPlaced(v, name)
  BY <1>1 DEF UsersInv, VisitRight
<1>4. CASE Moves(v, IF Place(v, "get login") THEN "find" ELSE "failed")
  <2>1. CASE Place(v, "get login")
    <3>1. Moves(v, "find")
      BY <1>4, <2>1
    <3>2. visit[v].op \notin Registrations \cup {"UploadUserWithUserId"} /\ session[v].answer = "none"
      BY <1>3, <2>1 DEF VisitPlaced, Place
    <3> QED
      BY <1>1, <1>2, <3>1, <3>2, VisitGoes
  <2>2. CASE ~Place(v, "get login")
    <3>1. Moves(v, "failed")
      BY <1>4, <2>2
    <3> QED
      BY <1>1, <1>2, <3>1, VisitGoes
  <2> QED
    BY <2>1, <2>2
<1>5. CASE session[v].sets /= <<>> /\ session' = [session EXCEPT ![v].sets = Tail(@)]
  <2>1. session' = [session EXCEPT ![v].sets = Tail(session[v].sets)]
    BY <1>5 DEF UsersInv, UsersType, SessionsIn
  <2>2. UsersGrow
    BY <1>2, SameAccounts DEF UsersGrow
  <2>3. (\E S : SessionsIn(S)') /\ \A u \in Visits : VisitRight(u)'
    BY <1>2, <1>5, <2>1, <2>2, SetsShrink
  <2>4. KeptRight'
    BY <1>2, <2>2, KeptStays DEF UsersInv
  <2>5. PeopleType' /\ VisitsType' /\ KeptType'
    BY <1>2 DEF UsersInv, UsersType, PeopleType, VisitsType, KeptType, Person, Visits, Name
  <2> QED
    BY <1>2, <2>3, <2>4, <2>5 DEF UsersInv, UsersType, Visits
<1> QED
  BY <1>4, <1>5 DEF VisitFails

LEMMA EvictItemStep ==
  ASSUME UsersInv, NEW name \in Names, NEW item \in Items, EvictItem(name, item)
  PROVE  UsersInv'
<1>1. UNCHANGED <<visit, people, session, spoiled>>
  BY DEF EvictItem
<1>2. KeptType' /\ \A n \in Names, i \in Items :
        kept'[n][i] = IF n = name /\ i = item THEN None ELSE kept[n][i]
  BY DEF EvictItem, UsersInv, UsersType, KeptType
<1>3. UsersGrow
  BY <1>1, SameAccounts DEF UsersGrow
<1>4. KeptRight'
  <2> SUFFICES ASSUME NEW n \in Names, NEW i \in Items, NEW val, val = kept'[n][i], val /= None
               PROVE  OfFirst(n, i, val)'
    BY DEF KeptRight, OfFirst
  <2>1. OfFirst(n, i, val)
    BY <1>2 DEF UsersInv, KeptRight
  <2> QED
    BY <1>3, <2>1, OfFirstStays
<1>5. \A u \in Visits : VisitRight(u)'
  BY <1>1, <1>3, VisitStays DEF UsersInv
<1>6. PeopleType' /\ VisitsType' /\ \E S : SessionsIn(S)'
  BY <1>1 DEF UsersInv, UsersType, PeopleType, VisitsType, SessionsIn, Person, Visits, Name
<1> QED
  BY <1>1, <1>2, <1>4, <1>5, <1>6 DEF UsersInv, UsersType, Visits

LEMMA UserStepKeeps ==
  ASSUME UsersInv, UserStep
  PROVE  UsersInv'
<1>1. PICK v \in Visits :
        \/ BeginVisit(v) \/ RegisterUser(v) \/ RegisterUserWithId(v)
        \/ UploadUserWithUsername(v) \/ UploadUserWithUserId(v)
        \/ Login(v) \/ SocialLogin(v) \/ GetUserId(v)
  BY DEF UserStep
<1>2. visit[v].op \in UserOperations
  BY DEF UsersInv, UsersType, VisitsType
<1>3. CASE BeginVisit(v)
  BY <1>3, BeginVisitStep
<1>4. CASE RegisterUser(v) \/ RegisterUserWithId(v)
  BY <1>4, LookForNameStep, InsertUserStep DEF RegisterUser, RegisterUserWithId, Registrations
<1>5. CASE UploadUserWithUsername(v) \/ UploadUserWithUserId(v)
  BY <1>2, <1>5, GetItemStep, FindUserStep, UploadUserStep, KeepItemStep, LeaveStep
     DEF UploadUserWithUsername, UploadUserWithUserId
<1>6. CASE Login(v) \/ SocialLogin(v)
  BY <1>2, <1>6, GetItemStep, FindUserStep, CheckStep, KeepItemStep, LeaveStep DEF Login, SocialLogin
<1>7. CASE GetUserId(v)
  BY <1>2, <1>7, GetItemStep, FindUserStep, KeepItemStep, LeaveStep DEF GetUserId
<1> QED
  BY <1>1, <1>3, <1>4, <1>5, <1>6, <1>7

LEMMA UsersUnchanged ==
  ASSUME UsersInv, UNCHANGED userVars
  PROVE  UsersInv'
<1>1. UNCHANGED <<visit, people, kept, session, spoiled>>
  BY DEF userVars
<1>2. UsersGrow
  BY <1>1, SameAccounts DEF UsersGrow
<1>3. \A u \in Visits : VisitRight(u)'
  BY <1>1, <1>2, VisitStays DEF UsersInv
<1>4. KeptRight'
  BY <1>1, <1>2, KeptStays DEF UsersInv
<1>5. PeopleType' /\ VisitsType' /\ KeptType' /\ \E S : SessionsIn(S)'
  BY <1>1 DEF UsersInv, UsersType, PeopleType, VisitsType, KeptType, SessionsIn, Person, Visits, Name
<1> QED
  BY <1>1, <1>3, <1>4, <1>5 DEF UsersInv, UsersType, Visits

LEMMA UsersBegin ==
  ASSUME NEW visits, UsersStart(visits), visits \in UserScenarios \/ visits = <<>>
  PROVE  UsersInv
<1>1. VisitsType
  <2>1. CASE visits \in UserScenarios
    BY <2>1, UserScenariosAssumption DEF UsersStart, VisitsType, Visits, Name
  <2>2. CASE visits = <<>>
    BY <2>2 DEF UsersStart, VisitsType, Visits
  <2> QED
    BY <2>1, <2>2
<1>2. PeopleType /\ KeptType
  BY DEF UsersStart, PeopleType, KeptType
<1>3. NewSession \in SessionType({<<>>})
  BY DEF NewSession, SessionType
<1>4. SessionsIn({<<>>})
  BY <1>3 DEF UsersStart, SessionsIn
<1>5. KeptRight
  BY DEF UsersStart, KeptRight
<1>6. \A v \in Visits : VisitRight(v)
  <2> SUFFICES ASSUME NEW v \in Visits, NEW name, name = Name(v)
               PROVE  /\ VisitPlaced(v, name) /\ FoundRight(v, name)
                      /\ LoginRight(v, name) /\ RefusalRight(v, name)
    BY DEF VisitRight
  <2>1. session[v] = NewSession
    BY DEF UsersStart
  <2>2. /\ session[v].at = "idle" /\ session[v].sets = <<>> /\ session[v].answer = "none"
        /\ session[v].known = FALSE /\ \A item \in Items : session[v].found[item] = None
    BY <2>1 DEF NewSession
  <2> QED
    BY <2>2 DEF VisitPlaced, FoundRight, LoginRight, RefusalRight, Place
<1> QED
  BY <1>1, <1>2, <1>4, <1>5, <1>6 DEF UsersInv, UsersType

\* What the runs check of the user services.
LEMMA UsersRight ==
  ASSUME UsersInv
  PROVE  KeptOfFirst /\ LoginsRight /\ RefusedForAReason
<1>1. KeptOfFirst
  BY DEF UsersInv, KeptRight, OfFirst, KeptOfFirst
<1>2. \A v \in Visits : LoginRight(v, Name(v)) /\ RefusalRight(v, Name(v))
  BY DEF UsersInv, VisitRight
<1>3. LoginsRight
  BY <1>2 DEF LoginRight, LoginsRight, User
<1>4. RefusedForAReason
  BY <1>2 DEF RefusalRight, RefusedForAReason
<1> QED
  BY <1>1, <1>3, <1>4

-----------------------------------------------------------------------------
(***************************************************************************)
(* The services that read documents.                                       *)
(***************************************************************************)
Reads == DOMAIN Hotel \cup DOMAIN Reader

LEMMA Tables ==
  /\ DOMAIN Hotel = {"GetRates", "GetProfiles", "GetReviews"}
  /\ DOMAIN Reader = {"ReadMovieInfo", "ReadCastInfo", "ReadPlot", "UploadMovieId", "ReadReviews", "ReadPost"}
  /\ DOMAIN Writer = {"WriteMovieInfo", "WriteCastInfo", "WritePlot", "RegisterMovieId", "StoreReview", "StorePost"}
  /\ HotelServices = {"rate", "profile", "review"}
  /\ Services = HotelServices \cup
       {"movie-info", "cast-info", "plot", "movie-id", "review-storage", "post-storage"}
<1>1. /\ DOMAIN Hotel = {"GetRates", "GetProfiles", "GetReviews"}
      /\ DOMAIN Reader = {"ReadMovieInfo", "ReadCastInfo", "ReadPlot", "UploadMovieId", "ReadReviews", "ReadPost"}
      /\ DOMAIN Writer = {"WriteMovieInfo", "WriteCastInfo", "WritePlot", "RegisterMovieId", "StoreReview", "StorePost"}
  BY DEF Hotel, Reader, Writer
<1>2. /\ Hotel["GetRates"] = "rate" /\ Hotel["GetProfiles"] = "profile" /\ Hotel["GetReviews"] = "review"
      /\ Reader["ReadMovieInfo"] = "movie-info" /\ Reader["ReadCastInfo"] = "cast-info"
      /\ Reader["ReadPlot"] = "plot" /\ Reader["UploadMovieId"] = "movie-id"
      /\ Reader["ReadReviews"] = "review-storage" /\ Reader["ReadPost"] = "post-storage"
  BY DEF Hotel, Reader
<1>3. HotelServices = {"rate", "profile", "review"}
  BY <1>1, <1>2 DEF HotelServices, Range
<1>4. Range(Reader) = {"movie-info", "cast-info", "plot", "movie-id", "review-storage", "post-storage"}
  BY <1>1, <1>2 DEF Range
<1> QED
  BY <1>1, <1>3, <1>4 DEF Services

LEMMA ServicesOfOperations ==
  /\ ServiceOf("GetRates") = "rate" /\ ServiceOf("GetProfiles") = "profile"
  /\ ServiceOf("GetReviews") = "review"
  /\ \A op \in DOMAIN Reader \cup DOMAIN Writer :
       ServiceOf(op) \in {"movie-info", "cast-info", "plot", "movie-id", "review-storage", "post-storage"}
<1>1. /\ Hotel["GetRates"] = "rate" /\ Hotel["GetProfiles"] = "profile" /\ Hotel["GetReviews"] = "review"
      /\ Reader["ReadMovieInfo"] = "movie-info" /\ Reader["ReadCastInfo"] = "cast-info"
      /\ Reader["ReadPlot"] = "plot" /\ Reader["UploadMovieId"] = "movie-id"
      /\ Reader["ReadReviews"] = "review-storage" /\ Reader["ReadPost"] = "post-storage"
  BY DEF Hotel, Reader
<1>2. /\ Writer["WriteMovieInfo"] = "movie-info" /\ Writer["WriteCastInfo"] = "cast-info"
      /\ Writer["WritePlot"] = "plot" /\ Writer["RegisterMovieId"] = "movie-id"
      /\ Writer["StoreReview"] = "review-storage" /\ Writer["StorePost"] = "post-storage"
  BY DEF Writer
<1>3. \A op \in DOMAIN Hotel : ServiceOf(op) = Hotel[op]
  BY Tables DEF ServiceOf
<1>4. \A op \in DOMAIN Reader : ServiceOf(op) = Reader[op]
  BY Tables DEF ServiceOf
<1>5. \A op \in DOMAIN Writer : ServiceOf(op) = Writer[op]
  BY Tables DEF ServiceOf
<1> QED
  BY <1>1, <1>2, <1>3, <1>4, <1>5, Tables

LEMMA ServiceTypes ==
  ASSUME NEW op
  PROVE  /\ op \in DOMAIN Hotel => ServiceOf(op) \in HotelServices
         /\ op \in DOMAIN Reader \cup DOMAIN Writer => ServiceOf(op) \in Services \ HotelServices
         /\ op \in Reads => ServiceOf(op) \in Services
         /\ op \in DOMAIN Hotel => op \notin DOMAIN Reader /\ op \notin DOMAIN Writer
         /\ op \in DOMAIN Reader => op \notin DOMAIN Writer
         /\ "ReadPage" \notin Reads \cup DOMAIN Writer
BY Tables, ServicesOfOperations DEF Reads

DocValue == Nat \cup [Keys -> Nat]

\* A value that may be cached, and an answer for one key.
Right(s, k, value) == value \in Shows(s, k) /\ (s \in HotelServices \/ documents[s][k] > 0)
Allowed(s, wanted, k) == IF k \in wanted THEN Shows(s, k) ELSE {Nothing(s)}

CallType ==
  [at : {"idle", "get", "find", "set", "look", "insert", "info", "parts", "done", "failed", "died"},
   ids : Seq(Keys), next : Seq(Nat), answer : [Keys -> DocValue], sets : SUBSET (Keys \X DocValue),
   tasks : SUBSET {"compose", "rating"}, ok : BOOLEAN]

DocumentsType == documents \in [Services -> [Keys -> Nat]]
MemcachedType == memcached \in [Services -> [Keys -> DocValue \cup {None}]]
BackgroundType == background \in [Services -> SUBSET (Keys \X DocValue)]
CallsType == call \in [Calls -> CallType]

AskedRight ==
  \A c \in Calls :
    /\ ask[c].op \in Operations /\ ask[c].keys \in Seq(Keys)
    /\ ask[c].op \in DOMAIN Writer => ask[c].keys /= <<>>
    /\ ask[c].part /= "none" => ask[c].op \in DOMAIN Reader
    /\ ask[c].op = "ReadPage" =>
         \A part \in {"info", "cast", "plot"} :
           \E p \in Calls : ask[p].of = c /\ ask[p].part = part

\* What a hotel service inserted is there; what it did not insert never is.
HotelDocuments ==
  \A s \in HotelServices, k \in Keys :
    documents[s][k] >= Inserted(s, k) /\ (Inserted(s, k) = 0 => documents[s][k] = 0)

MemcachedRight ==
  \A s \in Services, k \in Keys : memcached[s][k] /= None => Right(s, k, memcached[s][k])
BackgroundRight == \A s \in Services : \A item \in background[s] : Right(s, item[1], item[2])

Exact(s, wanted, r) == \A k \in Keys : r.answer[k] \in Allowed(s, wanted, k)

\* Each goroutine has done every G-th of the missing documents, n of them.
Rounds(s, r) ==
  \E G \in Nat \ {0} :
    /\ Len(r.next) = G
    /\ \A w \in 1 .. G : \E n \in Nat :
         /\ r.next[w] = w + G * n
         /\ \A m \in Nat : w + G * m <= Len(r.ids) =>
              r.answer[r.ids[w + G * m]] \in
                IF m < n THEN Shows(s, r.ids[w + G * m]) ELSE {Nothing(s)}

Finding(op, s, wanted, r) ==
  /\ r.ids /= <<>> /\ Members(r.ids) \subseteq wanted /\ IsInjective(r.ids)
  /\ \A k \in Keys \ Members(r.ids) : r.answer[k] \in Allowed(s, wanted, k)
  /\ IF op \in {"GetRates", "GetProfiles"} THEN Rounds(s, r)
     ELSE \A k \in Members(r.ids) : r.answer[k] = Nothing(s)

ReadRight(op, s, wanted, r) ==
  op \in Reads =>
    /\ r.at = "idle" => \A k \in Keys : r.answer[k] = Nothing(s)
    /\ r.at = "find" => Finding(op, s, wanted, r)
    /\ r.at = "set" => /\ r.ok => Exact(s, wanted, r)
                      /\ \A item \in r.sets : Right(s, item[1], item[2])
    /\ r.at = "done" => Exact(s, wanted, r)

Placed(op, r) ==
  /\ r.at \in {"get", "find"} => op \in Reads
  /\ r.at = "set" => op \in DOMAIN Reader \cup {"GetReviews"}
  /\ r.at \in {"look", "insert"} => op \in DOMAIN Writer
  /\ r.at \in {"info", "parts"} => op = "ReadPage"
  /\ r.at = "died" => op \in DOMAIN Hotel

Reason(c, op, s, keys) ==
  \/ c \in faulted \cup absent \/ ~IsInjective(keys)
  \/ op \in DOMAIN Writer /\ documents[s][Head(keys)] > 0
  \/ \E p \in Calls : ask[p].of = c /\ ask[p].part /= "none" /\ call[p].at = "failed"

Excused(c, op, s, keys, r) ==
  /\ ~r.ok => c \in faulted \cup absent
  /\ r.at = "failed" => Reason(c, op, s, keys)
  /\ op \in DOMAIN Reader /\ r.at /= "idle" /\ c \notin absent =>
       \A k \in Members(keys) : documents[s][k] > 0

RecordRight(c, op, s, keys, r) ==
  Placed(op, r) /\ ReadRight(op, s, Members(keys), r) /\ Excused(c, op, s, keys, r)

CallRight(c) ==
  \A op, s, keys, r :
    op = ask[c].op /\ s = ServiceOf(op) /\ keys = ask[c].keys /\ r = call[c]
      => RecordRight(c, op, s, keys, r)

StoresInv ==
  /\ DocumentsType /\ MemcachedType /\ BackgroundType
  /\ HotelDocuments /\ MemcachedRight /\ BackgroundRight
DocumentsInv == StoresInv /\ CallsType /\ AskedRight /\ \A c \in Calls : CallRight(c)

-----------------------------------------------------------------------------
\* What no step undoes.
Grow ==
  /\ \A s \in Services, k \in Keys :
       /\ documents[s][k] \in Nat /\ documents'[s][k] \in Nat
       /\ documents[s][k] <= documents'[s][k]
       /\ s \in HotelServices /\ documents[s][k] = 0 => documents'[s][k] = 0
  /\ unread \subseteq unread' /\ faulted \subseteq faulted' /\ absent \subseteq absent'
  /\ UNCHANGED ask
  /\ \A p \in Calls : call[p].at = "failed" => call'[p].at = "failed"

LEMMA ShowsGrow ==
  ASSUME Grow, NEW s \in Services, NEW k \in Keys
  PROVE  Shows(s, k) \subseteq Shows(s, k)'
<1>1. ASSUME NEW t \in HotelServices, NEW h \in Keys
      PROVE  Some(documents[t][h]) \subseteq Some(documents'[t][h])
  <2>1. PICK a \in Nat, b \in Nat : /\ a = documents[t][h] /\ b = documents'[t][h] /\ a <= b
                                    /\ a = 0 => b = 0
    BY Tables DEF Grow
  <2>2. Some(a) \subseteq Some(b)
    BY <2>1 DEF Some
  <2> QED
    BY <2>1, <2>2
<1>2. "rate" \in HotelServices /\ "review" \in HotelServices
  BY Tables
<1>3. (IF <<s, k>> \in unread THEN {Nothing(s)} ELSE {})
       \subseteq (IF <<s, k>> \in unread' THEN {Nothing(s)} ELSE {})
  BY DEF Grow
<1>4. CASE s = "rate"
  <2>1. \A h \in Keys : Some(documents["rate"][h]) \subseteq Some(documents'["rate"][h])
    BY <1>1, <1>2
  <2>2. {plans \in [Keys -> Nat] : \A h \in Keys : plans[h] \in Some(documents[s][h])}
         \subseteq {plans \in [Keys -> Nat] : \A h \in Keys : plans[h] \in Some(documents'[s][h])}
    BY <1>4, <2>1
  <2> QED
    BY <1>3, <1>4, <2>2 DEF Shows
<1>5. CASE s = "review"
  <2>1. Some(documents[s][k]) \subseteq Some(documents'[s][k])
    BY <1>1, <1>2, <1>5
  <2> QED
    BY <1>3, <1>5, <2>1 DEF Shows
<1>6. CASE s \notin {"rate", "review"}
  BY <1>3, <1>6 DEF Shows
<1> QED
  BY <1>4, <1>5, <1>6

\* The values of the rate service are functions, the others numbers.
ValueOf(s) == IF s = "rate" THEN [Keys -> Nat] ELSE Nat

LEMMA NothingAdds ==
  ASSUME NEW s, NEW value \in ValueOf(s)
  PROVE  Plus(s, Nothing(s), value) = value
<1>1. CASE s = "rate"
  <2>1. \A h \in Keys : value[h] \in Nat /\ 0 + value[h] = value[h]
    BY <1>1 DEF ValueOf
  <2> QED
    BY <1>1, <2>1 DEF ValueOf, Plus, Nothing
<1>2. CASE s /= "rate"
  BY <1>2 DEF ValueOf, Plus, Nothing
<1> QED
  BY <1>1, <1>2

LEMMA RightGrows ==
  ASSUME Grow, NEW s \in Services, NEW k \in Keys, NEW value, Right(s, k, value)
  PROVE  Right(s, k, value)'
<1>1. documents[s][k] > 0 => documents'[s][k] > 0
  BY DEF Grow
<1> QED
  BY <1>1, ShowsGrow DEF Right

LEMMA AllowedGrows ==
  ASSUME Grow, NEW s \in Services, NEW wanted, NEW k \in Keys
  PROVE  Allowed(s, wanted, k) \subseteq Allowed(s, wanted, k)'
BY ShowsGrow DEF Allowed

LEMMA CallFields ==
  ASSUME NEW r \in CallType
  PROVE  /\ r.at \in {"idle", "get", "find", "set", "look", "insert", "info", "parts", "done", "failed", "died"}
         /\ r.ids \in Seq(Keys) /\ r.next \in Seq(Nat) /\ r.answer \in [Keys -> DocValue]
         /\ r.sets \in SUBSET (Keys \X DocValue) /\ r.tasks \in SUBSET {"compose", "rating"} /\ r.ok \in BOOLEAN
BY DEF CallType

LEMMA MembersType ==
  ASSUME NEW keys \in Seq(Keys)
  PROVE  Members(keys) \subseteq Keys
BY DEF Members

LEMMA ExactGrows ==
  ASSUME Grow, NEW s \in Services, NEW wanted, NEW r, Exact(s, wanted, r)
  PROVE  Exact(s, wanted, r)'
<1> SUFFICES ASSUME NEW k \in Keys
             PROVE  r.answer[k] \in Allowed(s, wanted, k)'
  BY DEF Exact
<1>1. Allowed(s, wanted, k) \subseteq Allowed(s, wanted, k)'
  BY AllowedGrows
<1> QED
  BY <1>1 DEF Exact

LEMMA RoundsGrow ==
  ASSUME Grow, NEW s \in Services, NEW r \in CallType, Rounds(s, r)
  PROVE  Rounds(s, r)'
<1>1. PICK G \in Nat \ {0} :
        /\ Len(r.next) = G
        /\ \A w \in 1 .. G : \E n \in Nat :
             /\ r.next[w] = w + G * n
             /\ \A m \in Nat : w + G * m <= Len(r.ids) =>
                  r.answer[r.ids[w + G * m]] \in
                    IF m < n THEN Shows(s, r.ids[w + G * m]) ELSE {Nothing(s)}
  BY DEF Rounds
<1>2. \A w \in 1 .. G : \E n \in Nat :
        /\ r.next[w] = w + G * n
        /\ \A m \in Nat : w + G * m <= Len(r.ids) =>
             r.answer[r.ids[w + G * m]] \in
               IF m < n THEN Shows(s, r.ids[w + G * m])' ELSE {Nothing(s)}
  <2> SUFFICES ASSUME NEW w \in 1 .. G
               PROVE  \E n \in Nat :
                        /\ r.next[w] = w + G * n
                        /\ \A m \in Nat : w + G * m <= Len(r.ids) =>
                             r.answer[r.ids[w + G * m]] \in
                               IF m < n THEN Shows(s, r.ids[w + G * m])' ELSE {Nothing(s)}
    OBVIOUS
  <2>1. PICK n \in Nat :
          /\ r.next[w] = w + G * n
          /\ \A m \in Nat : w + G * m <= Len(r.ids) =>
               r.answer[r.ids[w + G * m]] \in
                 IF m < n THEN Shows(s, r.ids[w + G * m]) ELSE {Nothing(s)}
    BY <1>1
  <2>2. ASSUME NEW m \in Nat, w + G * m <= Len(r.ids)
        PROVE  r.answer[r.ids[w + G * m]] \in IF m < n THEN Shows(s, r.ids[w + G * m])' ELSE {Nothing(s)}
    <3>1. PICK j \in Nat : j = w + G * m
      OBVIOUS
    <3>2. j \in 1 .. Len(r.ids)
      <4>1. PICK g \in Nat : g = G * m
        OBVIOUS
      <4>2. Len(r.ids) \in Nat
        BY CallFields
      <4>3. j = w + g /\ j <= Len(r.ids)
        BY <2>2, <3>1, <4>1
      <4> QED
        BY <4>2, <4>3
    <3>3. PICK k \in Keys : k = r.ids[j]
      BY <3>2, CallFields
    <3>4. r.answer[k] \in IF m < n THEN Shows(s, k) ELSE {Nothing(s)}
      BY <2>1, <2>2, <3>1, <3>3
    <3>5. r.answer[k] \in IF m < n THEN Shows(s, k)' ELSE {Nothing(s)}
      BY <3>4, ShowsGrow
    <3> QED
      BY <3>1, <3>3, <3>5 DEF Shows
  <2> QED
    BY <2>1, <2>2
<1> QED
  BY <1>1, <1>2 DEF Rounds

LEMMA RecordGrows ==
  ASSUME Grow, NEW c, NEW op, NEW s, NEW keys \in Seq(Keys), NEW r \in CallType,
         op \in Reads \cup DOMAIN Writer => s \in Services,
         op \in DOMAIN Writer => keys /= <<>>,
         RecordRight(c, op, s, keys, r)
  PROVE  RecordRight(c, op, s, keys, r)'
<1>1. Placed(op, r)'
  BY DEF RecordRight, Placed
<1>2. ReadRight(op, s, Members(keys), r)'
  <2> SUFFICES ASSUME op \in Reads
               PROVE  ReadRight(op, s, Members(keys), r)'
    BY DEF ReadRight
  <2> PICK wanted : wanted = Members(keys)
    OBVIOUS
  <2>1. ReadRight(op, s, wanted, r) /\ s \in Services
    BY DEF RecordRight
  <2>2. r.at = "find" => Finding(op, s, wanted, r)'
    <3> SUFFICES ASSUME r.at = "find"
                 PROVE  Finding(op, s, wanted, r)'
      OBVIOUS
    <3>1. Finding(op, s, wanted, r)
      BY <2>1 DEF ReadRight
    <3>2. \A k \in Keys \ Members(r.ids) : r.answer[k] \in Allowed(s, wanted, k)'
      BY <2>1, <3>1, AllowedGrows DEF Finding
    <3>3. Rounds(s, r) => Rounds(s, r)'
      BY <2>1, RoundsGrow
    <3> QED
      BY <3>1, <3>2, <3>3 DEF Finding
  <2>3. r.at = "set" => \A item \in r.sets : Right(s, item[1], item[2])'
    <3> SUFFICES ASSUME r.at = "set", NEW item \in r.sets
                 PROVE  Right(s, item[1], item[2])'
      OBVIOUS
    <3>1. PICK k \in Keys, value \in DocValue : k = item[1] /\ value = item[2]
      BY CallFields
    <3>2. Right(s, k, value)
      BY <2>1, <3>1 DEF ReadRight
    <3>3. Right(s, k, value)'
      BY <2>1, <3>2, RightGrows
    <3> QED
      BY <3>1, <3>3 DEF Right, Shows
  <2>4. Exact(s, wanted, r) => Exact(s, wanted, r)'
    BY <2>1, ExactGrows
  <2> QED
    BY <2>1, <2>2, <2>3, <2>4 DEF ReadRight
<1>3. Excused(c, op, s, keys, r)'
  <2>1. Excused(c, op, s, keys, r)
    BY DEF RecordRight
  <2>2. op \in DOMAIN Reader => \A k \in Members(keys) : documents[s][k] > 0 => documents'[s][k] > 0
    BY MembersType DEF Grow, Reads
  <2>3. r.at = "failed" => Reason(c, op, s, keys)'
    <3> SUFFICES ASSUME Reason(c, op, s, keys)
                 PROVE  Reason(c, op, s, keys)'
      BY <2>1 DEF Excused
    <3>1. op \in DOMAIN Writer => (documents[s][Head(keys)] > 0 => documents'[s][Head(keys)] > 0)
      <4> SUFFICES ASSUME op \in DOMAIN Writer
                   PROVE  documents[s][Head(keys)] > 0 => documents'[s][Head(keys)] > 0
        OBVIOUS
      <4>1. Head(keys) \in Keys
        OBVIOUS
      <4> QED
        BY <4>1 DEF Grow
    <3> QED
      BY <3>1 DEF Reason, Grow, Calls
  <2> QED
    BY <2>1, <2>2, <2>3 DEF Excused, Grow
<1> QED
  BY <1>1, <1>2, <1>3 DEF RecordRight

LEMMA CallStays ==
  ASSUME DocumentsInv, Grow, NEW c \in Calls, call'[c] = call[c]
  PROVE  CallRight(c)'
<1> SUFFICES ASSUME NEW op, NEW s, NEW keys, NEW r,
                    op = ask[c].op, s = ServiceOf(op), keys = ask[c].keys, r = call[c]
             PROVE  RecordRight(c, op, s, keys, r)'
  BY DEF CallRight, Grow
<1>1. RecordRight(c, op, s, keys, r)
  BY DEF DocumentsInv, CallRight
<1>2. keys \in Seq(Keys) /\ r \in CallType /\ (op \in DOMAIN Writer => keys /= <<>>)
  BY DEF DocumentsInv, AskedRight, CallsType
<1>3. op \in Reads \cup DOMAIN Writer => s \in Services
  BY ServiceTypes DEF Reads
<1> QED
  BY <1>1, <1>2, <1>3, RecordGrows

\* A step of one call.
LEMMA CallMoves ==
  ASSUME DocumentsInv, Grow, StoresInv', NEW c \in Calls, NEW r \in CallType,
         call' = [call EXCEPT ![c] = r],
         NEW op, NEW s, NEW keys, op = ask[c].op, s = ServiceOf(op), keys = ask[c].keys,
         RecordRight(c, op, s, keys, r)'
  PROVE  DocumentsInv'
<1>1. call \in [Calls -> CallType] /\ ask' = ask /\ Calls' = Calls
  BY DEF DocumentsInv, CallsType, Grow, Calls
<1>2. call'[c] = r /\ \A d \in Calls : d # c => call'[d] = call[d]
  BY <1>1
<1>3. CallRight(c)'
  BY <1>1, <1>2 DEF CallRight
<1>4. \A d \in Calls : CallRight(d)'
  BY <1>2, <1>3, CallStays
<1>5. AskedRight' /\ CallsType'
  BY <1>1 DEF DocumentsInv, AskedRight, CallsType
<1> QED
  BY <1>1, <1>4, <1>5 DEF DocumentsInv

LEMMA SameDocuments ==
  ASSUME DocumentsInv, UNCHANGED <<ask, documents>>, unread \subseteq unread',
         faulted \subseteq faulted', absent \subseteq absent',
         \A p \in Calls : call[p].at = "failed" => call'[p].at = "failed"
  PROVE  Grow
BY DEF Grow, DocumentsInv, StoresInv, DocumentsType

LEMMA MemcachedGrows == ASSUME Grow, StoresInv, UNCHANGED memcached PROVE MemcachedRight'
<1> SUFFICES ASSUME NEW s \in Services, NEW k \in Keys, NEW value, value = memcached[s][k], value /= None
             PROVE  Right(s, k, value)'
  BY DEF MemcachedRight, Right, Shows
<1>1. Right(s, k, value)
  BY DEF StoresInv, MemcachedRight
<1> QED
  BY <1>1, RightGrows

\* Items about to be given to memcached that are right stay so.
LEMMA ItemsGrow ==
  ASSUME Grow, StoresInv
  PROVE  \A s \in Services : \A item \in background[s] : Right(s, item[1], item[2])'
<1> SUFFICES ASSUME NEW s \in Services, NEW item \in background[s]
             PROVE  Right(s, item[1], item[2])'
  OBVIOUS
<1>1. PICK k \in Keys, value \in DocValue : k = item[1] /\ value = item[2]
  BY DEF StoresInv, BackgroundType
<1>2. Right(s, k, value)
  BY <1>1 DEF StoresInv, BackgroundRight
<1>3. Right(s, k, value)'
  BY <1>2, RightGrows
<1> QED
  BY <1>1, <1>3 DEF Right, Shows

LEMMA BackgroundGrows ==
  ASSUME Grow, StoresInv, \A s \in Services : background'[s] \subseteq background[s]
  PROVE  BackgroundRight'
<1> SUFFICES ASSUME NEW s \in Services, NEW item \in background'[s]
             PROVE  Right(s, item[1], item[2])'
  BY DEF BackgroundRight, Right, Shows
<1> QED
  BY ItemsGrow

LEMMA StoresStay ==
  ASSUME Grow, StoresInv, UNCHANGED stores
  PROVE  StoresInv'
<1>1. UNCHANGED <<documents, memcached, background>>
  BY DEF stores
<1>2. DocumentsType' /\ MemcachedType' /\ BackgroundType' /\ HotelDocuments'
  BY <1>1 DEF StoresInv, DocumentsType, MemcachedType, BackgroundType, HotelDocuments
<1> QED
  BY <1>1, <1>2, MemcachedGrows, BackgroundGrows DEF StoresInv

\* A step that changes no store.
LEMMA CallMovesTo ==
  ASSUME DocumentsInv, UNCHANGED <<ask, stores>>, unread \subseteq unread',
         faulted \subseteq faulted', absent \subseteq absent', NEW c \in Calls, NEW r \in CallType,
         call' = [call EXCEPT ![c] = r], call[c].at /= "failed" \/ r.at = "failed",
         NEW op, NEW s, NEW keys, op = ask[c].op, s = ServiceOf(op), keys = ask[c].keys,
         RecordRight(c, op, s, keys, r)'
  PROVE  DocumentsInv'
<1>1. call \in [Calls -> CallType]
  BY DEF DocumentsInv, CallsType
<1>2. Grow
  BY <1>1, SameDocuments DEF stores
<1>3. StoresInv'
  BY <1>2, StoresStay DEF DocumentsInv
<1> QED
  BY <1>2, <1>3, CallMoves

\* The same, with a record that is right already.
LEMMA CallGoesOn ==
  ASSUME DocumentsInv, UNCHANGED <<ask, stores>>, unread \subseteq unread',
         faulted \subseteq faulted', absent \subseteq absent', NEW c \in Calls, NEW r \in CallType,
         call' = [call EXCEPT ![c] = r], call[c].at /= "failed" \/ r.at = "failed",
         NEW op, NEW s, NEW keys, op = ask[c].op, s = ServiceOf(op), keys = ask[c].keys,
         RecordRight(c, op, s, keys, r)
  PROVE  DocumentsInv'
<1>1. call \in [Calls -> CallType]
  BY DEF DocumentsInv, CallsType
<1>2. Grow
  BY <1>1, SameDocuments DEF stores
<1>3. keys \in Seq(Keys) /\ (op \in DOMAIN Writer => keys /= <<>>)
  BY DEF DocumentsInv, AskedRight
<1>4. op \in Reads \cup DOMAIN Writer => s \in Services
  BY ServiceTypes DEF Reads
<1>5. RecordRight(c, op, s, keys, r)'
  BY <1>2, <1>3, <1>4, RecordGrows
<1> QED
  BY <1>5, CallMovesTo

\* What is known of a call.
LEMMA CallKnown ==
  ASSUME DocumentsInv, NEW c \in Calls
  PROVE  \E op, s, keys, r :
           /\ op \in Operations /\ keys \in Seq(Keys) /\ r \in CallType
           /\ op = ask[c].op /\ s = ServiceOf(op) /\ keys = ask[c].keys /\ r = call[c]
           /\ op = Op(c) /\ s = Svc(c) /\ Members(keys) = Wanted(c)
           /\ RecordRight(c, op, s, keys, r)
           /\ op \in DOMAIN Writer => keys /= <<>>
           /\ op \in Reads \cup DOMAIN Writer => s \in Services
<1>1. PICK op, s, keys, r : op = ask[c].op /\ s = ServiceOf(op) /\ keys = ask[c].keys /\ r = call[c]
  OBVIOUS
<1>2. op \in Operations /\ keys \in Seq(Keys) /\ r \in CallType /\ (op \in DOMAIN Writer => keys /= <<>>)
  BY <1>1 DEF DocumentsInv, AskedRight, CallsType
<1>3. op \in Reads \cup DOMAIN Writer => s \in Services
  BY <1>1, ServiceTypes DEF Reads
<1>4. RecordRight(c, op, s, keys, r)
  BY <1>1 DEF DocumentsInv, CallRight
<1>5. op = Op(c) /\ s = Svc(c) /\ Members(keys) = Wanted(c)
  BY <1>1 DEF Op, Svc, Wanted
<1> QED
  BY <1>1, <1>2, <1>3, <1>4, <1>5, Zenon

Places == {"idle", "get", "find", "set", "look", "insert", "info", "parts", "done", "failed", "died"}

LEMMA GotoRecord ==
  ASSUME CallsType, NEW c \in Calls, NEW place \in Places, Goto(c, place)
  PROVE  \E r \in CallType :
           /\ call' = [call EXCEPT ![c] = r]
           /\ r.at = place /\ r.ids = call[c].ids /\ r.next = call[c].next /\ r.answer = call[c].answer
           /\ r.sets = call[c].sets /\ r.tasks = call[c].tasks /\ r.ok = call[c].ok
<1> DEFINE r == [call[c] EXCEPT !.at = place]
<1>1. call[c] \in CallType
  BY DEF CallsType
<1>2. /\ r \in CallType /\ r.at = place /\ r.ids = call[c].ids /\ r.next = call[c].next
      /\ r.answer = call[c].answer /\ r.sets = call[c].sets /\ r.tasks = call[c].tasks /\ r.ok = call[c].ok
  BY <1>1 DEF CallType, Places
<1>3. call' = [call EXCEPT ![c] = r]
  BY <1>1 DEF Goto, CallsType, CallType
<1> QED
  BY <1>2, <1>3

-----------------------------------------------------------------------------
(* The steps of the calls. *)

LEMMA BeginStep ==
  ASSUME DocumentsInv, NEW c \in Calls, Begin(c)
  PROVE  DocumentsInv'
<1>1. PICK op, s, keys, old :
        /\ op \in Operations /\ keys \in Seq(Keys) /\ old \in CallType
        /\ op = ask[c].op /\ s = ServiceOf(op) /\ keys = ask[c].keys /\ old = call[c]
        /\ op = Op(c) /\ s = Svc(c) /\ Members(keys) = Wanted(c)
        /\ RecordRight(c, op, s, keys, old)
        /\ op \in DOMAIN Writer => keys /= <<>>
        /\ op \in Reads \cup DOMAIN Writer => s \in Services
  BY CallKnown
<1>2. PICK place : place = CASE op = "RegisterMovieId" -> "look"
               [] op \in DOMAIN Writer -> "insert"
               [] op = "ReadPage" -> "info"
               [] op \in ListReads /\ keys = <<>> -> "done"
               [] op \in ListReads /\ ~IsInjective(keys) -> "failed"
               [] OTHER -> "get"
  OBVIOUS
<1>3. /\ place \in {"look", "insert", "info", "done", "failed", "get"}
      /\ place \in {"look", "insert"} => op \in DOMAIN Writer
      /\ place = "info" => op = "ReadPage"
      /\ place = "done" => keys = <<>>
      /\ place = "failed" => ~IsInjective(keys)
      /\ place = "get" => op \in Reads
  BY <1>1, <1>2, Tables DEF Operations, Reads, ListReads
<1>4. /\ old.at = "idle" /\ Goto(c, place)
      /\ absent' = absent \cup (IF Lacks(c) THEN {c} ELSE {})
      /\ UNCHANGED <<ask, stores, faulted, unread>>
  BY <1>1, <1>2 DEF Begin, At
<1>5. PICK r \in CallType :
        /\ call' = [call EXCEPT ![c] = r]
        /\ r.at = place /\ r.answer = old.answer /\ r.ok = old.ok /\ r.sets = old.sets
  BY <1>1, <1>3, <1>4, GotoRecord DEF DocumentsInv, Places
<1>6. Placed(op, r)'
  BY <1>3, <1>5, Tables DEF Placed
<1>7. ReadRight(op, s, Members(keys), r)'
  <2>1. op \in Reads => \A k \in Keys : r.answer[k] = Nothing(s)
    BY <1>1, <1>4, <1>5 DEF RecordRight, ReadRight
  <2>2. keys = <<>> => Members(keys) = {}
    BY DEF Members
  <2>3. op \in Reads /\ place = "done" => Exact(s, Members(keys), r)'
    BY <1>3, <2>1, <2>2 DEF Exact, Allowed
  <2> QED
    BY <1>3, <1>5, <2>1, <2>3 DEF ReadRight
<1>8. Excused(c, op, s, keys, r)'
  <2>1. Excused(c, op, s, keys, old)
    BY <1>1 DEF RecordRight
  <2>2. ~r.ok => c \in faulted' \cup absent'
    BY <1>4, <1>5, <2>1 DEF Excused
  <2>3. r.at = "failed" => Reason(c, op, s, keys)'
    BY <1>3, <1>5 DEF Reason
  <2>4. op \in DOMAIN Reader /\ c \notin absent' => \A k \in Members(keys) : documents'[s][k] > 0
    <3> SUFFICES ASSUME op \in DOMAIN Reader, c \notin absent', NEW k \in Members(keys)
                 PROVE  documents'[s][k] > 0
      OBVIOUS
    <3>1. ~Lacks(c)
      BY <1>4
    <3>2. documents[s][k] # 0
      BY <1>1, <3>1 DEF Lacks, Wanted
    <3>3. k \in Keys /\ s \in Services
      BY <1>1, MembersType DEF Reads
    <3>4. documents[s][k] \in Nat
      BY <3>3 DEF DocumentsInv, StoresInv, DocumentsType
    <3> QED
      BY <1>4, <3>2, <3>4 DEF stores
  <2> QED
    BY <2>2, <2>3, <2>4 DEF Excused
<1>9. RecordRight(c, op, s, keys, r)'
  BY <1>6, <1>7, <1>8 DEF RecordRight
<1> QED
  BY <1>1, <1>4, <1>5, <1>9, CallMovesTo

\* A call that goes to a place where nothing is said of what it has read.
LEMMA PlainMove ==
  ASSUME DocumentsInv, NEW c \in Calls, NEW place \in {"look", "insert", "parts", "done", "failed"},
         Goto(c, place), UNCHANGED <<ask, stores, unread, absent>>, faulted \subseteq faulted',
         call[c].at \notin {"idle", "failed"},
         NEW op, NEW s, NEW keys, op = ask[c].op, s = ServiceOf(op), keys = ask[c].keys,
         place \in {"look", "insert"} => op \in DOMAIN Writer,
         place = "parts" => op = "ReadPage",
         place = "done" => op \notin Reads \/ Exact(s, Members(keys), call[c]),
         place = "failed" => Reason(c, op, s, keys)'
  PROVE  DocumentsInv'
<1>1. PICK r \in CallType :
        /\ call' = [call EXCEPT ![c] = r]
        /\ r.at = place /\ r.answer = call[c].answer /\ r.ok = call[c].ok /\ r.sets = call[c].sets
  BY GotoRecord DEF DocumentsInv, Places
<1>2. RecordRight(c, op, s, keys, call[c])
  BY DEF DocumentsInv, CallRight
<1>3. UNCHANGED <<documents, unread>>
  BY DEF stores
<1>4. Placed(op, r)'
  BY <1>1 DEF Placed
<1>5. Exact(s, Members(keys), call[c]) => Exact(s, Members(keys), r)'
  BY <1>1, <1>3 DEF Exact, Allowed, Shows
<1>6. ReadRight(op, s, Members(keys), r)'
  BY <1>1, <1>5 DEF ReadRight
<1>7. Excused(c, op, s, keys, r)'
  BY <1>1, <1>2, <1>3 DEF RecordRight, Excused
<1>8. RecordRight(c, op, s, keys, r)'
  BY <1>4, <1>6, <1>7 DEF RecordRight
<1> QED
  BY <1>1, <1>8, CallMovesTo

LEMMA LookFirstStep ==
  ASSUME DocumentsInv, NEW c \in Calls, LookFirst(c)
  PROVE  DocumentsInv'
<1>1. PICK op, s, keys, old :
        /\ op \in Operations /\ keys \in Seq(Keys) /\ old \in CallType
        /\ op = ask[c].op /\ s = ServiceOf(op) /\ keys = ask[c].keys /\ old = call[c]
        /\ op = Op(c) /\ s = Svc(c) /\ Members(keys) = Wanted(c)
        /\ RecordRight(c, op, s, keys, old)
        /\ op \in DOMAIN Writer => keys /= <<>>
        /\ op \in Reads \cup DOMAIN Writer => s \in Services
  BY CallKnown
<1>2. old.at = "look" /\ UNCHANGED <<ask, stores, faulted, unread, absent>>
  BY <1>1 DEF LookFirst, At, history
<1>3. op \in DOMAIN Writer
  BY <1>1, <1>2 DEF RecordRight, Placed
<1>4. CASE documents[s][Head(keys)] > 0
  <2>1. Goto(c, "failed")
    BY <1>1, <1>4 DEF LookFirst
  <2>2. Reason(c, op, s, keys)'
    BY <1>2, <1>3, <1>4 DEF Reason, stores
  <2> QED
    BY <1>1, <1>2, <2>1, <2>2, PlainMove
<1>5. CASE ~(documents[s][Head(keys)] > 0)
  <2>1. Goto(c, "insert")
    BY <1>1, <1>5 DEF LookFirst
  <2> QED
    BY <1>1, <1>2, <1>3, <2>1, PlainMove
<1> QED
  BY <1>4, <1>5

LEMMA InsertStep ==
  ASSUME DocumentsInv, NEW c \in Calls, Insert(c)
  PROVE  DocumentsInv'
<1>1. PICK op, s, keys, old :
        /\ op \in Operations /\ keys \in Seq(Keys) /\ old \in CallType
        /\ op = ask[c].op /\ s = ServiceOf(op) /\ keys = ask[c].keys /\ old = call[c]
        /\ op = Op(c) /\ s = Svc(c) /\ Members(keys) = Wanted(c)
        /\ RecordRight(c, op, s, keys, old)
        /\ op \in DOMAIN Writer => keys /= <<>>
        /\ op \in Reads \cup DOMAIN Writer => s \in Services
  BY CallKnown
<1>2. old.at = "insert" /\ UNCHANGED <<ask, memcached, background, faulted, unread, absent>>
  BY <1>1 DEF Insert, At, history
<1>3. op \in DOMAIN Writer /\ s \in Services \ HotelServices /\ op \notin Reads
  <2>1. op \in DOMAIN Writer
    BY <1>1, <1>2 DEF RecordRight, Placed
  <2> QED
    BY <1>1, <2>1, ServiceTypes DEF Reads
<1>4. PICK k \in Keys : k = Head(keys)
  BY <1>1, <1>3
<1>5. CASE documents[s][k] > 0 /\ op /= "StoreReview"
  <2>1. Goto(c, "failed") /\ documents' = documents
    BY <1>1, <1>4, <1>5 DEF Insert
  <2>2. Reason(c, op, s, keys)'
    BY <1>2, <1>3, <1>4, <1>5, <2>1 DEF Reason
  <2> QED
    BY <1>1, <1>2, <2>1, <2>2, PlainMove DEF stores
<1>6. CASE ~(documents[s][k] > 0 /\ op /= "StoreReview")
  <2>1. Goto(c, "done") /\ documents' = [documents EXCEPT ![s][k] = documents[s][k] + 1]
    BY <1>1, <1>3, <1>4, <1>6 DEF Insert, DocumentsInv, StoresInv, DocumentsType
  <2>2. PICK r \in CallType :
          /\ call' = [call EXCEPT ![c] = r]
          /\ r.at = "done" /\ r.answer = old.answer /\ r.ok = old.ok /\ r.sets = old.sets
    BY <1>1, <2>1, GotoRecord DEF DocumentsInv, Places
  <2>3. documents \in [Services -> [Keys -> Nat]]
    BY DEF DocumentsInv, StoresInv, DocumentsType
  <2>4. /\ documents' \in [Services -> [Keys -> Nat]]
        /\ \A t \in Services, i \in Keys :
             documents'[t][i] = IF t = s /\ i = k THEN documents[s][k] + 1 ELSE documents[t][i]
    BY <1>3, <2>1, <2>3
  <2>5. Grow
    <3>1. \A p \in Calls : call[p].at = "failed" => call'[p].at = "failed"
      BY <1>1, <1>2, <2>2 DEF DocumentsInv, CallsType
    <3> QED
      BY <1>2, <1>3, <2>3, <2>4, <3>1 DEF Grow
  <2>6. StoresInv'
    <3>1. DocumentsType' /\ MemcachedType' /\ BackgroundType'
      BY <1>2, <2>4 DEF DocumentsInv, StoresInv, DocumentsType, MemcachedType, BackgroundType
    <3>2. HotelDocuments'
      BY <1>3, <2>4 DEF DocumentsInv, StoresInv, HotelDocuments, Services
    <3>3. MemcachedRight' /\ BackgroundRight'
      BY <1>2, <2>5, MemcachedGrows, BackgroundGrows DEF DocumentsInv
    <3> QED
      BY <3>1, <3>2, <3>3 DEF StoresInv
  <2>7. RecordRight(c, op, s, keys, r)'
    <3>1. Excused(c, op, s, keys, old)
      BY <1>1 DEF RecordRight
    <3>2. Excused(c, op, s, keys, r)'
      BY <1>2, <1>3, <2>2, <3>1 DEF Excused, Reads
    <3> QED
      BY <1>3, <2>2, <3>2 DEF RecordRight, Placed, ReadRight
  <2> QED
    BY <1>1, <2>2, <2>5, <2>6, <2>7, CallMoves
<1> QED
  BY <1>5, <1>6

LEMMA FiniteMembers ==
  ASSUME NEW keys \in Seq(Keys)
  PROVE  IsFiniteSet(Members(keys))
<1>1. keys \in Surjection(1 .. Len(keys), Members(keys))
  BY DEF Surjection, Members
<1>2. IsFiniteSet(1 .. Len(keys))
  BY FS_Interval
<1> QED
  BY <1>1, <1>2, FS_Surjection

\* The identifiers of a finite set, in some order.
LEMMA Orders ==
  ASSUME NEW S, IsFiniteSet(S), S \subseteq Keys, NEW ids \in SetToSeqs(S)
  PROVE  ids \in Seq(Keys) /\ IsInjective(ids) /\ Members(ids) = S
<1>1. PICK n \in Nat : n = Cardinality(S)
  BY FS_CardinalityType
<1>2. ids \in [1 .. n -> S] /\ \A i, j \in 1 .. n : i # j => ids[i] # ids[j]
  BY <1>1 DEF SetToSeqs
<1>3. ids \in Injection(1 .. n, S)
  BY <1>2 DEF Injection, IsInjective
<1>4. IsFiniteSet(1 .. n) /\ Cardinality(1 .. n) = n
  BY FS_Interval
<1>5. ids \in Surjection(1 .. n, S)
  BY <1>1, <1>3, <1>4, FS_Injection
<1>6. Members(ids) = S
  BY <1>2, <1>5 DEF Surjection, Members
<1>7. ids \in Seq(S)
  BY <1>1, <1>2
<1> QED
  BY <1>2, <1>6, <1>7 DEF IsInjective

\* Whichever of the hits a read is given.
LEMMA GetHitsStep ==
  ASSUME DocumentsInv, NEW c \in Calls, NEW hits \in SUBSET Hits(c), GetHits(c, hits)
  PROVE  DocumentsInv'
<1>1. PICK op, s, keys, old :
        /\ op \in Operations /\ keys \in Seq(Keys) /\ old \in CallType
        /\ op = ask[c].op /\ s = ServiceOf(op) /\ keys = ask[c].keys /\ old = call[c]
        /\ op = Op(c) /\ s = Svc(c) /\ Members(keys) = Wanted(c)
        /\ RecordRight(c, op, s, keys, old)
        /\ op \in DOMAIN Writer => keys /= <<>>
        /\ op \in Reads \cup DOMAIN Writer => s \in Services
  BY CallKnown
<1>2. old.at = "get" /\ UNCHANGED <<ask, stores, faulted, unread, absent>>
  BY <1>1 DEF GetHits, At, history
<1>3. op \in Reads /\ s \in Services
  BY <1>1, <1>2 DEF RecordRight, Placed
<1>4. PICK wanted, missing, cached :
        /\ wanted = Wanted(c) /\ missing = Missing(c, hits) /\ cached = FromCache(c, hits)
  OBVIOUS
<1>5. /\ wanted \subseteq Keys /\ IsFiniteSet(wanted)
      /\ hits \subseteq {k \in wanted : memcached[s][k] /= None} /\ missing = wanted \ hits
      /\ cached = [k \in Keys |-> IF k \in hits THEN memcached[s][k] ELSE Nothing(s)]
  <2>1. wanted \subseteq Keys /\ IsFiniteSet(wanted)
    BY <1>1, <1>4, MembersType, FiniteMembers
  <2> QED
    BY <1>1, <1>4, <2>1 DEF Hits, Missing, FromCache
<1>6. memcached \in [Services -> [Keys -> DocValue \cup {None}]]
  BY DEF DocumentsInv, StoresInv, MemcachedType
<1>7. /\ cached \in [Keys -> DocValue]
      /\ \A k \in hits : cached[k] = memcached[s][k] /\ cached[k] /= None
      /\ \A k \in Keys \ hits : cached[k] = Nothing(s)
  <2>1. Nothing(s) \in DocValue
    BY DEF Nothing, DocValue
  <2>2. \A k \in hits : k \in Keys /\ memcached[s][k] \in DocValue /\ memcached[s][k] /= None
    BY <1>3, <1>5, <1>6
  <2> QED
    BY <1>5, <2>1, <2>2
<1>8. \A k \in Keys \ missing : cached[k] \in Allowed(s, wanted, k)
  <2>1. \A k \in hits : Right(s, k, memcached[s][k])
    BY <1>3, <1>5 DEF DocumentsInv, StoresInv, MemcachedRight
  <2> QED
    BY <1>5, <1>7, <2>1 DEF Right, Allowed
<1>9. PICK ids \in SetToSeqs(missing) :
        Put(c, [call[c] EXCEPT
          !.at = IF ids /= <<>> THEN "find" ELSE IF op = "UploadMovieId" THEN "set" ELSE "done",
          !.ids = ids,
          !.next = [w \in 1..(IF Len(ids) < MaxGoroutines THEN Len(ids) ELSE MaxGoroutines) |-> w],
          !.answer = cached,
          !.sets = IF op = "UploadMovieId" THEN {<<k, cached[k]>> : k \in hits} ELSE {},
          !.tasks = IF op = "UploadMovieId" THEN {"compose", "rating"} ELSE {}])
  <2>1. PICK ids \in SetToSeqs(Missing(c, hits)) :
       Put(c, [call[c] EXCEPT
         !.at = IF ids /= <<>> THEN "find" ELSE IF Op(c) = "UploadMovieId" THEN "set" ELSE "done",
         !.ids = ids,
         !.next = [w \in 1..(IF Len(ids) < MaxGoroutines THEN Len(ids) ELSE MaxGoroutines) |-> w],
         !.answer = FromCache(c, hits),
         !.sets = IF Op(c) = "UploadMovieId" THEN {<<k, FromCache(c, hits)[k]>> : k \in hits} ELSE {},
         !.tasks = IF Op(c) = "UploadMovieId" THEN {"compose", "rating"} ELSE {}])
    BY DEF GetHits
  <2>2. Missing(c, hits) = missing /\ FromCache(c, hits) = cached /\ Op(c) = op
    BY <1>1, <1>4
  <2> QED
    BY <2>1, <2>2, Zenon
<1>10. ids \in Seq(Keys) /\ IsInjective(ids) /\ Members(ids) = missing
  <2>1. IsFiniteSet(missing) /\ missing \subseteq Keys
    BY <1>5, FS_Subset
  <2> QED
    BY <2>1, Orders
<1>11. PICK place, G, next, sets, tasks :
        /\ place = IF ids /= <<>> THEN "find" ELSE IF op = "UploadMovieId" THEN "set" ELSE "done"
        /\ G = IF Len(ids) < MaxGoroutines THEN Len(ids) ELSE MaxGoroutines
        /\ next = [w \in 1 .. G |-> w]
        /\ sets = IF op = "UploadMovieId" THEN {<<k, cached[k]>> : k \in hits} ELSE {}
        /\ tasks = IF op = "UploadMovieId" THEN {"compose", "rating"} ELSE {}
  OBVIOUS
<1>12. /\ place \in Places /\ sets \in SUBSET (Keys \X DocValue)
       /\ tasks \in SUBSET {"compose", "rating"}
  <2>1. \A k \in hits : k \in Keys /\ cached[k] \in DocValue
    BY <1>5, <1>7
  <2>2. {<<k, cached[k]>> : k \in hits} \in SUBSET (Keys \X DocValue)
    BY <2>1
  <2> QED
    BY <1>11, <2>2 DEF Places
<1>13. G \in Nat /\ next \in Seq(Nat) /\ Len(next) = G /\ (ids /= <<>> => G \in Nat \ {0})
  <2>1. G \in Nat /\ (ids /= <<>> => G \in Nat \ {0})
    BY <1>10, <1>11, CatalogueAssumption
  <2> QED
    BY <1>11, <2>1
<1>14. call' = [call EXCEPT ![c] = [call[c] EXCEPT !.at = place, !.ids = ids, !.next = next,
                    !.answer = cached, !.sets = sets, !.tasks = tasks, !.ok = old.ok]]
  <2>1. call' = [call EXCEPT ![c] = [old EXCEPT !.at = place, !.ids = ids, !.next = next,
                    !.answer = cached, !.sets = sets, !.tasks = tasks]]
    BY <1>1, <1>9, <1>11 DEF Put
  <2>2. [old EXCEPT !.at = place, !.ids = ids, !.next = next,
                    !.answer = cached, !.sets = sets, !.tasks = tasks]
        = [old EXCEPT !.at = place, !.ids = ids, !.next = next,
                    !.answer = cached, !.sets = sets, !.tasks = tasks, !.ok = old.ok]
    BY <1>1 DEF CallType
  <2> QED
    BY <1>1, <2>1, <2>2
<1>15. PICK r \in CallType :
        /\ call' = [call EXCEPT ![c] = r]
        /\ r.at = place /\ r.ids = ids /\ r.next = next /\ r.answer = cached
        /\ r.sets = sets /\ r.tasks = tasks /\ r.ok = old.ok
  <2>1. old.ok \in BOOLEAN
    BY <1>1, CallFields
  <2> DEFINE new == [call[c] EXCEPT !.at = place, !.ids = ids, !.next = next,
                      !.answer = cached, !.sets = sets, !.tasks = tasks, !.ok = old.ok]
  <2>2. /\ new \in CallType
        /\ new.at = place /\ new.ids = ids /\ new.next = next /\ new.answer = cached
        /\ new.sets = sets /\ new.tasks = tasks /\ new.ok = old.ok
    BY <1>1, <1>7, <1>10, <1>12, <1>13, <2>1 DEF CallType, Places
  <2>3. call' = [call EXCEPT ![c] = new]
    BY <1>14
  <2> QED
    BY <2>2, <2>3
<1>16. Placed(op, r)
  BY <1>3, <1>11, <1>15, Tables DEF Placed
<1>17. ReadRight(op, s, wanted, r)
  <2>1. ids = <<>> => missing = {}
    BY <1>10 DEF Members
  <2>2. ids = <<>> => Exact(s, wanted, r)
    BY <1>8, <1>15, <2>1 DEF Exact
  <2>3. ids /= <<>> => Finding(op, s, wanted, r)
    <3> SUFFICES ASSUME ids /= <<>>
                 PROVE  Finding(op, s, wanted, r)
      OBVIOUS
    <3>1. \A k \in Keys \ Members(r.ids) : r.answer[k] \in Allowed(s, wanted, k)
      BY <1>8, <1>10, <1>15
    <3>2. \A k \in Members(r.ids) : r.answer[k] = Nothing(s)
      BY <1>5, <1>7, <1>10, <1>15
    <3>3. Rounds(s, r)
      <4>1. ASSUME NEW w \in 1 .. G
            PROVE  /\ r.next[w] = w + G * 0
                   /\ \A m \in Nat : w + G * m <= Len(r.ids) =>
                        r.answer[r.ids[w + G * m]] \in
                          IF m < 0 THEN Shows(s, r.ids[w + G * m]) ELSE {Nothing(s)}
        <5>1. r.next[w] = w + G * 0
          BY <1>11, <1>13, <1>15
        <5>2. ASSUME NEW m \in Nat, w + G * m <= Len(r.ids)
              PROVE  r.answer[r.ids[w + G * m]] = Nothing(s)
          <6>1. PICK g \in Nat : g = G * m
            BY <1>13
          <6>2. w + g \in 1 .. Len(ids)
            BY <1>10, <1>13, <1>15, <5>2, <6>1
          <6>3. ids[w + g] \in Members(r.ids)
            BY <1>10, <1>15, <6>2 DEF Members
          <6> QED
            BY <1>15, <3>2, <6>1, <6>3
        <5> QED
          BY <5>1, <5>2
      <4> QED
        BY <1>13, <1>15, <4>1 DEF Rounds
    <3> QED
      BY <1>5, <1>10, <1>15, <3>1, <3>2, <3>3 DEF Finding
  <2>4. \A item \in r.sets : Right(s, item[1], item[2])
    <3> SUFFICES ASSUME NEW k \in hits
                 PROVE  Right(s, k, cached[k])
      BY <1>11, <1>15
    <3> QED
      BY <1>3, <1>5, <1>7 DEF DocumentsInv, StoresInv, MemcachedRight
  <2> QED
    BY <1>11, <1>15, <2>2, <2>3, <2>4 DEF ReadRight
<1>18. Excused(c, op, s, keys, r)
  BY <1>1, <1>2, <1>11, <1>15 DEF RecordRight, Excused
<1>19. RecordRight(c, op, s, keys, r)
  BY <1>1, <1>4, <1>16, <1>17, <1>18 DEF RecordRight
<1> QED
  BY <1>1, <1>2, <1>15, <1>19, CallGoesOn

LEMMA GetStep ==
  ASSUME DocumentsInv, NEW c \in Calls, Get(c) \/ FetchEnds(c)
  PROVE  DocumentsInv'
<1>1. PICK hits \in SUBSET Hits(c) : GetHits(c, hits)
  BY DEF Get, FetchEnds
<1> QED
  BY <1>1, GetHitsStep

-----------------------------------------------------------------------------
(* The goroutines of GetRates and GetProfiles. *)

LEMMA Turns ==
  ASSUME NEW G \in Nat \ {0}, NEW v \in 1 .. G, NEW w \in 1 .. G, NEW m \in Nat, NEW n \in Nat,
         v + G * m = w + G * n
  PROVE  v = w /\ m = n
<1>1. ASSUME NEW a \in 1 .. G, NEW b \in 1 .. G, NEW i \in Nat, NEW j \in Nat, i < j
      PROVE  a + G * i # b + G * j
  <2>1. PICK d \in Nat : j = i + 1 + d
    BY <1>1
  <2>2. PICK x \in Nat, y \in Nat : x = G * i /\ y = G * d
    OBVIOUS
  <2>3. G * j = x + G + y
    BY <2>1, <2>2
  <2> QED
    BY <2>2, <2>3
<1>2. m = n
  BY <1>1
<1>3. PICK x \in Nat : x = G * m
  OBVIOUS
<1> QED
  BY <1>2, <1>3

LEMMA TurnOf ==
  ASSUME NEW G \in Nat \ {0}, NEW i \in Nat \ {0}
  PROVE  \E w \in 1 .. G, m \in Nat : i = w + G * m
<1>1. (i - 1) \div G \in Nat /\ (i - 1) % G \in 0 .. G - 1
      /\ i - 1 = G * ((i - 1) \div G) + ((i - 1) % G)
  OBVIOUS
<1>2. PICK m \in Nat, x \in 0 .. G - 1 : i - 1 = G * m + x
  BY <1>1
<1>3. PICK y \in Nat : y = G * m
  OBVIOUS
<1>4. x + 1 \in 1 .. G /\ i = (x + 1) + G * m
  BY <1>2, <1>3
<1> QED
  BY <1>4

\* A goroutine has looked its next hotel up, and shows the value it found.
LEMMA TurnTaken ==
  ASSUME NEW s, NEW r \in CallType, NEW new \in CallType, Rounds(s, r)', IsInjective(r.ids),
         NEW w \in DOMAIN r.next, NEW j, j = r.next[w], j <= Len(r.ids),
         NEW k, k = r.ids[j], NEW value \in DocValue, value \in Shows(s, k)',
         new.ids = r.ids, new.next = [r.next EXCEPT ![w] = j + Len(r.next)],
         new.answer = [r.answer EXCEPT ![k] = value]
  PROVE  Rounds(s, new)' /\ k \in Members(r.ids) /\ k \in Keys
<1>1. PICK G \in Nat \ {0} :
        /\ Len(r.next) = G
        /\ \A v \in 1 .. G : \E n \in Nat :
             /\ r.next[v] = v + G * n
             /\ \A m \in Nat : v + G * m <= Len(r.ids) =>
                  r.answer[r.ids[v + G * m]] \in
                    IF m < n THEN Shows(s, r.ids[v + G * m])' ELSE {Nothing(s)}
  BY DEF Rounds
<1>2. /\ r.ids \in Seq(Keys) /\ r.next \in Seq(Nat) /\ r.answer \in [Keys -> DocValue] /\ w \in 1 .. G
      /\ Len(r.ids) \in Nat
  <2>1. r.ids \in Seq(Keys) /\ r.next \in Seq(Nat) /\ r.answer \in [Keys -> DocValue]
    BY CallFields
  <2> QED
    BY <1>1, <2>1
<1>3. PICK n \in Nat :
        /\ r.next[w] = w + G * n
        /\ \A m \in Nat : w + G * m <= Len(r.ids) =>
             r.answer[r.ids[w + G * m]] \in
               IF m < n THEN Shows(s, r.ids[w + G * m])' ELSE {Nothing(s)}
  BY <1>1, <1>2
<1>4. j \in 1 .. Len(r.ids) /\ j = w + G * n
  <2>1. PICK g \in Nat : g = G * n
    OBVIOUS
  <2> QED
    BY <1>2, <1>3, <2>1
<1>5. k \in Keys /\ k \in Members(r.ids)
  <2>1. j \in DOMAIN r.ids /\ r.ids[j] \in Keys
    BY <1>2, <1>4
  <2> QED
    BY <2>1 DEF Members
<1>7. /\ new.answer[k] = value
      /\ \A x \in Keys : x # k => new.answer[x] = r.answer[x]
  BY <1>2, <1>5
<1>8. /\ Len(new.next) = G /\ new.next[w] = w + G * (n + 1)
      /\ \A v \in 1 .. G : v # w => new.next[v] = r.next[v]
  <2>1. new.next[w] = j + G /\ Len(new.next) = G
    BY <1>1, <1>2
  <2>2. PICK g \in Nat : g = G * n
    OBVIOUS
  <2>3. G * (n + 1) = g + G
    BY <2>2
  <2>4. j + G = w + G * (n + 1)
    BY <1>2, <1>4, <2>2, <2>3
  <2>5. \A v \in 1 .. G : v # w => new.next[v] = r.next[v]
    BY <1>1, <1>2
  <2> QED
    BY <2>1, <2>4, <2>5
<1>9. ASSUME NEW v \in 1 .. G, NEW m \in Nat, v + G * m <= Len(r.ids)
      PROVE  /\ r.ids[v + G * m] \in Keys
             /\ r.ids[v + G * m] = k => v = w /\ m = n
  <2>1. PICK g \in Nat : g = G * m
    OBVIOUS
  <2>2. PICK i \in 1 .. Len(r.ids) : i = v + G * m
    <3>1. v + g <= Len(r.ids)
      BY <1>9, <2>1
    <3>2. v + g \in 1 .. Len(r.ids)
      BY <1>2, <3>1
    <3> QED
      BY <2>1, <3>2
  <2>3. r.ids[i] \in Keys
    BY <1>2, <2>2
  <2>4. r.ids[i] = k => i = j
    BY <1>2, <1>4, <2>2 DEF IsInjective
  <2>5. i = j => v = w /\ m = n
    <3> SUFFICES ASSUME i = j
                 PROVE  v = w /\ m = n
      OBVIOUS
    <3>1. v + G * m = w + G * n
      BY <1>4, <2>2
    <3>2. w \in 1 .. G
      BY <1>2
    <3>3. G \in Nat \ {0} /\ v \in 1 .. G /\ m \in Nat /\ n \in Nat
      OBVIOUS
    <3>4. v = w /\ m = n
      BY ONLY <3>1, <3>2, <3>3, Turns
    <3> QED
      BY <3>4
  <2> QED
    BY <2>2, <2>3, <2>4, <2>5
<1>10. ASSUME NEW v \in 1 .. G
       PROVE  \E a \in Nat :
                /\ new.next[v] = v + G * a
                /\ \A m \in Nat : v + G * m <= Len(new.ids) =>
                     new.answer[new.ids[v + G * m]] \in
                       IF m < a THEN Shows(s, new.ids[v + G * m])' ELSE {Nothing(s)}
  <2>1. CASE v = w
    <3>1. ASSUME NEW m \in Nat, w + G * m <= Len(r.ids)
          PROVE  new.answer[r.ids[w + G * m]] \in
                   IF m < n + 1 THEN Shows(s, r.ids[w + G * m])' ELSE {Nothing(s)}
      <4>1. CASE m = n
        BY <1>3, <1>4, <1>7, <4>1
      <4>2. CASE m # n
        <5>1. new.answer[r.ids[w + G * m]] = r.answer[r.ids[w + G * m]]
          BY <1>2, <1>7, <1>9, <3>1, <4>2
        <5>2. m < n + 1 <=> m < n
          BY <4>2
        <5> QED
          BY <1>3, <3>1, <5>1, <5>2
      <4> QED
        BY <4>1, <4>2
    <3>2. n + 1 \in Nat /\ new.next[v] = v + G * (n + 1)
      BY <1>8, <2>1
    <3>3. \A m \in Nat : v + G * m <= Len(new.ids) =>
            new.answer[new.ids[v + G * m]] \in
              IF m < n + 1 THEN Shows(s, new.ids[v + G * m])' ELSE {Nothing(s)}
      BY <2>1, <3>1 DEF Shows
    <3> QED
      BY <3>2, <3>3
  <2>2. CASE v # w
    <3>1. PICK a \in Nat :
            /\ r.next[v] = v + G * a
            /\ \A m \in Nat : v + G * m <= Len(r.ids) =>
                 r.answer[r.ids[v + G * m]] \in
                   IF m < a THEN Shows(s, r.ids[v + G * m])' ELSE {Nothing(s)}
      BY <1>1
    <3>2. ASSUME NEW m \in Nat, v + G * m <= Len(r.ids)
          PROVE  new.answer[r.ids[v + G * m]] \in
                   IF m < a THEN Shows(s, r.ids[v + G * m])' ELSE {Nothing(s)}
      <4>1. new.answer[r.ids[v + G * m]] = r.answer[r.ids[v + G * m]]
        BY <1>7, <1>9, <2>2, <3>2
      <4> QED
        BY <3>1, <3>2, <4>1
    <3> QED
      BY <1>8, <2>2, <3>1, <3>2
  <2> QED
    BY <2>1, <2>2
<1>11. Rounds(s, new)'
  BY <1>8, <1>10 DEF Rounds
<1> QED
  BY <1>5, <1>11

\* When every goroutine has done its last turn, each hotel has been looked up.
LEMMA TurnsEnd ==
  ASSUME NEW op \in {"GetRates", "GetProfiles"}, NEW s, NEW wanted, NEW r \in CallType,
         Finding(op, s, wanted, r), \A w \in DOMAIN r.next : r.next[w] > Len(r.ids)
  PROVE  Exact(s, wanted, r)
<1> SUFFICES ASSUME NEW k \in Keys
             PROVE  r.answer[k] \in Allowed(s, wanted, k)
  BY DEF Exact
<1>1. CASE k \notin Members(r.ids)
  BY <1>1 DEF Finding
<1>2. CASE k \in Members(r.ids)
  <2>1. r.ids \in Seq(Keys) /\ r.next \in Seq(Nat)
    BY CallFields
  <2>2. PICK i \in 1 .. Len(r.ids) : k = r.ids[i]
    BY <1>2, <2>1 DEF Members
  <2>3. PICK G \in Nat \ {0} :
          /\ Len(r.next) = G
          /\ \A w \in 1 .. G : \E n \in Nat :
               /\ r.next[w] = w + G * n
               /\ \A m \in Nat : w + G * m <= Len(r.ids) =>
                    r.answer[r.ids[w + G * m]] \in
                      IF m < n THEN Shows(s, r.ids[w + G * m]) ELSE {Nothing(s)}
    BY DEF Finding, Rounds
  <2>4. PICK w \in 1 .. G, m \in Nat : i = w + G * m
    <3>1. i \in Nat \ {0}
      BY <2>1
    <3> QED
      BY <3>1, TurnOf
  <2>5. PICK n \in Nat :
          /\ r.next[w] = w + G * n
          /\ \A a \in Nat : w + G * a <= Len(r.ids) =>
               r.answer[r.ids[w + G * a]] \in
                 IF a < n THEN Shows(s, r.ids[w + G * a]) ELSE {Nothing(s)}
    BY <2>3
  <2>6. w + G * n > i
    BY <2>1, <2>2, <2>3, <2>5
  <2>7. m < n
    <3> SUFFICES ASSUME n <= m PROVE FALSE
      OBVIOUS
    <3>1. PICK d \in Nat : m = n + d
      OBVIOUS
    <3>2. PICK x \in Nat, y \in Nat : x = G * n /\ y = G * d
      OBVIOUS
    <3>3. G * m = x + y
      BY <3>1, <3>2
    <3> QED
      BY <2>4, <2>6, <3>2, <3>3
  <2>8. r.answer[k] \in Shows(s, k)
    <3>1. w + G * m <= Len(r.ids)
      BY <2>1, <2>2, <2>4
    <3>2. r.answer[r.ids[w + G * m]] \in IF m < n THEN Shows(s, r.ids[w + G * m]) ELSE {Nothing(s)}
      BY <2>5, <3>1, Zenon
    <3>3. r.ids[w + G * m] = k
      BY <2>2, <2>4
    <3> QED
      BY <2>7, <3>2, <3>3, Zenon
  <2> QED
    BY <1>2, <2>8 DEF Finding, Allowed
<1> QED
  BY <1>1, <1>2

\* What Find finds shows the document.
LEMMA FoundShown ==
  ASSUME StoresInv, NEW c \in Calls, NEW op \in Reads, op = Op(c), NEW s, s = ServiceOf(op),
         NEW k \in Keys, op \in DOMAIN Hotel \/ documents[s][k] > 0
  PROVE  /\ Found(c, k) \in ValueOf(s) /\ Found(c, k) \in DocValue /\ Right(s, k, Found(c, k))
         /\ op = "GetReviews" => Found(c, k) = documents[s][k]
<1>1. s \in Services /\ documents[s] \in [Keys -> Nat] /\ Svc(c) = s
  BY ServiceTypes DEF StoresInv, DocumentsType, Svc
<1>2. PICK copies \in Nat : copies = documents[s][k]
  BY <1>1
<1>3. \A n \in Nat : n \in Some(n)
  BY DEF Some
<1>4. CASE op = "GetRates"
  <2>1. s = "rate" /\ s \in HotelServices /\ Found(c, k) = documents[s]
    BY <1>1, <1>4, ServicesOfOperations, Tables DEF Found
  <2>2. documents[s] \in {plans \in [Keys -> Nat] : \A h \in Keys : plans[h] \in Some(documents[s][h])}
    BY <1>1, <1>3
  <2>3. documents[s] \in Shows(s, k)
    BY <2>1, <2>2 DEF Shows
  <2> QED
    BY <1>1, <1>4, <2>1, <2>3 DEF Right, ValueOf, DocValue
<1>5. CASE op = "GetReviews"
  <2>1. s = "review" /\ s \in HotelServices /\ Found(c, k) = copies
    BY <1>1, <1>2, <1>5, ServicesOfOperations, Tables DEF Found
  <2>2. copies \in Some(documents[s][k])
    BY <1>2, <1>3
  <2>3. copies \in Shows(s, k)
    BY <2>1, <2>2 DEF Shows
  <2> QED
    BY <1>2, <2>1, <2>3 DEF Right, ValueOf, DocValue
<1>6. CASE op \notin {"GetRates", "GetReviews"}
  <2>1. Found(c, k) = IF copies = 0 THEN 0 ELSE 1
    BY <1>1, <1>2, <1>6 DEF Found
  <2>2. s \notin {"rate", "review"} /\ copies > 0 /\ (s \in HotelServices \/ documents[s][k] > 0)
    <3>1. CASE op \in DOMAIN Hotel
      <4>1. s = "profile" /\ s \in HotelServices
        BY <1>6, <3>1, ServicesOfOperations, Tables
      <4>2. Inserted(s, k) = 1
        BY <4>1 DEF Inserted, Bare
      <4> QED
        BY <1>2, <4>1, <4>2 DEF StoresInv, HotelDocuments
    <3>2. CASE op \notin DOMAIN Hotel
      <4>1. s \in Services \ HotelServices
        BY <3>2, ServiceTypes DEF Reads
      <4> QED
        BY <1>2, <3>2, <4>1, Tables
    <3> QED
      BY <3>1, <3>2
  <2>3. Found(c, k) = 1
    BY <2>1, <2>2
  <2> QED
    BY <1>6, <2>2, <2>3 DEF Right, Shows, ValueOf, DocValue
<1> QED
  BY <1>4, <1>5, <1>6

LEMMA LeftToSet ==
  ASSUME Grow, StoresInv, UNCHANGED <<documents, memcached>>, NEW s \in Services, NEW k \in Keys,
         NEW value \in DocValue, Right(s, k, value)',
         background' = [background EXCEPT ![s] = background[s] \cup {<<k, value>>}]
  PROVE  StoresInv'
<1>1. DocumentsType' /\ MemcachedType' /\ HotelDocuments'
  BY DEF StoresInv, DocumentsType, MemcachedType, HotelDocuments
<1>2. BackgroundType'
  BY DEF StoresInv, BackgroundType
<1>3. BackgroundRight'
  <2> SUFFICES ASSUME NEW t \in Services, NEW item \in background'[t]
               PROVE  Right(t, item[1], item[2])'
    BY DEF BackgroundRight, Right, Shows
  <2>1. item \in background[t] \/ (t = s /\ item = <<k, value>>)
    BY DEF StoresInv, BackgroundType
  <2>2. CASE item \in background[t]
    BY <2>2, ItemsGrow
  <2>3. CASE t = s /\ item = <<k, value>>
    BY <2>3 DEF Right, Shows
  <2> QED
    BY <2>1, <2>2, <2>3
<1> QED
  BY <1>1, <1>2, <1>3, MemcachedGrows DEF StoresInv

LEMMA TurnStep ==
  ASSUME DocumentsInv, NEW c \in Calls, NEW op \in {"GetRates", "GetProfiles"}, NEW s,
         op = ask[c].op, s = ServiceOf(op), NEW old, old = call[c], old.at = "find",
         NEW w \in DOMAIN old.next, NEW j, j = old.next[w], j <= Len(old.ids), NEW k, k = old.ids[j],
         NEW value \in DocValue, value \in Shows(s, k)',
         UNCHANGED <<ask, documents, memcached, absent>>, unread \subseteq unread', faulted \subseteq faulted',
         background' = [background EXCEPT ![s] = background[s] \cup {<<k, value>>}],
         call' = [call EXCEPT ![c] = [old EXCEPT !.answer = [old.answer EXCEPT ![k] = value],
                                                 !.next = [old.next EXCEPT ![w] = j + Len(old.next)]]]
  PROVE  DocumentsInv'
<1>1. PICK keys, wanted : keys = ask[c].keys /\ wanted = Members(keys)
  OBVIOUS
<1>2. /\ keys \in Seq(Keys) /\ old \in CallType /\ RecordRight(c, op, s, keys, old)
      /\ op \notin DOMAIN Writer /\ op \in Reads /\ s \in HotelServices /\ s \in Services
  <2>1. keys \in Seq(Keys) /\ old \in CallType /\ RecordRight(c, op, s, keys, old)
    BY <1>1 DEF DocumentsInv, AskedRight, CallsType, CallRight
  <2>2. op \in DOMAIN Hotel
    BY Tables
  <2> QED
    BY <2>1, <2>2, ServiceTypes DEF Reads
<1>3. Grow
  <2>1. \A p \in Calls : call[p].at = "failed" => call'[p].at = "failed"
    BY DEF DocumentsInv, CallsType
  <2> QED
    BY <2>1, SameDocuments
<1>4. RecordRight(c, op, s, keys, old)'
  BY <1>2, <1>3, RecordGrows
<1>5. Finding(op, s, wanted, old)'
  BY <1>1, <1>2, <1>4 DEF RecordRight, ReadRight
<1>6. Rounds(s, old)' /\ IsInjective(old.ids)
  BY <1>5 DEF Finding
<1>7. j \in 1 .. Len(old.ids) /\ k \in Keys /\ k \in Members(old.ids)
  <2>1. old.ids \in Seq(Keys) /\ old.next \in Seq(Nat) /\ old.answer \in [Keys -> DocValue]
    BY <1>2, CallFields
  <2>2. PICK G \in Nat \ {0} :
          /\ Len(old.next) = G
          /\ \A v \in 1 .. G : \E n \in Nat : old.next[v] = v + G * n
    BY <1>6 DEF Rounds
  <2>7. w \in 1 .. G /\ Len(old.ids) \in Nat
    BY <2>1, <2>2
  <2>3. PICK n \in Nat : j = w + G * n
    BY <2>2, <2>7
  <2>4. PICK g \in Nat : g = G * n
    OBVIOUS
  <2>5. j \in 1 .. Len(old.ids)
    BY <2>2, <2>7, <2>3, <2>4
  <2>6. k \in Keys /\ j \in DOMAIN old.ids
    BY <2>1, <2>5
  <2> QED
    BY <2>5, <2>6 DEF Members
<1>8. PICK new \in CallType :
        /\ call' = [call EXCEPT ![c] = new]
        /\ new.at = "find" /\ new.ids = old.ids /\ new.next = [old.next EXCEPT ![w] = j + Len(old.next)]
        /\ new.answer = [old.answer EXCEPT ![k] = value] /\ new.ok = old.ok
  <2>1. old.ids \in Seq(Keys) /\ old.next \in Seq(Nat) /\ old.answer \in [Keys -> DocValue]
    BY <1>2, CallFields
  <2>2. PICK answer \in [Keys -> DocValue] : answer = [old.answer EXCEPT ![k] = value]
    BY <2>1
  <2>3. PICK next \in Seq(Nat) : next = [old.next EXCEPT ![w] = j + Len(old.next)]
    <3>1. j \in Nat /\ Len(old.next) \in Nat
      BY <1>7, <2>1
    <3>2. j + Len(old.next) \in Nat
      BY <3>1
    <3>3. [old.next EXCEPT ![w] = j + Len(old.next)] \in Seq(Nat)
      BY <2>1, <3>2
    <3> QED
      BY <3>3
  <2> DEFINE r == [old EXCEPT !.answer = answer, !.next = next]
  <2>4. r \in CallType /\ r.at = "find" /\ r.ids = old.ids /\ r.next = next /\ r.answer = answer /\ r.ok = old.ok
    BY <1>2 DEF CallType
  <2>5. call' = [call EXCEPT ![c] = r]
    BY <2>2, <2>3
  <2> QED
    BY <2>2, <2>3, <2>4, <2>5
<1>9. Rounds(s, new)'
  <2>1. Rounds(s, old)'
    BY <1>6
  <2>2. IsInjective(old.ids)
    BY <1>6
  <2>3. /\ old \in CallType /\ new.ids = old.ids
        /\ new.next = [old.next EXCEPT ![w] = j + Len(old.next)]
        /\ new.answer = [old.answer EXCEPT ![k] = value]
    BY <1>2, <1>8
  <2>4. /\ w \in DOMAIN old.next /\ j = old.next[w] /\ j <= Len(old.ids) /\ k = old.ids[j]
        /\ value \in DocValue /\ new \in CallType
    OBVIOUS
  <2>5. value \in Shows(s, k)'
    OBVIOUS
  <2> QED
    BY ONLY <2>1, <2>2, <2>3, <2>4, <2>5, TurnTaken
<1>10. Finding(op, s, wanted, new)'
  <2>1. \A x \in Keys : x # k => new.answer[x] = old.answer[x]
    BY <1>2, <1>7, <1>8, CallFields
  <2>2. \A x \in Keys \ Members(new.ids) : new.answer[x] \in Allowed(s, wanted, x)'
    BY <1>5, <1>7, <1>8, <2>1 DEF Finding
  <2> QED
    BY <1>5, <1>8, <1>9, <2>2 DEF Finding
<1>11. RecordRight(c, op, s, keys, new)'
  <2>1. Placed(op, new)'
    BY <1>2, <1>8 DEF Placed
  <2>2. ReadRight(op, s, wanted, new)'
    BY <1>8, <1>10 DEF ReadRight
  <2>3. Excused(c, op, s, keys, new)'
    BY <1>4, <1>8 DEF RecordRight, Excused
  <2> QED
    BY <1>1, <2>1, <2>2, <2>3 DEF RecordRight
<1>12. StoresInv'
  <2>1. Right(s, k, value)'
    BY <1>2 DEF Right
  <2> QED
    BY <1>2, <1>3, <1>7, <2>1, LeftToSet DEF DocumentsInv
<1> QED
  BY <1>1, <1>3, <1>8, <1>11, <1>12, CallMoves

\* What a goroutine looks up next was asked for, and nothing has been added
\* to the answer for it.
LEMMA TurnKey ==
  ASSUME NEW s, NEW r \in CallType, Rounds(s, r), NEW w \in DOMAIN r.next,
         NEW j, j = r.next[w], j <= Len(r.ids)
  PROVE  r.ids[j] \in Keys /\ r.answer[r.ids[j]] = Nothing(s)
<1>1. PICK G \in Nat \ {0} :
        /\ Len(r.next) = G
        /\ \A v \in 1 .. G : \E n \in Nat :
             /\ r.next[v] = v + G * n
             /\ \A m \in Nat : v + G * m <= Len(r.ids) =>
                  r.answer[r.ids[v + G * m]] \in
                    IF m < n THEN Shows(s, r.ids[v + G * m]) ELSE {Nothing(s)}
  BY DEF Rounds
<1>2. r.ids \in Seq(Keys) /\ r.next \in Seq(Nat) /\ Len(r.ids) \in Nat /\ w \in 1 .. G
  <2>1. r.ids \in Seq(Keys) /\ r.next \in Seq(Nat)
    BY CallFields
  <2> QED
    BY <1>1, <2>1
<1>3. PICK n \in Nat :
        /\ j = w + G * n
        /\ \A m \in Nat : w + G * m <= Len(r.ids) =>
             r.answer[r.ids[w + G * m]] \in
               IF m < n THEN Shows(s, r.ids[w + G * m]) ELSE {Nothing(s)}
  BY <1>1, <1>2
<1>4. PICK g \in Nat : g = G * n
  OBVIOUS
<1>5. j \in 1 .. Len(r.ids)
  BY <1>2, <1>3, <1>4
<1>6. r.answer[r.ids[j]] = Nothing(s)
  <2>1. w + G * n <= Len(r.ids)
    BY <1>3
  <2>2. r.answer[r.ids[w + G * n]] \in IF n < n THEN Shows(s, r.ids[w + G * n]) ELSE {Nothing(s)}
    BY <1>3, <2>1, Zenon
  <2>3. ~(n < n)
    OBVIOUS
  <2> QED
    BY <1>3, <2>2, <2>3
<1> QED
  BY <1>2, <1>5, <1>6

LEMMA TurnKnown ==
  ASSUME DocumentsInv, NEW c \in Calls, NEW w, HasTurn(c, w)
  PROVE  /\ KeyOf(c, w) \in Keys /\ call[c].answer[KeyOf(c, w)] = Nothing(Svc(c))
         /\ Op(c) \in {"GetRates", "GetProfiles"} /\ Op(c) \in DOMAIN Hotel /\ Op(c) \in Reads
         /\ Svc(c) \in Services /\ Svc(c) \in HotelServices /\ call[c] \in CallType
<1>1. PICK op, s, keys, old :
        /\ op \in Operations /\ keys \in Seq(Keys) /\ old \in CallType
        /\ op = ask[c].op /\ s = ServiceOf(op) /\ keys = ask[c].keys /\ old = call[c]
        /\ op = Op(c) /\ s = Svc(c) /\ Members(keys) = Wanted(c)
        /\ RecordRight(c, op, s, keys, old)
        /\ op \in DOMAIN Writer => keys /= <<>>
        /\ op \in Reads \cup DOMAIN Writer => s \in Services
  BY CallKnown
<1>2. PICK j : j = old.next[w]
  OBVIOUS
<1>3. /\ old.at = "find" /\ op \in {"GetRates", "GetProfiles"} /\ w \in DOMAIN old.next
      /\ j <= Len(old.ids) /\ KeyOf(c, w) = old.ids[j]
  BY <1>1, <1>2 DEF HasTurn, KeyOf, At
<1>4. op \in DOMAIN Hotel /\ op \in Reads /\ s \in Services /\ s \in HotelServices
  <2>1. op \in DOMAIN Hotel
    BY <1>3, Tables
  <2> QED
    BY <1>1, <2>1, ServiceTypes DEF Reads
<1>5. Rounds(s, old)
  BY <1>1, <1>3, <1>4 DEF RecordRight, ReadRight, Finding
<1>6. old.ids[j] \in Keys /\ old.answer[old.ids[j]] = Nothing(s)
  BY <1>1, <1>2, <1>3, <1>5, TurnKey
<1> QED
  BY <1>1, <1>3, <1>4, <1>6

LEMMA AddsStep ==
  ASSUME DocumentsInv, NEW c \in Calls, NEW w, NEW value, Adds(c, w, value),
         NEW s, NEW k, s = Svc(c), k = KeyOf(c, w), value \in ValueOf(s), value \in Shows(s, k)',
         unread \subseteq unread', faulted \subseteq faulted'
  PROVE  DocumentsInv'
<1>1. /\ HasTurn(c, w) /\ UNCHANGED <<ask, documents, memcached, absent>>
      /\ background' = [background EXCEPT ![s] = @ \cup {<<k, value>>}]
      /\ Put(c, [call[c] EXCEPT !.answer[k] = Plus(s, @, value), !.next[w] = @ + Len(call[c].next)])
  BY DEF Adds
<1>2. PICK op, old, j : op = ask[c].op /\ old = call[c] /\ j = old.next[w]
  OBVIOUS
<1>3. /\ op \in {"GetRates", "GetProfiles"} /\ s = ServiceOf(op) /\ s \in Services
      /\ old \in CallType /\ k \in Keys /\ old.answer[k] = Nothing(s)
  BY <1>1, <1>2, TurnKnown DEF Op, Svc
<1>4. old.at = "find" /\ w \in DOMAIN old.next /\ j <= Len(old.ids) /\ k = old.ids[j]
  BY <1>1, <1>2 DEF HasTurn, KeyOf, At
<1>5. value \in DocValue /\ Plus(s, old.answer[k], value) = value
  <2>1. value \in DocValue
    BY DEF ValueOf, DocValue
  <2> QED
    BY <1>3, <2>1, NothingAdds
<1>6. call' = [call EXCEPT ![c] = [old EXCEPT !.answer = [old.answer EXCEPT ![k] = value],
                                               !.next = [old.next EXCEPT ![w] = j + Len(old.next)]]]
  <2>1. old.answer \in [Keys -> DocValue] /\ old.next \in Seq(Nat)
    BY <1>3, CallFields
  <2>2. [old EXCEPT !.answer[k] = Plus(s, @, value), !.next[w] = @ + Len(old.next)]
        = [old EXCEPT !.answer = [old.answer EXCEPT ![k] = Plus(s, old.answer[k], value)],
                      !.next = [old.next EXCEPT ![w] = old.next[w] + Len(old.next)]]
    BY <1>3, <1>4, <2>1 DEF CallType
  <2> QED
    BY <1>1, <1>2, <1>5, <2>2 DEF Put
<1>7. background' = [background EXCEPT ![s] = background[s] \cup {<<k, value>>}]
  BY <1>1, <1>3 DEF DocumentsInv, StoresInv, BackgroundType
<1> QED
  BY <1>1, <1>2, <1>3, <1>4, <1>5, <1>6, <1>7, TurnStep

LEMMA WorkStep ==
  ASSUME DocumentsInv, NEW c \in Calls, NEW w, Work(c, w)
  PROVE  DocumentsInv'
<1>1. PICK s, k, value : s = Svc(c) /\ k = KeyOf(c, w) /\ value = Found(c, k)
  OBVIOUS
<1>2. Adds(c, w, value) /\ UNCHANGED <<documents, unread, faulted>> /\ HasTurn(c, w)
  BY <1>1 DEF Work, Adds
<1>3. k \in Keys /\ Op(c) \in DOMAIN Hotel /\ Op(c) \in Reads /\ s = ServiceOf(Op(c))
  BY <1>1, <1>2, TurnKnown DEF Svc
<1>4. value \in ValueOf(s) /\ value \in Shows(s, k)
  BY <1>1, <1>3, FoundShown DEF DocumentsInv, Right
<1>5. value \in Shows(s, k)'
  BY <1>2, <1>4 DEF Shows
<1> QED
  BY <1>1, <1>2, <1>4, <1>5, AddsStep

LEMMA WorkReadsNothingStep ==
  ASSUME DocumentsInv, NEW c \in Calls, NEW w, WorkReadsNothing(c, w)
  PROVE  DocumentsInv'
<1>1. PICK s, k, value : s = Svc(c) /\ k = KeyOf(c, w) /\ value = Nothing(s)
  OBVIOUS
<1>2. /\ Adds(c, w, value) /\ faulted \subseteq faulted' /\ unread \subseteq unread'
      /\ <<s, k>> \in unread'
  BY <1>1 DEF WorkReadsNothing, ReadsNothing, Fails
<1>3. value \in ValueOf(s) /\ value \in Shows(s, k)'
  BY <1>1, <1>2 DEF Shows, Nothing, ValueOf
<1> QED
  BY <1>1, <1>2, <1>3, AddsStep

LEMMA WorkEndsStep ==
  ASSUME DocumentsInv, NEW c \in Calls, WorkEnds(c)
  PROVE  DocumentsInv'
<1>1. PICK op, s, keys, old :
        /\ op \in Operations /\ keys \in Seq(Keys) /\ old \in CallType
        /\ op = ask[c].op /\ s = ServiceOf(op) /\ keys = ask[c].keys /\ old = call[c]
        /\ op = Op(c) /\ s = Svc(c) /\ Members(keys) = Wanted(c)
        /\ RecordRight(c, op, s, keys, old)
        /\ op \in DOMAIN Writer => keys /= <<>>
        /\ op \in Reads \cup DOMAIN Writer => s \in Services
  BY CallKnown
<1>2. /\ old.at = "find" /\ op \in {"GetRates", "GetProfiles"}
      /\ \A w \in DOMAIN old.next : old.next[w] > Len(old.ids)
      /\ Goto(c, "done") /\ UNCHANGED <<ask, stores, faulted, unread, absent>>
  BY <1>1 DEF WorkEnds, At, history
<1>3. PICK wanted : wanted = Members(keys)
  OBVIOUS
<1>4. Finding(op, s, wanted, old)
  BY <1>1, <1>2, <1>3, Tables DEF RecordRight, ReadRight, Reads
<1>5. Exact(s, wanted, old)
  BY <1>1, <1>2, <1>4, TurnsEnd
<1> QED
  BY <1>1, <1>2, <1>3, <1>5, PlainMove

LEMMA FindStep ==
  ASSUME DocumentsInv, NEW c \in Calls, Find(c)
  PROVE  DocumentsInv'
<1>1. PICK op, s, keys, old :
        /\ op \in Operations /\ keys \in Seq(Keys) /\ old \in CallType
        /\ op = ask[c].op /\ s = ServiceOf(op) /\ keys = ask[c].keys /\ old = call[c]
        /\ op = Op(c) /\ s = Svc(c) /\ Members(keys) = Wanted(c)
        /\ RecordRight(c, op, s, keys, old)
        /\ op \in DOMAIN Writer => keys /= <<>>
        /\ op \in Reads \cup DOMAIN Writer => s \in Services
  BY CallKnown
<1>2. PICK wanted, missing : wanted = Members(keys) /\ missing = Members(old.ids)
  OBVIOUS
<1>3. PICK found : found = {k \in missing : documents[s][k] > 0}
  OBVIOUS
<1>4. PICK cacheable, place, ok, sets, answer :
        /\ cacheable = IF op = "GetReviews" THEN missing ELSE found
        /\ place = IF cacheable = {} THEN "failed" ELSE "set"
        /\ ok = (found = missing \/ op = "GetReviews")
        /\ sets = {<<k, Found(c, k)>> : k \in cacheable}
        /\ answer = [k \in Keys |-> IF k \in found THEN Found(c, k) ELSE old.answer[k]]
  OBVIOUS
<1>5. /\ old.at = "find" /\ op \in DOMAIN Reader \cup {"GetReviews"}
      /\ UNCHANGED <<ask, stores, faulted, unread, absent>>
  BY <1>1 DEF Find, At, history
<1>6. call' = [call EXCEPT ![c] = [old EXCEPT !.at = place, !.answer = answer, !.sets = sets, !.ok = ok]]
  <2>1. /\ found = {k \in Members(call[c].ids) : documents[Svc(c)][k] > 0}
        /\ cacheable = Cacheable(c, found) /\ ok = (Complete(c, found) \/ Op(c) = "GetReviews")
    BY <1>1, <1>2, <1>3, <1>4 DEF Cacheable, Complete
  <2>2. Put(c, [call[c] EXCEPT
          !.at = IF Cacheable(c, found) = {} THEN "failed" ELSE "set",
          !.answer = [k \in Keys |-> IF k \in found THEN Found(c, k) ELSE @[k]],
          !.sets = {<<k, Found(c, k)>> : k \in Cacheable(c, found)},
          !.ok = Complete(c, found) \/ Op(c) = "GetReviews"])
    BY <2>1 DEF Find
  <2>3. [old EXCEPT !.at = place, !.answer = [k \in Keys |-> IF k \in found THEN Found(c, k) ELSE @[k]],
                    !.sets = sets, !.ok = ok]
        = [old EXCEPT !.at = place, !.answer = answer, !.sets = sets, !.ok = ok]
    BY <1>1, <1>4 DEF CallType
  <2> QED
    BY <1>1, <1>4, <2>1, <2>2, <2>3 DEF Put
<1>7. op \in Reads /\ s \in Services /\ (op \in DOMAIN Hotel <=> op = "GetReviews")
      /\ op \notin {"GetRates", "GetProfiles"}
  BY <1>1, <1>5, Tables DEF Reads
<1>8. Finding(op, s, wanted, old)
  BY <1>1, <1>2, <1>5, <1>7 DEF RecordRight, ReadRight
<1>9. missing \subseteq wanted /\ wanted \subseteq Keys /\ old.answer \in [Keys -> DocValue] /\ missing # {}
  <2>1. old.ids \in Seq(Keys) /\ old.answer \in [Keys -> DocValue]
    BY <1>1, CallFields
  <2>2. missing # {}
    <3>1. 1 \in DOMAIN old.ids
      BY <1>8, <2>1 DEF Finding
    <3> QED
      BY <1>2, <3>1 DEF Members
  <2> QED
    BY <1>1, <1>2, <1>8, <2>1, <2>2, MembersType DEF Finding
<1>10. \A k \in missing : old.answer[k] = Nothing(s)
  BY <1>2, <1>7, <1>8 DEF Finding
<1>11. \A k \in cacheable \cup found :
         /\ k \in missing /\ k \in Keys
         /\ Found(c, k) \in DocValue /\ Right(s, k, Found(c, k))
         /\ op = "GetReviews" => Found(c, k) = documents[s][k]
  <2> SUFFICES ASSUME NEW k \in cacheable \cup found
               PROVE  /\ k \in missing /\ k \in Keys
                      /\ Found(c, k) \in DocValue /\ Right(s, k, Found(c, k))
                      /\ op = "GetReviews" => Found(c, k) = documents[s][k]
    OBVIOUS
  <2>1. k \in missing /\ k \in Keys /\ (op \in DOMAIN Hotel \/ documents[s][k] > 0)
    BY <1>3, <1>4, <1>7, <1>9
  <2> QED
    BY <1>1, <1>7, <2>1, FoundShown DEF DocumentsInv
<1>12. answer \in [Keys -> DocValue] /\ sets \in SUBSET (Keys \X DocValue) /\ ok \in BOOLEAN /\ place \in Places
  BY <1>4, <1>9, <1>11 DEF Places
<1>13. PICK r \in CallType :
         /\ call' = [call EXCEPT ![c] = r]
         /\ r.at = place /\ r.answer = answer /\ r.sets = sets /\ r.ok = ok
  <2> DEFINE new == [old EXCEPT !.at = place, !.answer = answer, !.sets = sets, !.ok = ok]
  <2>1. new \in CallType /\ new.at = place /\ new.answer = answer /\ new.sets = sets /\ new.ok = ok
    BY <1>1, <1>12 DEF CallType, Places
  <2> QED
    BY <1>6, <2>1
<1>14. \A k \in missing : documents[s][k] \in Nat
  BY <1>7, <1>9 DEF DocumentsInv, StoresInv, DocumentsType
<1>15. c \notin absent /\ op \in DOMAIN Reader => found = missing
  <2>1. Excused(c, op, s, keys, old)
    BY <1>1 DEF RecordRight
  <2>2. c \notin absent /\ op \in DOMAIN Reader => \A k \in wanted : documents[s][k] > 0
    BY <1>2, <1>5, <2>1 DEF Excused
  <2> QED
    BY <1>3, <1>9, <2>2
<1>16. ok => Exact(s, wanted, r)
  <2> SUFFICES ASSUME ok, NEW k \in Keys
               PROVE  answer[k] \in Allowed(s, wanted, k)
    BY <1>13 DEF Exact
  <2>1. CASE k \notin missing
    BY <1>2, <1>3, <1>4, <1>8, <2>1 DEF Finding
  <2>2. CASE k \in found
    BY <1>4, <1>9, <1>11, <2>2 DEF Right, Allowed
  <2>3. CASE k \in missing /\ k \notin found
    <3>1. op = "GetReviews" /\ k \in cacheable /\ documents[s][k] = 0
      <4>1. ~(documents[s][k] > 0) /\ found # missing
        BY <1>3, <2>3
      <4>2. op = "GetReviews"
        BY <1>4, <4>1, Zenon
      <4>3. documents[s][k] = 0
        BY <1>14, <2>3, <4>1
      <4> QED
        BY <1>4, <2>3, <4>2, <4>3
    <3>2. Found(c, k) \in Shows(s, k) /\ Found(c, k) = 0
      BY <1>11, <3>1 DEF Right
    <3>3. Nothing(s) = 0
      BY <1>1, <3>1, ServicesOfOperations DEF Nothing
    <3> QED
      BY <1>4, <1>9, <1>10, <2>3, <3>2, <3>3 DEF Allowed
  <2> QED
    BY <2>1, <2>2, <2>3
<1>17. ReadRight(op, s, wanted, r)
  <2>1. \A item \in r.sets : Right(s, item[1], item[2])
    <3> SUFFICES ASSUME NEW k \in cacheable
                 PROVE  Right(s, k, Found(c, k))
      BY <1>4, <1>13
    <3> QED
      BY <1>11
  <2> QED
    BY <1>4, <1>13, <1>16, <2>1 DEF ReadRight
<1>18. Placed(op, r)
  BY <1>4, <1>5, <1>13 DEF Placed
<1>19. Excused(c, op, s, keys, r)
  <2>1. Excused(c, op, s, keys, old)
    BY <1>1 DEF RecordRight
  <2>2. ~r.ok => c \in faulted \cup absent
    BY <1>4, <1>5, <1>13, <1>15
  <2>3. r.at = "failed" => Reason(c, op, s, keys)
    BY <1>4, <1>5, <1>9, <1>13, <1>15 DEF Reason
  <2>4. op \in DOMAIN Reader /\ r.at /= "idle" /\ c \notin absent =>
          \A k \in Members(keys) : documents[s][k] > 0
    BY <1>5, <2>1 DEF Excused
  <2> QED
    BY <2>2, <2>3, <2>4 DEF Excused
<1>20. RecordRight(c, op, s, keys, r)
  BY <1>2, <1>17, <1>18, <1>19 DEF RecordRight
<1> QED
  BY <1>1, <1>5, <1>13, <1>20, CallGoesOn

LEMMA FindReadsNothingStep ==
  ASSUME DocumentsInv, NEW c \in Calls, FindReadsNothing(c)
  PROVE  DocumentsInv'
<1>1. PICK op, s, keys, old :
        /\ op \in Operations /\ keys \in Seq(Keys) /\ old \in CallType
        /\ op = ask[c].op /\ s = ServiceOf(op) /\ keys = ask[c].keys /\ old = call[c]
        /\ op = Op(c) /\ s = Svc(c) /\ Members(keys) = Wanted(c)
        /\ RecordRight(c, op, s, keys, old)
        /\ op \in DOMAIN Writer => keys /= <<>>
        /\ op \in Reads \cup DOMAIN Writer => s \in Services
  BY CallKnown
<1>2. PICK wanted, missing, sets :
        wanted = Members(keys) /\ missing = Members(old.ids) /\ sets = {<<k, 0>> : k \in missing}
  OBVIOUS
<1>3. /\ old.at = "find" /\ op = "GetReviews" /\ UNCHANGED <<ask, stores, absent>>
      /\ faulted \subseteq faulted' /\ unread' = unread \cup {<<s, k>> : k \in missing}
      /\ call' = [call EXCEPT ![c] = [old EXCEPT !.at = "set", !.sets = sets]]
  BY <1>1, <1>2 DEF FindReadsNothing, ReadsNothing, Fails, At, Put
<1>4. op \in Reads /\ s \in Services /\ s = "review" /\ Nothing(s) = 0
  BY <1>1, <1>3, ServicesOfOperations, Tables DEF Reads, Nothing
<1>5. missing \subseteq Keys
  BY <1>1, <1>2, CallFields, MembersType
<1>6. PICK r \in CallType :
        /\ call' = [call EXCEPT ![c] = r]
        /\ r.at = "set" /\ r.sets = sets /\ r.answer = old.answer /\ r.ok = old.ok
  <2>1. sets \in SUBSET (Keys \X DocValue)
    BY <1>2, <1>5 DEF DocValue
  <2> DEFINE new == [old EXCEPT !.at = "set", !.sets = sets]
  <2>2. /\ new \in CallType /\ new.at = "set" /\ new.sets = sets
        /\ new.answer = old.answer /\ new.ok = old.ok
    BY <1>1, <2>1 DEF CallType
  <2>3. call' = [call EXCEPT ![c] = new]
    BY <1>3
  <2> QED
    BY <2>2, <2>3
<1>7. Grow
  <2>1. \A p \in Calls : call[p].at = "failed" => call'[p].at = "failed"
    BY <1>1, <1>3, <1>6 DEF DocumentsInv, CallsType
  <2> QED
    BY <1>3, <2>1, SameDocuments DEF stores
<1>8. RecordRight(c, op, s, keys, old)'
  BY <1>1, <1>7, RecordGrows
<1>9. Finding(op, s, wanted, old)'
  BY <1>2, <1>3, <1>4, <1>8 DEF RecordRight, ReadRight
<1>10. \A k \in missing : Nothing(s) \in Shows(s, k)'
  BY <1>3 DEF Shows
<1>11. Exact(s, wanted, r)'
  <2> SUFFICES ASSUME NEW k \in Keys
               PROVE  old.answer[k] \in Allowed(s, wanted, k)'
    BY <1>6 DEF Exact
  <2>1. CASE k \notin missing
    BY <1>2, <1>9, <2>1 DEF Finding
  <2>2. CASE k \in missing
    <3>1. old.answer[k] = Nothing(s) /\ k \in wanted
      BY <1>2, <1>3, <1>9, <2>2 DEF Finding
    <3> QED
      BY <1>10, <2>2, <3>1 DEF Allowed
  <2> QED
    BY <2>1, <2>2
<1>12. \A item \in r.sets : Right(s, item[1], item[2])'
  <2> SUFFICES ASSUME NEW k \in missing
               PROVE  Right(s, k, 0)'
    BY <1>2, <1>6 DEF Right, Shows
  <2>1. s \in HotelServices
    BY <1>4, Tables
  <2> QED
    BY <1>4, <1>10, <2>1 DEF Right
<1>13. RecordRight(c, op, s, keys, r)'
  <2>1. Placed(op, r)'
    BY <1>3, <1>6 DEF Placed
  <2>2. ReadRight(op, s, wanted, r)'
    BY <1>6, <1>11, <1>12 DEF ReadRight
  <2>3. Excused(c, op, s, keys, r)'
    BY <1>3, <1>6, <1>8, Tables DEF RecordRight, Excused
  <2> QED
    BY <1>2, <2>1, <2>2, <2>3 DEF RecordRight
<1> QED
  BY <1>1, <1>3, <1>6, <1>13, CallMovesTo

-----------------------------------------------------------------------------
(* What is given to memcached, and the ends of the calls. *)

LEMMA CacheGiven ==
  ASSUME Grow, StoresInv, UNCHANGED documents, NEW s \in Services, NEW k \in Keys, NEW value,
         value = None \/ (value \in DocValue /\ Right(s, k, value)'),
         memcached' = [memcached EXCEPT ![s][k] = value],
         BackgroundType', \A t \in Services : background'[t] \subseteq background[t]
  PROVE  StoresInv'
<1>1. memcached \in [Services -> [Keys -> DocValue \cup {None}]]
  BY DEF StoresInv, MemcachedType
<1>2. /\ memcached' \in [Services -> [Keys -> DocValue \cup {None}]]
      /\ \A t \in Services, i \in Keys :
           memcached'[t][i] = IF t = s /\ i = k THEN value ELSE memcached[t][i]
  BY <1>1
<1>3. MemcachedRight'
  <2> SUFFICES ASSUME NEW t \in Services, NEW i \in Keys, NEW x, x = memcached'[t][i], x /= None
               PROVE  Right(t, i, x)'
    BY DEF MemcachedRight, Right, Shows
  <2>1. CASE t = s /\ i = k
    BY <1>2, <2>1
  <2>2. CASE ~(t = s /\ i = k)
    <3>1. x = memcached[t][i]
      BY <1>2, <2>2
    <3>2. Right(t, i, x)
      BY <3>1 DEF StoresInv, MemcachedRight
    <3> QED
      BY <3>2, RightGrows
  <2> QED
    BY <2>1, <2>2
<1>4. DocumentsType' /\ HotelDocuments' /\ MemcachedType'
  BY <1>2 DEF StoresInv, DocumentsType, HotelDocuments, MemcachedType
<1> QED
  BY <1>3, <1>4, BackgroundGrows DEF StoresInv

LEMMA CallsStay ==
  ASSUME DocumentsInv, Grow, StoresInv', UNCHANGED call
  PROVE  DocumentsInv'
<1>1. ask' = ask /\ Calls' = Calls
  BY DEF Grow, Calls
<1>2. \A d \in Calls : CallRight(d)'
  BY CallStays
<1>3. AskedRight' /\ CallsType'
  BY <1>1 DEF DocumentsInv, AskedRight, CallsType
<1> QED
  BY <1>1, <1>2, <1>3 DEF DocumentsInv

\* A call that has less left to do, or that has failed at something.
LEMMA LessLeft ==
  ASSUME DocumentsInv, Grow, StoresInv', NEW c \in Calls, NEW old, old = call[c],
         NEW r \in CallType, call' = [call EXCEPT ![c] = r], old.at \in {"set", "info", "parts"},
         r.at = old.at, r.answer = old.answer, r.sets \subseteq old.sets,
         r.ok => old.ok, r.ok \/ ~old.ok \/ c \in faulted'
  PROVE  DocumentsInv'
<1>1. PICK op, s, keys, wanted :
        op = ask[c].op /\ s = ServiceOf(op) /\ keys = ask[c].keys /\ wanted = Members(keys)
  OBVIOUS
<1>2. RecordRight(c, op, s, keys, old)'
  <2>1. keys \in Seq(Keys) /\ old \in CallType /\ (op \in DOMAIN Writer => keys /= <<>>)
    BY <1>1 DEF DocumentsInv, AskedRight, CallsType
  <2>2. op \in Reads \cup DOMAIN Writer => s \in Services
    BY <1>1, ServiceTypes DEF Reads
  <2>3. RecordRight(c, op, s, keys, old)
    BY <1>1 DEF DocumentsInv, CallRight
  <2> QED
    BY <2>1, <2>2, <2>3, RecordGrows
<1>3. Placed(op, r)'
  BY <1>2 DEF RecordRight, Placed
<1>4. ReadRight(op, s, wanted, r)'
  <2>1. ReadRight(op, s, wanted, old)'
    BY <1>1, <1>2 DEF RecordRight
  <2>2. Exact(s, wanted, old)' => Exact(s, wanted, r)'
    BY DEF Exact
  <2> QED
    BY <2>1, <2>2 DEF ReadRight
<1>5. Excused(c, op, s, keys, r)'
  BY <1>2 DEF RecordRight, Excused
<1>6. RecordRight(c, op, s, keys, r)'
  BY <1>1, <1>3, <1>4, <1>5 DEF RecordRight
<1> QED
  BY <1>1, <1>6, CallMoves

LEMMA FewerSets ==
  ASSUME CallsType, NEW c \in Calls, NEW item, call' = [call EXCEPT ![c].sets = @ \ {item}]
  PROVE  \E r \in CallType :
           /\ call' = [call EXCEPT ![c] = r]
           /\ r.at = call[c].at /\ r.answer = call[c].answer /\ r.ok = call[c].ok
           /\ r.sets = call[c].sets \ {item}
<1> DEFINE r == [call[c] EXCEPT !.sets = call[c].sets \ {item}]
<1>1. call[c] \in CallType /\ call \in [Calls -> CallType]
  BY DEF CallsType
<1>2. /\ r \in CallType /\ r.at = call[c].at /\ r.answer = call[c].answer /\ r.ok = call[c].ok
      /\ r.sets = call[c].sets \ {item}
  BY <1>1 DEF CallType
<1>3. call' = [call EXCEPT ![c] = r]
  BY <1>1 DEF CallType
<1> QED
  BY <1>2, <1>3

LEMMA FewerTasks ==
  ASSUME CallsType, NEW c \in Calls, NEW task, NEW ok \in BOOLEAN,
         call' = [call EXCEPT ![c].tasks = @ \ {task}, ![c].ok = ok]
  PROVE  \E r \in CallType :
           /\ call' = [call EXCEPT ![c] = r]
           /\ r.at = call[c].at /\ r.answer = call[c].answer /\ r.ok = ok /\ r.sets = call[c].sets
<1> DEFINE r == [call[c] EXCEPT !.tasks = call[c].tasks \ {task}, !.ok = ok]
<1>1. call[c] \in CallType /\ call \in [Calls -> CallType]
  BY DEF CallsType
<1>2. /\ r \in CallType /\ r.at = call[c].at /\ r.answer = call[c].answer /\ r.ok = ok
      /\ r.sets = call[c].sets
  BY <1>1 DEF CallType
<1>3. call' = [call EXCEPT ![c] = r]
  BY <1>1 DEF CallType
<1> QED
  BY <1>2, <1>3

LEMMA SetStep ==
  ASSUME DocumentsInv, NEW c \in Calls, Set(c)
  PROVE  DocumentsInv'
<1>1. PICK op, s, keys, old :
        /\ op \in Operations /\ keys \in Seq(Keys) /\ old \in CallType
        /\ op = ask[c].op /\ s = ServiceOf(op) /\ keys = ask[c].keys /\ old = call[c]
        /\ op = Op(c) /\ s = Svc(c) /\ Members(keys) = Wanted(c)
        /\ RecordRight(c, op, s, keys, old)
        /\ op \in DOMAIN Writer => keys /= <<>>
        /\ op \in Reads \cup DOMAIN Writer => s \in Services
  BY CallKnown
<1>2. PICK item \in old.sets :
        /\ memcached' = [memcached EXCEPT ![s][item[1]] = item[2]]
        /\ call' = [call EXCEPT ![c].sets = @ \ {item}]
  BY <1>1 DEF Set
<1>3. old.at = "set" /\ UNCHANGED <<ask, documents, background, faulted, unread, absent>>
  BY <1>1 DEF Set, At, history
<1>4. PICK r \in CallType :
        /\ call' = [call EXCEPT ![c] = r] /\ r.at = old.at /\ r.answer = old.answer
        /\ r.ok = old.ok /\ r.sets = old.sets \ {item}
  BY <1>1, <1>2, FewerSets DEF DocumentsInv
<1>5. op \in Reads /\ s \in Services
  BY <1>1, <1>3, Tables DEF RecordRight, Placed, Reads
<1>6. PICK k \in Keys, value \in DocValue : k = item[1] /\ value = item[2]
  BY <1>1, CallFields
<1>7. Right(s, k, value)
  BY <1>1, <1>3, <1>5, <1>6 DEF RecordRight, ReadRight
<1>8. Grow
  <2>1. \A p \in Calls : call[p].at = "failed" => call'[p].at = "failed"
    BY <1>1, <1>4 DEF DocumentsInv, CallsType
  <2> QED
    BY <1>3, <2>1, SameDocuments
<1>9. StoresInv'
  <2>1. Right(s, k, value)'
    BY <1>5, <1>7, <1>8, RightGrows
  <2>2. BackgroundType' /\ \A t \in Services : background'[t] \subseteq background[t]
    BY <1>3 DEF DocumentsInv, StoresInv, BackgroundType
  <2>3. memcached' = [memcached EXCEPT ![s][k] = value]
    BY <1>2, <1>6
  <2> QED
    BY <1>3, <1>5, <1>8, <2>1, <2>2, <2>3, CacheGiven DEF DocumentsInv
<1> QED
  BY <1>1, <1>3, <1>4, <1>8, <1>9, LessLeft

LEMMA SetFailsStep ==
  ASSUME DocumentsInv, NEW c \in Calls, SetFails(c)
  PROVE  DocumentsInv'
<1>1. PICK item : call' = [call EXCEPT ![c].sets = @ \ {item}]
  BY DEF SetFails
<1>2. call[c].at = "set" /\ UNCHANGED <<ask, stores, faulted, unread, absent>>
  BY DEF SetFails, At, history
<1>3. PICK r \in CallType :
        /\ call' = [call EXCEPT ![c] = r] /\ r.at = call[c].at /\ r.answer = call[c].answer
        /\ r.ok = call[c].ok /\ r.sets = call[c].sets \ {item}
  BY <1>1, FewerSets DEF DocumentsInv
<1>4. Grow
  <2>1. \A p \in Calls : call[p].at = "failed" => call'[p].at = "failed"
    BY <1>2, <1>3 DEF DocumentsInv, CallsType
  <2> QED
    BY <1>2, <2>1, SameDocuments DEF stores
<1>5. StoresInv'
  BY <1>2, <1>4, StoresStay DEF DocumentsInv
<1> QED
  BY <1>2, <1>3, <1>4, <1>5, LessLeft

LEMMA UploadTaskStep ==
  ASSUME DocumentsInv, NEW c \in Calls, UploadTask(c)
  PROVE  DocumentsInv'
<1>1. PICK task : call' = [call EXCEPT ![c].tasks = @ \ {task}]
  BY DEF UploadTask
<1>2. call[c].at = "set" /\ UNCHANGED <<ask, stores, faulted, unread, absent>>
  BY DEF UploadTask, At, history
<1>3. PICK ok \in BOOLEAN : ok = call[c].ok
  BY CallFields DEF DocumentsInv, CallsType
<1>4. call' = [call EXCEPT ![c].tasks = @ \ {task}, ![c].ok = ok]
  BY <1>1, <1>3 DEF DocumentsInv, CallsType, CallType
<1>5. PICK r \in CallType :
        /\ call' = [call EXCEPT ![c] = r] /\ r.at = call[c].at /\ r.answer = call[c].answer
        /\ r.ok = ok /\ r.sets = call[c].sets
  BY <1>4, FewerTasks DEF DocumentsInv
<1>6. Grow
  <2>1. \A p \in Calls : call[p].at = "failed" => call'[p].at = "failed"
    BY <1>2, <1>5 DEF DocumentsInv, CallsType
  <2> QED
    BY <1>2, <2>1, SameDocuments DEF stores
<1>7. StoresInv'
  BY <1>2, <1>6, StoresStay DEF DocumentsInv
<1> QED
  BY <1>2, <1>3, <1>5, <1>6, <1>7, LessLeft

LEMMA ReturnStep ==
  ASSUME DocumentsInv, NEW c \in Calls, Return(c)
  PROVE  DocumentsInv'
<1>1. PICK op, s, keys, old :
        /\ op \in Operations /\ keys \in Seq(Keys) /\ old \in CallType
        /\ op = ask[c].op /\ s = ServiceOf(op) /\ keys = ask[c].keys /\ old = call[c]
        /\ op = Op(c) /\ s = Svc(c) /\ Members(keys) = Wanted(c)
        /\ RecordRight(c, op, s, keys, old)
        /\ op \in DOMAIN Writer => keys /= <<>>
        /\ op \in Reads \cup DOMAIN Writer => s \in Services
  BY CallKnown
<1>2. old.at = "set" /\ UNCHANGED <<ask, stores, faulted, unread, absent>>
  BY <1>1 DEF Return, At, history
<1>3. CASE old.ok
  <2>1. Goto(c, "done")
    BY <1>1, <1>3 DEF Return
  <2>2. op \notin Reads \/ Exact(s, Members(keys), call[c])
    BY <1>1, <1>2, <1>3 DEF RecordRight, ReadRight
  <2> QED
    BY <1>1, <1>2, <2>1, <2>2, PlainMove
<1>4. CASE ~old.ok
  <2>1. Goto(c, "failed")
    BY <1>1, <1>4 DEF Return
  <2>2. Reason(c, op, s, keys)'
    BY <1>1, <1>2, <1>4 DEF RecordRight, Excused, Reason
  <2> QED
    BY <1>1, <1>2, <2>1, <2>2, PlainMove
<1> QED
  BY <1>3, <1>4

\* A page has the parts its scenario gives it.
LEMMA PageParts ==
  ASSUME DocumentsInv, NEW c \in Calls, ask[c].op = "ReadPage", NEW part \in {"info", "cast", "plot"}
  PROVE  /\ PartOf(c, part) \in Calls
         /\ ask[PartOf(c, part)].of = c /\ ask[PartOf(c, part)].part = part
         /\ Over(PartOf(c, part)) => call[PartOf(c, part)].at \in {"done", "failed"}
<1>1. \E p \in Calls : ask[p].of = c /\ ask[p].part = part
  BY DEF DocumentsInv, AskedRight
<1>2. PICK p \in Calls : p = PartOf(c, part) /\ ask[p].of = c /\ ask[p].part = part
  BY <1>1 DEF PartOf
<1>3. ask[p].op \in DOMAIN Reader
  BY <1>2 DEF DocumentsInv, AskedRight
<1>4. Placed(ask[p].op, call[p])
  BY DEF DocumentsInv, CallRight, RecordRight
<1>5. call[p].at # "died"
  BY <1>3, <1>4, Tables DEF Placed
<1> QED
  BY <1>2, <1>5 DEF Over

LEMMA InfoReadStep ==
  ASSUME DocumentsInv, NEW c \in Calls, InfoRead(c)
  PROVE  DocumentsInv'
<1>1. PICK op, s, keys, old :
        /\ op \in Operations /\ keys \in Seq(Keys) /\ old \in CallType
        /\ op = ask[c].op /\ s = ServiceOf(op) /\ keys = ask[c].keys /\ old = call[c]
        /\ op = Op(c) /\ s = Svc(c) /\ Members(keys) = Wanted(c)
        /\ RecordRight(c, op, s, keys, old)
        /\ op \in DOMAIN Writer => keys /= <<>>
        /\ op \in Reads \cup DOMAIN Writer => s \in Services
  BY CallKnown
<1>2. PICK info : info = PartOf(c, "info")
  OBVIOUS
<1>3. /\ old.at = "info" /\ Over(info) /\ UNCHANGED <<ask, stores, faulted, unread, absent>>
      /\ Goto(c, IF At(info, "done") THEN "parts" ELSE "failed")
  BY <1>1, <1>2 DEF InfoRead, At, history
<1>4. op = "ReadPage"
  BY <1>1, <1>3 DEF RecordRight, Placed
<1>5. info \in Calls /\ ask[info].of = c /\ ask[info].part = "info" /\ call[info].at \in {"done", "failed"}
  <2>1. ask[c].op = "ReadPage"
    BY <1>1, <1>4
  <2>2. /\ PartOf(c, "info") \in Calls
        /\ ask[PartOf(c, "info")].of = c /\ ask[PartOf(c, "info")].part = "info"
        /\ Over(PartOf(c, "info")) => call[PartOf(c, "info")].at \in {"done", "failed"}
    BY <2>1, PageParts
  <2> QED
    BY <1>2, <1>3, <2>2
<1>6. CASE At(info, "done")
  <2>1. Goto(c, "parts")
    BY <1>3, <1>6
  <2> QED
    BY <1>1, <1>3, <1>4, <2>1, PlainMove
<1>7. CASE ~At(info, "done")
  <2>1. Goto(c, "failed")
    BY <1>3, <1>7
  <2>2. call'[info].at = "failed"
    BY <1>5, <1>7, <2>1 DEF At, Goto, DocumentsInv, CallsType, CallType
  <2>3. info \in Calls' /\ ask' = ask
    BY <1>3, <1>5 DEF Calls
  <2>4. Reason(c, op, s, keys)'
    BY <1>5, <2>2, <2>3 DEF Reason
  <2> QED
    BY <1>1, <1>3, <2>1, <2>4, PlainMove
<1> QED
  BY <1>6, <1>7

LEMMA PartsReadStep ==
  ASSUME DocumentsInv, NEW c \in Calls, PartsRead(c)
  PROVE  DocumentsInv'
<1>1. PICK op, s, keys, old :
        /\ op \in Operations /\ keys \in Seq(Keys) /\ old \in CallType
        /\ op = ask[c].op /\ s = ServiceOf(op) /\ keys = ask[c].keys /\ old = call[c]
        /\ op = Op(c) /\ s = Svc(c) /\ Members(keys) = Wanted(c)
        /\ RecordRight(c, op, s, keys, old)
        /\ op \in DOMAIN Writer => keys /= <<>>
        /\ op \in Reads \cup DOMAIN Writer => s \in Services
  BY CallKnown
<1>2. PICK parts : parts = {PartOf(c, "cast"), PartOf(c, "plot")}
  OBVIOUS
<1>3. /\ old.at = "parts" /\ (\A p \in parts : Over(p)) /\ UNCHANGED <<ask, stores, faulted, unread, absent>>
      /\ Goto(c, IF old.ok /\ \A p \in parts : At(p, "done") THEN "done" ELSE "failed")
  BY <1>1, <1>2 DEF PartsRead, At, history
<1>4. op = "ReadPage" /\ op \notin Reads
  <2>1. op = "ReadPage"
    BY <1>1, <1>3 DEF RecordRight, Placed
  <2> QED
    BY <2>1, ServiceTypes
<1>5. \A p \in parts : p \in Calls /\ ask[p].of = c /\ ask[p].part /= "none" /\ call[p].at \in {"done", "failed"}
  <2>1. ask[c].op = "ReadPage"
    BY <1>1, <1>4
  <2>2. /\ PartOf(c, "cast") \in Calls /\ ask[PartOf(c, "cast")].of = c /\ ask[PartOf(c, "cast")].part = "cast"
        /\ Over(PartOf(c, "cast")) => call[PartOf(c, "cast")].at \in {"done", "failed"}
    BY <2>1, PageParts
  <2>3. /\ PartOf(c, "plot") \in Calls /\ ask[PartOf(c, "plot")].of = c /\ ask[PartOf(c, "plot")].part = "plot"
        /\ Over(PartOf(c, "plot")) => call[PartOf(c, "plot")].at \in {"done", "failed"}
    BY <2>1, PageParts
  <2> QED
    BY <1>2, <1>3, <2>2, <2>3
<1>6. CASE old.ok /\ \A p \in parts : At(p, "done")
  <2>1. Goto(c, "done")
    BY <1>3, <1>6
  <2> QED
    BY <1>1, <1>3, <1>4, <2>1, PlainMove
<1>7. CASE ~(old.ok /\ \A p \in parts : At(p, "done"))
  <2>1. Goto(c, "failed")
    BY <1>3, <1>7
  <2>2. Reason(c, op, s, keys)'
    <3>1. CASE ~old.ok
      BY <1>1, <1>3, <3>1 DEF RecordRight, Excused, Reason
    <3>2. CASE \E p \in parts : ~At(p, "done")
      <4>1. PICK p \in parts : ~At(p, "done")
        BY <3>2
      <4>2. p \in Calls /\ ask[p].of = c /\ ask[p].part /= "none" /\ call[p].at = "failed"
        BY <1>5, <4>1 DEF At
      <4>3. call'[p].at = "failed"
        BY <2>1, <4>2 DEF Goto, DocumentsInv, CallsType, CallType
      <4>4. p \in Calls' /\ ask' = ask
        BY <1>3, <4>2 DEF Calls
      <4> QED
        BY <4>2, <4>3, <4>4 DEF Reason
    <3> QED
      BY <1>7, <3>1, <3>2
  <2> QED
    BY <1>1, <1>3, <2>1, <2>2, PlainMove
<1> QED
  BY <1>6, <1>7

-----------------------------------------------------------------------------
(* Failures. *)

LEMMA CallFailsStep ==
  ASSUME DocumentsInv, NEW c \in Calls, CallFails(c)
  PROVE  DocumentsInv'
<1>1. PICK op, s, keys, old :
        /\ op \in Operations /\ keys \in Seq(Keys) /\ old \in CallType
        /\ op = ask[c].op /\ s = ServiceOf(op) /\ keys = ask[c].keys /\ old = call[c]
        /\ op = Op(c) /\ s = Svc(c) /\ Members(keys) = Wanted(c)
        /\ RecordRight(c, op, s, keys, old)
        /\ op \in DOMAIN Writer => keys /= <<>>
        /\ op \in Reads \cup DOMAIN Writer => s \in Services
  BY CallKnown
<1>2. UNCHANGED <<ask, stores, unread, absent>> /\ faulted' = faulted \cup {c}
  BY DEF CallFails, Fails
<1>3. c \in faulted' /\ faulted \subseteq faulted'
  BY <1>2
<1>4. \/ old.at \in {"get", "find", "look", "insert", "set"} /\ Goto(c, "failed")
      \/ old.at = "look" /\ Goto(c, "insert")
      \/ \E task : old.at = "set" /\ call' = [call EXCEPT ![c].tasks = @ \ {task}, ![c].ok = FALSE]
      \/ old.at \in {"info", "parts"} /\ call' = [call EXCEPT ![c].ok = FALSE]
  BY <1>1 DEF CallFails, At
<1>5. CASE old.at \in {"get", "find", "look", "insert", "set"} /\ Goto(c, "failed")
  <2>1. Reason(c, op, s, keys)'
    BY <1>3 DEF Reason
  <2> QED
    BY <1>1, <1>2, <1>3, <1>5, <2>1, PlainMove
<1>6. ASSUME NEW r \in CallType, call' = [call EXCEPT ![c] = r], old.at \in {"set", "info", "parts"},
             r.at = old.at, r.answer = old.answer, r.sets = old.sets, r.ok = FALSE
      PROVE  DocumentsInv'
  <2>1. \A p \in Calls : call[p].at = "failed" => call'[p].at = "failed"
    BY <1>1, <1>6 DEF DocumentsInv, CallsType
  <2>2. Grow
    BY <1>2, <1>3, <2>1, SameDocuments DEF stores
  <2>3. StoresInv'
    BY <1>2, <2>2, StoresStay DEF DocumentsInv
  <2> QED
    BY <1>1, <1>3, <1>6, <2>2, <2>3, LessLeft
<1>7. CASE \E task : old.at = "set" /\ call' = [call EXCEPT ![c].tasks = @ \ {task}, ![c].ok = FALSE]
  <2>1. PICK task : old.at = "set" /\ call' = [call EXCEPT ![c].tasks = @ \ {task}, ![c].ok = FALSE]
    BY <1>7
  <2>2. PICK r \in CallType :
          /\ call' = [call EXCEPT ![c] = r] /\ r.at = call[c].at /\ r.answer = call[c].answer
          /\ r.ok = FALSE /\ r.sets = call[c].sets
    BY <2>1, FewerTasks DEF DocumentsInv
  <2> QED
    BY <1>1, <1>6, <2>1, <2>2
<1>8. CASE old.at \in {"info", "parts"} /\ call' = [call EXCEPT ![c].ok = FALSE]
  <2> DEFINE r == [old EXCEPT !.ok = FALSE]
  <2>1. r \in CallType /\ r.at = old.at /\ r.answer = old.answer /\ r.sets = old.sets /\ r.ok = FALSE
    BY <1>1 DEF CallType
  <2>2. call' = [call EXCEPT ![c] = r]
    BY <1>1, <1>8 DEF DocumentsInv, CallsType, CallType
  <2> QED
    BY <1>6, <1>8, <2>1, <2>2
<1>9. CASE old.at = "look" /\ Goto(c, "insert")
  <2>1. op \in DOMAIN Writer
    BY <1>1, <1>9 DEF RecordRight, Placed
  <2> QED
    BY <1>1, <1>2, <1>3, <1>9, <2>1, PlainMove
<1> QED
  BY <1>4, <1>5, <1>7, <1>8, <1>9

LEMMA SetInBackgroundStep ==
  ASSUME DocumentsInv, NEW s \in Services, SetInBackground(s)
  PROVE  DocumentsInv'
<1>1. PICK item \in background[s] :
        /\ background' = [background EXCEPT ![s] = @ \ {item}]
        /\ memcached' = [memcached EXCEPT ![s][item[1]] = item[2]]
        /\ UNCHANGED <<ask, documents, call, faulted, unread, absent>>
  BY DEF SetInBackground, history
<1>2. PICK k \in Keys, value \in DocValue : k = item[1] /\ value = item[2]
  BY DEF DocumentsInv, StoresInv, BackgroundType
<1>3. Grow
  BY <1>1, SameDocuments
<1>4. Right(s, k, value)'
  BY <1>1, <1>2, <1>3, RightGrows DEF DocumentsInv, StoresInv, BackgroundRight
<1>5. BackgroundType' /\ \A t \in Services : background'[t] \subseteq background[t]
  BY <1>1 DEF DocumentsInv, StoresInv, BackgroundType
<1>6. memcached' = [memcached EXCEPT ![s][k] = value]
  BY <1>1, <1>2
<1>7. StoresInv'
  BY <1>1, <1>3, <1>4, <1>5, <1>6, CacheGiven DEF DocumentsInv
<1> QED
  BY <1>1, <1>3, <1>7, CallsStay

LEMMA SetInBackgroundFailsStep ==
  ASSUME DocumentsInv, NEW s \in Services, SetInBackgroundFails(s)
  PROVE  DocumentsInv'
<1>1. PICK item \in background[s] : background' = [background EXCEPT ![s] = @ \ {item}]
  BY DEF SetInBackgroundFails
<1>2. UNCHANGED <<ask, documents, memcached, call, faulted, unread, absent>>
  BY DEF SetInBackgroundFails, history
<1>3. Grow
  BY <1>2, SameDocuments
<1>4. BackgroundType' /\ \A t \in Services : background'[t] \subseteq background[t]
  BY <1>1 DEF DocumentsInv, StoresInv, BackgroundType
<1>5. DocumentsType' /\ MemcachedType' /\ HotelDocuments'
  BY <1>2 DEF DocumentsInv, StoresInv, DocumentsType, MemcachedType, HotelDocuments
<1>6. StoresInv'
  BY <1>2, <1>3, <1>4, <1>5, MemcachedGrows, BackgroundGrows DEF DocumentsInv, StoresInv
<1> QED
  BY <1>2, <1>3, <1>6, CallsStay

LEMMA EvictStep ==
  ASSUME DocumentsInv, NEW s \in Services, NEW k \in Keys, Evict(s, k)
  PROVE  DocumentsInv'
<1>1. /\ memcached' = [memcached EXCEPT ![s][k] = None]
      /\ UNCHANGED <<ask, documents, background, call, faulted, unread, absent>>
  BY DEF Evict, history
<1>2. Grow
  BY <1>1, SameDocuments
<1>3. BackgroundType' /\ \A t \in Services : background'[t] \subseteq background[t]
  BY <1>1 DEF DocumentsInv, StoresInv, BackgroundType
<1>4. StoresInv'
  BY <1>1, <1>2, <1>3, CacheGiven DEF DocumentsInv
<1> QED
  BY <1>1, <1>2, <1>4, CallsStay

LEMMA RestartStep ==
  ASSUME DocumentsInv, NEW s \in Services, Restart(s)
  PROVE  DocumentsInv'
<1>1. /\ s \in HotelServices /\ UNCHANGED <<ask, memcached, faulted, unread, absent>>
      /\ documents' = [documents EXCEPT ![s] = [k \in Keys |-> @[k] + Inserted(s, k)]]
      /\ background' = [background EXCEPT ![s] = {}]
      /\ call' = [c \in Calls |-> IF Svc(c) = s /\ ~Over(c) /\ ~At(c, "idle")
                                  THEN [call[c] EXCEPT !.at = "died"] ELSE call[c]]
  BY DEF Restart, InsertAgain, history
<1>2. documents \in [Services -> [Keys -> Nat]] /\ call \in [Calls -> CallType]
  BY DEF DocumentsInv, StoresInv, DocumentsType, CallsType
<1>3. \A k \in Keys : Inserted(s, k) \in {0, 1}
  BY DEF Inserted
<1>4. /\ documents' \in [Services -> [Keys -> Nat]]
      /\ \A t \in Services, k \in Keys :
           documents'[t][k] = IF t = s THEN documents[t][k] + Inserted(s, k) ELSE documents[t][k]
  BY <1>1, <1>2, <1>3
<1>5. /\ \A k \in Keys : documents[s][k] >= Inserted(s, k) /\ (Inserted(s, k) = 0 => documents[s][k] = 0)
      /\ HotelDocuments
  BY <1>1 DEF DocumentsInv, StoresInv, HotelDocuments
<1>6. Grow
  <2>1. \A p \in Calls : call[p].at = "failed" => call'[p].at = "failed"
    BY <1>1 DEF Over
  <2>2. ASSUME NEW t \in Services, NEW k \in Keys
        PROVE  /\ documents[t][k] \in Nat /\ documents'[t][k] \in Nat
               /\ documents[t][k] <= documents'[t][k]
               /\ t \in HotelServices /\ documents[t][k] = 0 => documents'[t][k] = 0
    <3>1. PICK a \in Nat, b \in {0, 1} : a = documents[t][k] /\ b = Inserted(s, k)
      BY <1>2, <1>3
    <3>2. t = s => a >= b
      BY <1>5, <3>1
    <3>3. documents'[t][k] = IF t = s THEN a + b ELSE a
      BY <1>4, <3>1
    <3> QED
      BY <3>1, <3>2, <3>3
  <2> QED
    BY <1>1, <2>1, <2>2 DEF Grow
<1>7. HotelDocuments'
  <2> SUFFICES ASSUME NEW t \in HotelServices, NEW k \in Keys
               PROVE  documents'[t][k] >= Inserted(t, k) /\ (Inserted(t, k) = 0 => documents'[t][k] = 0)
    BY DEF HotelDocuments, Inserted
  <2>1. documents[t][k] >= Inserted(t, k) /\ (Inserted(t, k) = 0 => documents[t][k] = 0)
    BY <1>5 DEF HotelDocuments
  <2>2. t \in Services /\ Inserted(t, k) \in {0, 1}
    BY DEF Services, Inserted
  <2>3. PICK a \in Nat, b \in {0, 1} : a = documents[t][k] /\ b = Inserted(t, k)
    BY <1>2, <2>2
  <2>4. documents'[t][k] = IF t = s THEN a + b ELSE a
    BY <1>4, <2>2, <2>3
  <2> QED
    BY <2>1, <2>3, <2>4
<1>8. StoresInv'
  <2>1. DocumentsType' /\ MemcachedType'
    BY <1>1, <1>4 DEF DocumentsInv, StoresInv, DocumentsType, MemcachedType
  <2>2. BackgroundType' /\ \A t \in Services : background'[t] \subseteq background[t]
    BY <1>1 DEF DocumentsInv, StoresInv, BackgroundType
  <2> QED
    BY <1>1, <1>6, <1>7, <2>1, <2>2, MemcachedGrows, BackgroundGrows DEF DocumentsInv, StoresInv
<1>9. call' \in [Calls -> CallType] /\ Calls' = Calls
  BY <1>1, <1>2 DEF CallType, Calls
<1>10. ASSUME NEW c \in Calls
       PROVE  CallRight(c)'
  <2>1. CASE call'[c] = call[c]
    BY <1>6, <2>1, CallStays
  <2>2. CASE call'[c] # call[c]
    <3>1. PICK op, t, keys, old :
            /\ op \in Operations /\ keys \in Seq(Keys) /\ old \in CallType
            /\ op = ask[c].op /\ t = ServiceOf(op) /\ keys = ask[c].keys /\ old = call[c]
            /\ op = Op(c) /\ t = Svc(c) /\ Members(keys) = Wanted(c)
            /\ RecordRight(c, op, t, keys, old)
            /\ op \in DOMAIN Writer => keys /= <<>>
            /\ op \in Reads \cup DOMAIN Writer => t \in Services
      BY CallKnown
    <3>2. t = s /\ call'[c] = [old EXCEPT !.at = "died"]
      BY <1>1, <2>2, <3>1
    <3>3. op \in DOMAIN Hotel
      <4>1. op \notin DOMAIN Reader \cup DOMAIN Writer
        BY <1>1, <3>1, <3>2, ServiceTypes
      <4>2. op # "ReadPage"
        <5>1. ServiceOf("ReadPage") = "page"
          BY Tables DEF ServiceOf
        <5> QED
          BY <1>1, <3>1, <3>2, <5>1, Tables
      <4> QED
        BY <3>1, <4>1, <4>2 DEF Operations
    <3>4. PICK r : r = call'[c] /\ r.at = "died" /\ r.ok = old.ok
      BY <3>1, <3>2 DEF CallType
    <3>5. RecordRight(c, op, t, keys, r)'
      <4>1. Placed(op, r)' /\ ReadRight(op, t, Members(keys), r)'
        BY <3>3, <3>4 DEF Placed, ReadRight
      <4>2. Excused(c, op, t, keys, r)'
        BY <1>1, <3>1, <3>3, <3>4, ServiceTypes DEF RecordRight, Excused
      <4> QED
        BY <4>1, <4>2 DEF RecordRight
    <3> QED
      BY <1>1, <3>1, <3>4, <3>5 DEF CallRight
  <2> QED
    BY <2>1, <2>2
<1>11. AskedRight' /\ CallsType'
  BY <1>1, <1>9 DEF DocumentsInv, AskedRight, CallsType
<1> QED
  BY <1>8, <1>9, <1>10, <1>11 DEF DocumentsInv

-----------------------------------------------------------------------------
(* The theorems. *)

LEMMA CallStepKeeps ==
  ASSUME DocumentsInv, NEW c \in Calls, CallNext(c)
  PROVE  DocumentsInv'
<1>1. CASE Begin(c)
  BY <1>1, BeginStep
<1>2. CASE GetRates(c) \/ GetProfiles(c)
  BY <1>2, GetStep, WorkStep, WorkEndsStep DEF GetRates, GetProfiles
<1>3. CASE \/ GetReviews(c) \/ ReadMovieInfo(c) \/ ReadCastInfo(c) \/ ReadPlot(c) \/ ReadReviews(c)
           \/ ReadPost(c) \/ UploadMovieId(c)
  BY <1>3, GetStep, FindStep, SetStep, ReturnStep, UploadTaskStep
     DEF GetReviews, ReadMovieInfo, ReadCastInfo, ReadPlot, ReadReviews, ReadPost, UploadMovieId
<1>4. CASE \/ StoreReview(c) \/ StorePost(c) \/ WriteMovieInfo(c) \/ WriteCastInfo(c) \/ WritePlot(c)
           \/ RegisterMovieId(c)
  BY <1>4, InsertStep, LookFirstStep
     DEF StoreReview, StorePost, WriteMovieInfo, WriteCastInfo, WritePlot, RegisterMovieId
<1>5. CASE ReadPage(c)
  BY <1>5, InfoReadStep, PartsReadStep DEF ReadPage
<1>6. CASE CallFails(c) \/ SetFails(c)
  BY <1>6, CallFailsStep, SetFailsStep
<1>7. CASE FetchEnds(c) \/ FindReadsNothing(c) \/ \E w \in 1 .. MaxGoroutines : WorkReadsNothing(c, w)
  BY <1>7, GetStep, FindReadsNothingStep, WorkReadsNothingStep
<1> QED
  BY <1>1, <1>2, <1>3, <1>4, <1>5, <1>6, <1>7 DEF CallNext

LEMMA DocumentsKept ==
  ASSUME DocumentsInv, DocumentsNext
  PROVE  DocumentsInv'
<1>1. CASE \E c \in Calls : CallNext(c)
  BY <1>1, CallStepKeeps
<1>2. CASE \E s \in Services : SetInBackground(s) \/ SetInBackgroundFails(s) \/ Restart(s)
  BY <1>2, SetInBackgroundStep, SetInBackgroundFailsStep, RestartStep
<1>3. CASE \E s \in Services, k \in Keys : Evict(s, k)
  BY <1>3, EvictStep
<1> QED
  BY <1>1, <1>2, <1>3 DEF DocumentsNext

LEMMA DocumentsUnchanged ==
  ASSUME DocumentsInv, UNCHANGED <<ask, stores, call, history>>
  PROVE  DocumentsInv'
<1>1. UNCHANGED <<ask, documents, memcached, background, call, faulted, unread, absent>>
  BY DEF stores, history
<1>2. Grow
  BY <1>1, SameDocuments
<1>3. StoresInv'
  BY <1>2, StoresStay DEF DocumentsInv
<1> QED
  BY <1>1, <1>2, <1>3, CallsStay

LEMMA DocumentsBegin == Init => DocumentsInv
<1> SUFFICES ASSUME Init
             PROVE  DocumentsInv
  OBVIOUS
<1>1. /\ documents = [s \in Services |-> [k \in Keys |-> Inserted(s, k)]]
      /\ memcached = [s \in Services |-> [k \in Keys |-> None]]
      /\ background = [s \in Services |-> {}]
      /\ call = [c \in Calls |-> NewCall(Svc(c))]
      /\ ask \in Scenarios \/ ask = <<>>
  BY DEF Init
<1>2. \A s \in Services, k \in Keys : Inserted(s, k) \in {0, 1}
  BY DEF Inserted
<1>3. StoresInv
  <2>1. DocumentsType /\ MemcachedType /\ BackgroundType
    BY <1>1, <1>2 DEF DocumentsType, MemcachedType, BackgroundType
  <2>2. HotelDocuments
    BY <1>1, <1>2 DEF HotelDocuments, Services
  <2>3. MemcachedRight /\ BackgroundRight
    BY <1>1 DEF MemcachedRight, BackgroundRight
  <2> QED
    BY <2>1, <2>2, <2>3 DEF StoresInv
<1>4. AskedRight
  <2>1. CASE ask \in Scenarios
    BY <2>1, ScenariosAssumption DEF AskedRight, Calls
  <2>2. CASE ask = <<>>
    BY <2>2 DEF AskedRight, Calls
  <2> QED
    BY <1>1, <2>1, <2>2
<1>5. ASSUME NEW s
      PROVE  /\ NewCall(s) \in CallType /\ NewCall(s).at = "idle" /\ NewCall(s).ok
             /\ \A k \in Keys : NewCall(s).answer[k] = Nothing(s)
  BY DEF NewCall, Nothing, DocValue, CallType
<1>6. CallsType
  BY <1>1, <1>5 DEF CallsType
<1>7. ASSUME NEW c \in Calls
      PROVE  CallRight(c)
  <2> SUFFICES ASSUME NEW op, NEW s, NEW keys, NEW r,
                      op = ask[c].op, s = ServiceOf(op), keys = ask[c].keys, r = call[c]
               PROVE  RecordRight(c, op, s, keys, r)
    BY DEF CallRight
  <2>1. r = NewCall(s)
    BY <1>1 DEF Svc, Op
  <2> QED
    BY <1>5, <2>1 DEF RecordRight, Placed, ReadRight, Excused
<1> QED
  BY <1>3, <1>4, <1>6, <1>7 DEF DocumentsInv

LEMMA DocumentsRight ==
  ASSUME DocumentsInv
  PROVE  /\ \A s \in Services, k \in Keys :
              \A value \in {memcached[s][k]} \cup {item[2] : item \in {i \in background[s] : i[1] = k}} :
                value /= None =>
                  value \in Shows(s, k) /\ (s \in HotelServices \/ documents[s][k] > 0)
         /\ \A c \in Calls :
              At(c, "done") /\ Op(c) \in DOMAIN Hotel \cup DOMAIN Reader =>
                \A k \in Keys : call[c].answer[k] \in IF k \in Wanted(c) THEN Shows(Svc(c), k) ELSE {Nothing(Svc(c))}
         /\ \A c \in Calls :
              At(c, "failed") =>
                \/ c \in faulted \cup absent \/ ~IsInjective(ask[c].keys)
                \/ Op(c) \in DOMAIN Writer /\ documents[Svc(c)][Head(ask[c].keys)] > 0
                \/ \E p \in Calls : ask[p].of = c /\ ask[p].part /= "none" /\ At(p, "failed")
<1>1. ASSUME NEW s \in Services, NEW k \in Keys,
             NEW value \in {memcached[s][k]} \cup {item[2] : item \in {i \in background[s] : i[1] = k}},
             value /= None
      PROVE  Right(s, k, value)
  <2>1. CASE value = memcached[s][k]
    BY <1>1, <2>1 DEF DocumentsInv, StoresInv, MemcachedRight
  <2>2. CASE \E item \in background[s] : item[1] = k /\ item[2] = value
    BY <2>2 DEF DocumentsInv, StoresInv, BackgroundRight
  <2> QED
    BY <2>1, <2>2
<1>2. ASSUME NEW c \in Calls, At(c, "done"), Op(c) \in DOMAIN Hotel \cup DOMAIN Reader, NEW k \in Keys
      PROVE  call[c].answer[k] \in IF k \in Wanted(c) THEN Shows(Svc(c), k) ELSE {Nothing(Svc(c))}
  <2>1. PICK op, s, keys, r :
          /\ op \in Operations /\ keys \in Seq(Keys) /\ r \in CallType
          /\ op = ask[c].op /\ s = ServiceOf(op) /\ keys = ask[c].keys /\ r = call[c]
          /\ op = Op(c) /\ s = Svc(c) /\ Members(keys) = Wanted(c)
          /\ RecordRight(c, op, s, keys, r)
          /\ op \in DOMAIN Writer => keys /= <<>>
          /\ op \in Reads \cup DOMAIN Writer => s \in Services
    BY CallKnown
  <2>2. Exact(s, Members(keys), r)
    BY <1>2, <2>1 DEF At, Reads, RecordRight, ReadRight
  <2> QED
    BY <2>1, <2>2 DEF Exact, Allowed
<1>3. ASSUME NEW c \in Calls, At(c, "failed")
      PROVE  Reason(c, Op(c), Svc(c), ask[c].keys)
  <2>1. PICK op, s, keys, r :
          /\ op \in Operations /\ keys \in Seq(Keys) /\ r \in CallType
          /\ op = ask[c].op /\ s = ServiceOf(op) /\ keys = ask[c].keys /\ r = call[c]
          /\ op = Op(c) /\ s = Svc(c) /\ Members(keys) = Wanted(c)
          /\ RecordRight(c, op, s, keys, r)
          /\ op \in DOMAIN Writer => keys /= <<>>
          /\ op \in Reads \cup DOMAIN Writer => s \in Services
    BY CallKnown
  <2>2. Reason(c, op, s, keys)
    BY <1>3, <2>1 DEF At, RecordRight, Excused
  <2> QED
    BY <2>1, <2>2
<1> QED
  BY <1>1, <1>2, <1>3 DEF Right, Reason, At

LEMMA Invariant == Spec => [](DocumentsInv /\ UsersInv)
<1>1. Init => DocumentsInv /\ UsersInv
  <2> SUFFICES ASSUME Init
               PROVE  UsersInv
    BY DocumentsBegin
  <2>1. CASE UsersStart(<<>>)
    BY <2>1, UsersBegin
  <2>2. CASE \E visits \in UserScenarios : UsersStart(visits)
    BY <2>2, UsersBegin
  <2> QED
    BY <2>1, <2>2 DEF Init
<1>2. DocumentsInv /\ UsersInv /\ [Next]_vars => DocumentsInv' /\ UsersInv'
  <2> SUFFICES ASSUME DocumentsInv, UsersInv, [Next]_vars
               PROVE  DocumentsInv' /\ UsersInv'
    OBVIOUS
  <2>1. CASE DocumentsNext /\ UNCHANGED userVars
    BY <2>1, DocumentsKept, UsersUnchanged
  <2>2. CASE UserStep /\ UNCHANGED documentVars
    <3>1. UNCHANGED <<ask, stores, call, history>>
      BY <2>2 DEF documentVars
    <3> QED
      BY <2>2, <3>1, DocumentsUnchanged, UserStepKeeps
  <2>3. CASE UserFails /\ UNCHANGED <<ask, stores, call, restarts, evictions, history>>
    <3>1. UNCHANGED <<ask, stores, call, history>>
      BY <2>3
    <3>2. UsersInv'
      BY <2>3, VisitFailsStep, FindsNobodyStep, InsertFailsStep DEF UserFails
    <3> QED
      BY <3>1, <3>2, DocumentsUnchanged
  <2>4. CASE UserEvicted /\ UNCHANGED <<ask, stores, call, restarts, failures, history>>
    <3>1. UNCHANGED <<ask, stores, call, history>>
      BY <2>4
    <3>2. UsersInv'
      BY <2>4, EvictItemStep DEF UserEvicted
    <3> QED
      BY <3>1, <3>2, DocumentsUnchanged
  <2>5. CASE UNCHANGED vars
    <3>1. UNCHANGED <<ask, stores, call, history>> /\ UNCHANGED userVars
      BY <2>5 DEF vars, documentVars
    <3> QED
      BY <3>1, DocumentsUnchanged, UsersUnchanged
  <2> QED
    BY <2>1, <2>2, <2>3, <2>4, <2>5 DEF Next, UsersNext
<1> QED
  BY <1>1, <1>2, PTL DEF Spec

\* What memcached holds, or is about to be given by a goroutine of a hotel
\* call, shows a document that MongoDB has; what is kept of a name is of the
\* first account registered with it.
THEOREM CacheIsOfDocuments == Spec => []CacheHoldsDocuments
<1>1. DocumentsInv /\ UsersInv => CacheHoldsDocuments
  BY DocumentsRight, UsersRight DEF CacheHoldsDocuments
<1> QED
  BY <1>1, Invariant, PTL

\* However the goroutines of a call share the work, and whatever was cached,
\* lost or inserted meanwhile, a read that succeeds answers each key it was
\* asked for with a value that shows its document, and nothing else.
THEOREM ReadsAnswerExactly == Spec => []AnswersExact
<1>1. DocumentsInv /\ UsersInv => AnswersExact
  BY DocumentsRight, UsersRight DEF AnswersExact
<1> QED
  BY <1>1, Invariant, PTL

\* No call fails, and no registration or login is refused, without one of
\* the reasons the property lists.
THEOREM FailuresHaveReasons == Spec => []FailsForAReason
<1>1. DocumentsInv /\ UsersInv => FailsForAReason
  BY DocumentsRight, UsersRight DEF FailsForAReason
<1> QED
  BY <1>1, Invariant, PTL
=============================================================================
