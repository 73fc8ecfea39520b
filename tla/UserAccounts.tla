----------------------------- MODULE UserAccounts -----------------------------
(***************************************************************************)
(* The accounts of the social network                                      *)
(* (socialNetwork/src/UserService/UserHandler.h): a registration makes an  *)
(* id or is given one, looks the name up, inserts the account and then     *)
(* asks the social graph service for a document.  The one unique index is  *)
(* on user_id, so two registrations of one name that both look it up       *)
(* before either inserts both succeed.                                     *)
(*                                                                         *)
(* An account never changes, so what memcached keeps of it is what MongoDB *)
(* holds: a look-up is one step here, and UserLookups follows Login and    *)
(* GetUserId through memcached.                                            *)
(***************************************************************************)
EXTENDS UniqueId, Sequences

VARIABLES
  accounts,         \* the documents of the collection, in the order of insertion
  registration,     \* where a call is, its name and its user id
  twins             \* history: names that two registrations found free

accountVars == <<accounts, registration, twins>>

NotRegistering == [at |-> "idle", name |-> "none", user |-> 0]

Taken(name) == \E i \in DOMAIN accounts : accounts[i].name = name
Used(user) == \E i \in DOMAIN accounts : accounts[i].user = user

AccountsStart(docs) ==
  /\ accounts = docs
  /\ registration = [c \in Calls |-> NotRegistering]
  /\ twins = {}

RegisterUser(c, name) ==
  /\ registration[c].at = "idle"
  /\ registration' = [registration EXCEPT ![c].at = "id", ![c].name = name]
  /\ UNCHANGED <<accounts, twins>>

RegisterUserWithId(c, name, user) ==
  /\ registration[c].at = "idle"
  /\ registration' = [registration EXCEPT ![c] = [at |-> "lookup", name |-> name, user |-> user]]
  /\ UNCHANGED <<accounts, twins>>

\* With the id made, the name is looked up.
HaveId(c) ==
  /\ registration[c].at = "id"
  /\ registration' = [registration EXCEPT ![c].at = "lookup", ![c].user = Id(c)']
  /\ UNCHANGED <<accounts, twins>>

\* Mutant: the name is not looked up.
LookUpNothing(c) ==
  /\ registration[c].at = "lookup"
  /\ registration' = [registration EXCEPT ![c].at = "insert"]
  /\ UNCHANGED <<accounts, twins>>

LookUp(c) ==
  LET name == registration[c].name
  IN /\ registration[c].at = "lookup"
     /\ registration' = [registration EXCEPT ![c].at = IF Taken(name) THEN "refused" ELSE "insert"]
     /\ twins' = twins \cup {n \in {name} : \E d \in Calls :
                   registration[d].at = "insert" /\ registration[d].name = n}
     /\ UNCHANGED accounts

\* insert_one, with the unique index on user_id.
InsertAccount(c) ==
  LET new == [user |-> registration[c].user, name |-> registration[c].name]
  IN /\ registration[c].at = "insert"
     /\ accounts' = IF Used(new.user) THEN accounts ELSE Append(accounts, new)
     /\ registration' = [registration EXCEPT ![c].at =
          IF Used(new.user) THEN "refused" ELSE "graph"]
     /\ UNCHANGED twins

\* InsertUser of the social graph service has answered.
InGraph(c, ok) ==
  /\ registration[c].at = "graph"
  /\ registration' = [registration EXCEPT ![c].at = IF ok THEN "done" ELSE "no document"]
  /\ UNCHANGED <<accounts, twins>>

RegistrationFails(c) ==
  /\ CommandFails(c)
  /\ registration[c].at \in {"lookup", "insert", "graph"}
  /\ registration' = [registration EXCEPT ![c].at =
       IF @ = "graph" THEN "no document" ELSE "failed"]
  /\ UNCHANGED <<accounts, twins>>

\* The process has exited while it made an id: its registrations are lost.
RegistrationsLost ==
  /\ registration' = [c \in Calls |-> [registration[c] EXCEPT !.at =
       IF @ = "graph" THEN "no document"
       ELSE IF @ \in {"id", "lookup", "insert"} THEN "failed" ELSE @]]
  /\ UNCHANGED <<accounts, twins>>

\* GetUserId: the first document with the name.
UserOf(name) == accounts[CHOOSE i \in DOMAIN accounts :
                  /\ accounts[i].name = name
                  /\ \A j \in 1..(i - 1) : accounts[j].name /= name].user
\* ComposeUserMentions: every document with one of the names.
UsersOf(names) == {accounts[i].user : i \in {i \in DOMAIN accounts : accounts[i].name \in names}}

-----------------------------------------------------------------------------
AccountsTypeOK ==
  /\ accounts \in Seq([user : Nat, name : STRING])
  /\ DOMAIN registration = Calls
  /\ \A c \in Calls : registration[c].at \in {"idle", "id", "lookup", "insert", "graph",
                        "done", "refused", "failed", "no document"}
=============================================================================
