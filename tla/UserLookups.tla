---------------------------- MODULE UserLookups ----------------------------
(***************************************************************************)
(* How the user services find an account by its name                       *)
(* (mediaMicroservices/src/UserService/UserHandler.h, with the upload of   *)
(* an author's id to the compose-review service, and                       *)
(* socialNetwork/src/UserService/UserHandler.h).  No index of MongoDB      *)
(* refuses a second account with the name of another.  Memcached keeps     *)
(* items of a name under keys of their own, each read and set by itself:   *)
(* the id, for the Login of the media services the salt and the hashed     *)
(* password, for the SocialLogin one item with all of it.                  *)
(*                                                                         *)
(* An item is named by the account it belongs to, the position of its      *)
(* document in the collection.  The media Login uses the salt and the      *)
(* password it found after it has released the document they are in: what  *)
(* it reads then may be theirs or anything else, which is a Spoiled item.  *)
(***************************************************************************)
EXTENDS Integers, SequencesExt

CONSTANTS
  Names,
  None              \* an item that is not there

VARIABLES
  visit,            \* what each call asks: [op, name, password, user]
  people,           \* the documents, in the order they were inserted
  kept,             \* kept[name][item]: what memcached holds
  session,          \* where each call is, and what it has found
  spoiled           \* history: names with an item that was used when it was spoiled

userVars == <<visit, people, kept, session, spoiled>>

Items == {"id", "salt", "password", "login"}
Spoiled == 0
Visits == DOMAIN visit
Name(v) == visit[v].name
Place(v, place) == session[v].at = place
Left(v) == session[v].at \in {"done", "refused", "failed"}

\* find without a sort gives the first document with the name.
Registered(name) == \E i \in DOMAIN people : people[i].name = name
Account(name) == CHOOSE i \in DOMAIN people :
                   /\ people[i].name = name
                   /\ \A j \in 1..(i - 1) : people[j].name /= name
User(v) == people[Account(Name(v))].user

NewSession == [at |-> "idle", found |-> [item \in Items |-> None], sets |-> <<>>,
               answer |-> "none", known |-> FALSE]

UsersStart(visits) ==
  /\ visit = visits
  /\ people = <<>>
  /\ kept = [name \in Names |-> [item \in Items |-> None]]
  /\ session = [v \in Visits |-> NewSession]
  /\ spoiled = {}

Registrations == {"RegisterUser", "RegisterUserWithId"}
UserOperations == Registrations \cup
  {"UploadUserWithUsername", "UploadUserWithUserId", "GetUserId", "Login", "SocialLogin"}
Moves(v, place) == session' = [session EXCEPT ![v].at = place]

BeginVisit(v) ==
  /\ Place(v, "idle")
  /\ session' = [session EXCEPT ![v].known = Registered(Name(v)),
       ![v].at = CASE visit[v].op \in Registrations -> "look"
                   [] visit[v].op \in {"UploadUserWithUsername", "GetUserId"} -> "get id"
                   [] visit[v].op = "UploadUserWithUserId" -> "upload"
                   [] visit[v].op = "Login" -> "get password"
                   [] visit[v].op = "SocialLogin" -> "get login"]
  /\ UNCHANGED <<visit, people, kept, spoiled>>

-----------------------------------------------------------------------------
(* Registrations, which differ in where the id comes from. *)

LookForName(v) ==
  /\ Place(v, "look")
  /\ Moves(v, IF Registered(Name(v)) THEN "refused" ELSE "insert")
  /\ UNCHANGED <<visit, people, kept, spoiled>>

AddsPerson(v) ==
  people' = Append(people, [name |-> Name(v), password |-> visit[v].password,
                            user |-> visit[v].user])

InsertUser(v) ==
  /\ Place(v, "insert")
  /\ AddsPerson(v)
  /\ Moves(v, "done")
  /\ UNCHANGED <<visit, kept, spoiled>>

-----------------------------------------------------------------------------
(* The look-up of a name.  GetUserId and ComposeCreatorWithUsername of the  *)
(* social network do the same.                                              *)

Gets == [password |-> "get password", salt |-> "get salt", id |-> "get id", login |-> "get login"]
After == [password |-> "get salt", salt |-> "get id"]

Cached(found) == {item \in Items : found[item] /= None}
Use(v) == CASE visit[v].op \in {"Login", "SocialLogin"} -> "check"
            [] visit[v].op = "UploadUserWithUsername" -> "upload"
            [] visit[v].op = "GetUserId" -> "set"

\* What a call needs, in the order it is kept when it had to be found.
Needs(v) == CASE visit[v].op = "Login" -> <<"salt", "password", "id">>
              [] visit[v].op = "SocialLogin" -> <<"login">>
              [] OTHER -> <<"id">>
Enough(v, found) == Cached(found) = ToSet(Needs(v))

GetItem(v) ==
  \E item \in Items :
    LET found == [session[v].found EXCEPT ![item] = kept[Name(v)][item]]
    IN /\ Place(v, Gets[item])
       /\ session' = [session EXCEPT ![v].found = found,
            ![v].at = IF item \in DOMAIN After THEN After[item]
                      ELSE IF Enough(v, found) THEN Use(v) ELSE "find"]
       /\ UNCHANGED <<visit, people, kept, spoiled>>

\* To the media services a user id of 0 is none.
Keeps(v) ==
  SelectSeq(Needs(v), LAMBDA item :
    session[v].found[item] = None /\ (item = "id" => User(v) /= 0 \/ visit[v].op = "GetUserId"))

FindUser(v) ==
  /\ Place(v, "find")
  /\ IF ~Registered(Name(v)) THEN Moves(v, "refused")
     ELSE session' = [session EXCEPT ![v].at = Use(v), ![v].sets = Keeps(v)]
  /\ UNCHANGED <<visit, people, kept, spoiled>>

\* The media Login does not take what was cached from the document either:
\* with some items cached the others are not enough, and nothing is checked.
Partly(v) == Cached(session[v].found) \notin {{}, ToSet(Needs(v))}
Whole(v) == visit[v].op = "Login" => ~Partly(v) /\ User(v) /= 0

Spoils(v, values) ==
  spoiled' = IF Spoiled \in values THEN spoiled \cup {Name(v)} ELSE spoiled

\* What is read of an account's item once its document is released.
Rest(v, item) == {Account(Name(v))} \cup (IF item \in {"salt", "password"} THEN {Spoiled} ELSE {})

Value(v, item) ==
  LET needed == IF visit[v].op = "SocialLogin" THEN "login" ELSE item
      found == session[v].found[needed]
  IN IF found = None THEN Rest(v, needed) ELSE {found}

\* Login's token, or an error; no check, no token and no error.
Check(v) ==
  /\ Place(v, "check")
  /\ IF ~Whole(v)
     THEN /\ session' = [session EXCEPT ![v].at = "set", ![v].answer = "empty"]
          /\ UNCHANGED spoiled
     ELSE \E salt \in Value(v, "salt"), password \in Value(v, "password") :
            /\ IF salt = password /\ salt /= Spoiled /\ people[salt].password = visit[v].password
               THEN session' = [session EXCEPT ![v].at = "set", ![v].answer = "token"]
               ELSE Moves(v, "refused")
            /\ Spoils(v, {salt, password})
  /\ UNCHANGED <<visit, people, kept>>

\* The id goes to the compose-review service (see ComposeReview), unless the
\* service has looked it up and it is 0.
Uploads(v) == visit[v].op = "UploadUserWithUserId" \/ User(v) /= 0

UploadUser(v) ==
  /\ Place(v, "upload")
  /\ session' = [session EXCEPT ![v].at = "set",
                                ![v].answer = IF Uploads(v) THEN "uploaded" ELSE "empty"]
  /\ UNCHANGED <<visit, people, kept, spoiled>>

KeepItem(v) ==
  LET item == Head(session[v].sets)
  IN /\ Place(v, "set") /\ session[v].sets /= <<>>
     /\ \E value \in Rest(v, item) :
          /\ kept' = [kept EXCEPT ![Name(v)][item] = value]
          /\ Spoils(v, {value})
     /\ session' = [session EXCEPT ![v].sets = Tail(@)]
     /\ UNCHANGED <<visit, people>>

Leave(v) ==
  /\ Place(v, "set") /\ session[v].sets = <<>>
  /\ Moves(v, "done")
  /\ UNCHANGED <<visit, people, kept, spoiled>>

-----------------------------------------------------------------------------
(* Failures. *)

\* A registration that gets no document asks for no error: the name whose find
\* fails is as good as free.
FindsNobody(v) ==
  /\ Place(v, "look")
  /\ Moves(v, "insert")
  /\ UNCHANGED <<visit, people, kept, spoiled>>

\* An insert whose answer is an error may have been carried out.
InsertFails(v) ==
  /\ Place(v, "insert")
  /\ AddsPerson(v)
  /\ Moves(v, "failed")
  /\ UNCHANGED <<visit, kept, spoiled>>

\* Any other command that fails is an error (at "look", that no connection is
\* had), but nobody minds a Set that does, nor SocialLogin a Get.
VisitFails(v) ==
  /\ \/ session[v].at \in Range(Gets) \cup {"look", "insert", "find", "upload"}
        /\ Moves(v, IF Place(v, "get login") THEN "find" ELSE "failed")
     \/ /\ Place(v, "set") /\ session[v].sets /= <<>>
        /\ session' = [session EXCEPT ![v].sets = Tail(@)]
  /\ UNCHANGED <<visit, people, kept, spoiled>>

EvictItem(name, item) ==
  /\ kept[name][item] /= None
  /\ kept' = [kept EXCEPT ![name][item] = None]
  /\ UNCHANGED <<visit, people, session, spoiled>>

RegisterUser(v) == visit[v].op = "RegisterUser" /\ (LookForName(v) \/ InsertUser(v))
RegisterUserWithId(v) ==
  visit[v].op = "RegisterUserWithId" /\ (LookForName(v) \/ InsertUser(v))
UploadUserWithUsername(v) ==
  /\ visit[v].op = "UploadUserWithUsername"
  /\ GetItem(v) \/ FindUser(v) \/ UploadUser(v) \/ KeepItem(v) \/ Leave(v)
UploadUserWithUserId(v) ==
  visit[v].op = "UploadUserWithUserId" /\ (UploadUser(v) \/ Leave(v))
Login(v) ==
  /\ visit[v].op = "Login"
  /\ GetItem(v) \/ FindUser(v) \/ Check(v) \/ KeepItem(v) \/ Leave(v)
SocialLogin(v) ==
  /\ visit[v].op = "SocialLogin"
  /\ GetItem(v) \/ FindUser(v) \/ Check(v) \/ KeepItem(v) \/ Leave(v)
GetUserId(v) ==
  /\ visit[v].op = "GetUserId"
  /\ GetItem(v) \/ FindUser(v) \/ KeepItem(v) \/ Leave(v)

UserStep ==
  \E v \in Visits :
    \/ BeginVisit(v) \/ RegisterUser(v) \/ RegisterUserWithId(v)
    \/ UploadUserWithUsername(v) \/ UploadUserWithUserId(v)
    \/ Login(v) \/ SocialLogin(v) \/ GetUserId(v)

-----------------------------------------------------------------------------
\* What is kept of a name is of the first account that has it, whichever of
\* two registrations that both found it free a call comes from.
KeptOfFirst ==
  \A name \in Names, item \in Items :
    kept[name][item] /= None =>
      \/ kept[name][item] = Account(name)
      \/ kept[name][item] = Spoiled /\ item \in {"salt", "password"} /\ name \in spoiled

\* A token is for the password of that account.  A login ends without token or
\* error only in the media services, if memcached had some of the items and not
\* all, or the id is 0; an author's id is not uploaded only if it is 0.
LoginsRight ==
  \A v \in Visits :
    /\ session[v].answer = "token" => people[Account(Name(v))].password = visit[v].password
    /\ session[v].answer = "empty" =>
         /\ visit[v].op /= "SocialLogin"
         /\ User(v) = 0 \/ (visit[v].op = "Login" /\ Partly(v))

\* A registration is refused if the name is taken; a login is if the name was
\* not registered when it began, the password is another, or an item of the
\* name was spoiled.
RefusedForAReason ==
  \A v \in Visits :
    Place(v, "refused") =>
      IF visit[v].op \in Registrations THEN Registered(Name(v))
      ELSE \/ ~session[v].known \/ Name(v) \in spoiled
           \/ /\ visit[v].op \in {"Login", "SocialLogin"}
              /\ people[Account(Name(v))].password /= visit[v].password
=============================================================================
