----------------------------- MODULE PostStorage -----------------------------
(***************************************************************************)
(* The post storage service of the social network                          *)
(* (socialNetwork/src/PostStorageService/PostStorageHandler.h): MongoDB    *)
(* keeps the posts, memcached copies of those that were read.  A post      *)
(* never changes and is never deleted.                                     *)
(***************************************************************************)
EXTENDS Services, Sequences

VARIABLES
  posts,            \* the posts in MongoDB
  cachedPosts,      \* the posts in memcached
  postRead          \* what a read of posts looks for, and where it is

postVars == <<posts, cachedPosts, postRead>>

NoRead == [at |-> "idle", ids |-> <<>>, missing |-> {}]
Members(s) == {s[i] : i \in DOMAIN s}

PostsInit ==
  /\ posts = {} /\ cachedPosts = {}
  /\ postRead = [c \in Calls |-> NoRead]

\* insert_one, with a unique index on post_id.
StorePost(p) ==
  /\ p \notin posts
  /\ posts' = posts \cup {p}
  /\ UNCHANGED <<cachedPosts, postRead>>

\* ReadPosts: no ids, no work; the same id twice is an error.
ReadPosts(c, ids) ==
  /\ postRead[c].at = "idle"
  /\ postRead' = [postRead EXCEPT ![c] =
       [at |-> IF ids = <<>> THEN "done"
               ELSE IF Cardinality(Members(ids)) /= Len(ids) THEN "failed" ELSE "mget",
        ids |-> ids, missing |-> {}]]
  /\ UNCHANGED <<posts, cachedPosts>>

MultiGet(c) ==
  LET missing == Members(postRead[c].ids) \ cachedPosts
  IN /\ postRead[c].at = "mget"
     /\ postRead' = [postRead EXCEPT ![c].missing = missing,
                       ![c].at = IF missing = {} THEN "done" ELSE "find"]
     /\ UNCHANGED <<posts, cachedPosts>>

\* What memcached lacked is found in MongoDB and cached; the call waits for
\* the tasks that do so.  A post nobody has is an error ("Return set
\* incomplete").
FindPosts(c) ==
  LET found == postRead[c].missing \cap posts
  IN /\ postRead[c].at = "find"
     /\ cachedPosts' = cachedPosts \cup found
     /\ postRead' = [postRead EXCEPT ![c].at =
          IF found = postRead[c].missing THEN "done" ELSE "failed"]
     /\ UNCHANGED posts

ReadPostsFails(c) ==
  /\ CommandFails(c)
  /\ postRead[c].at \in {"mget", "find"}
  /\ postRead' = [postRead EXCEPT ![c].at = "failed"]
  /\ UNCHANGED <<posts, cachedPosts>>

PostsTypeOK ==
  /\ posts \subseteq Calls /\ cachedPosts \subseteq posts
  /\ postRead \in [Calls -> [at : {"idle", "mget", "find", "done", "failed"},
                             ids : Seq(Calls), missing : SUBSET Calls]]
=============================================================================
