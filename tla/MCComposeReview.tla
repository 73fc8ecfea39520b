--------------------------- MODULE MCComposeReview ---------------------------
(* ComposeReview on small instances.                                        *)
EXTENDS ComposeReview

\* Three components stand for the five, which all take the same steps.
Three == {"movie_id", "user_id", "rating"}
RatingTwice == Three \X {1} \cup {<<"rating", 2>>}

\* An upload is named by its component and a number.
FirstOf == [u \in Uploads |-> u[1]]
==============================================================================
