---------------------------- MODULE MCReviewLists ----------------------------
(* Three uploads and two reads; the calls of a kind are interchangeable. *)
EXTENDS ReviewLists, TLC

CONSTANTS u1, u2, u3, r1, r2

MCReviewUploads == {u1, u2, u3}
MCReads == {r1, r2}
MCPages == {<<0, 1>>, <<0, 2>>, <<1, 3>>}
Symmetry == Permutations(MCReviewUploads) \cup Permutations(MCReads)
=============================================================================
