---------------------------- MODULE MCReservation ----------------------------
(* Reservation on small instances.                                         *)
EXTENDS Reservation, TLC

Symmetric == Permutations(Requests)
=============================================================================
