---------------------------- MODULE MCClientPool ----------------------------
(* ClientPool on small instances.                                          *)
EXTENDS ClientPool, TLC

Symmetric == Permutations(Threads) \cup Permutations(Clients)
=============================================================================
