-------------------------- MODULE MCAccountSemaphore --------------------------
(* AccountSemaphore for TLC.  Requests are interchangeable in the runs that    *)
(* check no liveness.                                                          *)
EXTENDS AccountSemaphore, TLC

RequestSymmetry == Permutations(Requests)
=============================================================================
