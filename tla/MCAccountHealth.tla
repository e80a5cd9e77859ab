---------------------------- MODULE MCAccountHealth ----------------------------
(* AccountHealth for TLC.  Requests are interchangeable, and so are models, in *)
(* the runs that check no liveness.                                            *)
EXTENDS AccountHealth, TLC

Symmetry == Permutations(Requests) \cup Permutations(Models)
=============================================================================
