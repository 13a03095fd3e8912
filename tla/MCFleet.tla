------------------------------- MODULE MCFleet --------------------------------
(***************************************************************************)
(* Small instances of Fleet for TLC.                                       *)
(***************************************************************************)
EXTENDS Fleet, TLC

CONSTANTS bus1, bus2, tr1, tr2, j1, j2

Symmetric == Permutations(Bus) \cup Permutations(Trip) \cup Permutations(Job)
=============================================================================
