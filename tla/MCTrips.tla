------------------------------- MODULE MCTrips --------------------------------
(***************************************************************************)
(* A small instance of Trips for TLC: an edit of either end of the window, *)
(* one clearing a post and one filling the other with the same person.     *)
(***************************************************************************)
EXTENDS Trips, TLC

CONSTANTS bus1, tr1, tr2, j1, c1, c2, s1

Nothing == [from |-> Same, until |-> Same, crew |-> [post \in Post |-> Same]]

Edits ==
    {[Nothing EXCEPT !.from = 0, !.crew["ASSISTANT"] = NoOne],
     [Nothing EXCEPT !.until = 1, !.crew["DRIVER"] = s1]}

Crews == {[NoCrew EXCEPT !["ASSISTANT"] = s1]}

Symmetric == Permutations(Trip) \cup Permutations(Call)
=============================================================================
