-------------------------------- MODULE SeatMap --------------------------------
(***************************************************************************)
(* What the backend promises about the seats of its trips, with no clock,  *)
(* no tables and no idempotency: a seat of a trip belongs to at most one   *)
(* booking; a booking gets all its seats at once, on one trip; it either   *)
(* ends, giving all of them back, or is sold, keeping all of them for ever,*)
(* and only the seats of a sold booking are boarded.                       *)
(***************************************************************************)
CONSTANTS Trip, Seat, BookingId, Nobody

VARIABLES
    owner,    \* owner[<<trip, seat>>]: a booking, or Nobody
    sold,     \* the bookings that were paid
    ended,    \* the bookings that expired or were cancelled
    boarded   \* the places whose passenger has checked in

vars == <<owner, sold, ended, boarded>>

Place == Trip \X Seat
PlacesOf(b) == {p \in Place : owner[p] = b}
Holding == {b \in BookingId : PlacesOf(b) # {}} \ sold

TypeOK ==
    /\ owner \in [Place -> BookingId \cup {Nobody}]
    /\ sold \subseteq BookingId
    /\ ended \subseteq BookingId
    /\ boarded \subseteq Place

Init ==
    /\ owner = [p \in Place |-> Nobody]
    /\ sold = {}
    /\ ended = {}
    /\ boarded = {}

\* X, some of the holds, end and give their places back.
GiveBack(X) ==
    /\ X # {}
    /\ ended' = ended \cup X
    /\ owner' = [p \in Place |-> IF owner[p] \in X THEN Nobody ELSE owner[p]]
    /\ UNCHANGED <<sold, boarded>>

\* X, some of the holds, end, and booking b takes free places of one trip, possibly
\* places X has just given back.
Take(X, b, tr, S) ==
    /\ S # {}
    /\ ended' = ended \cup X
    /\ b \notin sold \cup ended
    /\ PlacesOf(b) = {}
    /\ \A s \in S : owner[<<tr, s>>] \in X \cup {Nobody}
    /\ owner' = [p \in Place |-> IF p[1] = tr /\ p[2] \in S THEN b
                                 ELSE IF owner[p] \in X THEN Nobody
                                 ELSE owner[p]]
    /\ UNCHANGED <<sold, boarded>>

Sell(b) ==
    /\ b \in Holding
    /\ sold' = sold \cup {b}
    /\ UNCHANGED <<owner, ended, boarded>>

Board(p) ==
    /\ owner[p] \in sold
    /\ p \notin boarded
    /\ boarded' = boarded \cup {p}
    /\ UNCHANGED <<owner, sold, ended>>

Next ==
    \/ \E X \in SUBSET Holding : GiveBack(X)
    \/ \E X \in SUBSET Holding, b \in BookingId, tr \in Trip, S \in SUBSET Seat :
            Take(X, b, tr, S)
    \/ \E b \in BookingId : Sell(b)
    \/ \E p \in Place : Board(p)

Spec == Init /\ [][Next]_vars
=============================================================================
