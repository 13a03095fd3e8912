------------------------------ MODULE MCBookings ------------------------------
(***************************************************************************)
(* Small instances of Bookings for TLC.                                    *)
(***************************************************************************)
EXTENDS Bookings, TLC

CONSTANTS t1, t2, s1, s2, b1, b2, b3, c1, c2

\* Two trips on buses of different layouts that close for boarding at
\* different times.
TwoTripLayout == (t1 :> {s1, s2}) @@ (t2 :> {s1})
TwoTripCloses == (t1 :> 1) @@ (t2 :> 3)

\* Claims and bookings are interchangeable; seats and trips are not.
Symmetric == Permutations(BookingId) \cup Permutations(Claim)
=============================================================================
