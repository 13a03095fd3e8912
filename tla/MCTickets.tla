------------------------------ MODULE MCTickets -------------------------------
(***************************************************************************)
(* Small instances of Tickets for TLC.                                     *)
(***************************************************************************)
EXTENDS Tickets, TLC

CONSTANTS t1, s1, s2, b1, k1, c1, p1, p2, x1, x2

TwoSeatLayout == (t1 :> {s1, s2})
TwoSeatCloses == (t1 :> 2)

Symmetric == Permutations(Seat) \cup Permutations(PaymentId) \cup Permutations(Call)
=============================================================================
