------------------------------ MODULE MCPayments ------------------------------
(***************************************************************************)
(* Small instances of Payments for TLC.                                    *)
(***************************************************************************)
EXTENDS Payments, TLC

CONSTANTS t1, s1, b1, b2, c1, c2, p1, p2, p3, k1, k2

\* One trip with one seat that two bookings compete for.
OneSeatLayout == (t1 :> {s1})
OneSeatCloses == (t1 :> 3)

Symmetric == Permutations(BookingId) \cup Permutations(Claim)
                \cup Permutations(PaymentId) \cup Permutations(PaymentClaim)
=============================================================================
