------------------------------- MODULE Tickets --------------------------------
(***************************************************************************)
(* Tickets: issued for the confirmed seats of a paid booking, then either  *)
(* validated at boarding or revoked; composed with Payments.               *)
(*                                                                         *)
(* Here a transaction is NOT one step.  issue and validate read is_paid in *)
(* the statement that also takes a row lock -- issue locks the booking,    *)
(* validate only the ticket -- and the statement's snapshot is taken       *)
(* BEFORE it waits.  PostgreSQL re-reads the locked row after the wait but *)
(* not the payments behind is_paid, so a call is two steps: Begin takes    *)
(* the snapshot, Commit acts on what it saw and on the locked row as it is *)
(* now.  Everything else of a call is decided under the lock.  A refund    *)
(* may commit between the two: it holds the booking when issue starts to   *)
(* wait for it, and validate does not wait for it at all.                  *)
(*                                                                         *)
(* A ticket is named by its booking and seat: uq_ticket_seat gives a       *)
(* reservation one ticket for ever.  X_Mutant is X with a plausible slip.  *)
(***************************************************************************)
EXTENDS Payments

CONSTANT Call   \* ticket calls that may be under way at once

ASSUME TicketConstantsOK == Seat # {}

VARIABLES
    ticket,   \* the status derived from issued_at, checked_in_at, cancelled_at
    call      \* the calls under way, with what their first statement saw

ticketVars == <<allVars, ticket, call>>

TicketStatus == {"NONE", "ISSUED", "CHECKED_IN", "CANCELLED"}

AnySeat == CHOOSE s \in Seat : TRUE
Idle == [op |-> "none", booking |-> AnyBooking, seat |-> AnySeat,
         confirmed |-> FALSE, paid |-> FALSE, afterRefund |-> FALSE]

TicketTypeOK ==
    /\ ticket \in [BookingId -> [Seat -> TicketStatus]]
    /\ call \in [Call -> [op : {"none", "issue", "validate"}, booking : BookingId,
                          seat : Seat, confirmed : BOOLEAN, paid : BOOLEAN,
                          afterRefund : BOOLEAN]]

TicketsInit ==
    /\ PaymentsInit
    /\ ticket = [b \in BookingId |-> [s \in Seat |-> "NONE"]]
    /\ call = [c \in Call |-> Idle]

-----------------------------------------------------------------------------
\* IS_PAID as the tickets repository asks it: a refunded payment does not count.
IsPaid_Mutant(b) == SettledPaymentsOf(b) # {}

IsPaid(b) == \E p \in PaymentsOf(b) : paymentStatus[p] = "SUCCEEDED"

Refunded(b) == \E p \in PaymentsOf(b) : paymentStatus[p] = "REFUNDED"

\* What a statement on booking b sees when it starts; afterRefund is for the
\* properties only, no call acts on it.
Snapshot(op, b, s) ==
    [op |-> op, booking |-> b, seat |-> s,
     confirmed |-> bookingStatus[b] = "CONFIRMED", paid |-> IsPaid(b),
     afterRefund |-> Refunded(b)]

Begin(c, op, b, s) ==
    /\ call[c] = Idle
    /\ call' = [call EXCEPT ![c] = Snapshot(op, b, s)]
    /\ UNCHANGED <<allVars, ticket>>

\* The call is refused, or the database fails it: nothing is kept.
RollBack(c) ==
    /\ call[c] # Idle
    /\ call' = [call EXCEPT ![c] = Idle]
    /\ UNCHANGED <<allVars, ticket>>

(***************************************************************************)
(* Issue: the booking row is locked, so its status is the current one; one *)
(* ticket for every confirmed seat that has none.                          *)
(***************************************************************************)
BeginIssue(c, b) == bookingStatus[b] # "NONE" /\ Begin(c, "issue", b, AnySeat)

Issuable_Mutant(b) == {s \in Seat : seatStatus[b][s] = "CONFIRMED" /\ ticket[b][s] # "ISSUED"}

Issuable_Unreserved(b) == {s \in Seat : ticket[b][s] = "NONE"}

Issuable(b) == {s \in Seat : seatStatus[b][s] = "CONFIRMED" /\ ticket[b][s] = "NONE"}

CommitIssue(c) ==
    LET b == call[c].booking IN
    /\ call[c].op = "issue"
    /\ bookingStatus[b] = "CONFIRMED"
    /\ call[c].paid
    /\ ticket' = [ticket EXCEPT ![b] = [s \in Seat |->
                    IF s \in Issuable(b) THEN "ISSUED" ELSE ticket[b][s]]]
    /\ \E s \in Seat : ticket'[b][s] # "NONE"
    /\ call' = [call EXCEPT ![c] = Idle]
    /\ UNCHANGED allVars

(***************************************************************************)
(* Validate: the ticket row is locked and read again, the booking and its  *)
(* payments are not.  The seat is boarded if it is still confirmed; the    *)
(* ticket and the event are written either way.                            *)
(***************************************************************************)
BeginValidate(c, b, s) == ticket[b][s] # "NONE" /\ Begin(c, "validate", b, s)

BoardSeat(b, s) ==
    /\ seatStatus' = IF seatStatus[b][s] = "CONFIRMED"
                     THEN [seatStatus EXCEPT ![b][s] = "CHECKED_IN"] ELSE seatStatus
    /\ bookingEvents' = AppendEvent(bookingEvents, {b}, "CHECKED_IN")
    /\ UNCHANGED <<clock, tripVars, bookingStatus, bookingTrip, expiresAt, heldUntil,
                   idempotency, payVars>>

\* checkInTicket without its condition on the two timestamps.
MayCheckIn_Mutant(b, s) == TRUE

MayCheckIn(b, s) == ticket[b][s] = "ISSUED"

CommitValidate(c) ==
    LET b == call[c].booking
        s == call[c].seat IN
    /\ call[c].op = "validate"
    /\ MayCheckIn(b, s)
    /\ call[c].confirmed /\ call[c].paid
    /\ ticket' = [ticket EXCEPT ![b][s] = "CHECKED_IN"]
    /\ BoardSeat(b, s)
    /\ call' = [call EXCEPT ![c] = Idle]

\* Revoke looks at nothing but the locked ticket, so it is one step.
RevokeTicket(b, s) ==
    /\ ticket[b][s] = "ISSUED"
    /\ ticket' = [ticket EXCEPT ![b][s] = "CANCELLED"]
    /\ UNCHANGED <<allVars, call>>

-----------------------------------------------------------------------------
TicketsNext ==
    \/ PaymentsNext /\ UNCHANGED <<ticket, call>>
    \/ \E c \in Call, b \in BookingId : BeginIssue(c, b)
    \/ \E c \in Call, b \in BookingId, s \in Seat : BeginValidate(c, b, s)
    \/ \E c \in Call : CommitIssue(c) \/ CommitValidate(c) \/ RollBack(c)
    \/ \E b \in BookingId, s \in Seat : RevokeTicket(b, s)

TicketsSpec == TicketsInit /\ [][TicketsNext]_ticketVars

-----------------------------------------------------------------------------
(***************************************************************************)
(* Properties.                                                             *)
(***************************************************************************)

\* Tickets and seats agree although validate locks neither the seat nor the
\* booking: a ticket exists only for a sold seat of a confirmed booking, and a
\* seat is boarded exactly when its ticket was used.
TicketsMatchSeats ==
    \A b \in BookingId, s \in Seat :
        /\ ticket[b][s] # "NONE" => /\ bookingStatus[b] = "CONFIRMED"
                                    /\ seatStatus[b][s] \in {"CONFIRMED", "CHECKED_IN"}
        /\ (ticket[b][s] = "CHECKED_IN") <=> (seatStatus[b][s] = "CHECKED_IN")

\* A used or revoked ticket stays so, and its passenger never gets another for the
\* seat, however many issue and validate calls are under way.
KeepsTerminalTickets ==
    \A b \in BookingId, s \in Seat :
        ticket[b][s] \in {"CHECKED_IN", "CANCELLED"} => ticket'[b][s] = ticket[b][s]

UsedOrRevokedForGood == [][KeepsTerminalTickets]_ticketVars

\* After a refund, once the calls that began before it are over, no ticket of the
\* booking is issued or used any more (it may still be revoked).
RefundSettledDown(b) ==
    /\ Refunded(b)
    /\ \A c \in Call : call[c] # Idle /\ call[c].booking = b => call[c].afterRefund

KeepsRefundedTickets ==
    \A b \in BookingId : RefundSettledDown(b) =>
        \A s \in Seat : ticket'[b][s] \in {ticket[b][s], "CANCELLED"}

RefundClosesTickets == [][KeepsRefundedTickets]_ticketVars

-----------------------------------------------------------------------------
(***************************************************************************)
(* What the repository says and the code does not do.                      *)
(***************************************************************************)

\* architecture/13: revoked or refunded tickets cannot be accepted.
BoardsOnlyPaid ==
    \A b \in BookingId, s \in Seat :
        ticket'[b][s] = "CHECKED_IN" /\ ticket[b][s] # "CHECKED_IN" => IsPaid(b)

RefundedNotAccepted == [][BoardsOnlyPaid]_ticketVars
=============================================================================
