----------------------------- MODULE TicketsProofs -----------------------------
(***************************************************************************)
(* Theorems about Tickets for every set of bookings, seats, payments and   *)
(* calls under way.                                                        *)
(***************************************************************************)
EXTENDS Tickets, PaymentsProofs

-----------------------------------------------------------------------------
(***************************************************************************)
(* Types.                                                                  *)
(***************************************************************************)

\* A call that is not under way is well typed.
LEMMA IdleCall ==
    /\ AnyBooking \in BookingId /\ AnySeat \in Seat
    /\ Idle \in [op : {"none", "issue", "validate"}, booking : BookingId, seat : Seat,
                 confirmed : BOOLEAN, paid : BOOLEAN, afterRefund : BOOLEAN]
  <1>1. AnyBooking \in BookingId
    BY PaymentConstantsOK DEF PaymentConstantsOK, AnyBooking
  <1>2. AnySeat \in Seat
    BY TicketConstantsOK DEF TicketConstantsOK, AnySeat
  <1> QED
    BY <1>1, <1>2 DEF Idle

\* What a call saw is well typed.
LEMMA SnapshotType ==
    ASSUME NEW op \in {"issue", "validate"}, NEW b \in BookingId, NEW s \in Seat
    PROVE  Snapshot(op, b, s)
               \in [op : {"none", "issue", "validate"}, booking : BookingId, seat : Seat,
                    confirmed : BOOLEAN, paid : BOOLEAN, afterRefund : BOOLEAN]
  <1>1. (bookingStatus[b] = "CONFIRMED") \in BOOLEAN /\ IsPaid(b) \in BOOLEAN
            /\ Refunded(b) \in BOOLEAN
    BY DEF IsPaid, Refunded
  <1> QED
    BY <1>1 DEF Snapshot

\* Every step keeps the tickets and the calls well typed.
LEMMA NextTicketTypeOK == TicketTypeOK /\ [TicketsNext]_ticketVars => TicketTypeOK'
  <1> SUFFICES ASSUME TicketTypeOK, [TicketsNext]_ticketVars PROVE TicketTypeOK'
    OBVIOUS
  <1> USE DEF TicketTypeOK
  <1>1. CASE UNCHANGED <<ticket, call>>
    BY <1>1
  <1>2. ASSUME NEW c \in Call, NEW op \in {"issue", "validate"}, NEW b \in BookingId,
               NEW s \in Seat, Begin(c, op, b, s)
        PROVE  TicketTypeOK'
    BY <1>2, SnapshotType DEF Begin
  <1>3. ASSUME NEW c \in Call, NEW b \in BookingId, BeginIssue(c, b)
        PROVE  TicketTypeOK'
    BY <1>2, <1>3, IdleCall DEF BeginIssue
  <1>4. ASSUME NEW c \in Call, NEW b \in BookingId, NEW s \in Seat, BeginValidate(c, b, s)
        PROVE  TicketTypeOK'
    BY <1>2, <1>4 DEF BeginValidate
  <1>5. ASSUME NEW c \in Call, CommitIssue(c)
        PROVE  TicketTypeOK'
    <2> PICK b \in BookingId : b = call[c].booking
      OBVIOUS
    <2>1. [s \in Seat |-> IF s \in Issuable(b) THEN "ISSUED" ELSE ticket[b][s]]
              \in [Seat -> TicketStatus]
      BY DEF TicketStatus
    <2>2. ticket' \in [BookingId -> [Seat -> TicketStatus]]
      BY <1>5, <2>1 DEF CommitIssue
    <2> QED
      BY <1>5, <2>2, IdleCall DEF CommitIssue
  <1>6. ASSUME NEW c \in Call, CommitValidate(c)
        PROVE  TicketTypeOK'
    <2>1. ticket' \in [BookingId -> [Seat -> TicketStatus]]
      BY <1>6 DEF CommitValidate, TicketStatus
    <2> QED
      BY <1>6, <2>1, IdleCall DEF CommitValidate
  <1>7. ASSUME NEW c \in Call, RollBack(c)
        PROVE  TicketTypeOK'
    BY <1>7, IdleCall DEF RollBack
  <1>8. ASSUME NEW b \in BookingId, NEW s \in Seat, RevokeTicket(b, s)
        PROVE  TicketTypeOK'
    BY <1>8 DEF RevokeTicket, TicketStatus
  <1> QED
    BY <1>1, <1>3, <1>4, <1>5, <1>6, <1>7, <1>8 DEF TicketsNext, ticketVars

-----------------------------------------------------------------------------
(***************************************************************************)
(* The invariant.  That validate boards a confirmed seat without locking   *)
(* it, and that issue's tickets are for sold seats for ever, rests on the  *)
(* booking engine never touching a confirmed booking.                      *)
(***************************************************************************)

\* A call that began after the refund saw no paid booking: the one payment that
\* ever settles is the refunded one.
SawRefund == \A c \in Call : call[c].afterRefund => ~ call[c].paid

TicketInv == TicketTypeOK /\ IInv /\ MoneyInv /\ TicketsMatchSeats /\ SawRefund

\* No ticket and no call at the start.
LEMMA InitTicketInv == TicketsInit => TicketInv
  <1> SUFFICES ASSUME TicketsInit PROVE TicketInv
    OBVIOUS
  <1>1. IInv /\ MoneyInv
    BY InitIInv, InitMoneyInv DEF TicketsInit, PaymentsInit
  <1>2. TicketTypeOK
    BY IdleCall DEF TicketsInit, TicketTypeOK, TicketStatus
  <1>3. TicketsMatchSeats
    BY DEF TicketsInit, PaymentsInit, Init, TicketsMatchSeats
  <1>4. SawRefund
    BY DEF TicketsInit, SawRefund, Idle
  <1> QED
    BY <1>1, <1>2, <1>3, <1>4 DEF TicketInv

\* Boarding finds the seat of an issued ticket confirmed: it is CheckInSeat.
LEMMA ValidateChecksIn ==
    ASSUME TicketInv, NEW c \in Call, CommitValidate(c)
    PROVE  /\ CheckInSeat(call[c].booking, call[c].seat)
           /\ call[c].booking \in BookingId /\ call[c].seat \in Seat
           /\ UNCHANGED payVars
  <1>1. call[c].booking \in BookingId /\ call[c].seat \in Seat
    BY DEF TicketInv, TicketTypeOK
  <1>2. PICK b \in BookingId, s \in Seat : b = call[c].booking /\ s = call[c].seat
    BY <1>1
  <1>3. ticket[b][s] = "ISSUED" /\ BoardSeat(b, s)
    BY <1>2 DEF CommitValidate, MayCheckIn
  <1>4. bookingStatus[b] = "CONFIRMED" /\ seatStatus[b][s] = "CONFIRMED"
    BY <1>3 DEF TicketInv, TicketsMatchSeats
  <1> QED
    BY <1>2, <1>3, <1>4 DEF BoardSeat, CheckInSeat

\* Every step of the composition is a step of Payments, a boarding, or touches
\* neither bookings nor payments.
LEMMA StepOnPayments ==
    ASSUME TicketInv, [TicketsNext]_ticketVars
    PROVE  \/ PaymentsNext /\ UNCHANGED <<ticket, call>>
           \/ \E c \in Call : CommitValidate(c)
           \/ UNCHANGED allVars
  BY DEF TicketsNext, ticketVars, BeginIssue, BeginValidate, Begin, CommitIssue, RollBack,
         RevokeTicket

\* Every step of the composition is a step of Bookings or none.
LEMMA TicketStepIsBookingStep ==
    ASSUME TicketInv, [TicketsNext]_ticketVars
    PROVE  [Next]_vars
  <1>1. CASE PaymentsNext
    BY <1>1, StepIsBookingStep DEF TicketInv, MoneyInv
  <1>2. ASSUME NEW c \in Call, CommitValidate(c)
        PROVE  [Next]_vars
    BY <1>2, ValidateChecksIn DEF Next
  <1>3. CASE UNCHANGED allVars
    BY <1>3 DEF allVars
  <1> QED
    BY <1>1, <1>2, <1>3, StepOnPayments

\* Boarding and the tickets' own steps leave the money alone.
LEMMA TicketStepKeepsMoney ==
    ASSUME TicketInv, [TicketsNext]_ticketVars
    PROVE  MoneyInv'
  <1>1. CASE PaymentsNext
    BY <1>1, NextMoneyInv DEF TicketInv
  <1>2. ASSUME UNCHANGED <<bookingStatus, payVars>>
        PROVE  MoneyInv'
    <2>1. TypeOK'
      BY TicketStepIsBookingStep, NextTypeOK DEF TicketInv, MoneyInv
    <2>2. PaymentTypeOK'
      BY <1>2 DEF TicketInv, MoneyInv, PaymentTypeOK, payVars
    <2> QED
      BY <1>2, <2>1, <2>2
         DEF TicketInv, MoneyInv, HasBooking, SettledAlone, SettledNotPayable,
             ConfirmedMeansPaid, CommissionConfirmed, SettledPaymentsOf, PaymentsOf, payVars
  <1>3. ASSUME NEW c \in Call, CommitValidate(c)
        PROVE  MoneyInv'
    BY <1>2, <1>3, ValidateChecksIn DEF CheckInSeat
  <1>4. CASE UNCHANGED allVars
    BY <1>2, <1>4 DEF allVars, vars, bookingVars
  <1> QED
    BY <1>1, <1>3, <1>4, StepOnPayments

\* No step makes tickets and seats disagree.
LEMMA TicketStepKeepsMatch ==
    ASSUME TicketInv, [TicketsNext]_ticketVars
    PROVE  TicketsMatchSeats'
  <1> USE DEF TicketsMatchSeats
  <1>1. CASE PaymentsNext /\ UNCHANGED <<ticket, call>>
    <2>1. KeepsSold
      BY <1>1, StepOnBookings, BookingKeepsSold DEF TicketInv, MoneyInv
    <2> QED
      BY <1>1, <2>1 DEF KeepsSold, TicketInv
  <1>2. ASSUME NEW c \in Call, CommitIssue(c)
        PROVE  TicketsMatchSeats'
    <2>1. PICK b \in BookingId : b = call[c].booking
      BY DEF TicketInv, TicketTypeOK
    <2>2. /\ bookingStatus[b] = "CONFIRMED" /\ UNCHANGED <<bookingStatus, seatStatus>>
          /\ ticket' = [ticket EXCEPT ![b] = [s \in Seat |->
                          IF s \in Issuable(b) THEN "ISSUED" ELSE ticket[b][s]]]
      BY <1>2, <2>1 DEF CommitIssue, allVars, vars, bookingVars
    <2>3. /\ \A s \in Seat : ticket'[b][s] =
                IF s \in Issuable(b) THEN "ISSUED" ELSE ticket[b][s]
          /\ \A o \in BookingId \ {b} : ticket'[o] = ticket[o]
      BY <2>2 DEF TicketInv, TicketTypeOK
    <2>4. \A s \in Issuable(b) : seatStatus[b][s] = "CONFIRMED"
      BY DEF Issuable
    <2> QED
      BY <2>2, <2>3, <2>4 DEF TicketInv
  <1>3. ASSUME NEW c \in Call, CommitValidate(c)
        PROVE  TicketsMatchSeats'
    <2>1. PICK b \in BookingId, s \in Seat :
             b = call[c].booking /\ s = call[c].seat /\ CheckInSeat(b, s)
      BY <1>3, ValidateChecksIn
    <2>2. ticket' = [ticket EXCEPT ![b][s] = "CHECKED_IN"]
      BY <1>3, <2>1 DEF CommitValidate
    <2>3. /\ ticket'[b][s] = "CHECKED_IN" /\ seatStatus'[b][s] = "CHECKED_IN"
          /\ bookingStatus[b] = "CONFIRMED" /\ UNCHANGED bookingStatus
          /\ \A o \in BookingId, u \in Seat : o # b \/ u # s =>
                ticket'[o][u] = ticket[o][u] /\ seatStatus'[o][u] = seatStatus[o][u]
      BY <2>1, <2>2 DEF CheckInSeat, TicketInv, TicketTypeOK, IInv, TypeOK
    <2> QED
      BY <2>3 DEF TicketInv
  <1>4. ASSUME NEW b \in BookingId, NEW s \in Seat, RevokeTicket(b, s)
        PROVE  TicketsMatchSeats'
    <2>1. /\ UNCHANGED <<bookingStatus, seatStatus>>
          /\ ticket[b][s] = "ISSUED" /\ ticket'[b][s] = "CANCELLED"
          /\ \A o \in BookingId, u \in Seat : o # b \/ u # s => ticket'[o][u] = ticket[o][u]
      BY <1>4 DEF RevokeTicket, allVars, vars, bookingVars, TicketInv, TicketTypeOK
    <2> QED
      BY <2>1 DEF TicketInv
  <1>5. ASSUME UNCHANGED <<allVars, ticket>>
        PROVE  TicketsMatchSeats'
    BY <1>5 DEF TicketInv, allVars, vars, bookingVars
  <1> QED
    BY <1>1, <1>2, <1>3, <1>4, <1>5
       DEF TicketsNext, ticketVars, BeginIssue, BeginValidate, Begin, RollBack

\* A call that begins sees the refund if there was one; no other step starts a call.
LEMMA TicketStepKeepsSawRefund ==
    ASSUME TicketInv, [TicketsNext]_ticketVars
    PROVE  SawRefund'
  <1> USE DEF SawRefund
  <1>1. ASSUME NEW b \in BookingId, Refunded(b)
        PROVE  ~ IsPaid(b)
    BY <1>1 DEF Refunded, IsPaid, PaymentsOf, TicketInv, MoneyInv, SettledAlone, Settled
  <1>2. ASSUME NEW c \in Call, NEW op, NEW b \in BookingId, NEW s, Begin(c, op, b, s)
        PROVE  SawRefund'
    <2>1. call'[c].afterRefund => ~ call'[c].paid
      BY <1>1, <1>2 DEF Begin, Snapshot, TicketInv, TicketTypeOK
    <2>2. \A d \in Call \ {c} : call'[d] = call[d]
      BY <1>2 DEF Begin, TicketInv, TicketTypeOK
    <2> QED
      BY <2>1, <2>2 DEF TicketInv
  <1>3. ASSUME NEW c \in Call, call' = [call EXCEPT ![c] = Idle]
        PROVE  SawRefund'
    BY <1>3 DEF TicketInv, TicketTypeOK, Idle
  <1>4. CASE UNCHANGED call
    BY <1>4 DEF TicketInv
  <1> QED
    BY <1>2, <1>3, <1>4
       DEF TicketsNext, ticketVars, BeginIssue, BeginValidate, CommitIssue, CommitValidate,
           RollBack, RevokeTicket

\* Every step keeps the invariant.
LEMMA NextTicketInv == TicketInv /\ [TicketsNext]_ticketVars => TicketInv'
  <1> SUFFICES ASSUME TicketInv, [TicketsNext]_ticketVars PROVE TicketInv'
    OBVIOUS
  <1>1. IInv'
    BY TicketStepIsBookingStep, NextIInv DEF TicketInv
  <1>2. TicketTypeOK'
    BY NextTicketTypeOK DEF TicketInv
  <1> QED
    BY <1>1, <1>2, TicketStepKeepsMoney, TicketStepKeepsMatch, TicketStepKeepsSawRefund
       DEF TicketInv

\* The invariant holds in every reachable state.
LEMMA AlwaysTicketInv == TicketsSpec => []TicketInv
  BY InitTicketInv, NextTicketInv, PTL DEF TicketsSpec

-----------------------------------------------------------------------------
(***************************************************************************)
(* Theorems.                                                               *)
(***************************************************************************)

\* The tickets and the calls under way are well typed in every reachable state.
THEOREM TicketTypeCorrect == TicketsSpec => []TicketTypeOK
  <1>1. TicketInv => TicketTypeOK
    BY DEF TicketInv
  <1> QED
    BY <1>1, AlwaysTicketInv, PTL

\* A ticket exists only for a sold seat of a confirmed booking, and a seat is
\* boarded exactly when its ticket was used, whatever calls race.
THEOREM TicketsAgreeWithSeats == TicketsSpec => []TicketsMatchSeats
  <1>1. TicketInv => TicketsMatchSeats
    BY DEF TicketInv
  <1> QED
    BY <1>1, AlwaysTicketInv, PTL

\* Payments and tickets together touch the booking tables only by steps of Bookings:
\* boarding, which locks neither the seat nor the booking, always finds them as
\* CheckInSeat demands.
THEOREM TicketsImplementBookings == TicketsSpec => ImplementsBookings
  <1>1. TicketsInit => Init
    BY DEF TicketsInit, PaymentsInit
  <1>2. TicketInv /\ [TicketsNext]_ticketVars => [Next]_vars
    BY TicketStepIsBookingStep
  <1> QED
    BY <1>1, <1>2, AlwaysTicketInv, PTL DEF TicketsSpec, ImplementsBookings, Spec

\* No step changes a used or a revoked ticket.
THEOREM TicketsEndForGood == TicketsSpec => UsedOrRevokedForGood
  <1>1. ASSUME TicketTypeOK, [TicketsNext]_ticketVars
        PROVE  KeepsTerminalTickets
    <2> USE DEF KeepsTerminalTickets
    <2>1. ASSUME NEW c \in Call, CommitIssue(c)
          PROVE  KeepsTerminalTickets
      BY <1>1, <2>1 DEF CommitIssue, Issuable, TicketTypeOK
    <2>2. ASSUME NEW c \in Call, CommitValidate(c)
          PROVE  KeepsTerminalTickets
      BY <1>1, <2>2 DEF CommitValidate, MayCheckIn, TicketTypeOK
    <2>3. ASSUME NEW b \in BookingId, NEW s \in Seat, RevokeTicket(b, s)
          PROVE  KeepsTerminalTickets
      BY <1>1, <2>3 DEF RevokeTicket, TicketTypeOK
    <2>4. CASE UNCHANGED ticket
      BY <2>4
    <2> QED
      BY <1>1, <2>1, <2>2, <2>3, <2>4
         DEF TicketsNext, ticketVars, BeginIssue, BeginValidate, Begin, RollBack
  <1>2. TicketInv /\ [TicketsNext]_ticketVars => [KeepsTerminalTickets]_ticketVars
    BY <1>1 DEF TicketInv
  <1> QED
    BY <1>2, AlwaysTicketInv, PTL DEF TicketsSpec, UsedOrRevokedForGood

\* Once the calls that began before a refund are over, no ticket of the booking is
\* issued or used any more.
THEOREM RefundShutsTickets == TicketsSpec => RefundClosesTickets
  <1>1. ASSUME TicketInv, [TicketsNext]_ticketVars
        PROVE  KeepsRefundedTickets
    <2> SUFFICES ASSUME NEW b \in BookingId, RefundSettledDown(b), NEW s \in Seat
                 PROVE  ticket'[b][s] \in {ticket[b][s], "CANCELLED"}
      BY DEF KeepsRefundedTickets
    <2>1. ASSUME NEW c \in Call, call[c].op # "none", call[c].paid
          PROVE  call[c].booking # b
      BY <1>1, <2>1 DEF RefundSettledDown, TicketInv, SawRefund, Idle
    <2>2. ASSUME NEW c \in Call, CommitIssue(c)
          PROVE  ticket'[b][s] = ticket[b][s]
      BY <1>1, <2>1, <2>2 DEF CommitIssue, TicketInv, TicketTypeOK
    <2>3. ASSUME NEW c \in Call, CommitValidate(c)
          PROVE  ticket'[b][s] = ticket[b][s]
      BY <1>1, <2>1, <2>3 DEF CommitValidate, TicketInv, TicketTypeOK
    <2>4. ASSUME NEW o \in BookingId, NEW u \in Seat, RevokeTicket(o, u)
          PROVE  ticket'[b][s] \in {ticket[b][s], "CANCELLED"}
      BY <1>1, <2>4 DEF RevokeTicket, TicketInv, TicketTypeOK
    <2>5. CASE UNCHANGED ticket
      BY <2>5
    <2> QED
      BY <1>1, <2>2, <2>3, <2>4, <2>5
         DEF TicketsNext, ticketVars, BeginIssue, BeginValidate, Begin, RollBack
  <1>2. TicketInv /\ [TicketsNext]_ticketVars => [KeepsRefundedTickets]_ticketVars
    BY <1>1
  <1> QED
    BY <1>2, AlwaysTicketInv, PTL DEF TicketsSpec, RefundClosesTickets
=============================================================================
