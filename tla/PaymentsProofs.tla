---------------------------- MODULE PaymentsProofs ----------------------------
(***************************************************************************)
(* Theorems about Payments for every set of payments, bookings and claims. *)
(***************************************************************************)
EXTENDS Payments, BookingsProofs

-----------------------------------------------------------------------------
(***************************************************************************)
(* Payments implement Bookings: what BookingsProofs proves holds here too. *)
(***************************************************************************)

\* Settling confirms a payable booking or leaves the booking tables alone.
LEMMA SettleStep ==
    ASSUME NEW p, NEW isAgent, Settle(p, isAgent)
    PROVE  ConfirmBookingPaid(paymentBooking[p]) \/ UNCHANGED vars
  BY DEF Settle, ConfirmIfPayable

\* A transaction is the booking engine's own, or confirms a booking, or is none of
\* the booking engine's business.
LEMMA StepOnBookings ==
    ASSUME PaymentTypeOK, [PaymentsNext]_allVars
    PROVE  BookingNext \/ (\E b \in BookingId : ConfirmBookingPaid(b)) \/ UNCHANGED vars
  <1>1. ASSUME NEW p \in PaymentId, NEW isAgent, Settle(p, isAgent)
        PROVE  (\E b \in BookingId : ConfirmBookingPaid(b)) \/ UNCHANGED vars
    <2>1. paymentBooking[p] \in BookingId
      BY DEF PaymentTypeOK
    <2> QED
      BY <1>1, <2>1, SettleStep
  <1>2. ASSUME NEW p \in PaymentId, ConfirmCashPayment(p)
        PROVE  (\E b \in BookingId : ConfirmBookingPaid(b)) \/ UNCHANGED vars
    BY <1>1, <1>2 DEF ConfirmCashPayment
  <1>3. ASSUME NEW p \in PaymentId, NEW outcome \in Outcome, HandleWebhook(p, outcome)
        PROVE  (\E b \in BookingId : ConfirmBookingPaid(b)) \/ UNCHANGED vars
    BY <1>1, <1>3 DEF HandleWebhook
  <1>4. ASSUME NEW k, NEW b, NEW m, NEW p, NEW t, CreatePayment(k, b, m, p, t)
        PROVE  UNCHANGED vars
    BY <1>4 DEF CreatePayment
  <1>5. ASSUME NEW p, RefundPayment(p)
        PROVE  UNCHANGED vars
    BY <1>5 DEF RefundPayment
  <1>6. ASSUME NEW p, NEW outcome, ProviderNotifies(p, outcome)
        PROVE  UNCHANGED vars
    BY <1>6 DEF ProviderNotifies
  <1>7. CASE UNCHANGED allVars
    BY <1>7 DEF allVars
  <1> QED
    BY <1>2, <1>3, <1>4, <1>5, <1>6, <1>7 DEF PaymentsNext

\* So every transaction is a step of Bookings or none.
LEMMA StepIsBookingStep == PaymentTypeOK /\ [PaymentsNext]_allVars => [Next]_vars
  BY StepOnBookings DEF Next

-----------------------------------------------------------------------------
(***************************************************************************)
(* Type correctness.                                                       *)
(***************************************************************************)

\* Counting events keeps the counters natural numbers.
LEMMA AppendPaymentEventsType ==
    ASSUME PaymentTypeOK, NEW b \in BookingId, NEW types
    PROVE  AppendPaymentEvents(b, types) \in [BookingId -> [PaymentEventType -> Nat]]
  <1>1. [e \in PaymentEventType |-> IF e \in types THEN paymentEvents[b][e] + 1
                                                   ELSE paymentEvents[b][e]]
            \in [PaymentEventType -> Nat]
    BY DEF PaymentTypeOK
  <1> QED
    BY <1>1 DEF AppendPaymentEvents, PaymentTypeOK

\* The payments start well typed.
LEMMA PaymentInitTypeOK == PaymentInit => PaymentTypeOK
  <1>1. AnyBooking \in BookingId
    BY PaymentConstantsOK DEF PaymentConstantsOK, AnyBooking
  <1> QED
    BY <1>1 DEF PaymentInit, PaymentTypeOK, PaymentStatus, Method, Outcome, PaymentEventType

\* Settling keeps the payments well typed.
LEMMA SettleTypeOK ==
    ASSUME PaymentTypeOK, NEW p \in PaymentId, NEW isAgent, Settle(p, isAgent)
    PROVE  PaymentTypeOK'
  <1>1. paymentBooking[p] \in BookingId
    BY DEF PaymentTypeOK
  <1>2. commission' \in [BookingId -> {"NONE", "EARNED", "CANCELLED"}]
    BY <1>1 DEF Settle, CreateEligible, PaymentTypeOK
  <1>3. paymentStatus' \in [PaymentId -> PaymentStatus \cup {"NONE"}]
    BY DEF Settle, PaymentTypeOK, PaymentStatus
  <1>4. paymentEvents' \in [BookingId -> [PaymentEventType -> Nat]]
    BY <1>1, AppendPaymentEventsType DEF Settle
  <1> QED
    BY <1>2, <1>3, <1>4 DEF Settle, PaymentTypeOK

\* Every transaction keeps the payments well typed.
LEMMA NextPaymentTypeOK == TypeOK /\ PaymentTypeOK /\ [PaymentsNext]_allVars => PaymentTypeOK'
  <1> SUFFICES ASSUME TypeOK, PaymentTypeOK, [PaymentsNext]_allVars PROVE PaymentTypeOK'
    OBVIOUS
  <1>1. CASE UNCHANGED payVars
    BY <1>1 DEF payVars, PaymentTypeOK
  <1>2. ASSUME NEW k \in PaymentClaim, NEW b \in BookingId, NEW m \in Method,
               NEW p \in PaymentId, NEW t \in TxStart, CreatePayment(k, b, m, p, t)
        PROVE  PaymentTypeOK'
    <2>1. t + ClaimWindow \in Nat
      BY TxStartInPast, ConstantsOK DEF ConstantsOK
    <2>2. CompletedPaymentClaim(k, p, b, m, t)
              \in [payment : PaymentId \cup {NoPayment}, booking : BookingId,
                   method : Method, expiresAt : Nat]
      BY <2>1 DEF CompletedPaymentClaim
    <2>3. paymentEvents' \in [BookingId -> [PaymentEventType -> Nat]]
      BY <1>2, AppendPaymentEventsType DEF CreatePayment
    <2>4. paymentStatus' \in [PaymentId -> PaymentStatus \cup {"NONE"}]
      BY <1>2 DEF CreatePayment, PaymentTypeOK, PaymentStatus
    <2> QED
      BY <1>2, <2>2, <2>3, <2>4 DEF CreatePayment, PaymentTypeOK
  <1>3. ASSUME NEW p \in PaymentId, ConfirmCashPayment(p)
        PROVE  PaymentTypeOK'
    BY <1>3, SettleTypeOK DEF ConfirmCashPayment
  <1>4. ASSUME NEW p \in PaymentId, NEW outcome \in Outcome, HandleWebhook(p, outcome)
        PROVE  PaymentTypeOK'
    <2>1. CASE outcome = "SUCCEEDED"
      BY <1>4, <2>1, SettleTypeOK DEF HandleWebhook
    <2>2. CASE outcome # "SUCCEEDED"
      BY <1>4, <2>2 DEF HandleWebhook, PaymentTypeOK, PaymentStatus
    <2> QED
      BY <2>1, <2>2
  <1>5. ASSUME NEW p \in PaymentId, RefundPayment(p)
        PROVE  PaymentTypeOK'
    <2>1. paymentBooking[p] \in BookingId
      BY DEF PaymentTypeOK
    <2>2. paymentEvents' \in [BookingId -> [PaymentEventType -> Nat]]
      BY <1>5, <2>1, AppendPaymentEventsType DEF RefundPayment, RefundEvents
    <2>3. commission' \in [BookingId -> {"NONE", "EARNED", "CANCELLED"}]
      BY <1>5, <2>1 DEF RefundPayment, ApplyFullRefund, PaymentTypeOK
    <2> QED
      BY <1>5, <2>2, <2>3 DEF RefundPayment, PaymentTypeOK, PaymentStatus
  <1>6. ASSUME NEW p \in PaymentId, NEW outcome \in Outcome, ProviderNotifies(p, outcome)
        PROVE  PaymentTypeOK'
    BY <1>6 DEF ProviderNotifies, PaymentTypeOK
  <1> QED
    BY <1>1, <1>2, <1>3, <1>4, <1>5, <1>6 DEF PaymentsNext, allVars

\* The booking tables stay well typed too.
LEMMA AlwaysTypeOK == PaymentsSpec => [](TypeOK /\ PaymentTypeOK)
  <1>1. PaymentsInit => TypeOK /\ PaymentTypeOK
    BY InitTypeOK, PaymentInitTypeOK DEF PaymentsInit
  <1>2. (TypeOK /\ PaymentTypeOK) /\ [PaymentsNext]_allVars => (TypeOK /\ PaymentTypeOK)'
    BY StepIsBookingStep, NextTypeOK, NextPaymentTypeOK
  <1> QED
    BY <1>1, <1>2, PTL DEF PaymentsSpec

\* The payments are well typed in every reachable state.
THEOREM PaymentTypeCorrect == PaymentsSpec => []PaymentTypeOK
  BY AlwaysTypeOK, PTL

\* Payments touch the booking tables only by steps of Bookings, so that every
\* theorem of BookingsProofs holds of the composition.
THEOREM PaymentsImplementBookings == PaymentsSpec => ImplementsBookings
  <1>1. PaymentsInit => Init
    BY DEF PaymentsInit
  <1> QED
    BY <1>1, StepIsBookingStep, AlwaysTypeOK, PTL DEF PaymentsSpec, ImplementsBookings, Spec

-----------------------------------------------------------------------------
(***************************************************************************)
(* Money and bookings.  That a settled booking is never payable again      *)
(* rests on two facts the runs do not state: a payment is only ever        *)
(* attached to a booking that exists, and ids are not reused.              *)
(***************************************************************************)
HasBooking ==
    \A p \in PaymentId : paymentStatus[p] # "NONE" => bookingStatus[paymentBooking[p]] # "NONE"

SettledAlone ==
    \A p, q \in PaymentId :
        /\ paymentStatus[p] \in Settled /\ paymentStatus[q] \in Settled
        /\ paymentBooking[p] = paymentBooking[q]
        => p = q

SettledNotPayable ==
    \A p \in PaymentId :
        paymentStatus[p] \in Settled => bookingStatus[paymentBooking[p]] \notin Payable

CommissionConfirmed ==
    \A b \in BookingId : commission[b] # "NONE" => bookingStatus[b] = "CONFIRMED"

MoneyInv ==
    /\ TypeOK /\ PaymentTypeOK
    /\ HasBooking /\ SettledAlone /\ SettledNotPayable
    /\ ConfirmedMeansPaid
    /\ CommissionConfirmed

\* What it is to be a settled payment of a booking.
LEMMA SettledPaymentsShape ==
    ASSUME NEW b
    PROVE  \A p : p \in SettledPaymentsOf(b) <=>
                    p \in PaymentId /\ paymentStatus[p] \in Settled /\ paymentBooking[p] = b
  BY DEF SettledPaymentsOf, PaymentsOf, Settled

\* The booking engine alone creates, ends or keeps a booking; it never confirms one.
LEMMA BookingStep ==
    ASSUME TypeOK, BookingNext, NEW b \in BookingId
    PROVE  \/ bookingStatus'[b] = bookingStatus[b]
           \/ bookingStatus[b] = "NONE" /\ bookingStatus'[b] = "HELD"
           \/ bookingStatus[b] \in Payable /\ bookingStatus'[b] \in {"EXPIRED", "CANCELLED"}
  <1>1. ASSUME NEW c \in Claim, NEW tr \in Trip, NEW S \in SUBSET Seat,
               NEW o \in BookingId, NEW t \in TxStart, CreateBooking(c, tr, S, o, t)
        PROVE  \/ bookingStatus'[b] = bookingStatus[b]
               \/ bookingStatus[b] = "NONE" /\ bookingStatus'[b] = "HELD"
               \/ bookingStatus[b] \in Payable /\ bookingStatus'[b] = "EXPIRED"
    BY <1>1 DEF CreateBooking, ExpiredHolds
  <1>2. ASSUME NEW t \in TxStart, ExpireBookings(t)
        PROVE  \/ bookingStatus'[b] = bookingStatus[b]
               \/ bookingStatus[b] \in Payable /\ bookingStatus'[b] = "EXPIRED"
    BY <1>2 DEF ExpireBookings, ExpiredHolds
  <1>3. ASSUME NEW o \in BookingId, CancelBooking(o)
        PROVE  \/ bookingStatus'[b] = bookingStatus[b]
               \/ bookingStatus[b] \in Payable /\ bookingStatus'[b] = "CANCELLED"
    BY <1>3 DEF CancelBooking, TypeOK
  <1>4. ASSUME NEW tr \in Trip, TripTransition(tr) \/ SwitchTrip(tr)
        PROVE  bookingStatus'[b] = bookingStatus[b]
    BY <1>4 DEF TripTransition, SwitchTrip, bookingVars
  <1>5. CASE Tick
    BY <1>5 DEF Tick, bookingVars
  <1> QED
    BY <1>1, <1>2, <1>3, <1>4, <1>5 DEF BookingNext

\* The booking engine's own steps keep what is known about the money.
LEMMA BookingKeepsMoneyInv ==
    ASSUME MoneyInv, TypeOK', BookingNext, UNCHANGED payVars
    PROVE  MoneyInv'
  <1> USE DEF MoneyInv
  <1>1. UNCHANGED <<paymentStatus, paymentBooking, commission>>
    BY DEF payVars
  <1>2. PaymentTypeOK'
    BY DEF payVars, PaymentTypeOK
  <1>3. \A p \in PaymentId : paymentBooking[p] \in BookingId
    BY DEF PaymentTypeOK
  <1>4. \A b \in BookingId :
            \/ bookingStatus'[b] = bookingStatus[b]
            \/ bookingStatus[b] = "NONE" /\ bookingStatus'[b] = "HELD"
            \/ bookingStatus[b] \in Payable /\ bookingStatus'[b] \in {"EXPIRED", "CANCELLED"}
    BY BookingStep
  <1>5. HasBooking'
    BY <1>1, <1>3, <1>4 DEF HasBooking, Payable
  <1>6. SettledAlone'
    BY <1>1 DEF SettledAlone
  <1>7. SettledNotPayable'
    BY <1>1, <1>3, <1>4 DEF SettledNotPayable, HasBooking, Payable, Settled
  <1>8. ConfirmedMeansPaid'
    <2> SUFFICES ASSUME NEW b \in BookingId, bookingStatus'[b] = "CONFIRMED"
                 PROVE  SettledPaymentsOf(b)' # {}
      BY DEF ConfirmedMeansPaid
    <2>1. bookingStatus[b] = "CONFIRMED"
      BY <1>4
    <2>2. SettledPaymentsOf(b)' = SettledPaymentsOf(b)
      BY <1>1 DEF SettledPaymentsOf, PaymentsOf
    <2> QED
      BY <2>1, <2>2 DEF ConfirmedMeansPaid
  <1>9. CommissionConfirmed'
    BY <1>1, <1>4 DEF CommissionConfirmed, Payable
  <1> QED
    BY <1>2, <1>5, <1>6, <1>7, <1>8, <1>9

\* Settling takes a payment that had not settled, alone of its booking.
LEMMA SettleKeepsMoneyInv ==
    ASSUME MoneyInv, TypeOK', PaymentTypeOK', NEW p \in PaymentId, NEW isAgent,
           paymentStatus[p] \in {"PENDING", "PROCESSING"}, Settle(p, isAgent)
    PROVE  MoneyInv'
  <1> USE DEF MoneyInv
  <1> PICK b \in BookingId : b = paymentBooking[p]
    BY DEF PaymentTypeOK
  <1>1. /\ paymentBooking' = paymentBooking
        /\ paymentStatus'[p] = "SUCCEEDED"
        /\ \A q \in PaymentId \ {p} : paymentStatus'[q] = paymentStatus[q]
    BY DEF Settle, PaymentTypeOK
  <1>2. /\ bookingStatus'[b] \notin Payable
        /\ bookingStatus'[b] = "NONE" => bookingStatus[b] = "NONE"
        /\ bookingStatus[b] = "CONFIRMED" => bookingStatus'[b] = "CONFIRMED"
        /\ \A o \in BookingId \ {b} : bookingStatus'[o] = bookingStatus[o]
    <2>1. CASE bookingStatus[b] \in Payable
      <3>1. bookingStatus' = [bookingStatus EXCEPT ![b] = "CONFIRMED"]
        BY <2>1 DEF Settle, ConfirmIfPayable, ConfirmBookingPaid
      <3> QED
        BY <2>1, <3>1 DEF TypeOK, Payable
    <2>2. CASE bookingStatus[b] \notin Payable
      BY <2>2 DEF Settle, ConfirmIfPayable, vars, bookingVars
    <2> QED
      BY <2>1, <2>2
  <1>3. \A q \in PaymentId \ {p} : paymentStatus[q] \in Settled => paymentBooking[q] # b
    BY SettledPaymentsShape DEF Settle, SettlesAlone
  <1>4. \A q \in PaymentId : paymentBooking[q] \in BookingId
    BY DEF PaymentTypeOK
  <1>5. HasBooking'
    BY <1>1, <1>2, <1>4 DEF HasBooking
  <1>6. SettledAlone'
    BY <1>1, <1>3 DEF SettledAlone
  <1>7. SettledNotPayable'
    BY <1>1, <1>2, <1>4 DEF SettledNotPayable
  <1>8. ConfirmedMeansPaid'
    <2> SUFFICES ASSUME NEW o \in BookingId, bookingStatus'[o] = "CONFIRMED"
                 PROVE  \E q \in PaymentId : paymentStatus'[q] \in Settled
                                              /\ paymentBooking'[q] = o
      BY DEF ConfirmedMeansPaid, SettledPaymentsOf, PaymentsOf, Settled
    <2>1. CASE o = b
      BY <1>1, <2>1 DEF Settled
    <2>2. CASE o # b
      <3>1. PICK q \in PaymentId : paymentStatus[q] \in Settled /\ paymentBooking[q] = o
        BY <1>2, <2>2, SettledPaymentsShape DEF ConfirmedMeansPaid
      <3> QED
        BY <1>1, <2>2, <3>1
    <2> QED
      BY <2>1, <2>2
  <1>9. CommissionConfirmed'
    <2>1. commission' = CreateEligible(b, isAgent)
      BY DEF Settle
    <2>2. /\ \A o \in BookingId \ {b} : commission'[o] = commission[o]
          /\ commission'[b] = commission[b] \/ bookingStatus'[b] = "CONFIRMED"
      BY <2>1 DEF CreateEligible, PaymentTypeOK
    <2> QED
      BY <1>2, <2>2 DEF CommissionConfirmed
  <1> QED
    BY <1>5, <1>6, <1>7, <1>8, <1>9

\* A payment whose status moves without settling, or from settled to refunded,
\* changes nothing of that.
LEMMA StatusKeepsMoneyInv ==
    ASSUME MoneyInv, PaymentTypeOK', NEW p \in PaymentId, NEW status,
           UNCHANGED <<vars, paymentBooking>>,
           paymentStatus[p] # "NONE",
           paymentStatus' = [paymentStatus EXCEPT ![p] = status],
           paymentStatus[p] \in Settled <=> status \in Settled,
           \A b \in BookingId : commission'[b] # "NONE" => commission[b] # "NONE"
    PROVE  MoneyInv'
  <1> USE DEF MoneyInv
  <1>1. /\ \A q \in PaymentId : paymentStatus'[q] \in Settled <=> paymentStatus[q] \in Settled
        /\ \A q \in PaymentId : paymentStatus'[q] # "NONE" => paymentStatus[q] # "NONE"
        /\ UNCHANGED <<bookingStatus, paymentBooking>>
    BY DEF PaymentTypeOK, vars, bookingVars
  <1>2. TypeOK'
    BY DEF TypeOK, vars, bookingVars, tripVars
  <1>3. HasBooking' /\ SettledAlone' /\ SettledNotPayable'
    BY <1>1 DEF HasBooking, SettledAlone, SettledNotPayable
  <1>4. \A b \in BookingId : SettledPaymentsOf(b)' = SettledPaymentsOf(b)
    BY <1>1 DEF SettledPaymentsOf, PaymentsOf, Settled
  <1>5. ConfirmedMeansPaid'
    BY <1>1, <1>4 DEF ConfirmedMeansPaid
  <1>6. CommissionConfirmed'
    BY <1>1 DEF CommissionConfirmed
  <1> QED
    BY <1>2, <1>3, <1>5, <1>6

\* A new payment is of a payable booking and not settled.
LEMMA CreateKeepsMoneyInv ==
    ASSUME MoneyInv, PaymentTypeOK', NEW k \in PaymentClaim, NEW b \in BookingId,
           NEW m \in Method, NEW p \in PaymentId, NEW t \in TxStart,
           CreatePayment(k, b, m, p, t)
    PROVE  MoneyInv'
  <1> USE DEF MoneyInv
  <1>1. /\ UNCHANGED <<bookingStatus, commission>>
        /\ bookingStatus[b] # "NONE"
        /\ paymentStatus[p] = "NONE" /\ paymentStatus'[p] \notin Settled
        /\ paymentBooking'[p] = b
        /\ \A q \in PaymentId \ {p} : /\ paymentStatus'[q] = paymentStatus[q]
                                       /\ paymentBooking'[q] = paymentBooking[q]
    BY DEF CreatePayment, IsBookingPayable, Payable, PaymentTypeOK, Settled, vars, bookingVars
  <1>2. TypeOK'
    BY DEF CreatePayment, TypeOK, vars, bookingVars, tripVars
  <1>3. HasBooking' /\ SettledAlone' /\ SettledNotPayable'
    BY <1>1 DEF HasBooking, SettledAlone, SettledNotPayable
  <1>4. \A o \in BookingId : SettledPaymentsOf(o)' = SettledPaymentsOf(o)
    BY <1>1 DEF SettledPaymentsOf, PaymentsOf, Settled
  <1>5. ConfirmedMeansPaid' /\ CommissionConfirmed'
    BY <1>1, <1>4 DEF ConfirmedMeansPaid, CommissionConfirmed
  <1> QED
    BY <1>2, <1>3, <1>5

\* Every transaction keeps what is known about the money.
LEMMA NextMoneyInv == MoneyInv /\ [PaymentsNext]_allVars => MoneyInv'
  <1> SUFFICES ASSUME MoneyInv, [PaymentsNext]_allVars PROVE MoneyInv'
    OBVIOUS
  <1>1. TypeOK' /\ PaymentTypeOK'
    BY StepIsBookingStep, NextTypeOK, NextPaymentTypeOK DEF MoneyInv
  <1>2. CASE BookingNext /\ UNCHANGED payVars
    BY <1>1, <1>2, BookingKeepsMoneyInv
  <1>3. ASSUME NEW k \in PaymentClaim, NEW b \in BookingId, NEW m \in Method,
               NEW p \in PaymentId, NEW t \in TxStart, CreatePayment(k, b, m, p, t)
        PROVE  MoneyInv'
    BY <1>1, <1>3, CreateKeepsMoneyInv
  <1>4. ASSUME NEW p \in PaymentId, ConfirmCashPayment(p)
        PROVE  MoneyInv'
    BY <1>1, <1>4, SettleKeepsMoneyInv DEF ConfirmCashPayment
  <1>5. ASSUME NEW p \in PaymentId, NEW outcome \in Outcome, HandleWebhook(p, outcome)
        PROVE  MoneyInv'
    <2>1. CASE outcome = "SUCCEEDED"
      <3>1. paymentStatus[p] \in {"PENDING", "PROCESSING"}
        BY <1>5, <2>1 DEF HandleWebhook, CanTransitionPayment
      <3> QED
        BY <1>1, <1>5, <2>1, <3>1, SettleKeepsMoneyInv DEF HandleWebhook
    <2>2. CASE outcome = "FAILED"
      <3>1. paymentStatus[p] = "PROCESSING"
        BY <1>5, <2>2 DEF HandleWebhook, CanTransitionPayment
      <3> QED
        BY <1>1, <1>5, <2>2, <3>1, StatusKeepsMoneyInv DEF HandleWebhook, Settled
    <2> QED
      BY <2>1, <2>2 DEF Outcome
  <1>6. ASSUME NEW p \in PaymentId, RefundPayment(p)
        PROVE  MoneyInv'
    <2>1. \A b \in BookingId : commission'[b] # "NONE" => commission[b] # "NONE"
      <3>1. commission' = ApplyFullRefund(paymentBooking[p])
        BY <1>6 DEF RefundPayment
      <3> QED
        BY <3>1 DEF ApplyFullRefund, MoneyInv, PaymentTypeOK
    <2> QED
      BY <1>1, <1>6, <2>1, StatusKeepsMoneyInv DEF RefundPayment, Settled
  <1>7. ASSUME UNCHANGED <<vars, paymentStatus, paymentBooking, commission>>
        PROVE  MoneyInv'
    BY <1>1, <1>7
       DEF MoneyInv, HasBooking, SettledAlone, SettledNotPayable, ConfirmedMeansPaid,
           CommissionConfirmed, SettledPaymentsOf, PaymentsOf, vars, bookingVars
  <1>8. ASSUME NEW p \in PaymentId, NEW outcome \in Outcome, ProviderNotifies(p, outcome)
        PROVE  MoneyInv'
    BY <1>7, <1>8 DEF ProviderNotifies
  <1>9. CASE UNCHANGED allVars
    BY <1>7, <1>9 DEF allVars, payVars
  <1> QED
    BY <1>2, <1>3, <1>4, <1>5, <1>6, <1>8, <1>9 DEF PaymentsNext

\* No money and no booking at the start.
LEMMA InitMoneyInv == PaymentsInit => MoneyInv
  <1> SUFFICES ASSUME PaymentsInit PROVE MoneyInv
    OBVIOUS
  <1>1. TypeOK /\ PaymentTypeOK
    BY InitTypeOK, PaymentInitTypeOK DEF PaymentsInit
  <1>2. HasBooking /\ SettledAlone /\ SettledNotPayable /\ CommissionConfirmed
    BY DEF PaymentsInit, PaymentInit, HasBooking, SettledAlone, SettledNotPayable,
           CommissionConfirmed, Settled
  <1>3. ConfirmedMeansPaid
    BY DEF PaymentsInit, Init, ConfirmedMeansPaid
  <1> QED
    BY <1>1, <1>2, <1>3 DEF MoneyInv

\* What is known about the money holds in every reachable state.
LEMMA AlwaysMoneyInv == PaymentsSpec => []MoneyInv
  BY InitMoneyInv, NextMoneyInv, PTL DEF PaymentsSpec

\* At most one payment of a booking ever settles, and a booking whose money was
\* taken can no longer be paid, expire or be cancelled.
THEOREM MoneyTakenOnce == PaymentsSpec => []SettledOnce
  <1>1. MoneyInv => SettledOnce
    <2> SUFFICES ASSUME MoneyInv, NEW b \in BookingId
                 PROVE  /\ Cardinality(SettledPaymentsOf(b)) <= 1
                        /\ SettledPaymentsOf(b) # {} => bookingStatus[b] \notin Payable
      BY DEF SettledOnce
    <2>1. \A p, q \in SettledPaymentsOf(b) : p = q
      BY SettledPaymentsShape DEF MoneyInv, SettledAlone
    <2>2. SettledPaymentsOf(b) = {} \/ \E p : SettledPaymentsOf(b) = {p}
      BY <2>1
    <2>3. Cardinality(SettledPaymentsOf(b)) <= 1
      <3>1. CASE SettledPaymentsOf(b) = {}
        BY <3>1, FS_EmptySet
      <3>2. ASSUME NEW p, SettledPaymentsOf(b) = {p}
            PROVE  Cardinality(SettledPaymentsOf(b)) <= 1
        <4>1. Cardinality({p}) = 1
          BY FS_Singleton
        <4> QED
          BY <3>2, <4>1
      <3> QED
        BY <2>2, <3>1, <3>2
    <2>4. SettledPaymentsOf(b) # {} => bookingStatus[b] \notin Payable
      BY SettledPaymentsShape DEF MoneyInv, SettledNotPayable
    <2> QED
      BY <2>3, <2>4
  <1> QED
    BY <1>1, AlwaysMoneyInv, PTL

\* Only a paid booking is ever confirmed.
THEOREM ConfirmedWasPaid == PaymentsSpec => []ConfirmedMeansPaid
  <1>1. MoneyInv => ConfirmedMeansPaid
    BY DEF MoneyInv
  <1> QED
    BY <1>1, AlwaysMoneyInv, PTL

\* A commission is owed only for a confirmed, paid booking.
THEOREM CommissionsEarned == PaymentsSpec => []CommissionIsEarned
  <1>1. MoneyInv => CommissionIsEarned
    BY DEF MoneyInv, CommissionConfirmed, ConfirmedMeansPaid, CommissionIsEarned
  <1> QED
    BY <1>1, AlwaysMoneyInv, PTL
-----------------------------------------------------------------------------
(***************************************************************************)
(* The events of the money.  The properties count the payments of a        *)
(* booking, so the invariant adds that there are finitely many.            *)
(***************************************************************************)
RefundedPaymentsOf(b) == {p \in PaymentsOf(b) : paymentStatus[p] = "REFUNDED"}

FinitePayments == \A b \in BookingId : IsFiniteSet(PaymentsOf(b))

\* The payments of booking b stay as they are, or one of the three sets they form
\* gains one payment together with its events.
OneMoreOf(b, types) ==
    \A e \in PaymentEventType : paymentEvents'[b][e] =
        IF e \in types THEN paymentEvents[b][e] + 1 ELSE paymentEvents[b][e]

Gains(S, T) == \E p : p \notin S /\ T = S \cup {p}

MoneyStep(b) ==
    \/ /\ OneMoreOf(b, {})
       /\ UNCHANGED <<PaymentsOf(b), SettledPaymentsOf(b), RefundedPaymentsOf(b)>>
    \/ /\ OneMoreOf(b, {"PAYMENT_PENDING"})
       /\ Gains(PaymentsOf(b), PaymentsOf(b)')
       /\ UNCHANGED <<SettledPaymentsOf(b), RefundedPaymentsOf(b)>>
    \/ /\ OneMoreOf(b, {"PAYMENT_CONFIRMED"})
       /\ Gains(SettledPaymentsOf(b), SettledPaymentsOf(b)')
       /\ UNCHANGED <<PaymentsOf(b), RefundedPaymentsOf(b)>>
    \/ /\ OneMoreOf(b, {"REFUND_CREATED", "REFUND_COMPLETED"})
       /\ Gains(RefundedPaymentsOf(b), RefundedPaymentsOf(b)')
       /\ UNCHANGED <<PaymentsOf(b), SettledPaymentsOf(b)>>

\* Appending adds one to the counters named, of one booking.
LEMMA AppendPaymentEventsShape ==
    ASSUME PaymentTypeOK, NEW o \in BookingId, NEW types, NEW b \in BookingId,
           paymentEvents' = AppendPaymentEvents(o, types)
    PROVE  IF b = o THEN OneMoreOf(b, types) ELSE OneMoreOf(b, {})
  <1>1. CASE b = o
    BY <1>1 DEF AppendPaymentEvents, OneMoreOf, PaymentTypeOK
  <1>2. CASE b # o
    BY <1>2 DEF AppendPaymentEvents, OneMoreOf, PaymentTypeOK
  <1> QED
    BY <1>1, <1>2

\* Membership in the three sets.
LEMMA PaymentSetsShape ==
    ASSUME NEW b, NEW p
    PROVE  /\ p \in PaymentsOf(b) <=>
                p \in PaymentId /\ paymentStatus[p] # "NONE" /\ paymentBooking[p] = b
           /\ p \in SettledPaymentsOf(b) <=>
                p \in PaymentId /\ paymentStatus[p] \in Settled /\ paymentBooking[p] = b
           /\ p \in RefundedPaymentsOf(b) <=>
                p \in PaymentId /\ paymentStatus[p] = "REFUNDED" /\ paymentBooking[p] = b
  BY DEF PaymentsOf, SettledPaymentsOf, RefundedPaymentsOf, Settled

\* The sets follow statuses and bookings alone.
LEMMA SamePayments ==
    ASSUME UNCHANGED <<paymentStatus, paymentBooking>>, NEW b
    PROVE  UNCHANGED <<PaymentsOf(b), SettledPaymentsOf(b), RefundedPaymentsOf(b)>>
  BY DEF PaymentsOf, SettledPaymentsOf, RefundedPaymentsOf

\* A payment whose status moves changes sets of its own booking only.
LEMMA StatusMoves ==
    ASSUME PaymentTypeOK, UNCHANGED paymentBooking, NEW p \in PaymentId, NEW status,
           paymentStatus[p] # "NONE", status # "NONE",
           paymentStatus' = [paymentStatus EXCEPT ![p] = status], NEW b \in BookingId
    PROVE  /\ UNCHANGED PaymentsOf(b)
           /\ paymentBooking[p] # b \/ (paymentStatus[p] \in Settled <=> status \in Settled)
                => UNCHANGED SettledPaymentsOf(b)
           /\ paymentBooking[p] # b \/ "REFUNDED" \notin {paymentStatus[p], status}
                => UNCHANGED RefundedPaymentsOf(b)
           /\ paymentBooking[p] = b /\ paymentStatus[p] \notin Settled /\ status \in Settled
                => Gains(SettledPaymentsOf(b), SettledPaymentsOf(b)')
           /\ paymentBooking[p] = b /\ paymentStatus[p] # "REFUNDED" /\ status = "REFUNDED"
                => Gains(RefundedPaymentsOf(b), RefundedPaymentsOf(b)')
  <1>1. \A q \in PaymentId : paymentStatus'[q] = IF q = p THEN status ELSE paymentStatus[q]
    BY DEF PaymentTypeOK
  <1>2. UNCHANGED PaymentsOf(b)
    BY <1>1 DEF PaymentsOf
  <1>3. ASSUME paymentBooking[p] # b \/ (paymentStatus[p] \in Settled <=> status \in Settled)
        PROVE  UNCHANGED SettledPaymentsOf(b)
    BY <1>1, <1>2, <1>3 DEF SettledPaymentsOf, PaymentsOf
  <1>4. ASSUME paymentBooking[p] # b \/ "REFUNDED" \notin {paymentStatus[p], status}
        PROVE  UNCHANGED RefundedPaymentsOf(b)
    BY <1>1, <1>2, <1>4 DEF RefundedPaymentsOf, PaymentsOf
  <1>5. ASSUME paymentBooking[p] = b, paymentStatus[p] \notin Settled, status \in Settled
        PROVE  Gains(SettledPaymentsOf(b), SettledPaymentsOf(b)')
    <2>1. p \notin SettledPaymentsOf(b)
      BY <1>5, PaymentSetsShape
    <2>2. SettledPaymentsOf(b)' = SettledPaymentsOf(b) \cup {p}
      BY <1>1, <1>2, <1>5 DEF SettledPaymentsOf, PaymentsOf
    <2> QED
      BY <2>1, <2>2 DEF Gains
  <1>6. ASSUME paymentBooking[p] = b, paymentStatus[p] # "REFUNDED", status = "REFUNDED"
        PROVE  Gains(RefundedPaymentsOf(b), RefundedPaymentsOf(b)')
    <2>1. p \notin RefundedPaymentsOf(b)
      BY <1>6, PaymentSetsShape
    <2>2. RefundedPaymentsOf(b)' = RefundedPaymentsOf(b) \cup {p}
      BY <1>1, <1>2, <1>6 DEF RefundedPaymentsOf, PaymentsOf
    <2> QED
      BY <2>1, <2>2 DEF Gains
  <1> QED
    BY <1>2, <1>3, <1>4, <1>5, <1>6

\* Settling adds one payment to the settled ones, with its event.
LEMMA SettleIsMoneyStep ==
    ASSUME PaymentTypeOK, NEW p \in PaymentId, NEW isAgent, Settle(p, isAgent),
           paymentStatus[p] \in {"PENDING", "PROCESSING"}, NEW b \in BookingId
    PROVE  MoneyStep(b)
  <1> PICK o \in BookingId : o = paymentBooking[p]
    BY DEF PaymentTypeOK
  <1>1. /\ paymentStatus' = [paymentStatus EXCEPT ![p] = "SUCCEEDED"]
        /\ paymentEvents' = AppendPaymentEvents(o, {"PAYMENT_CONFIRMED"})
        /\ UNCHANGED paymentBooking
    BY DEF Settle
  <1>2. IF b = o THEN OneMoreOf(b, {"PAYMENT_CONFIRMED"}) ELSE OneMoreOf(b, {})
    BY <1>1, AppendPaymentEventsShape
  <1>3. /\ UNCHANGED <<PaymentsOf(b), RefundedPaymentsOf(b)>>
        /\ b = o => Gains(SettledPaymentsOf(b), SettledPaymentsOf(b)')
        /\ b # o => UNCHANGED SettledPaymentsOf(b)
    <2>1. /\ paymentStatus[p] # "NONE" /\ paymentStatus[p] # "REFUNDED"
          /\ paymentStatus[p] \notin Settled /\ "SUCCEEDED" \in Settled
          /\ "SUCCEEDED" # "NONE" /\ "REFUNDED" \notin {paymentStatus[p], "SUCCEEDED"}
      BY DEF Settled
    <2> HIDE DEF Settled
    <2>2. /\ UNCHANGED PaymentsOf(b)
          /\ UNCHANGED RefundedPaymentsOf(b)
          /\ o # b => UNCHANGED SettledPaymentsOf(b)
          /\ o = b => Gains(SettledPaymentsOf(b), SettledPaymentsOf(b)')
      BY <1>1, <2>1, StatusMoves
    <2> QED
      BY <2>2
  <1> QED
    BY <1>2, <1>3 DEF MoneyStep

\* Every transaction is such a step for every booking.
LEMMA StepIsMoneyStep ==
    ASSUME PaymentTypeOK, [PaymentsNext]_allVars, NEW b \in BookingId
    PROVE  MoneyStep(b)
  <1>1. ASSUME UNCHANGED <<paymentStatus, paymentBooking, paymentEvents>>
        PROVE  MoneyStep(b)
    BY <1>1, SamePayments DEF MoneyStep, OneMoreOf
  <1>2. ASSUME NEW k \in PaymentClaim, NEW o \in BookingId, NEW m \in Method,
               NEW p \in PaymentId, NEW t \in TxStart, CreatePayment(k, o, m, p, t)
        PROVE  MoneyStep(b)
    <2>1. /\ paymentStatus[p] = "NONE" /\ paymentStatus'[p] \notin Settled \cup {"NONE"}
          /\ paymentBooking'[p] = o
          /\ \A q \in PaymentId \ {p} : /\ paymentStatus'[q] = paymentStatus[q]
                                         /\ paymentBooking'[q] = paymentBooking[q]
      BY <1>2 DEF CreatePayment, PaymentTypeOK, Settled
    <2>2. UNCHANGED <<SettledPaymentsOf(b), RefundedPaymentsOf(b)>>
      BY <2>1 DEF SettledPaymentsOf, RefundedPaymentsOf, PaymentsOf, Settled
    <2>3. IF b = o THEN OneMoreOf(b, {"PAYMENT_PENDING"}) ELSE OneMoreOf(b, {})
      BY <1>2, AppendPaymentEventsShape DEF CreatePayment
    <2>4. CASE b = o
      <3>1. p \notin PaymentsOf(b) /\ PaymentsOf(b)' = PaymentsOf(b) \cup {p}
        BY <2>1, <2>4 DEF PaymentsOf
      <3> QED
        BY <2>2, <2>3, <2>4, <3>1 DEF MoneyStep, Gains
    <2>5. CASE b # o
      <3>1. PaymentsOf(b)' = PaymentsOf(b)
        BY <2>1, <2>5 DEF PaymentsOf
      <3> QED
        BY <2>2, <2>3, <2>5, <3>1 DEF MoneyStep
    <2> QED
      BY <2>4, <2>5
  <1>3. ASSUME NEW p \in PaymentId, ConfirmCashPayment(p)
        PROVE  MoneyStep(b)
    BY <1>3, SettleIsMoneyStep DEF ConfirmCashPayment
  <1>4. ASSUME NEW p \in PaymentId, NEW outcome \in Outcome, HandleWebhook(p, outcome)
        PROVE  MoneyStep(b)
    <2>1. CASE outcome = "SUCCEEDED"
      <3>1. paymentStatus[p] \in {"PENDING", "PROCESSING"}
        BY <1>4, <2>1 DEF HandleWebhook, CanTransitionPayment
      <3> QED
        BY <1>4, <2>1, <3>1, SettleIsMoneyStep DEF HandleWebhook
    <2>2. CASE outcome = "FAILED"
      <3>1. /\ paymentStatus[p] = "PROCESSING"
            /\ paymentStatus' = [paymentStatus EXCEPT ![p] = "FAILED"]
            /\ UNCHANGED <<paymentBooking, paymentEvents>>
        BY <1>4, <2>2 DEF HandleWebhook, CanTransitionPayment
      <3>2. UNCHANGED <<PaymentsOf(b), SettledPaymentsOf(b), RefundedPaymentsOf(b)>>
        <4>1. /\ paymentStatus[p] # "NONE" /\ "FAILED" # "NONE"
              /\ paymentStatus[p] \notin Settled /\ "FAILED" \notin Settled
              /\ "REFUNDED" \notin {paymentStatus[p], "FAILED"}
          BY <3>1 DEF Settled
        <4> HIDE DEF Settled
        <4>2. /\ UNCHANGED PaymentsOf(b)
              /\ UNCHANGED SettledPaymentsOf(b)
              /\ UNCHANGED RefundedPaymentsOf(b)
          BY <3>1, <4>1, StatusMoves
        <4> QED
          BY <4>2
      <3> QED
        BY <3>1, <3>2 DEF MoneyStep, OneMoreOf
    <2> QED
      BY <2>1, <2>2 DEF Outcome
  <1>5. ASSUME NEW p \in PaymentId, RefundPayment(p)
        PROVE  MoneyStep(b)
    <2> PICK o \in BookingId : o = paymentBooking[p]
      BY DEF PaymentTypeOK
    <2>1. /\ paymentStatus[p] = "SUCCEEDED"
          /\ paymentStatus' = [paymentStatus EXCEPT ![p] = "REFUNDED"]
          /\ paymentEvents' = AppendPaymentEvents(o, {"REFUND_CREATED", "REFUND_COMPLETED"})
          /\ UNCHANGED paymentBooking
      BY <1>5 DEF RefundPayment, RefundEvents
    <2>2. IF b = o THEN OneMoreOf(b, {"REFUND_CREATED", "REFUND_COMPLETED"})
                   ELSE OneMoreOf(b, {})
      BY <2>1, AppendPaymentEventsShape
    <2>3. /\ UNCHANGED <<PaymentsOf(b), SettledPaymentsOf(b)>>
          /\ b = o => Gains(RefundedPaymentsOf(b), RefundedPaymentsOf(b)')
          /\ b # o => UNCHANGED RefundedPaymentsOf(b)
      BY <2>1, StatusMoves DEF Settled
    <2> QED
      BY <2>2, <2>3 DEF MoneyStep
  <1>6. ASSUME NEW p \in PaymentId, NEW outcome \in Outcome, ProviderNotifies(p, outcome)
        PROVE  MoneyStep(b)
    BY <1>1, <1>6 DEF ProviderNotifies
  <1>7. CASE UNCHANGED payVars
    BY <1>1, <1>7 DEF payVars
  <1> QED
    BY <1>2, <1>3, <1>4, <1>5, <1>6, <1>7 DEF PaymentsNext, allVars

\* A finite set that gains an element grows by one.
LEMMA GainsOne ==
    ASSUME NEW S, NEW T, IsFiniteSet(S), Gains(S, T)
    PROVE  IsFiniteSet(T) /\ Cardinality(T) = Cardinality(S) + 1
  BY FS_AddElement DEF Gains

\* The events account for the money again after every step.
LEMMA NextEventsAccount ==
    ASSUME PaymentTypeOK, FinitePayments, EventsAccountForMoney, [PaymentsNext]_allVars
    PROVE  (FinitePayments /\ EventsAccountForMoney)'
  <1> SUFFICES ASSUME NEW b \in BookingId
      PROVE  /\ IsFiniteSet(PaymentsOf(b)')
             /\ paymentEvents'[b]["PAYMENT_PENDING"] = Cardinality(PaymentsOf(b)')
             /\ paymentEvents'[b]["PAYMENT_CONFIRMED"] = Cardinality(SettledPaymentsOf(b)')
             /\ paymentEvents'[b]["REFUND_CREATED"] = Cardinality(RefundedPaymentsOf(b)')
             /\ paymentEvents'[b]["REFUND_COMPLETED"] = Cardinality(RefundedPaymentsOf(b)')
    BY DEF FinitePayments, EventsAccountForMoney, RefundedPaymentsOf
  <1>1. /\ paymentEvents[b]["PAYMENT_PENDING"] = Cardinality(PaymentsOf(b))
        /\ paymentEvents[b]["PAYMENT_CONFIRMED"] = Cardinality(SettledPaymentsOf(b))
        /\ paymentEvents[b]["REFUND_CREATED"] = Cardinality(RefundedPaymentsOf(b))
        /\ paymentEvents[b]["REFUND_COMPLETED"] = Cardinality(RefundedPaymentsOf(b))
    BY DEF EventsAccountForMoney, RefundedPaymentsOf
  <1>2. IsFiniteSet(PaymentsOf(b))
    BY DEF FinitePayments
  <1>3. IsFiniteSet(SettledPaymentsOf(b)) /\ IsFiniteSet(RefundedPaymentsOf(b))
    <2>1. SettledPaymentsOf(b) \subseteq PaymentsOf(b)
            /\ RefundedPaymentsOf(b) \subseteq PaymentsOf(b)
      BY DEF SettledPaymentsOf, RefundedPaymentsOf
    <2> QED
      BY <1>2, <2>1, FS_Subset
  <1>4. \A e \in {"PAYMENT_PENDING", "PAYMENT_CONFIRMED", "REFUND_CREATED", "REFUND_COMPLETED"} :
           e \in PaymentEventType
    BY DEF PaymentEventType
  <1>5. MoneyStep(b)
    BY StepIsMoneyStep
  <1> QED
    BY <1>1, <1>2, <1>3, <1>4, <1>5, GainsOne DEF MoneyStep, OneMoreOf

\* booking_events accounts for the money in every reachable state, however often and
\* in whatever order the provider notifies.
THEOREM MoneyAccounted == PaymentsSpec => []EventsAccountForMoney
  <1>1. PaymentsInit => FinitePayments /\ EventsAccountForMoney
    <2> SUFFICES ASSUME PaymentsInit PROVE FinitePayments /\ EventsAccountForMoney
      OBVIOUS
    <2>1. \A b \in BookingId : /\ PaymentsOf(b) = {} /\ SettledPaymentsOf(b) = {}
                               /\ RefundedPaymentsOf(b) = {}
      BY DEF PaymentsInit, PaymentInit, PaymentsOf, SettledPaymentsOf, RefundedPaymentsOf
    <2>2. \A b \in BookingId, e \in PaymentEventType : paymentEvents[b][e] = 0
      BY DEF PaymentsInit, PaymentInit
    <2> QED
      BY <2>1, <2>2, FS_EmptySet
         DEF FinitePayments, EventsAccountForMoney, RefundedPaymentsOf, PaymentEventType
  <1>2. /\ (TypeOK /\ PaymentTypeOK) /\ FinitePayments /\ EventsAccountForMoney
        /\ [PaymentsNext]_allVars
        => (FinitePayments /\ EventsAccountForMoney)'
    BY NextEventsAccount
  <1> QED
    BY <1>1, <1>2, AlwaysTypeOK, PTL DEF PaymentsSpec

-----------------------------------------------------------------------------
(***************************************************************************)
(* Replays of a payment's creation.                                        *)
(***************************************************************************)

\* A record's payment exists.
PaymentClaimsExist ==
    \A k \in PaymentClaim : paymentClaim[k].payment # NoPayment =>
        paymentStatus[paymentClaim[k].payment] # "NONE"

\* No step but its creation gives a payment a booking and a method, or takes it away.
KeepsAttempts ==
    \A p \in PaymentId : paymentStatus[p] # "NONE" =>
        /\ paymentStatus'[p] # "NONE"
        /\ paymentBooking'[p] = paymentBooking[p] /\ paymentMethod'[p] = paymentMethod[p]

\* Every transaction keeps what existing payments were opened for.
LEMMA StepKeepsAttempts ==
    ASSUME PaymentTypeOK, [PaymentsNext]_allVars
    PROVE  KeepsAttempts
  <1> USE DEF KeepsAttempts
  <1>1. ASSUME UNCHANGED <<paymentStatus, paymentBooking, paymentMethod>>
        PROVE  KeepsAttempts
    BY <1>1
  <1>2. ASSUME NEW p \in PaymentId, NEW status \in PaymentStatus,
               paymentStatus' = [paymentStatus EXCEPT ![p] = status],
               UNCHANGED <<paymentBooking, paymentMethod>>
        PROVE  KeepsAttempts
    BY <1>2 DEF PaymentTypeOK, PaymentStatus
  <1>3. ASSUME NEW k \in PaymentClaim, NEW b \in BookingId, NEW m \in Method,
               NEW p \in PaymentId, NEW t \in TxStart, CreatePayment(k, b, m, p, t)
        PROVE  KeepsAttempts
    BY <1>3 DEF CreatePayment, PaymentTypeOK
  <1>4. ASSUME NEW p \in PaymentId, NEW isAgent, Settle(p, isAgent)
        PROVE  KeepsAttempts
    BY <1>2, <1>4 DEF Settle, PaymentStatus
  <1>5. ASSUME NEW p \in PaymentId, ConfirmCashPayment(p)
        PROVE  KeepsAttempts
    BY <1>4, <1>5 DEF ConfirmCashPayment
  <1>6. ASSUME NEW p \in PaymentId, NEW outcome \in Outcome, HandleWebhook(p, outcome)
        PROVE  KeepsAttempts
    BY <1>2, <1>4, <1>6 DEF HandleWebhook, PaymentStatus
  <1>7. ASSUME NEW p \in PaymentId, RefundPayment(p)
        PROVE  KeepsAttempts
    BY <1>2, <1>7 DEF RefundPayment, PaymentStatus
  <1>8. ASSUME NEW p \in PaymentId, NEW outcome \in Outcome, ProviderNotifies(p, outcome)
        PROVE  KeepsAttempts
    BY <1>1, <1>8 DEF ProviderNotifies
  <1>9. CASE UNCHANGED payVars
    BY <1>1, <1>9 DEF payVars
  <1> QED
    BY <1>3, <1>5, <1>6, <1>7, <1>8, <1>9 DEF PaymentsNext, allVars

\* A creation completes its claim for the payment it opened; nothing else writes one.
LEMMA NextPaymentReplay ==
    ASSUME PaymentTypeOK, PaymentClaimsExist, PaymentReplayAnswers, [PaymentsNext]_allVars
    PROVE  (PaymentClaimsExist /\ PaymentReplayAnswers)'
  <1>1. KeepsAttempts
    BY StepKeepsAttempts
  <1>2. \A k \in PaymentClaim : paymentClaim[k].payment \in PaymentId \cup {NoPayment}
    BY DEF PaymentTypeOK
  <1>3. ASSUME NEW k \in PaymentClaim, paymentClaim[k].expiresAt > 0
        PROVE  /\ paymentClaim[k].payment \in PaymentId
               /\ paymentStatus'[paymentClaim[k].payment] # "NONE"
               /\ paymentBooking'[paymentClaim[k].payment] = paymentClaim[k].booking
               /\ paymentMethod'[paymentClaim[k].payment] = paymentClaim[k].method
    BY <1>1, <1>3 DEF PaymentReplayAnswers, KeepsAttempts
  <1>4. ASSUME UNCHANGED paymentClaim
        PROVE  (PaymentClaimsExist /\ PaymentReplayAnswers)'
    <2>1. PaymentClaimsExist'
      BY <1>1, <1>2, <1>4 DEF PaymentClaimsExist, KeepsAttempts
    <2>2. PaymentReplayAnswers'
      BY <1>3, <1>4 DEF PaymentReplayAnswers
    <2> QED
      BY <2>1, <2>2
  <1>5. ASSUME NEW k \in PaymentClaim, NEW b \in BookingId, NEW m \in Method,
               NEW p \in PaymentId, NEW t \in TxStart, CreatePayment(k, b, m, p, t)
        PROVE  (PaymentClaimsExist /\ PaymentReplayAnswers)'
    <2>1. /\ paymentStatus[p] = "NONE" /\ paymentStatus'[p] # "NONE"
          /\ paymentBooking'[p] = b /\ paymentMethod'[p] = m
      BY <1>5 DEF CreatePayment, PaymentTypeOK
    <2>2. /\ paymentClaim'[k].payment = p /\ paymentClaim'[k].booking = b
          /\ paymentClaim'[k].method = m
          /\ \A l \in PaymentClaim \ {k} : paymentClaim'[l] = paymentClaim[l]
      BY <1>5 DEF CreatePayment, CompletedPaymentClaim, PaymentTypeOK
    <2>3. \A l \in PaymentClaim : paymentClaim[l].payment # p
      BY <2>1, PaymentConstantsOK DEF PaymentConstantsOK, PaymentClaimsExist
    <2>4. PaymentClaimsExist'
      BY <1>1, <1>2, <2>1, <2>2 DEF PaymentClaimsExist, KeepsAttempts
    <2>5. ASSUME NEW l \in PaymentClaim, paymentClaim'[l].expiresAt > 0
          PROVE  /\ paymentClaim'[l].payment \in PaymentId
                 /\ paymentStatus'[paymentClaim'[l].payment] # "NONE"
                 /\ paymentBooking'[paymentClaim'[l].payment] = paymentClaim'[l].booking
                 /\ paymentMethod'[paymentClaim'[l].payment] = paymentClaim'[l].method
                 /\ \A j \in PaymentClaim \ {l} :
                       paymentClaim'[j].payment # paymentClaim'[l].payment
      <3>1. CASE l = k
        BY <2>1, <2>2, <2>3, <3>1
      <3>2. CASE l # k
        BY <1>3, <2>2, <2>3, <2>5, <3>2 DEF PaymentReplayAnswers
      <3> QED
        BY <3>1, <3>2
    <2>6. PaymentReplayAnswers'
      BY <2>5 DEF PaymentReplayAnswers
    <2> QED
      BY <2>4, <2>6
  <1> QED
    BY <1>4, <1>5 DEF PaymentsNext, allVars, payVars, ConfirmCashPayment, HandleWebhook, Settle,
       RefundPayment, ProviderNotifies

\* A retry of a payment's creation finds the payment its own first call opened, and
\* no two keys share one.
THEOREM PaymentReplaysAreTrue == PaymentsSpec => []PaymentReplayAnswers
  <1>1. PaymentsInit => PaymentClaimsExist /\ PaymentReplayAnswers
    BY DEF PaymentsInit, PaymentInit, PaymentClaimsExist, PaymentReplayAnswers
  <1>2. /\ (TypeOK /\ PaymentTypeOK) /\ PaymentClaimsExist /\ PaymentReplayAnswers
        /\ [PaymentsNext]_allVars
        => (PaymentClaimsExist /\ PaymentReplayAnswers)'
    BY NextPaymentReplay
  <1> QED
    BY <1>1, <1>2, AlwaysTypeOK, PTL DEF PaymentsSpec
=============================================================================
