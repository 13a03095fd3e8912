------------------------------- MODULE Payments -------------------------------
(***************************************************************************)
(* Payments and agent commissions, composed with the booking engine.       *)
(*                                                                         *)
(* Each action is one transaction.  It locks the payment and its booking   *)
(* (FOR UPDATE OF p, b) before it looks at either, so two transactions on  *)
(* one booking never interleave; what remains is every ORDER in which      *)
(* creations, duplicated and reordered webhooks, cash confirmations,       *)
(* refunds, expiry sweeps and cancellations may commit.                    *)
(*                                                                         *)
(* The provider is external: once a payment is PROCESSING it may notify    *)
(* success, failure, or first a failed attempt and then a success, and a   *)
(* notification, once sent, may be delivered any number of times.          *)
(*                                                                         *)
(* X_Mutant, placed before X, is X with a plausible slip; it is used to    *)
(* confirm that a property would notice.                                   *)
(***************************************************************************)
EXTENDS Bookings

CONSTANTS
    PaymentId,     \* identifiers payments may get
    NoPayment,     \* idempotency_records.payment_id IS NULL
    PaymentClaim   \* (company, actor, key) of an idempotent payment creation

ASSUME PaymentConstantsOK ==
    /\ NoPayment \notin PaymentId
    /\ BookingId # {}

VARIABLES
    paymentStatus,   \* payments.status; "NONE" while the id is unused
    paymentBooking,  \* payments.booking_id
    paymentMethod,   \* payments.method, the three kinds the code tells apart
    paymentClaim,    \* idempotency_records of CREATE_PAYMENT
    paymentEvents,   \* booking_events appended by payments, by booking and type
    commission,      \* agent_commission_transactions.status, by booking: an agent
                     \* is taken to have one active AGENT membership
    notified         \* the provider notifications sent so far

payVars == <<paymentStatus, paymentBooking, paymentMethod, paymentClaim,
             paymentEvents, commission, notified>>
allVars == <<vars, payVars>>

PaymentStatus == {"PENDING", "PROCESSING", "SUCCEEDED", "FAILED", "CANCELLED", "REFUNDED"}
Method == {"ONLINE", "CASH", "OTHER"}
Outcome == {"SUCCEEDED", "FAILED"}
PaymentEventType == {"PAYMENT_PENDING", "PAYMENT_CONFIRMED", "REFUND_CREATED",
                     "REFUND_COMPLETED"}

PaymentTypeOK ==
    /\ paymentStatus \in [PaymentId -> PaymentStatus \cup {"NONE"}]
    /\ paymentBooking \in [PaymentId -> BookingId]
    /\ paymentMethod \in [PaymentId -> Method]
    /\ paymentClaim \in [PaymentClaim -> [payment : PaymentId \cup {NoPayment},
                                          booking : BookingId, method : Method,
                                          expiresAt : Nat]]
    /\ paymentEvents \in [BookingId -> [PaymentEventType -> Nat]]
    /\ commission \in [BookingId -> {"NONE", "EARNED", "CANCELLED"}]
    /\ notified \subseteq PaymentId \X Outcome

AnyBooking == CHOOSE b \in BookingId : TRUE

PaymentInit ==
    /\ paymentStatus = [p \in PaymentId |-> "NONE"]
    /\ paymentBooking = [p \in PaymentId |-> AnyBooking]
    /\ paymentMethod = [p \in PaymentId |-> "CASH"]
    /\ paymentClaim = [k \in PaymentClaim |-> [payment |-> NoPayment,
                                               booking |-> AnyBooking,
                                               method |-> "CASH", expiresAt |-> 0]]
    /\ paymentEvents = [b \in BookingId |-> [e \in PaymentEventType |-> 0]]
    /\ commission = [b \in BookingId |-> "NONE"]
    /\ notified = {}

-----------------------------------------------------------------------------

\* The transitions the service consults before it writes a status.
CanTransitionPayment(from, to) ==
    <<from, to>> \in {<<"PENDING", "PROCESSING">>, <<"PENDING", "SUCCEEDED">>,
                      <<"PENDING", "CANCELLED">>, <<"PROCESSING", "SUCCEEDED">>,
                      <<"PROCESSING", "FAILED">>, <<"PROCESSING", "CANCELLED">>,
                      <<"SUCCEEDED", "REFUNDED">>}

\* The statuses uq_successful_payment_per_booking counts.
Settled == {"SUCCEEDED", "REFUNDED"}

PaymentsOf(b) == {p \in PaymentId : paymentStatus[p] # "NONE" /\ paymentBooking[p] = b}
SettledPaymentsOf(b) == {p \in PaymentsOf(b) : paymentStatus[p] \in Settled}

AppendPaymentEvents(b, types) ==
    [paymentEvents EXCEPT ![b] =
        [e \in PaymentEventType |-> IF e \in types THEN @[e] + 1 ELSE @[e]]]

(***************************************************************************)
(* Creation.  The claim is taken with the booking already locked; only a   *)
(* claimed call on a payable booking whose hold is still running, and that *)
(* no settled payment covers, writes anything.                             *)
(***************************************************************************)

IsBookingPayable(b, t) == bookingStatus[b] \in Payable /\ expiresAt[b] > t

ClaimPayment(k, t) == paymentClaim[k].expiresAt <= t

CompletedPaymentClaim_Mutant(k, p, b, m, t) ==
    [paymentClaim[k] EXCEPT !.booking = b, !.method = m, !.expiresAt = t + ClaimWindow]

CompletedPaymentClaim(k, p, b, m, t) ==
    [payment |-> p, booking |-> b, method |-> m, expiresAt |-> t + ClaimWindow]

CreatePayment(k, b, m, p, t) ==
    /\ ClaimPayment(k, t)
    /\ IsBookingPayable(b, t)
    /\ SettledPaymentsOf(b) = {}
    /\ paymentStatus[p] = "NONE"
    /\ paymentStatus' = [paymentStatus EXCEPT
                            ![p] = IF m = "ONLINE" THEN "PROCESSING" ELSE "PENDING"]
    /\ paymentBooking' = [paymentBooking EXCEPT ![p] = b]
    /\ paymentMethod' = [paymentMethod EXCEPT ![p] = m]
    /\ paymentClaim' = [paymentClaim EXCEPT ![k] = CompletedPaymentClaim(k, p, b, m, t)]
    /\ paymentEvents' = AppendPaymentEvents(b, {"PAYMENT_PENDING"})
    /\ UNCHANGED <<vars, commission, notified>>

(***************************************************************************)
(* Settlement.  The booking is confirmed if it is still payable; if it has *)
(* ended meanwhile the update matches no row, its result is not looked at, *)
(* and the payment settles all the same.  A commission is earned when the  *)
(* booking is CONFIRMED and its booker is at that moment an active agent.  *)
(***************************************************************************)
ConfirmIfPayable_Mutant(b) == ConfirmBookingPaid(b)

ConfirmIfPayable(b) ==
    IF bookingStatus[b] \in Payable THEN ConfirmBookingPaid(b) ELSE UNCHANGED vars

CreateEligible_Mutant(b, isAgent) ==
    IF isAgent /\ commission[b] = "NONE"
    THEN [commission EXCEPT ![b] = "EARNED"] ELSE commission

CreateEligible(b, isAgent) ==
    IF isAgent /\ bookingStatus'[b] = "CONFIRMED" /\ commission[b] = "NONE"
    THEN [commission EXCEPT ![b] = "EARNED"] ELSE commission

\* The index lets p settle: no other payment of its booking has.
SettlesAlone_Mutant(p) ==
    \A q \in PaymentsOf(paymentBooking[p]) \ {p} : paymentStatus[q] # "SUCCEEDED"

SettlesAlone(p) == SettledPaymentsOf(paymentBooking[p]) \ {p} = {}

Settle(p, isAgent) ==
    LET b == paymentBooking[p] IN
    /\ SettlesAlone(p)
    /\ paymentStatus' = [paymentStatus EXCEPT ![p] = "SUCCEEDED"]
    /\ ConfirmIfPayable(b)
    /\ commission' = CreateEligible(b, isAgent)
    /\ paymentEvents' = AppendPaymentEvents(b, {"PAYMENT_CONFIRMED"})
    /\ UNCHANGED <<paymentBooking, paymentMethod, paymentClaim, notified>>

ConfirmCashPayment(p) ==
    /\ paymentMethod[p] = "CASH"
    /\ paymentStatus[p] = "PENDING"
    /\ \E isAgent \in BOOLEAN : Settle(p, isAgent)

HandleWebhook_Mutant(p, outcome) ==
    LET b == paymentBooking[p] IN
    /\ <<p, outcome>> \in notified
    /\ paymentMethod[p] = "ONLINE"
    /\ CanTransitionPayment(paymentStatus[p], outcome)
    /\ SettlesAlone(p)
    /\ paymentStatus' = [paymentStatus EXCEPT ![p] = outcome]
    /\ ConfirmIfPayable(b)
    /\ UNCHANGED <<paymentBooking, paymentMethod, paymentClaim, paymentEvents,
                   commission, notified>>

HandleWebhook(p, outcome) ==
    /\ <<p, outcome>> \in notified
    /\ paymentMethod[p] = "ONLINE"
    /\ CanTransitionPayment(paymentStatus[p], outcome)   \* else acknowledged, no change
    /\ IF outcome = "SUCCEEDED"
       THEN \E isAgent \in BOOLEAN : Settle(p, isAgent)
       ELSE /\ paymentStatus' = [paymentStatus EXCEPT ![p] = "FAILED"]
            /\ UNCHANGED <<vars, paymentBooking, paymentMethod, paymentClaim,
                           paymentEvents, commission, notified>>

(***************************************************************************)
(* Full refund.  The commission is cancelled only if the booking is itself *)
(* cancelled; the booking, its seats and its tickets are left alone.       *)
(***************************************************************************)

ApplyFullRefund(b) ==
    IF commission[b] = "EARNED" /\ bookingStatus[b] = "CANCELLED"
    THEN [commission EXCEPT ![b] = "CANCELLED"] ELSE commission

RefundEvents_Mutant(b) == AppendPaymentEvents(b, {"REFUND_CREATED"})

RefundEvents(b) == AppendPaymentEvents(b, {"REFUND_CREATED", "REFUND_COMPLETED"})

RefundPayment(p) ==
    LET b == paymentBooking[p] IN
    /\ paymentStatus[p] = "SUCCEEDED"
    /\ paymentStatus' = [paymentStatus EXCEPT ![p] = "REFUNDED"]
    /\ commission' = ApplyFullRefund(b)
    /\ paymentEvents' = RefundEvents(b)
    /\ UNCHANGED <<vars, paymentBooking, paymentMethod, paymentClaim, notified>>

\* The provider sends a notification about a payment it was asked to take: no
\* failure after a success.
ProviderNotifies(p, outcome) ==
    /\ paymentMethod[p] = "ONLINE" /\ paymentStatus[p] # "NONE"
    /\ <<p, outcome>> \notin notified
    /\ <<p, "SUCCEEDED">> \notin notified
    /\ notified' = notified \cup {<<p, outcome>>}
    /\ UNCHANGED <<vars, paymentStatus, paymentBooking, paymentMethod, paymentClaim,
                   paymentEvents, commission>>

-----------------------------------------------------------------------------
PaymentsInit == Init /\ PaymentInit

PaymentsNext ==
    \/ BookingNext /\ UNCHANGED payVars
    \/ \E k \in PaymentClaim, b \in BookingId, m \in Method, p \in PaymentId, t \in TxStart :
            CreatePayment(k, b, m, p, t)
    \/ \E p \in PaymentId : ConfirmCashPayment(p)
    \/ \E p \in PaymentId, outcome \in Outcome : HandleWebhook(p, outcome)
    \/ \E p \in PaymentId : RefundPayment(p)
    \/ \E p \in PaymentId, outcome \in Outcome : ProviderNotifies(p, outcome)

PaymentsSpec == PaymentsInit /\ [][PaymentsNext]_allVars

\* The provider redelivers a notification until it is acknowledged.
Redelivery ==
    \A p \in PaymentId, outcome \in Outcome : WF_allVars(HandleWebhook(p, outcome))

FairPaymentsSpec == PaymentsSpec /\ Redelivery

-----------------------------------------------------------------------------
(***************************************************************************)
(* Properties.                                                             *)
(***************************************************************************)

\* A booking that money has been taken for can no longer be paid, expire or be
\* cancelled, and at most one payment of it ever settles: a refunded payment
\* still blocks a second settlement (payments.service.ts: "a payable, locked
\* booking cannot already be settled").
SettledOnce ==
    \A b \in BookingId :
        /\ Cardinality(SettledPaymentsOf(b)) <= 1
        /\ SettledPaymentsOf(b) # {} => bookingStatus[b] \notin Payable

\* A confirmed booking has been paid by exactly one payment, and only a paid one
\* is ever confirmed: no order of expiry, cancellation and settlement confirms a
\* booking for which no payment settled.
ConfirmedMeansPaid ==
    \A b \in BookingId :
        bookingStatus[b] = "CONFIRMED" => SettledPaymentsOf(b) # {}

\* booking_events accounts for the money: one PAYMENT_PENDING per attempt, one
\* PAYMENT_CONFIRMED per settlement however often the provider notified it, and
\* REFUND_CREATED and REFUND_COMPLETED once each for a refund.
EventsAccountForMoney ==
    \A b \in BookingId :
        LET n == paymentEvents[b]
            Refunded == {p \in PaymentsOf(b) : paymentStatus[p] = "REFUNDED"} IN
        /\ n["PAYMENT_PENDING"] = Cardinality(PaymentsOf(b))
        /\ n["PAYMENT_CONFIRMED"] = Cardinality(SettledPaymentsOf(b))
        /\ n["REFUND_CREATED"] = Cardinality(Refunded)
        /\ n["REFUND_COMPLETED"] = Cardinality(Refunded)

\* A commission is owed only for a booking that was confirmed, and so paid.
CommissionIsEarned ==
    \A b \in BookingId :
        commission[b] # "NONE" =>
            bookingStatus[b] = "CONFIRMED" /\ SettledPaymentsOf(b) # {}

\* A retry of a payment creation under a live key finds the payment the first
\* call opened, for the same booking and method; two keys never share one.
PaymentReplayAnswers ==
    \A k \in PaymentClaim : LET row == paymentClaim[k] IN
        row.expiresAt > 0 =>
            /\ row.payment \in PaymentId
            /\ paymentStatus[row.payment] # "NONE"
            /\ paymentBooking[row.payment] = row.booking
            /\ paymentMethod[row.payment] = row.method
            /\ \A l \in PaymentClaim \ {k} : paymentClaim[l].payment # row.payment

\* A success the provider keeps redelivering does not stay unanswered: the payment
\* settles, unless it had already failed or another payment of the booking has
\* settled first (then every redelivery is refused as already settled).
NotifiedSuccessIsSettled ==
    \A p \in PaymentId :
        (<<p, "SUCCEEDED">> \in notified) ~>
            \/ paymentStatus[p] \in Settled \cup {"FAILED"}
            \/ SettledPaymentsOf(paymentBooking[p]) # {}

\* Seen from its own tables, the booking engine behaves as module Bookings says
\* whatever payments do: payments touch it only by confirming a payable booking.
ImplementsBookings == Spec

-----------------------------------------------------------------------------
(***************************************************************************)
(* What the repository says and the code does not do.                      *)
(***************************************************************************)

\* README: the confirmation and webhook success paths both drive the booking to
\* CONFIRMED.
SettlementConfirmsBooking ==
    \A b \in BookingId : SettledPaymentsOf(b) # {} => bookingStatus[b] = "CONFIRMED"

\* architecture/09: SUCCEEDED --> REFUNDED is a full refund, booking fully cancelled.
RefundEndsBooking ==
    \A p \in PaymentId :
        paymentStatus[p] = "REFUNDED" => bookingStatus[paymentBooking[p]] # "CONFIRMED"
=============================================================================
