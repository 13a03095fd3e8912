---------------------------- MODULE BookingsProofs ----------------------------
(***************************************************************************)
(* Theorems about Bookings for every set of trips, seats, bookings and     *)
(* claims and every hold, window and lag.                                  *)
(***************************************************************************)
EXTENDS Bookings, FiniteSetTheorems, TLAPS

-----------------------------------------------------------------------------
(***************************************************************************)
(* Lemmas about the helpers.                                               *)
(***************************************************************************)

\* A transaction's now() is a natural number no later than its commit.
LEMMA TxStartInPast ==
    ASSUME TypeOK, NEW t \in TxStart
    PROVE  t \in Nat /\ t <= clock
  BY DEF TypeOK, TxStart

\* A sweep only touches payable bookings whose expiry is not after its time.
LEMMA ExpiredHoldsArePayable ==
    ASSUME NEW trips, NEW t, NEW b \in ExpiredHolds(trips, t)
    PROVE  b \in BookingId /\ bookingStatus[b] \in Payable /\ expiresAt[b] <= t
  BY DEF ExpiredHolds

\* Releasing turns held seats of the swept bookings to RELEASED and nothing else.
LEMMA ReleasedSeatsShape ==
    ASSUME TypeOK, NEW X
    PROVE  /\ ReleasedSeats(X) \in [BookingId -> [Seat -> SeatStatus \cup {"NONE"}]]
           /\ \A b \in BookingId, s \in Seat :
                ReleasedSeats(X)[b][s] =
                    IF b \in X /\ seatStatus[b][s] = "HELD" THEN "RELEASED"
                                                            ELSE seatStatus[b][s]
  BY DEF ReleasedSeats, TypeOK, SeatStatus

\* Appending an event keeps the counters natural numbers.
LEMMA AppendEventType ==
    ASSUME NEW events \in [BookingId -> [EventType -> Nat]], NEW B,
           NEW type \in EventType
    PROVE  AppendEvent(events, B, type) \in [BookingId -> [EventType -> Nat]]
  BY DEF AppendEvent

-----------------------------------------------------------------------------
(***************************************************************************)
(* Type correctness.                                                       *)
(***************************************************************************)

\* The tables start well typed.
LEMMA InitTypeOK == Init => TypeOK
  <1> SUFFICES ASSUME Init PROVE TypeOK
    OBVIOUS
  <1>1. (CHOOSE tr \in Trip : TRUE) \in Trip
    BY ConstantsOK DEF ConstantsOK
  <1> QED
    BY <1>1 DEF Init, TypeOK, TripStatus, BookingStatus, SeatStatus, EventType

\* Every transaction keeps the tables well typed.
LEMMA NextTypeOK == TypeOK /\ [Next]_vars => TypeOK'
  <1> SUFFICES ASSUME TypeOK, [Next]_vars PROVE TypeOK'
    OBVIOUS
  <1> USE DEF TypeOK
  <1>1. ASSUME NEW c \in Claim, NEW tr \in Trip, NEW S \in SUBSET Seat,
               NEW b \in BookingId, NEW t \in TxStart, CreateBooking(c, tr, S, b, t)
        PROVE  TypeOK'
    <2> DEFINE X == ExpiredHolds({tr}, t)
    <2>1. t \in Nat /\ t + Hold \in Nat /\ t + ClaimWindow \in Nat
      BY TxStartInPast, ConstantsOK DEF ConstantsOK
    <2>2. /\ bookingStatus' \in [BookingId -> BookingStatus \cup {"NONE"}]
          /\ bookingTrip' \in [BookingId -> Trip]
          /\ expiresAt' \in [BookingId -> Nat]
          /\ heldUntil' \in [BookingId -> Nat]
      BY <1>1, <2>1 DEF CreateBooking, BookingStatus
    <2>3. seatStatus' \in [BookingId -> [Seat -> SeatStatus \cup {"NONE"}]]
      <3>1. ReleasedSeats(X) \in [BookingId -> [Seat -> SeatStatus \cup {"NONE"}]]
        BY ReleasedSeatsShape
      <3>2. seatStatus' = [ReleasedSeats(X) EXCEPT
                             ![b] = [s \in Seat |-> IF s \in S THEN "HELD" ELSE "NONE"]]
        BY <1>1 DEF CreateBooking
      <3>3. [s \in Seat |-> IF s \in S THEN "HELD" ELSE "NONE"]
                \in [Seat -> SeatStatus \cup {"NONE"}]
        BY DEF SeatStatus
      <3> QED
        BY <3>1, <3>2, <3>3
    <2>4. idempotency' \in [Claim -> [booking : BookingId \cup {NoBooking},
                                      trip : Trip, seats : SUBSET Seat,
                                      expiresAt : Nat]]
      BY <1>1, <2>1 DEF CreateBooking, CompletedClaim
    <2>5. bookingEvents' \in [BookingId -> [EventType -> Nat]]
      <3>1. "EXPIRED" \in EventType /\ "BOOKING_CREATED" \in EventType
        BY DEF EventType
      <3>2. AppendEvent(bookingEvents, X, "EXPIRED") \in [BookingId -> [EventType -> Nat]]
        BY <3>1, AppendEventType
      <3>3. AppendEvent(AppendEvent(bookingEvents, X, "EXPIRED"), {b}, "BOOKING_CREATED")
                \in [BookingId -> [EventType -> Nat]]
        BY <3>1, <3>2, AppendEventType
      <3> QED
        BY <1>1, <3>3 DEF CreateBooking, CreateEvents
    <2> QED
      BY <1>1, <2>2, <2>3, <2>4, <2>5 DEF CreateBooking, tripVars
  <1>2. ASSUME NEW t \in TxStart, ExpireBookings(t)
        PROVE  TypeOK'
    <2>1. ReleasedSeats(ExpiredHolds(Trip, t)) \in [BookingId -> [Seat -> SeatStatus \cup {"NONE"}]]
      BY ReleasedSeatsShape
    <2>2. bookingEvents' \in [BookingId -> [EventType -> Nat]]
      BY <1>2, AppendEventType DEF ExpireBookings, EventType
    <2> QED
      BY <1>2, <2>1, <2>2 DEF ExpireBookings, tripVars, BookingStatus
  <1>3. ASSUME NEW b \in BookingId, CancelBooking(b)
        PROVE  TypeOK'
    <2>1. CancelledSeats(b) \in [Seat -> SeatStatus \cup {"NONE"}]
      BY DEF CancelledSeats, SeatStatus
    <2>2. bookingEvents' \in [BookingId -> [EventType -> Nat]]
      BY <1>3, AppendEventType DEF CancelBooking, EventType
    <2> QED
      BY <1>3, <2>1, <2>2 DEF CancelBooking, tripVars, BookingStatus
  <1>4. ASSUME NEW b \in BookingId, ConfirmBookingPaid(b)
        PROVE  TypeOK'
    <2>1. ConfirmedSeats(b) \in [Seat -> SeatStatus \cup {"NONE"}]
      BY DEF ConfirmedSeats, SeatStatus
    <2> QED
      BY <1>4, <2>1 DEF ConfirmBookingPaid, tripVars, BookingStatus
  <1>5. ASSUME NEW b \in BookingId, NEW s \in Seat, CheckInSeat(b, s)
        PROVE  TypeOK'
    <2>1. bookingEvents' \in [BookingId -> [EventType -> Nat]]
      BY <1>5, AppendEventType DEF CheckInSeat, EventType
    <2> QED
      BY <1>5, <2>1 DEF CheckInSeat, tripVars, SeatStatus
  <1>6. ASSUME NEW tr \in Trip, TripTransition(tr)
        PROVE  TypeOK'
    BY <1>6 DEF TripTransition, bookingVars, TripStatus
  <1>7. ASSUME NEW tr \in Trip, SwitchTrip(tr)
        PROVE  TypeOK'
    BY <1>7 DEF SwitchTrip, bookingVars
  <1>8. CASE Tick
    BY <1>8 DEF Tick, tripVars, bookingVars
  <1>9. CASE UNCHANGED vars
    BY <1>9 DEF vars, tripVars, bookingVars
  <1> QED
    BY <1>1, <1>2, <1>3, <1>4, <1>5, <1>6, <1>7, <1>8, <1>9 DEF Next, BookingNext

\* The tables are well typed in every reachable state.
THEOREM TypeCorrect == Spec => []TypeOK
  BY InitTypeOK, NextTypeOK, PTL DEF Spec

-----------------------------------------------------------------------------
(***************************************************************************)
(* The two tables agree, and no seat is sold twice.                        *)
(***************************************************************************)

\* A booking's statuses are told apart by what its seats may be.
LEMMA SeatsOfCases ==
    /\ \A st \in Payable : SeatsOf(st) = {"HELD"}
    /\ SeatsOf("CONFIRMED") = {"CONFIRMED", "CHECKED_IN"}
    /\ SeatsOf("EXPIRED") = {"RELEASED"}
    /\ SeatsOf("CANCELLED") = {"CANCELLED"}
    /\ SeatsOf("NONE") = {}
  BY DEF SeatsOf, Payable

\* The inductive invariant: the tables agree, the two expiry columns agree, and
\* the index holds.
HoldsMatch == \A b \in BookingId : heldUntil[b] = expiresAt[b]

IInv == TypeOK /\ SeatsFollowBooking /\ HoldsMatch /\ NoDoubleBooking

\* The inductive invariant holds before the first booking.
LEMMA InitIInv == Init => IInv
  <1> SUFFICES ASSUME Init PROVE IInv
    OBVIOUS
  <1>1. TypeOK
    BY InitTypeOK
  <1>2. SeatsFollowBooking
    BY SeatsOfCases DEF Init, SeatsFollowBooking
  <1>3. HoldsMatch
    BY DEF Init, HoldsMatch
  <1>4. NoDoubleBooking
    BY DEF Init, NoDoubleBooking, ActiveSeat
  <1> QED
    BY <1>1, <1>2, <1>3, <1>4 DEF IInv

\* What a creation that sweeps X does to the two tables.
CreateEffect(tr, S, b, X) ==
    /\ S # {} /\ bookingStatus[b] = "NONE" /\ b \notin X
    /\ \A s \in S : SeatFree(tr, s, X)
    /\ bookingStatus'[b] = "HELD" /\ bookingTrip'[b] = tr
    /\ \A s \in Seat : seatStatus'[b][s] = IF s \in S THEN "HELD" ELSE "NONE"
    /\ \A o \in BookingId \ {b} :
         /\ bookingTrip'[o] = bookingTrip[o]
         /\ bookingStatus'[o] = IF o \in X THEN "EXPIRED" ELSE bookingStatus[o]
         /\ \A s \in Seat : seatStatus'[o][s] =
                IF o \in X /\ seatStatus[o][s] = "HELD" THEN "RELEASED"
                                                        ELSE seatStatus[o][s]

\* A creation has exactly that effect.
LEMMA CreateShape ==
    ASSUME TypeOK, NEW c \in Claim, NEW tr \in Trip, NEW S \in SUBSET Seat,
           NEW b \in BookingId, NEW t \in TxStart, CreateBooking(c, tr, S, b, t)
    PROVE  CreateEffect(tr, S, b, ExpiredHolds({tr}, t))
  <1> DEFINE X == ExpiredHolds({tr}, t)
  <1>1. b \notin X
    BY ExpiredHoldsArePayable DEF CreateBooking, Payable
  <1>2. ReleasedSeats(X) \in [BookingId -> [Seat -> SeatStatus \cup {"NONE"}]]
    BY ReleasedSeatsShape
  <1>3. seatStatus' = [ReleasedSeats(X) EXCEPT
                         ![b] = [s \in Seat |-> IF s \in S THEN "HELD" ELSE "NONE"]]
    BY DEF CreateBooking
  <1>4. /\ \A s \in Seat : seatStatus'[b][s] = IF s \in S THEN "HELD" ELSE "NONE"
        /\ \A o \in BookingId \ {b} : seatStatus'[o] = ReleasedSeats(X)[o]
    BY <1>2, <1>3
  <1>5. /\ S # {} /\ bookingStatus[b] = "NONE"
        /\ \A s \in S : SeatFree(tr, s, X)
    BY DEF CreateBooking
  <1>6. /\ bookingStatus'[b] = "HELD" /\ bookingTrip'[b] = tr
        /\ \A o \in BookingId \ {b} :
             /\ bookingTrip'[o] = bookingTrip[o]
             /\ bookingStatus'[o] = IF o \in X THEN "EXPIRED" ELSE bookingStatus[o]
    BY DEF CreateBooking, TypeOK
  <1> HIDE DEF X
  <1>7. CreateEffect(tr, S, b, X)
    BY <1>1, <1>4, <1>5, <1>6, ReleasedSeatsShape DEF CreateEffect
  <1> QED
    BY <1>7 DEF X

\* Every transaction that writes a booking writes its seats to match.
LEMMA NextSeatsFollowBooking ==
    ASSUME TypeOK, SeatsFollowBooking, [Next]_vars
    PROVE  SeatsFollowBooking'
  <1> USE DEF SeatsFollowBooking
  <1>1. ASSUME NEW c \in Claim, NEW tr \in Trip, NEW S \in SUBSET Seat,
               NEW b \in BookingId, NEW t \in TxStart, CreateBooking(c, tr, S, b, t)
        PROVE  SeatsFollowBooking'
    <2> DEFINE X == ExpiredHolds({tr}, t)
    <2>1. /\ CreateEffect(tr, S, b, X)
          /\ \A o \in X : bookingStatus[o] \in Payable
      BY <1>1, CreateShape, ExpiredHoldsArePayable
    <2> HIDE DEF X
    <2>2. SUFFICES ASSUME NEW o \in BookingId
          PROVE  /\ \A s \in Seat : seatStatus'[o][s] \in {"NONE"} \cup SeatsOf(bookingStatus'[o])
                 /\ bookingStatus'[o] # "NONE" => \E s \in Seat : seatStatus'[o][s] # "NONE"
      OBVIOUS
    <2>3. CASE o = b
      BY <2>1, <2>3, SeatsOfCases DEF CreateEffect, Payable
    <2>4. CASE o # b /\ o \in X
      BY <2>1, <2>4, SeatsOfCases DEF CreateEffect, Payable
    <2>5. CASE o # b /\ o \notin X
      BY <2>1, <2>5 DEF CreateEffect
    <2> QED
      BY <2>3, <2>4, <2>5
  <1>2. ASSUME NEW t \in TxStart, ExpireBookings(t)
        PROVE  SeatsFollowBooking'
    <2> DEFINE X == ExpiredHolds(Trip, t)
    <2>1. \A b \in BookingId :
             /\ bookingStatus'[b] = IF b \in X THEN "EXPIRED" ELSE bookingStatus[b]
             /\ \A s \in Seat : seatStatus'[b][s] =
                    IF b \in X /\ seatStatus[b][s] = "HELD" THEN "RELEASED"
                                                            ELSE seatStatus[b][s]
      BY <1>2, ReleasedSeatsShape DEF ExpireBookings
    <2>2. \A b \in X : bookingStatus[b] \in Payable
      BY ExpiredHoldsArePayable
    <2> QED
      BY <2>1, <2>2, SeatsOfCases DEF Payable
  <1>3. ASSUME NEW b \in BookingId, CancelBooking(b)
        PROVE  SeatsFollowBooking'
    <2>1. \A s \in Seat : seatStatus'[b][s] =
             IF seatStatus[b][s] \in {"HELD", "CONFIRMED"} THEN "CANCELLED" ELSE seatStatus[b][s]
      BY <1>3 DEF CancelBooking, CancelledSeats, TypeOK
    <2>2. bookingStatus[b] \in Payable /\ bookingStatus'[b] = "CANCELLED"
      BY <1>3 DEF CancelBooking, TypeOK
    <2>3. \A o \in BookingId \ {b} : bookingStatus'[o] = bookingStatus[o]
                                       /\ seatStatus'[o] = seatStatus[o]
      BY <1>3 DEF CancelBooking, TypeOK
    <2> QED
      BY <2>1, <2>2, <2>3, SeatsOfCases DEF Payable
  <1>4. ASSUME NEW b \in BookingId, ConfirmBookingPaid(b)
        PROVE  SeatsFollowBooking'
    <2>1. \A s \in Seat : seatStatus'[b][s] =
             IF seatStatus[b][s] = "HELD" THEN "CONFIRMED" ELSE seatStatus[b][s]
      BY <1>4 DEF ConfirmBookingPaid, ConfirmedSeats, TypeOK
    <2>2. bookingStatus[b] \in Payable /\ bookingStatus'[b] = "CONFIRMED"
      BY <1>4 DEF ConfirmBookingPaid, TypeOK
    <2>3. \A o \in BookingId \ {b} : bookingStatus'[o] = bookingStatus[o]
                                       /\ seatStatus'[o] = seatStatus[o]
      BY <1>4 DEF ConfirmBookingPaid, TypeOK
    <2> QED
      BY <2>1, <2>2, <2>3, SeatsOfCases DEF Payable
  <1>5. ASSUME NEW b \in BookingId, NEW s \in Seat, CheckInSeat(b, s)
        PROVE  SeatsFollowBooking'
    <2>1. /\ bookingStatus[b] = "CONFIRMED" /\ bookingStatus' = bookingStatus
          /\ seatStatus'[b][s] = "CHECKED_IN"
          /\ \A o \in BookingId, u \in Seat :
                o # b \/ u # s => seatStatus'[o][u] = seatStatus[o][u]
      BY <1>5 DEF CheckInSeat, TypeOK
    <2> QED
      BY <2>1, SeatsOfCases
  <1>6. ASSUME NEW tr \in Trip, TripTransition(tr) \/ SwitchTrip(tr)
        PROVE  SeatsFollowBooking'
    BY <1>6 DEF TripTransition, SwitchTrip, bookingVars
  <1>7. CASE Tick \/ UNCHANGED vars
    BY <1>7 DEF Tick, vars, bookingVars
  <1> QED
    BY <1>1, <1>2, <1>3, <1>4, <1>5, <1>6, <1>7 DEF Next, BookingNext

\* No transaction gives a seat that is taken to a second booking.
LEMMA NextNoDoubleBooking ==
    ASSUME TypeOK, NoDoubleBooking, [Next]_vars
    PROVE  NoDoubleBooking'
  <1> USE DEF NoDoubleBooking
  <1>1. ASSUME NEW c \in Claim, NEW tr \in Trip, NEW S \in SUBSET Seat,
               NEW b \in BookingId, NEW t \in TxStart, CreateBooking(c, tr, S, b, t)
        PROVE  NoDoubleBooking'
    <2> DEFINE X == ExpiredHolds({tr}, t)
    <2>1. CreateEffect(tr, S, b, X)
      BY <1>1, CreateShape
    <2>2. \A s \in S, o \in BookingId :
             bookingTrip[o] = tr =>
                (IF o \in X /\ seatStatus[o][s] = "HELD" THEN "RELEASED"
                                                         ELSE seatStatus[o][s]) \notin ActiveSeat
      <3>1. \A s \in S, o \in BookingId :
               bookingTrip[o] = tr => ReleasedSeats(X)[o][s] \notin ActiveSeat
        BY <2>1 DEF CreateEffect, SeatFree
      <3>2. \A s \in Seat, o \in BookingId :
               ReleasedSeats(X)[o][s] =
                  IF o \in X /\ seatStatus[o][s] = "HELD" THEN "RELEASED"
                                                          ELSE seatStatus[o][s]
        BY ReleasedSeatsShape
      <3> QED
        BY <3>1, <3>2
    <2> HIDE DEF X
    <2>3. \A o \in BookingId \ {b}, s \in Seat :
             /\ bookingTrip'[o] = bookingTrip[o]
             /\ seatStatus'[o][s] \in ActiveSeat => seatStatus[o][s] \in ActiveSeat
      BY <2>1 DEF CreateEffect, ActiveSeat
    <2>4. \A o \in BookingId \ {b}, s \in Seat :
             /\ bookingTrip'[o] = bookingTrip'[b]
             /\ seatStatus'[b][s] \in ActiveSeat
             => seatStatus'[o][s] \notin ActiveSeat
      BY <2>1, <2>2 DEF CreateEffect, ActiveSeat
    <2> QED
      BY <2>3, <2>4
  <1>2. ASSUME NEW t \in TxStart, ExpireBookings(t)
        PROVE  NoDoubleBooking'
    <2>1. bookingTrip' = bookingTrip /\ seatStatus' = ReleasedSeats(ExpiredHolds(Trip, t))
      BY <1>2 DEF ExpireBookings
    <2>2. \A o \in BookingId, s \in Seat :
             seatStatus'[o][s] \in ActiveSeat => seatStatus[o][s] \in ActiveSeat
      BY <2>1, ReleasedSeatsShape DEF ActiveSeat
    <2> QED
      BY <2>1, <2>2
  <1>3. ASSUME NEW b \in BookingId, CancelBooking(b) \/ ConfirmBookingPaid(b)
        PROVE  NoDoubleBooking'
    <2>1. bookingTrip' = bookingTrip
      BY <1>3 DEF CancelBooking, ConfirmBookingPaid
    <2>2. \A o \in BookingId \ {b} : seatStatus'[o] = seatStatus[o]
      BY <1>3 DEF CancelBooking, ConfirmBookingPaid, TypeOK
    <2>3. seatStatus'[b] = CancelledSeats(b) \/ seatStatus'[b] = ConfirmedSeats(b)
      BY <1>3 DEF CancelBooking, ConfirmBookingPaid, TypeOK
    <2>4. \A s \in Seat : seatStatus'[b][s] \in ActiveSeat => seatStatus[b][s] \in ActiveSeat
      BY <2>3 DEF CancelledSeats, ConfirmedSeats, ActiveSeat
    <2> QED
      BY <2>1, <2>2, <2>4
  <1>4. ASSUME NEW b \in BookingId, NEW s \in Seat, CheckInSeat(b, s)
        PROVE  NoDoubleBooking'
    BY <1>4 DEF CheckInSeat, ActiveSeat, TypeOK
  <1>5. ASSUME NEW tr \in Trip, TripTransition(tr) \/ SwitchTrip(tr)
        PROVE  NoDoubleBooking'
    BY <1>5 DEF TripTransition, SwitchTrip, bookingVars
  <1>6. CASE Tick \/ UNCHANGED vars
    BY <1>6 DEF Tick, vars, bookingVars
  <1> QED
    BY <1>1, <1>2, <1>3, <1>4, <1>5, <1>6 DEF Next, BookingNext

\* bookings.expires_at and seat_reservations.held_until are written together.
LEMMA NextHoldsMatch ==
    ASSUME TypeOK, HoldsMatch, [Next]_vars
    PROVE  HoldsMatch'
  <1>1. ASSUME NEW c \in Claim, NEW tr \in Trip, NEW S \in SUBSET Seat,
               NEW b \in BookingId, NEW t \in TxStart, CreateBooking(c, tr, S, b, t)
        PROVE  HoldsMatch'
    BY <1>1 DEF HoldsMatch, CreateBooking, TypeOK
  <1>2. CASE UNCHANGED <<heldUntil, expiresAt>>
    BY <1>2 DEF HoldsMatch
  <1> QED
    BY <1>1, <1>2 DEF Next, BookingNext, ExpireBookings, CancelBooking, ConfirmBookingPaid,
       CheckInSeat, TripTransition, SwitchTrip, Tick, vars, bookingVars

\* Every transaction keeps the inductive invariant.
LEMMA NextIInv == IInv /\ [Next]_vars => IInv'
  BY NextTypeOK, NextSeatsFollowBooking, NextNoDoubleBooking, NextHoldsMatch DEF IInv

\* The inductive invariant holds in every reachable state.
LEMMA AlwaysIInv == Spec => []IInv
  BY InitIInv, NextIInv, PTL DEF Spec

\* Every booking and its seats agree in every reachable state.
THEOREM SeatsAgree == Spec => []SeatsFollowBooking
  <1>1. IInv => SeatsFollowBooking
    BY DEF IInv
  <1> QED
    BY <1>1, AlwaysIInv, PTL

\* No seat of a trip is ever held, sold or boarded by two bookings.
THEOREM SeatExclusive == Spec => []NoDoubleBooking
  <1>1. IInv => NoDoubleBooking
    BY DEF IInv
  <1> QED
    BY <1>1, AlwaysIInv, PTL

\* The public seat map and the booking engine agree on what is available.
THEOREM AvailabilityHonest == Spec => []ShownSeatIsBookable
  <1>1. IInv => ShownSeatIsBookable
    <2> SUFFICES ASSUME IInv, NEW tr \in Trip, NEW s \in Layout[tr]
                 PROVE  (ShownAs(tr, s) = "AVAILABLE")
                            <=> SeatFree(tr, s, ExpiredHolds({tr}, clock))
      BY DEF ShownSeatIsBookable
    <2> DEFINE X == ExpiredHolds({tr}, clock)
    <2>1. s \in Seat
      BY ConstantsOK DEF ConstantsOK
    <2>2. ASSUME NEW b \in BookingId, bookingTrip[b] = tr
          PROVE  ReleasedSeats(X)[b][s] \in ActiveSeat
                    <=> \/ seatStatus[b][s] \in {"CONFIRMED", "CHECKED_IN"}
                        \/ seatStatus[b][s] = "HELD" /\ heldUntil[b] > clock
      <3>1. seatStatus[b][s] = "HELD" => bookingStatus[b] \in Payable
        <4>1. bookingStatus[b] \in BookingStatus \cup {"NONE"}
          BY DEF IInv, TypeOK
        <4>2. seatStatus[b][s] \in {"NONE"} \cup SeatsOf(bookingStatus[b])
          BY <2>1 DEF IInv, SeatsFollowBooking
        <4> QED
          BY <4>1, <4>2, SeatsOfCases DEF BookingStatus, Payable
      <3>2. expiresAt[b] \in Nat /\ clock \in Nat /\ heldUntil[b] = expiresAt[b]
        BY DEF IInv, TypeOK, HoldsMatch
      <3>3. seatStatus[b][s] = "HELD" => (b \in X <=> ~ (heldUntil[b] > clock))
        BY <2>2, <3>1, <3>2 DEF ExpiredHolds
      <3> QED
        BY <2>1, <3>3, ReleasedSeatsShape DEF IInv, ActiveSeat
    <2> QED
      BY <2>2 DEF ShownAs, SeatFree
  <1> QED
    BY <1>1, AlwaysIInv, PTL

-----------------------------------------------------------------------------
(***************************************************************************)
(* What no transaction may do.                                             *)
(***************************************************************************)

\* No transaction revives an ended booking or changes a freed or boarded seat.
LEMMA StepKeepsEnded ==
    ASSUME IInv, [Next]_vars
    PROVE  KeepsEnded
  <1> USE DEF KeepsEnded, IInv
  <1>1. ASSUME NEW c \in Claim, NEW tr \in Trip, NEW S \in SUBSET Seat,
               NEW b \in BookingId, NEW t \in TxStart, CreateBooking(c, tr, S, b, t)
        PROVE  KeepsEnded
    <2> DEFINE X == ExpiredHolds({tr}, t)
    <2>1. /\ CreateEffect(tr, S, b, X)
          /\ \A o \in X : bookingStatus[o] \in Payable
      BY <1>1, CreateShape, ExpiredHoldsArePayable
    <2>2. \A s \in Seat : seatStatus[b][s] = "NONE"
      BY <2>1, SeatsOfCases DEF CreateEffect, SeatsFollowBooking
    <2> HIDE DEF X
    <2> QED
      BY <2>1, <2>2 DEF CreateEffect, Payable
  <1>2. ASSUME NEW t \in TxStart, ExpireBookings(t)
        PROVE  KeepsEnded
    <2>1. ASSUME NEW b \in BookingId, bookingStatus[b] \notin Payable
          PROVE  bookingStatus'[b] = bookingStatus[b]
      BY <1>2, <2>1, ExpiredHoldsArePayable DEF ExpireBookings
    <2>2. ASSUME NEW b \in BookingId, NEW s \in Seat, seatStatus[b][s] # "HELD"
          PROVE  seatStatus'[b][s] = seatStatus[b][s]
      BY <1>2, <2>2, ReleasedSeatsShape DEF ExpireBookings
    <2> QED
      BY <2>1, <2>2 DEF Payable
  <1>3. ASSUME NEW b \in BookingId, CancelBooking(b) \/ ConfirmBookingPaid(b)
        PROVE  KeepsEnded
    <2>1. \A o \in BookingId \ {b} : bookingStatus'[o] = bookingStatus[o]
                                       /\ seatStatus'[o] = seatStatus[o]
      BY <1>3 DEF CancelBooking, ConfirmBookingPaid, TypeOK
    <2>2. seatStatus'[b] = CancelledSeats(b) \/ seatStatus'[b] = ConfirmedSeats(b)
      BY <1>3 DEF CancelBooking, ConfirmBookingPaid, TypeOK
    <2>3. \A s \in Seat : seatStatus'[b][s] # seatStatus[b][s] =>
                              seatStatus[b][s] \in {"HELD", "CONFIRMED"}
      BY <2>2 DEF CancelledSeats, ConfirmedSeats
    <2>4. bookingStatus[b] \in Payable
      BY <1>3 DEF CancelBooking, ConfirmBookingPaid
    <2> QED
      BY <2>1, <2>3, <2>4 DEF Payable
  <1>4. ASSUME NEW b \in BookingId, NEW s \in Seat, CheckInSeat(b, s)
        PROVE  KeepsEnded
    BY <1>4 DEF CheckInSeat, TypeOK
  <1>5. ASSUME NEW tr \in Trip, TripTransition(tr) \/ SwitchTrip(tr)
        PROVE  KeepsEnded
    BY <1>5 DEF TripTransition, SwitchTrip, bookingVars
  <1>6. CASE Tick \/ UNCHANGED vars
    BY <1>6 DEF Tick, vars, bookingVars
  <1> QED
    BY <1>1, <1>2, <1>3, <1>4, <1>5, <1>6 DEF Next, BookingNext

\* Ended and confirmed bookings, and freed and boarded seats, stay as they are.
THEOREM EndedStaysEnded == Spec => EndedForGood
  <1>1. IInv /\ [Next]_vars => [KeepsEnded]_vars
    BY StepKeepsEnded
  <1> QED
    BY <1>1, AlwaysIInv, PTL DEF Spec, EndedForGood

\* No transaction expires a booking whose hold is still running.
LEMMA StepKeepsHolds ==
    ASSUME TypeOK, [Next]_vars
    PROVE  KeepsHolds
  <1> USE DEF KeepsHolds
  <1>1. ASSUME NEW c \in Claim, NEW tr \in Trip, NEW S \in SUBSET Seat,
               NEW b \in BookingId, NEW t \in TxStart, CreateBooking(c, tr, S, b, t)
        PROVE  KeepsHolds
    <2> DEFINE X == ExpiredHolds({tr}, t)
    <2>1. CreateEffect(tr, S, b, X)
      BY <1>1, CreateShape
    <2>2. \A o \in X : ~ (expiresAt[o] > clock)
      BY TxStartInPast, ExpiredHoldsArePayable DEF TypeOK
    <2> HIDE DEF X
    <2> QED
      BY <2>1, <2>2 DEF CreateEffect, Payable
  <1>2. ASSUME NEW t \in TxStart, ExpireBookings(t)
        PROVE  KeepsHolds
    <2> DEFINE X == ExpiredHolds(Trip, t)
    <2>1. \A o \in X : ~ (expiresAt[o] > clock)
      BY TxStartInPast, ExpiredHoldsArePayable DEF TypeOK
    <2>2. \A b \in BookingId : bookingStatus'[b] = IF b \in X THEN "EXPIRED"
                                                                ELSE bookingStatus[b]
      BY <1>2 DEF ExpireBookings
    <2> QED
      BY <2>1, <2>2
  <1>3. ASSUME NEW b \in BookingId, CancelBooking(b) \/ ConfirmBookingPaid(b)
        PROVE  KeepsHolds
    BY <1>3 DEF CancelBooking, ConfirmBookingPaid, TypeOK
  <1>4. CASE UNCHANGED bookingStatus
    BY <1>4
  <1> QED
    BY <1>1, <1>2, <1>3, <1>4 DEF Next, BookingNext, CheckInSeat, TripTransition, SwitchTrip, Tick,
       vars, bookingVars

\* No hold is taken away before its expiry.
THEOREM HoldsAreHonoured == Spec => HoldHonoured
  <1>1. TypeOK /\ [Next]_vars => [KeepsHolds]_vars
    BY StepKeepsHolds
  <1> QED
    BY <1>1, TypeCorrect, PTL DEF Spec, HoldHonoured

\* No live idempotency record is re-pointed.
THEOREM LiveClaimsKept == Spec => ClaimKeptWhileLive
  <1>1. ASSUME TypeOK, [Next]_vars
        PROVE  KeepsLiveClaims
    <2>1. ASSUME NEW c \in Claim, NEW tr \in Trip, NEW S \in SUBSET Seat,
                 NEW b \in BookingId, NEW t \in TxStart, CreateBooking(c, tr, S, b, t)
          PROVE  KeepsLiveClaims
      <3>1. t \in Nat /\ t <= clock /\ clock \in Nat
        BY <1>1, TxStartInPast DEF TypeOK
      <3>2. idempotency[c].expiresAt <= t
        BY <2>1 DEF CreateBooking, ClaimOutcome
      <3>3. idempotency[c].expiresAt \in Nat
        BY <1>1 DEF TypeOK
      <3>4. \A d \in Claim \ {c} : idempotency'[d] = idempotency[d]
        BY <1>1, <2>1 DEF CreateBooking, TypeOK
      <3> QED
        BY <3>1, <3>2, <3>3, <3>4 DEF KeepsLiveClaims
    <2>2. CASE UNCHANGED idempotency
      BY <2>2 DEF KeepsLiveClaims
    <2> QED
      BY <1>1, <2>1, <2>2 DEF Next, BookingNext, ExpireBookings, CancelBooking, ConfirmBookingPaid,
         CheckInSeat, TripTransition, SwitchTrip, Tick, vars, bookingVars
  <1>2. TypeOK /\ [Next]_vars => [KeepsLiveClaims]_vars
    BY <1>1
  <1> QED
    BY <1>2, TypeCorrect, PTL DEF Spec, ClaimKeptWhileLive
-----------------------------------------------------------------------------
(***************************************************************************)
(* What the booking engine and a confirmation leave of sold seats.         *)
(***************************************************************************)

\* The booking and its seats are left alone once it is confirmed, and nobody but
\* the tickets boards.
KeepsSold ==
    \A b \in BookingId, s \in Seat :
        /\ bookingStatus[b] = "CONFIRMED" =>
                bookingStatus'[b] = "CONFIRMED" /\ seatStatus'[b][s] = seatStatus[b][s]
        /\ seatStatus'[b][s] = "CHECKED_IN" => seatStatus[b][s] = "CHECKED_IN"

\* Neither a sweep, a cancellation, a creation nor a confirmation touches sold seats.
LEMMA BookingKeepsSold ==
    ASSUME TypeOK, BookingNext \/ (\E b \in BookingId : ConfirmBookingPaid(b)) \/ UNCHANGED vars
    PROVE  KeepsSold
  <1> USE DEF KeepsSold
  <1>1. ASSUME NEW c \in Claim, NEW tr \in Trip, NEW S \in SUBSET Seat,
               NEW b \in BookingId, NEW t \in TxStart, CreateBooking(c, tr, S, b, t)
        PROVE  KeepsSold
    <2> DEFINE X == ExpiredHolds({tr}, t)
    <2>1. /\ CreateEffect(tr, S, b, X)
          /\ \A o \in X : bookingStatus[o] \in Payable
      BY <1>1, CreateShape, ExpiredHoldsArePayable
    <2> HIDE DEF X
    <2> QED
      BY <2>1 DEF CreateEffect, Payable
  <1>2. ASSUME NEW t \in TxStart, ExpireBookings(t)
        PROVE  KeepsSold
    <2> DEFINE X == ExpiredHolds(Trip, t)
    <2>1. \A b \in BookingId :
             /\ bookingStatus'[b] = IF b \in X THEN "EXPIRED" ELSE bookingStatus[b]
             /\ \A s \in Seat : seatStatus'[b][s] =
                    IF b \in X /\ seatStatus[b][s] = "HELD" THEN "RELEASED"
                                                            ELSE seatStatus[b][s]
      BY <1>2, ReleasedSeatsShape DEF ExpireBookings
    <2>2. \A b \in X : bookingStatus[b] \in Payable
      BY ExpiredHoldsArePayable
    <2> QED
      BY <2>1, <2>2 DEF Payable
  <1>3. ASSUME NEW b \in BookingId, CancelBooking(b) \/ ConfirmBookingPaid(b)
        PROVE  KeepsSold
    <2>1. \A o \in BookingId \ {b} : bookingStatus'[o] = bookingStatus[o]
                                       /\ seatStatus'[o] = seatStatus[o]
      BY <1>3 DEF CancelBooking, ConfirmBookingPaid, TypeOK
    <2>2. seatStatus'[b] = CancelledSeats(b) \/ seatStatus'[b] = ConfirmedSeats(b)
      BY <1>3 DEF CancelBooking, ConfirmBookingPaid, TypeOK
    <2>3. \A s \in Seat : seatStatus'[b][s] = "CHECKED_IN" => seatStatus[b][s] = "CHECKED_IN"
      BY <2>2 DEF CancelledSeats, ConfirmedSeats
    <2>4. bookingStatus[b] \in Payable
      BY <1>3 DEF CancelBooking, ConfirmBookingPaid
    <2> QED
      BY <2>1, <2>3, <2>4 DEF Payable
  <1>4. ASSUME NEW tr \in Trip, TripTransition(tr) \/ SwitchTrip(tr)
        PROVE  KeepsSold
    BY <1>4 DEF TripTransition, SwitchTrip, bookingVars
  <1>5. CASE Tick \/ UNCHANGED vars
    BY <1>5 DEF Tick, vars, bookingVars
  <1> QED
    BY <1>1, <1>2, <1>3, <1>4, <1>5 DEF BookingNext

-----------------------------------------------------------------------------
(***************************************************************************)
(* The events.  That they count what happened is seen booking by booking:  *)
(* a step moves a booking along one edge of its life and appends the one   *)
(* event of that edge, or does neither.                                    *)
(***************************************************************************)
BoardedSeats(b) == {s \in Seat : seatStatus[b][s] = "CHECKED_IN"}

\* Booking b gets one more event of a type, or none of any.
OneMore(b, type) ==
    \A e \in EventType : bookingEvents'[b][e] = IF e = type THEN bookingEvents[b][e] + 1
                                                            ELSE bookingEvents[b][e]
NoMore(b) == \A e \in EventType : bookingEvents'[b][e] = bookingEvents[b][e]

\* The edges of a booking's life.
LifeStep(b) ==
    \/ bookingStatus'[b] = bookingStatus[b] /\ NoMore(b) /\ BoardedSeats(b)' = BoardedSeats(b)
    \/ /\ bookingStatus[b] = "NONE" /\ bookingStatus'[b] = "HELD"
       /\ OneMore(b, "BOOKING_CREATED") /\ BoardedSeats(b)' = BoardedSeats(b)
    \/ /\ bookingStatus[b] \in Payable /\ bookingStatus'[b] = "EXPIRED"
       /\ OneMore(b, "EXPIRED") /\ BoardedSeats(b)' = BoardedSeats(b)
    \/ /\ bookingStatus[b] \in Payable /\ bookingStatus'[b] = "CANCELLED"
       /\ OneMore(b, "CANCELLED") /\ BoardedSeats(b)' = BoardedSeats(b)
    \/ /\ bookingStatus[b] \in Payable /\ bookingStatus'[b] = "CONFIRMED"
       /\ NoMore(b) /\ BoardedSeats(b)' = BoardedSeats(b)
    \/ /\ bookingStatus'[b] = bookingStatus[b] /\ OneMore(b, "CHECKED_IN")
       /\ \E s \in Seat \ BoardedSeats(b) : BoardedSeats(b)' = BoardedSeats(b) \cup {s}

\* Appending adds one to one counter of the bookings named.
LEMMA AppendEventShape ==
    ASSUME NEW events, NEW B, NEW type \in EventType, NEW b \in BookingId,
           events \in [BookingId -> [EventType -> Nat]]
    PROVE  \A e \in EventType : AppendEvent(events, B, type)[b][e] =
                IF b \in B /\ e = type THEN events[b][e] + 1 ELSE events[b][e]
  BY DEF AppendEvent

\* Nobody but the tickets boards: the boarded seats stay the same ones.
LEMMA BoardedKept ==
    ASSUME IInv, BookingNext \/ (\E b \in BookingId : ConfirmBookingPaid(b)) \/ UNCHANGED vars
    PROVE  \A b \in BookingId : BoardedSeats(b)' = BoardedSeats(b)
  <1>1. KeepsSold
    BY BookingKeepsSold DEF IInv
  <1>2. KeepsEnded
    BY StepKeepsEnded DEF Next
  <1>3. \A b \in BookingId, s \in Seat :
           seatStatus'[b][s] = "CHECKED_IN" <=> seatStatus[b][s] = "CHECKED_IN"
    BY <1>1, <1>2 DEF KeepsSold, KeepsEnded
  <1> QED
    BY <1>3 DEF BoardedSeats

\* Every step takes every booking along one of the edges.
LEMMA StepIsLifeStep ==
    ASSUME IInv, [Next]_vars, NEW b \in BookingId
    PROVE  LifeStep(b)
  <1> USE DEF LifeStep
  <1>0. TypeOK /\ bookingEvents \in [BookingId -> [EventType -> Nat]]
    BY DEF IInv, TypeOK
  <1>e. {"BOOKING_CREATED", "CANCELLED", "EXPIRED", "CHECKED_IN"} = EventType
    BY DEF EventType
  <1>1. ASSUME NEW c \in Claim, NEW tr \in Trip, NEW S \in SUBSET Seat,
               NEW o \in BookingId, NEW t \in TxStart, CreateBooking(c, tr, S, o, t)
        PROVE  LifeStep(b)
    <2> DEFINE X == ExpiredHolds({tr}, t)
    <2>1. /\ CreateEffect(tr, S, o, X)
          /\ \A x \in X : bookingStatus[x] \in Payable
          /\ BoardedSeats(b)' = BoardedSeats(b)
      <3>1. BookingNext
        BY <1>1 DEF BookingNext
      <3> QED
        BY <1>0, <1>1, <3>1, CreateShape, ExpiredHoldsArePayable, BoardedKept
    <2>2. bookingEvents' = AppendEvent(AppendEvent(bookingEvents, X, "EXPIRED"), {o},
                                       "BOOKING_CREATED")
      BY <1>1 DEF CreateBooking, CreateEvents
    <2> HIDE DEF X
    <2> DEFINE swept == AppendEvent(bookingEvents, X, "EXPIRED")
    <2>3. swept \in [BookingId -> [EventType -> Nat]]
      BY <1>0, <1>e, AppendEventType
    <2>4. \A e \in EventType : swept[b][e] =
             IF b \in X /\ e = "EXPIRED" THEN bookingEvents[b][e] + 1 ELSE bookingEvents[b][e]
      BY <1>0, <1>e, AppendEventShape
    <2>5. \A e \in EventType : bookingEvents'[b][e] =
             IF b \in {o} /\ e = "BOOKING_CREATED" THEN swept[b][e] + 1 ELSE swept[b][e]
      <3>1. \A e \in EventType : AppendEvent(swept, {o}, "BOOKING_CREATED")[b][e] =
               IF b \in {o} /\ e = "BOOKING_CREATED" THEN swept[b][e] + 1 ELSE swept[b][e]
        BY <1>e, <2>3, AppendEventShape
      <3> QED
        BY <2>2, <3>1
    <2> HIDE DEF swept
    <2>6. CASE b = o
      BY <2>1, <2>4, <2>5, <2>6 DEF CreateEffect, OneMore
    <2>7. CASE b # o /\ b \in X
      BY <2>1, <2>4, <2>5, <2>7 DEF CreateEffect, OneMore
    <2>8. CASE b # o /\ b \notin X
      BY <2>1, <2>4, <2>5, <2>8 DEF CreateEffect, NoMore
    <2> QED
      BY <2>6, <2>7, <2>8
  <1>2. ASSUME NEW t \in TxStart, ExpireBookings(t)
        PROVE  LifeStep(b)
    <2> DEFINE X == ExpiredHolds(Trip, t)
    <2>1. /\ bookingStatus'[b] = IF b \in X THEN "EXPIRED" ELSE bookingStatus[b]
          /\ bookingEvents' = AppendEvent(bookingEvents, X, "EXPIRED")
          /\ \A x \in X : bookingStatus[x] \in Payable
      BY <1>2, ExpiredHoldsArePayable DEF ExpireBookings
    <2>2. BoardedSeats(b)' = BoardedSeats(b)
      BY <1>2, BoardedKept DEF BookingNext
    <2> HIDE DEF X
    <2>3. \A e \in EventType : bookingEvents'[b][e] =
             IF b \in X /\ e = "EXPIRED" THEN bookingEvents[b][e] + 1 ELSE bookingEvents[b][e]
      BY <1>0, <1>e, <2>1, AppendEventShape
    <2> QED
      BY <2>1, <2>2, <2>3 DEF OneMore, NoMore
  <1>3. ASSUME NEW o \in BookingId, CancelBooking(o)
        PROVE  LifeStep(b)
    <2>1. /\ bookingStatus[o] \in Payable
          /\ bookingStatus'[b] = IF b = o THEN "CANCELLED" ELSE bookingStatus[b]
          /\ bookingEvents' = AppendEvent(bookingEvents, {o}, "CANCELLED")
      BY <1>0, <1>3 DEF CancelBooking, TypeOK
    <2>2. BoardedSeats(b)' = BoardedSeats(b)
      BY <1>3, BoardedKept DEF BookingNext
    <2>3. \A e \in EventType : bookingEvents'[b][e] =
             IF b \in {o} /\ e = "CANCELLED" THEN bookingEvents[b][e] + 1 ELSE bookingEvents[b][e]
      BY <1>0, <1>e, <2>1, AppendEventShape
    <2> QED
      BY <2>1, <2>2, <2>3 DEF OneMore, NoMore
  <1>4. ASSUME NEW o \in BookingId, ConfirmBookingPaid(o)
        PROVE  LifeStep(b)
    <2>1. /\ bookingStatus[o] \in Payable /\ UNCHANGED bookingEvents
          /\ bookingStatus'[b] = IF b = o THEN "CONFIRMED" ELSE bookingStatus[b]
      BY <1>0, <1>4 DEF ConfirmBookingPaid, TypeOK
    <2>2. BoardedSeats(b)' = BoardedSeats(b)
      BY <1>4, BoardedKept
    <2> QED
      BY <2>1, <2>2 DEF NoMore
  <1>5. ASSUME NEW o \in BookingId, NEW s \in Seat, CheckInSeat(o, s)
        PROVE  LifeStep(b)
    <2>1. /\ seatStatus[o][s] = "CONFIRMED" /\ UNCHANGED bookingStatus
          /\ \A u \in Seat : seatStatus'[b][u] =
                IF b = o /\ u = s THEN "CHECKED_IN" ELSE seatStatus[b][u]
          /\ bookingEvents' = AppendEvent(bookingEvents, {o}, "CHECKED_IN")
      BY <1>0, <1>5 DEF CheckInSeat, TypeOK
    <2>2. \A e \in EventType : bookingEvents'[b][e] =
             IF b \in {o} /\ e = "CHECKED_IN" THEN bookingEvents[b][e] + 1 ELSE bookingEvents[b][e]
      BY <1>0, <1>e, <2>1, AppendEventShape
    <2>3. CASE b = o
      <3>1. s \notin BoardedSeats(b) /\ BoardedSeats(b)' = BoardedSeats(b) \cup {s}
        BY <2>1, <2>3 DEF BoardedSeats
      <3> QED
        BY <2>1, <2>2, <2>3, <3>1 DEF OneMore
    <2>4. CASE b # o
      <3>1. BoardedSeats(b)' = BoardedSeats(b)
        BY <2>1, <2>4 DEF BoardedSeats
      <3> QED
        BY <2>1, <2>2, <2>4, <3>1 DEF NoMore
    <2> QED
      BY <2>3, <2>4
  <1>6. CASE UNCHANGED bookingVars
    BY <1>6 DEF bookingVars, NoMore, BoardedSeats
  <1> QED
    BY <1>1, <1>2, <1>3, <1>4, <1>5, <1>6
       DEF Next, BookingNext, TripTransition, SwitchTrip, Tick, vars

\* A booking that is not confirmed has no boarded seat.
LEMMA BoardedIsConfirmed ==
    ASSUME IInv, NEW b \in BookingId, bookingStatus[b] # "CONFIRMED"
    PROVE  BoardedSeats(b) = {}
  <1>1. SeatsOf(bookingStatus[b]) \subseteq {"HELD", "RELEASED", "CANCELLED"}
    BY SeatsOfCases DEF IInv, TypeOK, BookingStatus, Payable
  <1> QED
    BY <1>1 DEF BoardedSeats, IInv, SeatsFollowBooking

\* The events tell the status again after every step.
LEMMA NextEventsTellStatus ==
    ASSUME IInv, EventsTellStatus, [Next]_vars
    PROVE  EventsTellStatus'
  <1> SUFFICES ASSUME NEW b \in BookingId
      PROVE  /\ bookingEvents'[b]["BOOKING_CREATED"] = IF bookingStatus'[b] # "NONE" THEN 1 ELSE 0
             /\ bookingEvents'[b]["EXPIRED"] = IF bookingStatus'[b] = "EXPIRED" THEN 1 ELSE 0
             /\ bookingEvents'[b]["CANCELLED"] = IF bookingStatus'[b] = "CANCELLED" THEN 1 ELSE 0
             /\ bookingEvents'[b]["CHECKED_IN"] = Cardinality(BoardedSeats(b)')
    BY DEF EventsTellStatus, BoardedSeats
  <1>1. /\ bookingEvents[b]["BOOKING_CREATED"] = IF bookingStatus[b] # "NONE" THEN 1 ELSE 0
        /\ bookingEvents[b]["EXPIRED"] = IF bookingStatus[b] = "EXPIRED" THEN 1 ELSE 0
        /\ bookingEvents[b]["CANCELLED"] = IF bookingStatus[b] = "CANCELLED" THEN 1 ELSE 0
        /\ bookingEvents[b]["CHECKED_IN"] = Cardinality(BoardedSeats(b))
    BY DEF EventsTellStatus, BoardedSeats
  <1>2. LifeStep(b)
    BY StepIsLifeStep
  <1>3. ASSUME NEW s \in Seat \ BoardedSeats(b)
        PROVE  Cardinality(BoardedSeats(b) \cup {s}) = Cardinality(BoardedSeats(b)) + 1
    <2>1. IsFiniteSet(BoardedSeats(b))
      BY FS_Subset, ConstantsOK DEF ConstantsOK, BoardedSeats
    <2> QED
      BY <2>1, FS_AddElement
  <1> QED
    BY <1>1, <1>2, <1>3 DEF LifeStep, OneMore, NoMore, EventType, Payable

\* booking_events tells how every booking came to its status, in every reachable
\* state: one creation, at most one end, one check-in per boarded seat.
THEOREM EventsAreTrue == Spec => []EventsTellStatus
  <1>1. Init => EventsTellStatus
    <2> SUFFICES ASSUME Init PROVE EventsTellStatus
      OBVIOUS
    <2>1. \A b \in BookingId : {s \in Seat : seatStatus[b][s] = "CHECKED_IN"} = {}
      BY DEF Init
    <2> QED
      BY <2>1, FS_EmptySet DEF Init, EventsTellStatus, EventType
  <1>2. (IInv /\ EventsTellStatus) /\ [Next]_vars => (IInv /\ EventsTellStatus)'
    BY NextIInv, NextEventsTellStatus
  <1> QED
    BY <1>1, <1>2, InitIInv, PTL DEF Spec

-----------------------------------------------------------------------------
(***************************************************************************)
(* Replays.  A record's booking exists from the commit that wrote both and *)
(* keeps its trip and its seats for ever, so that an id a creation uses is *)
(* named by no record yet.                                                 *)
(***************************************************************************)
ClaimsExist ==
    \A c \in Claim : idempotency[c].booking # NoBooking =>
        bookingStatus[idempotency[c].booking] # "NONE"

\* No step moves an existing booking to another trip or gives it other seats.
KeepsRequest ==
    \A b \in BookingId : bookingStatus[b] # "NONE" =>
        /\ bookingStatus'[b] # "NONE" /\ bookingTrip'[b] = bookingTrip[b]
        /\ \A s \in Seat : seatStatus'[b][s] # "NONE" <=> seatStatus[b][s] # "NONE"

\* Every step keeps what existing bookings were made for.
LEMMA StepKeepsRequest ==
    ASSUME TypeOK, [Next]_vars
    PROVE  KeepsRequest
  <1> USE DEF KeepsRequest
  <1>1. ASSUME NEW c \in Claim, NEW tr \in Trip, NEW S \in SUBSET Seat,
               NEW b \in BookingId, NEW t \in TxStart, CreateBooking(c, tr, S, b, t)
        PROVE  KeepsRequest
    <2> DEFINE X == ExpiredHolds({tr}, t)
    <2>1. CreateEffect(tr, S, b, X)
      BY <1>1, CreateShape
    <2> HIDE DEF X
    <2> QED
      BY <2>1 DEF CreateEffect
  <1>2. ASSUME NEW t \in TxStart, ExpireBookings(t)
        PROVE  KeepsRequest
    BY <1>2, ReleasedSeatsShape DEF ExpireBookings
  <1>3. ASSUME NEW b \in BookingId, CancelBooking(b) \/ ConfirmBookingPaid(b)
        PROVE  KeepsRequest
    <2>1. UNCHANGED bookingTrip /\ bookingStatus'[b] # "NONE"
      BY <1>3 DEF CancelBooking, ConfirmBookingPaid, TypeOK
    <2>2. \A o \in BookingId \ {b} : bookingStatus'[o] = bookingStatus[o]
                                       /\ seatStatus'[o] = seatStatus[o]
      BY <1>3 DEF CancelBooking, ConfirmBookingPaid, TypeOK
    <2>3. seatStatus'[b] = CancelledSeats(b) \/ seatStatus'[b] = ConfirmedSeats(b)
      BY <1>3 DEF CancelBooking, ConfirmBookingPaid, TypeOK
    <2>4. \A s \in Seat : seatStatus'[b][s] # "NONE" <=> seatStatus[b][s] # "NONE"
      BY <2>3 DEF CancelledSeats, ConfirmedSeats
    <2> QED
      BY <2>1, <2>2, <2>4
  <1>4. ASSUME NEW b \in BookingId, NEW s \in Seat, CheckInSeat(b, s)
        PROVE  KeepsRequest
    BY <1>4 DEF CheckInSeat, TypeOK
  <1>5. CASE UNCHANGED bookingVars
    BY <1>5 DEF bookingVars
  <1> QED
    BY <1>1, <1>2, <1>3, <1>4, <1>5
       DEF Next, BookingNext, TripTransition, SwitchTrip, Tick, vars

\* A creation completes its claim for what it created; no other step writes a record.
LEMMA NextReplay ==
    ASSUME TypeOK, ClaimsExist, ReplayAnswersTheRequest, [Next]_vars
    PROVE  (ClaimsExist /\ ReplayAnswersTheRequest)'
  <1>1. KeepsRequest
    BY StepKeepsRequest
  <1>2. \A d \in Claim : idempotency[d].booking \in BookingId \cup {NoBooking}
    BY DEF TypeOK
  <1>3. ASSUME UNCHANGED idempotency
        PROVE  (ClaimsExist /\ ReplayAnswersTheRequest)'
    <2>1. ClaimsExist'
      BY <1>1, <1>2, <1>3 DEF ClaimsExist, KeepsRequest
    <2>2. ASSUME NEW c \in Claim, idempotency[c].expiresAt > 0
          PROVE  /\ bookingTrip'[idempotency[c].booking] = idempotency[c].trip
                 /\ {s \in Seat : seatStatus'[idempotency[c].booking][s] # "NONE"}
                        = idempotency[c].seats
      <3>1. PICK b \in BookingId : b = idempotency[c].booking
        BY <2>2 DEF ReplayAnswersTheRequest
      <3>2. bookingStatus[b] # "NONE"
        BY <3>1, ConstantsOK DEF ConstantsOK, ClaimsExist
      <3> QED
        BY <1>1, <2>2, <3>1, <3>2 DEF KeepsRequest, ReplayAnswersTheRequest
    <2>3. ReplayAnswersTheRequest'
      BY <1>3, <2>2 DEF ReplayAnswersTheRequest
    <2> QED
      BY <2>1, <2>3
  <1>4. ASSUME NEW c \in Claim, NEW tr \in Trip, NEW S \in SUBSET Seat,
               NEW b \in BookingId, NEW t \in TxStart, CreateBooking(c, tr, S, b, t)
        PROVE  (ClaimsExist /\ ReplayAnswersTheRequest)'
    <2>1. /\ bookingStatus[b] = "NONE" /\ bookingStatus'[b] = "HELD" /\ bookingTrip'[b] = tr
          /\ \A s \in Seat : seatStatus'[b][s] = IF s \in S THEN "HELD" ELSE "NONE"
      <3> DEFINE X == ExpiredHolds({tr}, t)
      <3>1. CreateEffect(tr, S, b, X)
        BY <1>4, CreateShape
      <3> HIDE DEF X
      <3> QED
        BY <3>1 DEF CreateEffect
    <2>2. /\ idempotency'[c].booking = b /\ idempotency'[c].trip = tr
          /\ idempotency'[c].seats = S
          /\ \A d \in Claim \ {c} : idempotency'[d] = idempotency[d]
      BY <1>4 DEF CreateBooking, CompletedClaim, TypeOK
    <2>3. \A d \in Claim : idempotency[d].booking # b
      BY <2>1, ConstantsOK DEF ConstantsOK, ClaimsExist
    <2>4. ClaimsExist'
      BY <1>1, <1>2, <2>1, <2>2 DEF ClaimsExist, KeepsRequest
    <2>5. {s \in Seat : seatStatus'[b][s] # "NONE"} = S
      BY <2>1
    <2>6. ASSUME NEW d \in Claim \ {c}, idempotency[d].expiresAt > 0
          PROVE  /\ idempotency[d].booking \in BookingId
                 /\ bookingTrip'[idempotency[d].booking] = idempotency[d].trip
                 /\ {s \in Seat : seatStatus'[idempotency[d].booking][s] # "NONE"}
                        = idempotency[d].seats
      <3>1. PICK o \in BookingId : o = idempotency[d].booking
        BY <2>6 DEF ReplayAnswersTheRequest
      <3>2. bookingStatus[o] # "NONE"
        BY <3>1, ConstantsOK DEF ConstantsOK, ClaimsExist
      <3> QED
        BY <1>1, <2>6, <3>1, <3>2 DEF KeepsRequest, ReplayAnswersTheRequest
    <2>7. ASSUME NEW d \in Claim, idempotency'[d].expiresAt > 0
          PROVE  /\ idempotency'[d].booking \in BookingId
                 /\ bookingTrip'[idempotency'[d].booking] = idempotency'[d].trip
                 /\ {s \in Seat : seatStatus'[idempotency'[d].booking][s] # "NONE"}
                        = idempotency'[d].seats
                 /\ \A e \in Claim \ {d} : idempotency'[e].booking # idempotency'[d].booking
      <3>1. CASE d = c
        BY <2>1, <2>2, <2>3, <2>5, <3>1
      <3>2. CASE d # c
        BY <2>2, <2>3, <2>6, <2>7, <3>2 DEF ReplayAnswersTheRequest
      <3> QED
        BY <3>1, <3>2
    <2>8. ReplayAnswersTheRequest'
      BY <2>7 DEF ReplayAnswersTheRequest
    <2> QED
      BY <2>4, <2>8
  <1> QED
    BY <1>3, <1>4 DEF Next, BookingNext, ExpireBookings, CancelBooking, ConfirmBookingPaid,
       CheckInSeat, TripTransition, SwitchTrip, Tick, vars, bookingVars

\* A retry under a completed record is answered with the booking of its own request,
\* whatever has become of the booking, and no two records name one booking.
THEOREM ReplaysAreTrue == Spec => []ReplayAnswersTheRequest
  <1>1. Init => ClaimsExist /\ ReplayAnswersTheRequest
    BY DEF Init, ClaimsExist, ReplayAnswersTheRequest
  <1>2. /\ TypeOK /\ ClaimsExist /\ ReplayAnswersTheRequest
        /\ [Next]_vars
        => (TypeOK /\ ClaimsExist /\ ReplayAnswersTheRequest)'
    BY NextTypeOK, NextReplay
  <1> QED
    BY <1>1, <1>2, InitTypeOK, PTL DEF Spec
=============================================================================
