------------------------------- MODULE Bookings -------------------------------
(***************************************************************************)
(* The booking engine: seat holds, their expiry and cancellation, and the  *)
(* idempotent creation of bookings.                                        *)
(*                                                                         *)
(* One action is one database transaction of the backend, taken at the     *)
(* moment it commits.  Each transaction locks the rows it decides on (the  *)
(* trip FOR SHARE, the booking FOR UPDATE, the idempotency row), so what   *)
(* it read is still so when it commits -- with one exception the model     *)
(* keeps: now() is the time the transaction STARTED, so a transaction that *)
(* waited works with a time up to TxLag in the past.  A call that fails is *)
(* rolled back and changes nothing: it is a stuttering step.               *)
(*                                                                         *)
(* ConfirmBookingPaid and CheckInSeat are the two writes other modules     *)
(* make to these tables (payments and tickets).  The events payments       *)
(* append to booking_events are kept in module Payments.                   *)
(*                                                                         *)
(* X_Mutant, placed before X, is X with a plausible slip; it is used to    *)
(* confirm that a property would notice.                                   *)
(***************************************************************************)
EXTENDS Integers, FiniteSets

CONSTANTS
    Trip,             \* trips of the company
    Seat,             \* seat labels
    Layout,           \* Layout[trip]: the labels of the trip's bus layout
    BoardingClosesAt, \* BoardingClosesAt[trip]: trips.boarding_closes_at
    BookingId,        \* identifiers bookings may get
    NoBooking,        \* idempotency_records.booking_id IS NULL
    Claim,            \* (company, actor, operation, key) of an idempotent call
    MaxPassengers,    \* passengers a request may name (20 in the code)
    Hold,             \* company_settings.seat_hold_minutes
    ClaimWindow,      \* the 24 hours an idempotency record lives
    TxLag,            \* bound: how far now() may lag behind the commit
    MaxClock          \* bound: the last moment explored

ASSUME ConstantsOK ==
    /\ Trip # {}
    /\ Layout \in [Trip -> SUBSET Seat]
    /\ BoardingClosesAt \in [Trip -> Nat]
    /\ IsFiniteSet(Seat)
    /\ NoBooking \notin BookingId
    /\ Hold \in Nat \ {0}
    /\ ClaimWindow \in Nat \ {0}
    /\ MaxPassengers \in Nat
    /\ TxLag \in Nat
    /\ MaxClock \in Nat

VARIABLES
    clock,
    tripStatus,     \* trips.status
    tripOpen,       \* trip, company, route, stations and bus all active
    bookingStatus,  \* bookings.status; "NONE" while the id is unused
    bookingTrip,    \* bookings.trip_id
    expiresAt,      \* bookings.expires_at
    seatStatus,     \* seat_reservations.status by booking and seat label
    heldUntil,      \* seat_reservations.held_until, by booking
    idempotency,    \* idempotency_records, by claim
    bookingEvents   \* booking_events: how many of each type, by booking

tripVars == <<tripStatus, tripOpen>>
bookingVars == <<bookingStatus, bookingTrip, expiresAt, seatStatus, heldUntil,
                 idempotency, bookingEvents>>
vars == <<clock, tripVars, bookingVars>>

TripStatus == {"SCHEDULED", "ONGOING", "COMPLETED", "CANCELLED"}
BookingStatus == {"HELD", "PENDING_PAYMENT", "CONFIRMED", "CANCELLED", "EXPIRED"}
SeatStatus == {"HELD", "CONFIRMED", "CHECKED_IN", "RELEASED", "CANCELLED"}
EventType == {"BOOKING_CREATED", "CANCELLED", "EXPIRED", "CHECKED_IN"}

\* The statuses a booking may be cancelled, expired or confirmed from.
Payable == {"HELD", "PENDING_PAYMENT"}

\* The statuses the unique index uq_active_seat_per_trip counts.
ActiveSeat_Mutant == {"CONFIRMED", "CHECKED_IN"}
ActiveSeat == {"HELD", "CONFIRMED", "CHECKED_IN"}

TypeOK ==
    /\ clock \in Nat
    /\ tripStatus \in [Trip -> TripStatus]
    /\ tripOpen \in [Trip -> BOOLEAN]
    /\ bookingStatus \in [BookingId -> BookingStatus \cup {"NONE"}]
    /\ bookingTrip \in [BookingId -> Trip]
    /\ expiresAt \in [BookingId -> Nat]
    /\ seatStatus \in [BookingId -> [Seat -> SeatStatus \cup {"NONE"}]]
    /\ heldUntil \in [BookingId -> Nat]
    /\ idempotency \in [Claim -> [booking : BookingId \cup {NoBooking},
                                  trip : Trip, seats : SUBSET Seat,
                                  expiresAt : Nat]]
    /\ bookingEvents \in [BookingId -> [EventType -> Nat]]

(***************************************************************************)
(* The state before the first booking.  A claim with no row is one whose   *)
(* record has expired: both may be claimed.                                *)
(***************************************************************************)
Init ==
    /\ clock = 0
    /\ tripStatus = [tr \in Trip |-> "SCHEDULED"]
    /\ tripOpen = [tr \in Trip |-> TRUE]
    /\ bookingStatus = [b \in BookingId |-> "NONE"]
    /\ bookingTrip = [b \in BookingId |-> CHOOSE tr \in Trip : TRUE]
    /\ expiresAt = [b \in BookingId |-> 0]
    /\ seatStatus = [b \in BookingId |-> [s \in Seat |-> "NONE"]]
    /\ heldUntil = [b \in BookingId |-> 0]
    /\ idempotency = [c \in Claim |-> [booking |-> NoBooking,
                                       trip |-> CHOOSE tr \in Trip : TRUE,
                                       seats |-> {}, expiresAt |-> 0]]
    /\ bookingEvents = [b \in BookingId |-> [e \in EventType |-> 0]]

-----------------------------------------------------------------------------
\* now() of a transaction that commits at this moment.
TxStart == {t \in 0 .. clock : clock - t <= TxLag}

\* Append one event of a type to each booking of a set.
AppendEvent(events, B, type) ==
    [b \in BookingId |->
        IF b \in B THEN [events[b] EXCEPT ![type] = @ + 1] ELSE events[b]]

(***************************************************************************)
(* Expiry: the bookings a sweep at time t flips, and the seats it frees.   *)
(***************************************************************************)
ExpiredHolds_Mutant(trips, t) ==
    {b \in BookingId : /\ bookingTrip[b] \in trips
                       /\ bookingStatus[b] \in Payable
                       /\ expiresAt[b] <= t + 1}

ExpiredHolds(trips, t) ==
    {b \in BookingId : /\ bookingTrip[b] \in trips
                       /\ bookingStatus[b] \in Payable
                       /\ expiresAt[b] <= t}

\* The booking's new status written to its seats.

ReleasedSeats(X) ==
    [b \in BookingId |-> [s \in Seat |->
        IF b \in X /\ seatStatus[b][s] = "HELD" THEN "RELEASED"
                                                ELSE seatStatus[b][s]]]

\* The unique index: no active reservation of the seat on the trip is left
\* once the sweep has released the holds of X.
SeatFree(tr, s, X) ==
    \A b \in BookingId : bookingTrip[b] = tr => ReleasedSeats(X)[b][s] \notin ActiveSeat

ExpireBookings(t) ==
    LET X == ExpiredHolds(Trip, t) IN
    /\ X # {}
    /\ bookingStatus' = [b \in BookingId |-> IF b \in X THEN "EXPIRED"
                                                        ELSE bookingStatus[b]]
    /\ seatStatus' = ReleasedSeats(X)
    /\ bookingEvents' = AppendEvent(bookingEvents, X, "EXPIRED")
    /\ UNCHANGED <<clock, tripVars, bookingTrip, expiresAt, heldUntil, idempotency>>

(***************************************************************************)
(* Creation.  The payload a fingerprint tells apart is the trip and the    *)
(* set of seats; only a "claimed" outcome writes anything.                 *)
(***************************************************************************)

ClaimOutcome(c, tr, S, t) ==
    LET row == idempotency[c] IN
    IF row.expiresAt <= t THEN "claimed"
    ELSE IF row.trip = tr /\ row.seats = S /\ row.booking # NoBooking THEN "replay"
    ELSE "conflict"

CompletedClaim_Mutant(c, tr, S, t, b) ==
    [idempotency[c] EXCEPT !.trip = tr, !.seats = S, !.expiresAt = t + ClaimWindow]

CompletedClaim(c, tr, S, t, b) ==
    [booking |-> b, trip |-> tr, seats |-> S, expiresAt |-> t + ClaimWindow]

IsTripBookable(tr, t) ==
    /\ tripOpen[tr]
    /\ tripStatus[tr] = "SCHEDULED"
    /\ t < BoardingClosesAt[tr]

CreateEvents_Mutant(X, b) == AppendEvent(bookingEvents, {b}, "BOOKING_CREATED")

CreateEvents(X, b) ==
    AppendEvent(AppendEvent(bookingEvents, X, "EXPIRED"), {b}, "BOOKING_CREATED")

CreateBooking(c, tr, S, b, t) ==
    LET X == ExpiredHolds({tr}, t) IN
    /\ S # {} /\ Cardinality(S) <= MaxPassengers
    /\ ClaimOutcome(c, tr, S, t) = "claimed"
    /\ IsTripBookable(tr, t)
    /\ bookingStatus[b] = "NONE"
    /\ S \subseteq Layout[tr]
    /\ \A s \in S : SeatFree(tr, s, X)
    /\ bookingStatus' = [o \in BookingId |-> IF o = b THEN "HELD"
                                             ELSE IF o \in X THEN "EXPIRED"
                                             ELSE bookingStatus[o]]
    /\ bookingTrip' = [bookingTrip EXCEPT ![b] = tr]
    /\ expiresAt' = [expiresAt EXCEPT ![b] = t + Hold]
    /\ seatStatus' = [ReleasedSeats(X) EXCEPT
                        ![b] = [s \in Seat |-> IF s \in S THEN "HELD" ELSE "NONE"]]
    /\ heldUntil' = [heldUntil EXCEPT ![b] = expiresAt'[b]]
    /\ idempotency' = [idempotency EXCEPT ![c] = CompletedClaim(c, tr, S, t, b)]
    /\ bookingEvents' = CreateEvents(X, b)
    /\ UNCHANGED <<clock, tripVars>>

(***************************************************************************)
(* Cancellation by the owner or by the company.                            *)
(***************************************************************************)
CancelledSeats_Mutant(b) ==
    [s \in Seat |-> IF seatStatus[b][s] = "CONFIRMED" THEN "CANCELLED"
                                                      ELSE seatStatus[b][s]]

CancelledSeats(b) ==
    [s \in Seat |-> IF seatStatus[b][s] \in {"HELD", "CONFIRMED"} THEN "CANCELLED"
                                                                  ELSE seatStatus[b][s]]

CancelBooking(b) ==
    /\ bookingStatus[b] \in Payable
    /\ \A s \in Seat : seatStatus[b][s] # "CHECKED_IN"
    /\ bookingStatus' = [bookingStatus EXCEPT ![b] = "CANCELLED"]
    /\ seatStatus' = [seatStatus EXCEPT ![b] = CancelledSeats(b)]
    /\ bookingEvents' = AppendEvent(bookingEvents, {b}, "CANCELLED")
    /\ UNCHANGED <<clock, tripVars, bookingTrip, expiresAt, heldUntil, idempotency>>

(***************************************************************************)
(* What payments and tickets write here.  A settled payment confirms the   *)
(* booking and its held seats, whatever the clock says; a validated ticket *)
(* checks one confirmed seat in.                                           *)
(***************************************************************************)
ConfirmedSeats(b) ==
    [s \in Seat |-> IF seatStatus[b][s] = "HELD" THEN "CONFIRMED" ELSE seatStatus[b][s]]

ConfirmBookingPaid(b) ==
    /\ bookingStatus[b] \in Payable
    /\ bookingStatus' = [bookingStatus EXCEPT ![b] = "CONFIRMED"]
    /\ seatStatus' = [seatStatus EXCEPT ![b] = ConfirmedSeats(b)]
    /\ UNCHANGED <<clock, tripVars, bookingTrip, expiresAt, heldUntil, idempotency,
                   bookingEvents>>

CheckInSeat(b, s) ==
    /\ bookingStatus[b] = "CONFIRMED"
    /\ seatStatus[b][s] = "CONFIRMED"
    /\ seatStatus' = [seatStatus EXCEPT ![b][s] = "CHECKED_IN"]
    /\ bookingEvents' = AppendEvent(bookingEvents, {b}, "CHECKED_IN")
    /\ UNCHANGED <<clock, tripVars, bookingStatus, bookingTrip, expiresAt, heldUntil,
                   idempotency>>

(***************************************************************************)
(* The trip's own life and the switches of what it depends on; bookings    *)
(* are left as they are.                                                   *)
(***************************************************************************)
TripTransition(tr) ==
    \E move \in {<<"SCHEDULED", "ONGOING">>, <<"ONGOING", "COMPLETED">>,
                 <<"SCHEDULED", "CANCELLED">>} :
        /\ tripStatus[tr] = move[1]
        /\ tripStatus' = [tripStatus EXCEPT ![tr] = move[2]]
        /\ UNCHANGED <<clock, tripOpen, bookingVars>>

SwitchTrip(tr) ==
    /\ tripOpen' = [tripOpen EXCEPT ![tr] = ~ @]
    /\ UNCHANGED <<clock, tripStatus, bookingVars>>

Tick ==
    /\ clock < MaxClock
    /\ clock' = clock + 1
    /\ UNCHANGED <<tripVars, bookingVars>>

\* The transactions of the booking and trip modules, and time.
BookingNext ==
    \/ \E c \in Claim, tr \in Trip, S \in SUBSET Seat, b \in BookingId, t \in TxStart :
            CreateBooking(c, tr, S, b, t)
    \/ \E t \in TxStart : ExpireBookings(t)
    \/ \E b \in BookingId : CancelBooking(b)
    \/ \E tr \in Trip : TripTransition(tr)
    \/ \E tr \in Trip : SwitchTrip(tr)
    \/ Tick

Next ==
    \/ BookingNext
    \/ \E b \in BookingId : ConfirmBookingPaid(b)
    \/ \E b \in BookingId, s \in Seat : CheckInSeat(b, s)

Spec == Init /\ [][Next]_vars

-----------------------------------------------------------------------------
(***************************************************************************)
(* The seat map the public availability endpoint shows.                    *)
(***************************************************************************)
ShownAs_Mutant(tr, s) ==
    IF \E b \in BookingId : bookingTrip[b] = tr
                             /\ seatStatus[b][s] \in {"CONFIRMED", "CHECKED_IN"}
    THEN "BOOKED"
    ELSE IF \E b \in BookingId : bookingTrip[b] = tr /\ seatStatus[b][s] = "HELD"
                                  /\ heldUntil[b] >= clock
    THEN "HELD"
    ELSE "AVAILABLE"

ShownAs(tr, s) ==
    IF \E b \in BookingId : bookingTrip[b] = tr
                             /\ seatStatus[b][s] \in {"CONFIRMED", "CHECKED_IN"}
    THEN "BOOKED"
    ELSE IF \E b \in BookingId : bookingTrip[b] = tr /\ seatStatus[b][s] = "HELD"
                                  /\ heldUntil[b] > clock
    THEN "HELD"
    ELSE "AVAILABLE"

-----------------------------------------------------------------------------
(***************************************************************************)
(* Properties.                                                             *)
(***************************************************************************)

\* A seat of a trip is held, sold or boarded by at most one booking, through
\* every order of creations, sweeps, cancellations, confirmations and boardings
\* (the promise of uq_active_seat_per_trip, kept by the lifecycle as a whole:
\* no step may bring a freed reservation back to life).
NoDoubleBooking ==
    \A b1, b2 \in BookingId, s \in Seat :
        /\ b1 # b2 /\ bookingTrip[b1] = bookingTrip[b2]
        /\ seatStatus[b1][s] \in ActiveSeat
        => seatStatus[b2][s] \notin ActiveSeat

\* The two tables never disagree: the seats of a booking are all held while it
\* may be paid, sold or boarded once it is confirmed, released when it expired
\* and cancelled when it was cancelled; and a booking always has a seat.
SeatsOf(status) ==
    CASE status \in Payable   -> {"HELD"}
      [] status = "CONFIRMED" -> {"CONFIRMED", "CHECKED_IN"}
      [] status = "EXPIRED"   -> {"RELEASED"}
      [] status = "CANCELLED" -> {"CANCELLED"}
      [] status = "NONE"      -> {}

SeatsFollowBooking ==
    \A b \in BookingId :
        /\ \A s \in Seat : seatStatus[b][s] \in {"NONE"} \cup SeatsOf(bookingStatus[b])
        /\ bookingStatus[b] # "NONE" => \E s \in Seat : seatStatus[b][s] # "NONE"

\* booking_events tells how the booking came to its status: created once, exactly
\* one EXPIRED or CANCELLED when it has that status and none otherwise, and one
\* check-in per boarded seat.
EventsTellStatus ==
    \A b \in BookingId :
        LET n == bookingEvents[b]
            Once(p) == IF p THEN 1 ELSE 0 IN
        /\ n["BOOKING_CREATED"] = Once(bookingStatus[b] # "NONE")
        /\ n["EXPIRED"] = Once(bookingStatus[b] = "EXPIRED")
        /\ n["CANCELLED"] = Once(bookingStatus[b] = "CANCELLED")
        /\ n["CHECKED_IN"] = Cardinality({s \in Seat : seatStatus[b][s] = "CHECKED_IN"})

\* A record under which a retry would be answered always names a booking, and
\* that booking is for the trip and the seats the fingerprint stands for,
\* whatever has happened to it since; two claims never name one booking.
ReplayAnswersTheRequest ==
    \A c \in Claim : LET row == idempotency[c] IN
        row.expiresAt > 0 =>
            /\ row.booking \in BookingId
            /\ bookingTrip[row.booking] = row.trip
            /\ {s \in Seat : seatStatus[row.booking][s] # "NONE"} = row.seats
            /\ \A d \in Claim \ {c} : idempotency[d].booking # row.booking

\* What the public seat map calls available is exactly what a creation arriving
\* now can take: the view tests held_until, the creation sweeps on expires_at
\* and then meets the unique index, and the two agree at every moment.
ShownSeatIsBookable ==
    \A tr \in Trip : \A s \in Layout[tr] :
        (ShownAs(tr, s) = "AVAILABLE") <=> SeatFree(tr, s, ExpiredHolds({tr}, clock))

\* A booking that expired, was cancelled or was confirmed stays so, and a seat
\* that was freed or boarded never changes again.
KeepsEnded ==
    \A b \in BookingId :
        /\ bookingStatus[b] \in {"EXPIRED", "CANCELLED", "CONFIRMED"} =>
                bookingStatus'[b] = bookingStatus[b]
        /\ \A s \in Seat : seatStatus[b][s] \in {"RELEASED", "CANCELLED", "CHECKED_IN"} =>
                seatStatus'[b][s] = seatStatus[b][s]

EndedForGood == [][KeepsEnded]_vars

\* A hold is honoured: before its expiry only its own payment or cancellation
\* ends it, even when the transaction that sweeps started late or waited.
KeepsHolds ==
    \A b \in BookingId :
        bookingStatus[b] \in Payable /\ expiresAt[b] > clock =>
            bookingStatus'[b] \in Payable \cup {"CONFIRMED", "CANCELLED"}

HoldHonoured == [][KeepsHolds]_vars

\* A live idempotency record is never re-pointed: a second booking under the
\* same claim needs the first record's window to be over.
KeepsLiveClaims ==
    \A c \in Claim :
        idempotency[c].expiresAt > clock => idempotency'[c] = idempotency[c]

ClaimKeptWhileLive == [][KeepsLiveClaims]_vars

-----------------------------------------------------------------------------
(***************************************************************************)
(* The booking tables implement the seat map.                              *)
(***************************************************************************)
Owns(b, p) == bookingTrip[b] = p[1] /\ seatStatus[b][p[2]] \in ActiveSeat

SeatOwner == [p \in Trip \X Seat |->
                IF \E b \in BookingId : Owns(b, p)
                THEN CHOOSE b \in BookingId : Owns(b, p) ELSE NoBooking]
SoldBookings == {b \in BookingId : bookingStatus[b] = "CONFIRMED"}
EndedBookings == {b \in BookingId : bookingStatus[b] \in {"EXPIRED", "CANCELLED"}}
BoardedPlaces == {p \in Trip \X Seat : \E b \in BookingId :
                    bookingTrip[b] = p[1] /\ seatStatus[b][p[2]] = "CHECKED_IN"}

Map == INSTANCE SeatMap WITH Nobody <- NoBooking, owner <- SeatOwner,
            sold <- SoldBookings, ended <- EndedBookings, boarded <- BoardedPlaces

\* Every transaction on the tables is one step of the abstract seat map, or
\* none: whole bookings take, give back or keep their seats, at once.
ImplementsSeatMap == Map!Spec
=============================================================================
