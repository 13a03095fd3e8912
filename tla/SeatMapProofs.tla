----------------------------- MODULE SeatMapProofs ----------------------------
(***************************************************************************)
(* The booking tables implement the seat map, for every set of trips,      *)
(* seats and bookings: every transaction is one abstract step or none.     *)
(***************************************************************************)
EXTENDS BookingsProofs

-----------------------------------------------------------------------------
(***************************************************************************)
(* The refinement mapping, point by point.                                 *)
(***************************************************************************)

\* A place is owned by the booking with an active reservation of it, if any.
OwnerExact ==
    \A p \in Trip \X Seat :
        /\ SeatOwner[p] \in BookingId \cup {NoBooking}
        /\ \A b \in BookingId : (SeatOwner[p] = b) <=> Owns(b, p)

\* The index makes the owner of a place unique.
LEMMA OwnerIsExact == NoDoubleBooking => OwnerExact
  <1> SUFFICES ASSUME NoDoubleBooking, NEW p \in Trip \X Seat
               PROVE  /\ SeatOwner[p] \in BookingId \cup {NoBooking}
                      /\ \A b \in BookingId : (SeatOwner[p] = b) <=> Owns(b, p)
    BY DEF OwnerExact
  <1>1. p[2] \in Seat
    OBVIOUS
  <1>2. \A b, c \in BookingId : Owns(b, p) /\ Owns(c, p) => b = c
    BY <1>1 DEF NoDoubleBooking, Owns
  <1>3. CASE \E b \in BookingId : Owns(b, p)
    <2>1. SeatOwner[p] = CHOOSE b \in BookingId : Owns(b, p)
      BY <1>3 DEF SeatOwner
    <2>2. SeatOwner[p] \in BookingId /\ Owns(SeatOwner[p], p)
      BY <1>3, <2>1
    <2> QED
      BY <1>2, <2>2
  <1>4. CASE ~ \E b \in BookingId : Owns(b, p)
    <2>1. SeatOwner[p] = NoBooking
      BY <1>4 DEF SeatOwner
    <2> QED
      BY <1>4, <2>1, ConstantsOK DEF ConstantsOK
  <1> QED
    BY <1>3, <1>4

\* The bookings that hold places without having been paid are the payable ones.
LEMMA HoldingArePayable ==
    ASSUME IInv
    PROVE  Map!Holding = {b \in BookingId : bookingStatus[b] \in Payable}
  <1>1. OwnerExact
    BY OwnerIsExact DEF IInv
  <1>2. ASSUME NEW b \in BookingId, bookingStatus[b] \in Payable
        PROVE  Map!PlacesOf(b) # {}
    <2>1. PICK s \in Seat : seatStatus[b][s] # "NONE"
      BY <1>2 DEF IInv, SeatsFollowBooking, Payable
    <2>2. seatStatus[b][s] = "HELD"
      BY <1>2, <2>1, SeatsOfCases DEF IInv, SeatsFollowBooking
    <2>3. <<bookingTrip[b], s>> \in Trip \X Seat
      BY DEF IInv, TypeOK
    <2>4. SeatOwner[<<bookingTrip[b], s>>] = b
      BY <1>1, <2>2, <2>3 DEF OwnerExact, Owns, ActiveSeat
    <2> QED
      BY <2>3, <2>4 DEF Map!PlacesOf, Map!Place
  <1>3. ASSUME NEW b \in BookingId, Map!PlacesOf(b) # {}, bookingStatus[b] # "CONFIRMED"
        PROVE  bookingStatus[b] \in Payable
    <2>1. PICK p \in Trip \X Seat : Owns(b, p)
      BY <1>1, <1>3 DEF OwnerExact, Map!PlacesOf, Map!Place
    <2>2. p[2] \in Seat /\ seatStatus[b][p[2]] \in ActiveSeat
      BY <2>1 DEF Owns
    <2>3. seatStatus[b][p[2]] \in {"NONE"} \cup SeatsOf(bookingStatus[b])
      BY <2>2 DEF IInv, SeatsFollowBooking
    <2>4. bookingStatus[b] \in BookingStatus \cup {"NONE"}
      BY DEF IInv, TypeOK
    <2> QED
      BY <1>3, <2>2, <2>3, <2>4, SeatsOfCases DEF ActiveSeat, BookingStatus, Payable
  <1>4. \A b \in BookingId : bookingStatus[b] \in Payable => bookingStatus[b] # "CONFIRMED"
    BY DEF Payable
  <1> QED
    BY <1>2, <1>3, <1>4 DEF Map!Holding, SoldBookings

\* The owners after a step are known once the active reservations are.
LEMMA OwnersAfter ==
    ASSUME OwnerExact', NEW f \in [Trip \X Seat -> BookingId \cup {NoBooking}],
           \A p \in Trip \X Seat, o \in BookingId : Owns(o, p)' <=> (f[p] = o)
    PROVE  SeatOwner' = f
  <1>1. SeatOwner' = [p \in Trip \X Seat |-> SeatOwner'[p]]
    BY DEF SeatOwner
  <1>2. \A p \in Trip \X Seat : SeatOwner'[p] = f[p]
    BY DEF OwnerExact
  <1> QED
    BY <1>1, <1>2

-----------------------------------------------------------------------------
(***************************************************************************)
(* One lemma per transaction.                                              *)
(***************************************************************************)

\* Bookings of X that end and change nothing else give their places back.
LEMMA EndingGivesBack ==
    ASSUME IInv, IInv', NEW X \in SUBSET BookingId, X # {}, NEW status,
           status \in {"EXPIRED", "CANCELLED"},
           \A b \in X : bookingStatus[b] \in Payable,
           UNCHANGED bookingTrip,
           \A b \in BookingId :
               /\ bookingStatus'[b] = IF b \in X THEN status ELSE bookingStatus[b]
               /\ b \notin X => seatStatus'[b] = seatStatus[b]
    PROVE  X \in SUBSET Map!Holding /\ Map!GiveBack(X)
  <1>1. OwnerExact /\ OwnerExact'
    BY OwnerIsExact, PTL DEF IInv
  <1>2. X \subseteq Map!Holding
    BY HoldingArePayable
  <1>3. ASSUME NEW b \in X, NEW s \in Seat
        PROVE  seatStatus'[b][s] \notin ActiveSeat /\ seatStatus[b][s] # "CHECKED_IN"
    <2>1. seatStatus'[b][s] \in {"NONE"} \cup SeatsOf(bookingStatus'[b])
      BY DEF IInv, SeatsFollowBooking
    <2>2. seatStatus[b][s] \in {"NONE"} \cup SeatsOf(bookingStatus[b])
      BY DEF IInv, SeatsFollowBooking
    <2> QED
      BY <2>1, <2>2, SeatsOfCases DEF ActiveSeat
  <1>4. SeatOwner' = [p \in Trip \X Seat |->
                        IF SeatOwner[p] \in X THEN NoBooking ELSE SeatOwner[p]]
    <2> DEFINE f == [p \in Trip \X Seat |->
                        IF SeatOwner[p] \in X THEN NoBooking ELSE SeatOwner[p]]
    <2>1. f \in [Trip \X Seat -> BookingId \cup {NoBooking}]
      BY <1>1 DEF OwnerExact
    <2>2. ASSUME NEW p \in Trip \X Seat, NEW o \in BookingId
          PROVE  Owns(o, p)' <=> (f[p] = o)
      <3>1. Owns(o, p)' <=> Owns(o, p) /\ o \notin X
        BY <1>3 DEF Owns
      <3>2. Owns(o, p) <=> (SeatOwner[p] = o)
        BY <1>1 DEF OwnerExact
      <3> QED
        BY <3>1, <3>2, ConstantsOK DEF ConstantsOK
    <2> HIDE DEF f
    <2>3. SeatOwner' = f
      BY <1>1, <2>1, <2>2, OwnersAfter
    <2> QED
      BY <2>3 DEF f
  <1>5. EndedBookings' = EndedBookings \cup X
    BY DEF EndedBookings
  <1>6. SoldBookings' = SoldBookings
    BY DEF SoldBookings, Payable
  <1>7. BoardedPlaces' = BoardedPlaces
    <2>1. \A b \in BookingId, s \in Seat :
             (seatStatus'[b][s] = "CHECKED_IN") <=> (seatStatus[b][s] = "CHECKED_IN")
      BY <1>3 DEF ActiveSeat
    <2> QED
      BY <2>1 DEF BoardedPlaces
  <1> QED
    BY <1>2, <1>4, <1>5, <1>6, <1>7 DEF Map!GiveBack, Map!Place

\* A creation takes free places, or places its sweep has just given back.
LEMMA CreatingTakes ==
    ASSUME IInv, IInv', NEW tr \in Trip, NEW S \in SUBSET Seat, NEW b \in BookingId,
           NEW X \in SUBSET BookingId, \A o \in X : bookingStatus[o] \in Payable,
           CreateEffect(tr, S, b, X)
    PROVE  X \in SUBSET Map!Holding /\ Map!Take(X, b, tr, S)
  <1>1. OwnerExact /\ OwnerExact'
    BY OwnerIsExact, PTL DEF IInv
  <1>2. X \subseteq Map!Holding /\ S # {}
    BY HoldingArePayable DEF CreateEffect
  <1>3. b \notin SoldBookings \cup EndedBookings /\ Map!PlacesOf(b) = {}
    <2>1. b \notin SoldBookings /\ b \notin EndedBookings /\ b \notin Map!Holding
      BY HoldingArePayable DEF CreateEffect, SoldBookings, EndedBookings, Payable
    <2> QED
      BY <2>1 DEF Map!Holding
  <1>4. \A s \in Seat : seatStatus[b][s] = "NONE"
    BY SeatsOfCases DEF IInv, SeatsFollowBooking, CreateEffect
  <1>5. \A o \in X, s \in Seat : seatStatus[o][s] \in {"NONE", "HELD"}
    BY SeatsOfCases DEF IInv, SeatsFollowBooking
  <1>6. ASSUME NEW s \in S
        PROVE  SeatOwner[<<tr, s>>] \in X \cup {NoBooking}
    <2> SUFFICES ASSUME NEW o \in BookingId, Owns(o, <<tr, s>>), o \notin X
                 PROVE  FALSE
      BY <1>1 DEF OwnerExact
    <2>1. bookingTrip[o] = tr /\ seatStatus[o][s] \in ActiveSeat
      BY DEF Owns
    <2>2. ReleasedSeats(X)[o][s] = seatStatus[o][s]
      BY ReleasedSeatsShape DEF IInv
    <2>3. SeatFree(tr, s, X)
      BY DEF CreateEffect
    <2> QED
      BY <2>1, <2>2, <2>3 DEF SeatFree
  <1>7. SeatOwner' = [p \in Trip \X Seat |->
                        IF p[1] = tr /\ p[2] \in S THEN b
                        ELSE IF SeatOwner[p] \in X THEN NoBooking ELSE SeatOwner[p]]
    <2> DEFINE f == [p \in Trip \X Seat |->
                        IF p[1] = tr /\ p[2] \in S THEN b
                        ELSE IF SeatOwner[p] \in X THEN NoBooking ELSE SeatOwner[p]]
    <2>1. f \in [Trip \X Seat -> BookingId \cup {NoBooking}]
      BY <1>1 DEF OwnerExact
    <2>2. ASSUME NEW p \in Trip \X Seat, NEW o \in BookingId
          PROVE  Owns(o, p)' <=> (f[p] = o)
      <3>0. p[2] \in Seat /\ p = <<p[1], p[2]>>
        OBVIOUS
      <3>1. Owns(o, p) <=> (SeatOwner[p] = o)
        BY <1>1 DEF OwnerExact
      <3>2. CASE o = b
        <4>1. Owns(o, p)' <=> p[1] = tr /\ p[2] \in S
          BY <3>0, <3>2 DEF CreateEffect, Owns, ActiveSeat
        <4>2. ~ Owns(b, p)
          BY <1>4, <3>0 DEF Owns, ActiveSeat
        <4> QED
          BY <3>1, <3>2, <4>1, <4>2, ConstantsOK DEF ConstantsOK
      <3>3. CASE o # b
        <4>1. Owns(o, p)' <=> Owns(o, p) /\ o \notin X
          BY <1>5, <3>0, <3>3 DEF CreateEffect, Owns, ActiveSeat
        <4>2. p[1] = tr /\ p[2] \in S => SeatOwner[p] \in X \cup {NoBooking}
          BY <1>6, <3>0
        <4> QED
          BY <3>1, <3>3, <4>1, <4>2, ConstantsOK DEF ConstantsOK
      <3> QED
        BY <3>2, <3>3
    <2> HIDE DEF f
    <2>3. SeatOwner' = f
      BY <1>1, <2>1, <2>2, OwnersAfter
    <2> QED
      BY <2>3 DEF f
  <1>8. EndedBookings' = EndedBookings \cup X
    BY DEF EndedBookings, CreateEffect
  <1>9. SoldBookings' = SoldBookings
    BY DEF SoldBookings, CreateEffect, Payable
  <1>10. BoardedPlaces' = BoardedPlaces
    <2>1. \A o \in BookingId, s \in Seat :
             /\ (seatStatus'[o][s] = "CHECKED_IN") <=> (seatStatus[o][s] = "CHECKED_IN")
             /\ seatStatus[o][s] = "CHECKED_IN" => bookingTrip'[o] = bookingTrip[o]
      BY <1>4 DEF CreateEffect
    <2> QED
      BY <2>1 DEF BoardedPlaces
  <1> QED
    BY <1>2, <1>3, <1>6, <1>7, <1>8, <1>9, <1>10 DEF Map!Take, Map!Place

\* A sweep ends the bookings it finds expired.
LEMMA ExpiringGivesBack ==
    ASSUME IInv, IInv', NEW t \in TxStart, ExpireBookings(t)
    PROVE  \E X \in SUBSET Map!Holding : Map!GiveBack(X)
  <1> DEFINE X == ExpiredHolds(Trip, t)
  <1>1. X \in SUBSET BookingId /\ \A b \in X : bookingStatus[b] \in Payable
    BY DEF ExpiredHolds
  <1>2. /\ X # {} /\ UNCHANGED bookingTrip
        /\ \A b \in BookingId :
               bookingStatus'[b] = IF b \in X THEN "EXPIRED" ELSE bookingStatus[b]
    BY DEF ExpireBookings
  <1>3. \A b \in BookingId \ X : seatStatus'[b] = seatStatus[b]
    <2> SUFFICES ASSUME NEW b \in BookingId \ X PROVE seatStatus'[b] = seatStatus[b]
      OBVIOUS
    <2>1. \A s \in Seat : seatStatus'[b][s] = seatStatus[b][s]
      BY ReleasedSeatsShape DEF ExpireBookings, IInv
    <2>2. seatStatus[b] \in [Seat -> SeatStatus \cup {"NONE"}]
          /\ seatStatus'[b] \in [Seat -> SeatStatus \cup {"NONE"}]
      BY DEF IInv, TypeOK
    <2> QED
      BY <2>1, <2>2
  <1> HIDE DEF X
  <1>4. X \in SUBSET Map!Holding /\ Map!GiveBack(X)
    BY <1>1, <1>2, <1>3, EndingGivesBack
  <1> QED
    BY <1>4

\* A cancellation ends one booking.
LEMMA CancellingGivesBack ==
    ASSUME IInv, IInv', NEW b \in BookingId, CancelBooking(b)
    PROVE  \E X \in SUBSET Map!Holding : Map!GiveBack(X)
  <1>1. /\ bookingStatus[b] \in Payable /\ UNCHANGED bookingTrip
        /\ \A o \in BookingId :
               /\ bookingStatus'[o] = IF o \in {b} THEN "CANCELLED" ELSE bookingStatus[o]
               /\ o \notin {b} => seatStatus'[o] = seatStatus[o]
    BY DEF CancelBooking, IInv, TypeOK
  <1> QED
    BY <1>1, EndingGivesBack

\* A confirmation sells the places a booking holds.
LEMMA ConfirmingSells ==
    ASSUME IInv, IInv', NEW b \in BookingId, ConfirmBookingPaid(b)
    PROVE  Map!Sell(b)
  <1>1. OwnerExact /\ OwnerExact'
    BY OwnerIsExact, PTL DEF IInv
  <1>2. b \in Map!Holding
    BY HoldingArePayable DEF ConfirmBookingPaid
  <1>3. /\ UNCHANGED bookingTrip
        /\ \A o \in BookingId, s \in Seat :
               seatStatus'[o][s] = IF o = b /\ seatStatus[o][s] = "HELD" THEN "CONFIRMED"
                                                                     ELSE seatStatus[o][s]
        /\ \A o \in BookingId :
               bookingStatus'[o] = IF o = b THEN "CONFIRMED" ELSE bookingStatus[o]
    BY DEF ConfirmBookingPaid, ConfirmedSeats, IInv, TypeOK
  <1>4. SeatOwner' = SeatOwner
    <2>1. SeatOwner \in [Trip \X Seat -> BookingId \cup {NoBooking}]
      BY <1>1 DEF OwnerExact, SeatOwner
    <2>2. \A p \in Trip \X Seat, o \in BookingId : Owns(o, p)' <=> Owns(o, p)
      BY <1>3 DEF Owns, ActiveSeat
    <2>3. \A p \in Trip \X Seat, o \in BookingId : Owns(o, p)' <=> (SeatOwner[p] = o)
      BY <1>1, <2>2 DEF OwnerExact
    <2> QED
      BY <1>1, <2>1, <2>3, OwnersAfter
  <1>5. SoldBookings' = SoldBookings \cup {b}
    BY <1>3 DEF SoldBookings
  <1>6. EndedBookings' = EndedBookings
    BY <1>3 DEF EndedBookings, ConfirmBookingPaid, Payable
  <1>7. BoardedPlaces' = BoardedPlaces
    BY <1>3 DEF BoardedPlaces
  <1> QED
    BY <1>2, <1>4, <1>5, <1>6, <1>7 DEF Map!Sell

\* A check-in boards a sold place that nobody has boarded.
LEMMA CheckingInBoards ==
    ASSUME IInv, IInv', NEW b \in BookingId, NEW s \in Seat, CheckInSeat(b, s)
    PROVE  Map!Board(<<bookingTrip[b], s>>)
  <1> DEFINE place == <<bookingTrip[b], s>>
  <1>1. OwnerExact /\ OwnerExact'
    BY OwnerIsExact, PTL DEF IInv
  <1>2. place \in Trip \X Seat
    BY DEF IInv, TypeOK
  <1>3. SeatOwner[place] = b /\ b \in SoldBookings
    BY <1>1, <1>2 DEF OwnerExact, Owns, ActiveSeat, SoldBookings, CheckInSeat
  <1>4. place \notin BoardedPlaces
    <2> SUFFICES ASSUME NEW o \in BookingId, bookingTrip[o] = bookingTrip[b],
                        seatStatus[o][s] = "CHECKED_IN"
                 PROVE  FALSE
      BY DEF BoardedPlaces
    <2>1. Owns(o, place)
      BY DEF Owns, ActiveSeat
    <2>2. o = b
      BY <1>1, <1>2, <1>3, <2>1 DEF OwnerExact
    <2> QED
      BY <2>2 DEF CheckInSeat
  <1>5. /\ UNCHANGED <<bookingTrip, bookingStatus>>
        /\ \A o \in BookingId, r \in Seat :
               seatStatus'[o][r] = IF o = b /\ r = s THEN "CHECKED_IN" ELSE seatStatus[o][r]
    BY DEF CheckInSeat, IInv, TypeOK
  <1>6. SeatOwner' = SeatOwner
    <2>1. SeatOwner \in [Trip \X Seat -> BookingId \cup {NoBooking}]
      BY <1>1 DEF OwnerExact, SeatOwner
    <2>2. \A p \in Trip \X Seat, o \in BookingId : Owns(o, p)' <=> Owns(o, p)
      BY <1>5 DEF Owns, ActiveSeat, CheckInSeat
    <2>3. \A p \in Trip \X Seat, o \in BookingId : Owns(o, p)' <=> (SeatOwner[p] = o)
      BY <1>1, <2>2 DEF OwnerExact
    <2> QED
      BY <1>1, <2>1, <2>3, OwnersAfter
  <1>7. SoldBookings' = SoldBookings /\ EndedBookings' = EndedBookings
    BY <1>5 DEF SoldBookings, EndedBookings
  <1>8. BoardedPlaces' = BoardedPlaces \cup {place}
    <2>1. ASSUME NEW p \in Trip \X Seat
          PROVE  p \in BoardedPlaces' <=> p \in BoardedPlaces \/ p = place
      <3>1. p = <<p[1], p[2]>> /\ p[1] \in Trip /\ p[2] \in Seat
        OBVIOUS
      <3>2. p = place <=> p[1] = bookingTrip[b] /\ p[2] = s
        BY <3>1
      <3> QED
        BY <1>5, <3>1, <3>2 DEF BoardedPlaces
    <2>2. BoardedPlaces \subseteq Trip \X Seat /\ BoardedPlaces' \subseteq Trip \X Seat
      BY DEF BoardedPlaces
    <2> QED
      BY <1>2, <2>1, <2>2
  <1> QED
    BY <1>3, <1>4, <1>6, <1>7, <1>8 DEF Map!Board

-----------------------------------------------------------------------------
(***************************************************************************)
(* The theorem.                                                            *)
(***************************************************************************)

\* The empty tables are the empty seat map.
LEMMA InitIsMapInit == Init => Map!Init
  <1> SUFFICES ASSUME Init PROVE Map!Init
    OBVIOUS
  <1>1. SeatOwner = [p \in Trip \X Seat |-> NoBooking]
    BY DEF Init, SeatOwner, Owns, ActiveSeat
  <1>2. SoldBookings = {} /\ EndedBookings = {} /\ BoardedPlaces = {}
    BY DEF Init, SoldBookings, EndedBookings, BoardedPlaces
  <1> QED
    BY <1>1, <1>2 DEF Map!Init, Map!Place

\* Every step of the tables is a step of the seat map or none.
LEMMA StepIsMapStep == IInv /\ IInv' /\ [Next]_vars => [Map!Next]_(Map!vars)
  <1> SUFFICES ASSUME IInv, IInv', [Next]_vars PROVE [Map!Next]_(Map!vars)
    OBVIOUS
  <1>1. ASSUME NEW c \in Claim, NEW tr \in Trip, NEW S \in SUBSET Seat,
               NEW b \in BookingId, NEW t \in TxStart, CreateBooking(c, tr, S, b, t)
        PROVE  Map!Next
    <2>1. CreateEffect(tr, S, b, ExpiredHolds({tr}, t))
      BY <1>1, CreateShape DEF IInv
    <2>2. /\ ExpiredHolds({tr}, t) \in SUBSET BookingId
          /\ \A o \in ExpiredHolds({tr}, t) : bookingStatus[o] \in Payable
      BY DEF ExpiredHolds
    <2>3. /\ ExpiredHolds({tr}, t) \in SUBSET Map!Holding
          /\ Map!Take(ExpiredHolds({tr}, t), b, tr, S)
      BY <2>1, <2>2, CreatingTakes
    <2> QED
      BY <2>3 DEF Map!Next
  <1>2. ASSUME NEW t \in TxStart, ExpireBookings(t)
        PROVE  Map!Next
    BY <1>2, ExpiringGivesBack DEF Map!Next
  <1>3. ASSUME NEW b \in BookingId, CancelBooking(b)
        PROVE  Map!Next
    BY <1>3, CancellingGivesBack DEF Map!Next
  <1>4. ASSUME NEW b \in BookingId, ConfirmBookingPaid(b)
        PROVE  Map!Next
    BY <1>4, ConfirmingSells DEF Map!Next
  <1>5. ASSUME NEW b \in BookingId, NEW s \in Seat, CheckInSeat(b, s)
        PROVE  Map!Next
    <2>1. <<bookingTrip[b], s>> \in Map!Place
      BY DEF IInv, TypeOK, Map!Place
    <2> QED
      BY <1>5, <2>1, CheckingInBoards DEF Map!Next
  <1>6. ASSUME UNCHANGED bookingVars
        PROVE  UNCHANGED Map!vars
    BY <1>6 DEF bookingVars, Map!vars, SeatOwner, Owns, SoldBookings, EndedBookings, BoardedPlaces
  <1>7. ASSUME NEW tr \in Trip, TripTransition(tr) \/ SwitchTrip(tr)
        PROVE  UNCHANGED Map!vars
    BY <1>6, <1>7 DEF TripTransition, SwitchTrip
  <1>8. CASE Tick
    BY <1>6, <1>8 DEF Tick
  <1>9. CASE UNCHANGED vars
    BY <1>6, <1>9 DEF vars
  <1> QED
    BY <1>1, <1>2, <1>3, <1>4, <1>5, <1>7, <1>8, <1>9 DEF Next, BookingNext

\* The booking tables implement the seat map: whole bookings take, give back or
\* keep their seats at once, whatever the clock, the sweeps and the retries do.
THEOREM TablesImplementSeatMap == Spec => ImplementsSeatMap
  BY InitIsMapInit, StepIsMapStep, AlwaysIInv, PTL DEF Spec, ImplementsSeatMap, Map!Spec
=============================================================================
