CONSTANTS
    t1 = t1
    t2 = t2
    s1 = s1
    s2 = s2
    b1 = b1
    b2 = b2
    b3 = b3
    c1 = c1
    c2 = c2
    Trip = {t1, t2}
    Seat = {s1, s2}
    BookingId = {b1, b2, b3}
    NoBooking = NoBooking
    Claim = {c1, c2}
    Layout <- TwoTripLayout
    BoardingClosesAt <- TwoTripCloses
    MaxPassengers = 2
    Hold = 1
    ClaimWindow = 2
    TxLag = 1
    MaxClock = 3
SYMMETRY Symmetric
SPECIFICATION Spec
INVARIANTS
    NoDoubleBooking
    SeatsFollowBooking
    EventsTellStatus
    ReplayAnswersTheRequest
    ShownSeatIsBookable
PROPERTIES
    ImplementsSeatMap
    HoldHonoured
