CONSTANTS
    t1 = t1
    s1 = s1
    s2 = s2
    b1 = b1
    c1 = c1
    k1 = k1
    p1 = p1
    p2 = p2
    x1 = x1
    x2 = x2
    Trip = {t1}
    Seat = {s1, s2}
    BookingId = {b1}
    NoBooking = NoBooking
    Claim = {c1}
    PaymentId = {p1}
    NoPayment = NoPayment
    PaymentClaim = {k1}
    Call = {x1, x2}
    Layout <- TwoSeatLayout
    BoardingClosesAt <- TwoSeatCloses
    MaxPassengers = 2
    Hold = 1
    ClaimWindow = 2
    TxLag = 0
    MaxClock = 1
SYMMETRY Symmetric
SPECIFICATION TicketsSpec
INVARIANTS
    TicketsMatchSeats
PROPERTIES
    UsedOrRevokedForGood
    RefundClosesTickets
    ImplementsBookings
