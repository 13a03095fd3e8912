CONSTANTS
    t1 = t1
    s1 = s1
    b1 = b1
    b2 = b2
    c1 = c1
    c2 = c2
    p1 = p1
    p2 = p2
    p3 = p3
    k1 = k1
    k2 = k2
    Trip = {t1}
    Seat = {s1}
    BookingId = {b1, b2}
    NoBooking = NoBooking
    Claim = {c1, c2}
    PaymentId = {p1, p2}
    NoPayment = NoPayment
    PaymentClaim = {k1, k2}
    Layout <- OneSeatLayout
    BoardingClosesAt <- OneSeatCloses
    MaxPassengers = 1
    Hold = 1
    ClaimWindow = 2
    TxLag = 0
    MaxClock = 2
SYMMETRY Symmetric
SPECIFICATION PaymentsSpec
INVARIANT
    SettlementConfirmsBooking
