CONSTANTS
    ana = ana
    bo = bo
    c1 = c1
    c2 = c2
    north = north
    south = south
    west = west
    r1 = r1
    User = {ana}
    Account = {ana, bo}
    Company = {c1, c2}
    Branch = {north, south, west}
    NoBranch = NoBranch
    NoCompany = NoCompany
    Nobody = Nobody
    BadToken = BadToken
    CompanyOf <- Companies
    PlatformAdmin = {}
    Membership <- Rows
    MaxMemberships = 2
    Operation = {}
    Booking <- Bookings
    Offered = {"bookings", "payments", "tickets", "branches", "trips", "maintenance", "commissions", "health", "webhooks"}
    Request = {r1}
SPECIFICATION ApiSpec
INVARIANTS
    ActsWhereAdmitted
    ReachIsEarned
    NoCrossProduct
    MirrorsRowSecurity
PROPERTY
    ManagementIsCompanyWide
