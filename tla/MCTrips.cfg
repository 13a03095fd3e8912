CONSTANTS
    bus1 = bus1
    tr1 = tr1
    tr2 = tr2
    j1 = j1
    c1 = c1
    c2 = c2
    s1 = s1
    Bus = {bus1}
    Trip = {tr1, tr2}
    Job = {j1}
    Horizon = 2
    Call = {c1, c2}
    Staff = {s1}
    NoOne = NoOne
    Same = Same
    Crew <- Crews
    Patch <- Edits
    MaxVersion = 3
SYMMETRY Symmetric
SPECIFICATION TripsSpec
INVARIANTS
    BusStatusFollowsJobs
    SchedulesApart
    WorkshopBusHasNoTripAhead
PROPERTIES
    ImplementsFleet
    NoLostEdit
    StaffQualifiedWhenAssigned
