-------------------------------- MODULE MCApi --------------------------------
(***************************************************************************)
(* A small instance of Api for TLC: one person who sells for one company   *)
(* and manages or sells for another, and travels as a passenger.           *)
(***************************************************************************)
EXTENDS Api, TLC

CONSTANTS ana, bo, c1, c2, north, south, west, r1

Companies == (north :> c1) @@ (south :> c1) @@ (west :> c2)

Row(company, role, branch) ==
    [user |-> ana, company |-> company, role |-> role, branch |-> branch]

\* Every role, the branch-scoped ones in different branches and without one.
Rows ==
    {Row(c1, "SUPER_ADMIN", NoBranch), Row(c1, "COMPANY_MANAGER", NoBranch),
     Row(c1, "PASSENGER", NoBranch), Row(c1, "BRANCH_EMPLOYEE", north),
     Row(c1, "BRANCH_EMPLOYEE", NoBranch), Row(c1, "AGENT", south),
     Row(c1, "AGENT", NoBranch), Row(c2, "COMPANY_MANAGER", NoBranch),
     Row(c2, "AGENT", west)}

Sale(company, branch, user, channel) ==
    [company |-> company, branch |-> branch, bookedBy |-> user, channel |-> channel]

\* Both users as passengers and as agents, in every branch.
Bookings ==
    {Sale(c1, NoBranch, ana, "WEB"), Sale(c1, NoBranch, bo, "WEB"),
     Sale(c1, north, ana, "AGENT"), Sale(c1, south, bo, "AGENT"),
     Sale(c2, west, ana, "AGENT"), Sale(c2, NoBranch, bo, "WEB")}
=============================================================================
