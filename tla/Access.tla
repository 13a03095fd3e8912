-------------------------------- MODULE Access --------------------------------
(***************************************************************************)
(* Who reaches what: company memberships, the permissions of their roles,  *)
(* the global guard and the scopes the services filter by.                 *)
(*                                                                         *)
(* A person may hold several memberships in one company, each with a role  *)
(* and, for the branch-scoped roles, a branch.  The guard admits a request *)
(* on the UNION of what they permit; a service then reads the memberships  *)
(* again and reaches only the branches whose own membership permits the    *)
(* operation -- except where it reads nothing and relies on the guard.     *)
(* Nothing locks a membership, and no code of the backend writes one: they *)
(* change between any two queries of a request.                            *)
(*                                                                         *)
(* What an operation does with a booking it reaches is in the other        *)
(* modules; here a booking is the branch it was made in (NULL online), a   *)
(* commission the membership that earned it.  X_Mutant, placed before X,   *)
(* is X with a plausible slip.                                             *)
(***************************************************************************)
EXTENDS Naturals, FiniteSets

CONSTANTS
    User, Company, Branch,
    NoBranch,         \* branch_id IS NULL
    CompanyOf,        \* the company of each branch
    PlatformAdmin,    \* users whose token's app_metadata says SUPER_ADMIN
    Membership,       \* the membership rows that may come to be active
    MaxMemberships,   \* bound: rows active at once
    Operation,        \* the permissions the routes of the instance require
    Request           \* requests under way at once

Role == {"SUPER_ADMIN", "COMPANY_MANAGER", "BRANCH_EMPLOYEE", "AGENT", "PASSENGER"}
CompanyWideRole == {"SUPER_ADMIN", "COMPANY_MANAGER"}
BranchScopedRole == {"BRANCH_EMPLOYEE", "AGENT"}

ReadPermission ==
    {"companies.read", "branches.read", "staff.read", "fleet.read", "routes.read",
     "trips.read", "bookings.read", "payments.read", "tickets.read", "maintenance.read"}

Permission == ReadPermission \cup
    {"companies.update", "memberships.read", "memberships.manage", "branches.manage",
     "staff.manage", "fleet.manage", "routes.manage", "trips.manage", "bookings.create",
     "bookings.cancel", "payments.confirm", "payments.refund", "commissions.read",
     "tickets.issue", "tickets.validate", "maintenance.manage", "audit.read"}

MembershipRow == [user : User, company : Company, role : Role,
                  branch : Branch \cup {NoBranch}]

\* ck_membership_scope and fk_membership_branch_company.
WellScoped(m) ==
    m.branch # NoBranch => m.role \in BranchScopedRole /\ CompanyOf[m.branch] = m.company

ASSUME AccessConstantsOK ==
    /\ User # {} /\ Company # {}
    /\ NoBranch \notin Branch
    /\ CompanyOf \in [Branch -> Company]
    /\ PlatformAdmin \subseteq User
    /\ \A m \in Membership : m \in MembershipRow /\ WellScoped(m)
    /\ MaxMemberships \in Nat
    /\ Operation \subseteq Permission

VARIABLES
    member,    \* the rows of company_memberships with is_active
    enabled,   \* the users whose profile is active
    request    \* the requests under way

vars == <<member, enabled, request>>

\* stage is what the request has passed; read the memberships its handler read.
Idle == [stage |-> "idle", user |-> CHOOSE u \in User : TRUE,
         company |-> CHOOSE c \in Company : TRUE,
         op |-> CHOOSE p \in Permission : TRUE, read |-> {}]

Stage == {"idle", "arrived", "known", "admitted", "known again", "scoped"}

AccessTypeOK ==
    /\ member \subseteq Membership
    /\ enabled \subseteq User
    /\ request \in [Request -> [stage : Stage, user : User, company : Company,
                                op : Permission, read : SUBSET Membership]]

Init ==
    /\ member = {}
    /\ enabled = User
    /\ request = [r \in Request |-> Idle]

-----------------------------------------------------------------------------
(***************************************************************************)
(* Roles, entitlements and scopes.                                         *)
(***************************************************************************)

\* The agent's flows written into the catalog as the manager's are.
RolePermissions_Mutant(role) ==
    CASE role \in CompanyWideRole -> Permission
      [] role = "BRANCH_EMPLOYEE" -> ReadPermission
      [] role = "AGENT" -> ReadPermission \cup {"bookings.create", "commissions.read",
                                                "trips.manage"}
      [] OTHER -> {}

RolePermissions(role) ==
    CASE role \in CompanyWideRole -> Permission
      [] role = "BRANCH_EMPLOYEE" -> ReadPermission
      [] role = "AGENT" -> ReadPermission \cup {"bookings.create", "commissions.read"}
      [] OTHER -> {}

PermissionsForRoles(rows) == UNION {RolePermissions(m.role) : m \in rows}

\* A scope: every branch, or those listed; with neither it is empty.
Scope == [companyWide : BOOLEAN, branches : SUBSET Branch]

BranchAccess(rows) ==
    LET companyWide == \E m \in rows : m.role \in CompanyWideRole IN
    [companyWide |-> companyWide,
     branches |-> IF companyWide THEN {}
                  ELSE {m.branch : m \in {n \in rows : n.role \in BranchScopedRole}}
                       \ {NoBranch}]

\* The branches of all memberships instead of one's own.
ResolveEntitlements_Mutant(rows) ==
    {[permissions |-> PermissionsForRoles({m}), access |-> BranchAccess(rows)] : m \in rows}

\* One entitlement per membership: its own permissions with its own branches.
ResolveEntitlements(rows) ==
    {[permissions |-> PermissionsForRoles({m}), access |-> BranchAccess({m})] : m \in rows}

AccessScope(rows, permission) ==
    LET granting == {e \in ResolveEntitlements(rows) : permission \in e.permissions} IN
    [companyWide |-> \E e \in granting : e.access.companyWide,
     branches |-> UNION {e.access.branches : e \in granting}]

\* The predicate of the scoped queries; NULL equals no element of an array.
InScope(scope, branch) == scope.companyWide \/ branch \in scope.branches

CanExerciseInBranch(rows, permission, branch) ==
    \E e \in ResolveEntitlements(rows) :
        InScope(e.access, branch) /\ permission \in e.permissions

CommissionScope(rows) ==
    [companyWide |-> \E m \in rows : m.role \in CompanyWideRole,
     agents |-> {m \in rows : m.role = "AGENT"}]

ActiveMemberships(u, c) == {m \in member : m.user = u /\ m.company = c}

BranchesOf(c) == {b \in Branch : CompanyOf[b] = c}

-----------------------------------------------------------------------------
(***************************************************************************)
(* A request: authenticated as a user, for one company, on a route that    *)
(* requires op.                                                            *)
(***************************************************************************)
Arrive(r, u, c, op) ==
    /\ request[r] = Idle
    /\ request' = [request EXCEPT ![r] = [stage |-> "arrived", user |-> u, company |-> c,
                                          op |-> op, read |-> {}]]
    /\ UNCHANGED <<member, enabled>>

Advance(r, stage) ==
    /\ request' = [request EXCEPT ![r].stage = stage]
    /\ UNCHANGED <<member, enabled>>

End(r) ==
    /\ request' = [request EXCEPT ![r] = Idle]
    /\ UNCHANGED <<member, enabled>>

\* findActiveProfile: by the guard, and again by the branch listings.
FindActiveProfile(r) ==
    IF request[r].user \notin enabled THEN End(r)
    ELSE Advance(r, IF request[r].stage = "arrived" THEN "known" ELSE "known again")

IdentifyCaller(r) == request[r].stage = "arrived" /\ FindActiveProfile(r)

\* The rest of the guard: no active membership, or not all permissions, is a 403.
Permits(rows, op) == rows # {} /\ op \in PermissionsForRoles(rows)

Guard(r) ==
    /\ request[r].stage = "known"
    /\ IF Permits(ActiveMemberships(request[r].user, request[r].company), request[r].op)
       THEN Advance(r, "admitted") ELSE End(r)

\* What the handlers read: nothing, or the memberships, or the whole context again.
ScopedOperation ==
    {"bookings.read", "bookings.cancel", "payments.read", "payments.confirm",
     "payments.refund", "tickets.read", "tickets.issue", "tickets.validate"}
BranchOperation == ScopedOperation \cup {"bookings.create", "branches.read"}
GuardedOperation == Permission \ (BranchOperation \cup {"commissions.read"})

ReadMemberships(r) ==
    /\ request' = [request EXCEPT ![r].stage = "scoped",
                       ![r].read = ActiveMemberships(request[r].user, request[r].company)]
    /\ UNCHANGED <<member, enabled>>

LoadScope(r) ==
    /\ request[r].stage = "admitted"
    /\ request[r].op \in ScopedOperation \cup {"bookings.create", "commissions.read"}
    /\ ReadMemberships(r)

IdentifyReader(r) ==
    /\ request[r].stage = "admitted"
    /\ request[r].op = "branches.read"
    /\ FindActiveProfile(r)

LoadReadableBranches(r) == request[r].stage = "known again" /\ ReadMemberships(r)

\* The branches whose bookings the statements of request r reach: listed, read or
\* written there; a creation names a branch of the company (fk_bookings_branch_company).
Reached(r) ==
    LET rows == request[r].read
        op == request[r].op
        branches == BranchesOf(request[r].company) IN
    CASE op = "bookings.create" -> {b \in branches : CanExerciseInBranch(rows, op, b)}
      [] op = "branches.read" -> {b \in branches : InScope(AccessScope(rows, op), b)}
      [] op \in ScopedOperation ->
            {b \in branches \cup {NoBranch} : InScope(AccessScope(rows, op), b)}
      [] OTHER -> {}

Answer(r) ==
    /\ \/ request[r].stage = "scoped"
       \/ request[r].stage = "admitted" /\ request[r].op \in GuardedOperation
    /\ End(r)

-----------------------------------------------------------------------------
\* Outside the backend: memberships are given, taken and moved, profiles switched.
ChangeMemberships(gone, new) ==
    /\ gone \subseteq member
    /\ member' = (member \ gone) \cup new
    /\ Cardinality(member') <= MaxMemberships
    /\ UNCHANGED <<enabled, request>>

SwitchProfile(u) ==
    /\ enabled' = IF u \in enabled THEN enabled \ {u} ELSE enabled \cup {u}
    /\ UNCHANGED <<member, request>>

\* A row is inserted, switched on or off, or updated.
AtMostOne == {{}} \cup {{m} : m \in Membership}

Next ==
    \/ \E r \in Request :
        \/ \E u \in User, c \in Company, op \in Operation : Arrive(r, u, c, op)
        \/ IdentifyCaller(r) \/ Guard(r)
        \/ LoadScope(r) \/ IdentifyReader(r) \/ LoadReadableBranches(r)
        \/ Answer(r)
    \/ \E gone, new \in AtMostOne : ChangeMemberships(gone, new)
    \/ \E u \in User : SwitchProfile(u)

Spec == Init /\ [][Next]_vars

-----------------------------------------------------------------------------
(***************************************************************************)
(* Properties.                                                             *)
(***************************************************************************)

\* One membership that by itself lets its holder do op in a branch.
Grants(m, op, branch) ==
    /\ op \in RolePermissions(m.role)
    /\ m.role \in CompanyWideRole \/ (branch # NoBranch /\ m.branch = branch)

\* A permission never meets the branch of another membership, nor of another company,
\* whatever the guard admitted the request on: what a request reaches is exactly what
\* single memberships of its user in its company let it reach, of those its handler
\* read, together.
NoCrossProduct ==
    \A r \in Request : request[r].stage = "scoped" =>
        Reached(r) = {b \in BranchesOf(request[r].company)
                            \cup (IF request[r].op \in ScopedOperation
                                  THEN {NoBranch} ELSE {}) :
            \E m \in request[r].read :
                /\ m.user = request[r].user /\ m.company = request[r].company
                /\ request[r].op \in BranchOperation
                /\ Grants(m, request[r].op, b)}

\* Operations on the whole company that rely on the guard alone -- and so on a union
\* that forgets branches -- are open only to roles without a branch, reading apart.
AdmitsManagers ==
    \A r \in Request :
        /\ request[r].stage = "known" /\ request'[r].stage = "admitted"
        /\ request[r].op \in GuardedOperation \ ReadPermission
        => \E m \in member : /\ m.user = request[r].user
                             /\ m.company = request[r].company
                             /\ m.role \in CompanyWideRole

ManagementIsCompanyWide == [][AdmitsManagers]_vars

-----------------------------------------------------------------------------
(***************************************************************************)
(* The row-level security of the database, for clients that reach it       *)
(* without the backend.                                                    *)
(***************************************************************************)
HasCompanyAccess(u, c) ==
    \/ u \in PlatformAdmin
    \/ \E m \in member : /\ m.user = u /\ m.company = c
                         /\ m.role \in {"COMPANY_MANAGER", "BRANCH_EMPLOYEE", "AGENT"}

CanManageCompany(u, c) ==
    \/ u \in PlatformAdmin
    \/ \E m \in member : m.user = u /\ m.company = c /\ m.role = "COMPANY_MANAGER"

HasBranchAccess_Mutant(u, c, b) ==
    \/ u \in PlatformAdmin
    \/ \E m \in member :
        /\ m.user = u /\ m.company = c
        /\ \/ m.role = "COMPANY_MANAGER"
           \/ m.role \in BranchScopedRole /\ m.branch = b

HasBranchAccess(u, c, b) ==
    \/ u \in PlatformAdmin
    \/ \E m \in member :
        /\ m.user = u /\ m.company = c
        /\ \/ m.role = "COMPANY_MANAGER"
           \/ m.role \in BranchScopedRole /\ b # NoBranch /\ m.branch = b

ReadsCommission(u, c, earner) ==
    CanManageCompany(u, c) \/ (earner \in member /\ earner.user = u /\ earner.role = "AGENT")

\* Known to neither door as a super administrator: to the one by the token's claim, to the
\* other by a membership.
OrdinaryIn(u, c) ==
    u \notin PlatformAdmin /\ \A m \in ActiveMemberships(u, c) : m.role # "SUPER_ADMIN"

\* Both doors agree: for an ordinary user whose profile is enabled, what his memberships
\* open is the same in the backend and in row-level security -- bookings, branches,
\* commissions and company data.  Of the policies only the memberships are compared: they do
\* not ask whether the profile is enabled, as the backend does, and they show a user besides
\* the bookings he booked, of every channel, where the backend lists those of the web.
MirrorsRowSecurity ==
    \A u \in User, c \in Company : OrdinaryIn(u, c) =>
        LET rows == ActiveMemberships(u, c)
            commissions == CommissionScope(rows) IN
        /\ \A b \in BranchesOf(c) \cup {NoBranch} :
               HasBranchAccess(u, c, b) <=> InScope(AccessScope(rows, "bookings.read"), b)
        /\ \A b \in BranchesOf(c) :
               HasBranchAccess(u, c, b) <=> CanExerciseInBranch(rows, "branches.read", b)
        /\ \A p \in GuardedOperation \cap ReadPermission :
               HasCompanyAccess(u, c) <=> Permits(rows, p)
        /\ \A p \in {"memberships.read", "audit.read"} :
               CanManageCompany(u, c) <=> Permits(rows, p)
        /\ \A m \in {n \in Membership : n.company = c /\ n.role = "AGENT"} :
               ReadsCommission(u, c, m) <=>
                   (commissions.companyWide \/ m \in commissions.agents)
=============================================================================
