------------------------------- MODULE ApiProofs -------------------------------
(***************************************************************************)
(* Proofs about Access and Api, for any users, companies, branches,        *)
(* memberships and bookings, any controllers and any number of requests    *)
(* under way.                                                              *)
(*                                                                         *)
(* What a set of memberships reaches comes down to single memberships      *)
(* (OneMembership, ScopeIsUnion); the rows a handler read belong to the    *)
(* caller and the company of its request (ReadIsOwn), which is all the     *)
(* induction that NoCrossProduct needs.  A step of Api is a move of Access *)
(* (ApiStepMoves), so what is proved of Access holds behind the routes;    *)
(* what they add is that a call and its request agree (CallsAgree).        *)
(***************************************************************************)
EXTENDS Api, TLAPS

-----------------------------------------------------------------------------
\* Of one membership: its role's permissions, and its branch unless it has all.
LEMMA OneMembership ==
    ASSUME NEW m \in MembershipRow, NEW b \in Branch \cup {NoBranch}
    PROVE  /\ PermissionsForRoles({m}) = RolePermissions(m.role)
           /\ BranchAccess({m}).companyWide <=> m.role \in CompanyWideRole
           /\ InScope(BranchAccess({m}), b) <=>
                \/ m.role \in CompanyWideRole
                \/ m.role \in BranchScopedRole /\ b # NoBranch /\ m.branch = b
<1>1. PermissionsForRoles({m}) = RolePermissions(m.role)
  BY DEF PermissionsForRoles
<1>2. BranchAccess({m}).companyWide <=> m.role \in CompanyWideRole
  BY DEF BranchAccess
<1>3. BranchAccess({m}).branches = IF m.role \in CompanyWideRole THEN {}
        ELSE {n.branch : n \in {k \in {m} : k.role \in BranchScopedRole}} \ {NoBranch}
  BY DEF BranchAccess
<1>. QED  BY <1>1, <1>2, <1>3, AccessConstantsOK DEF InScope

\* A role that permits anything is company-wide or branch-scoped.
LEMMA PermittingRole ==
    ASSUME NEW role \in Role, NEW op \in RolePermissions(role)
    PROVE  role \in CompanyWideRole \cup BranchScopedRole
BY DEF Role, RolePermissions, CompanyWideRole, BranchScopedRole

\* An entitlement reaches a branch with a permission as Grants says.
LEMMA GrantsAlone ==
    ASSUME NEW m \in MembershipRow, NEW b \in Branch \cup {NoBranch}, NEW op
    PROVE  (op \in PermissionsForRoles({m}) /\ InScope(BranchAccess({m}), b))
                <=> Grants(m, op, b)
<1>1. m.role \in Role
  BY DEF MembershipRow
<1>. QED  BY <1>1, OneMembership, PermittingRole DEF Grants

\* The scope of several memberships is the union of their scopes, permission first.
LEMMA ScopeIsUnion ==
    ASSUME NEW rows \in SUBSET MembershipRow, NEW b \in Branch \cup {NoBranch}, NEW op
    PROVE  /\ InScope(AccessScope(rows, op), b) <=> \E m \in rows : Grants(m, op, b)
           /\ CanExerciseInBranch(rows, op, b) <=> \E m \in rows : Grants(m, op, b)
<1>. DEFINE Ent(m) == [permissions |-> PermissionsForRoles({m}),
                       access |-> BranchAccess({m})]
            granting == {e \in ResolveEntitlements(rows) : op \in e.permissions}
<1>1. ResolveEntitlements(rows) = {Ent(m) : m \in rows}
  BY DEF ResolveEntitlements
<1>2. \A m \in rows : /\ Ent(m).permissions = PermissionsForRoles({m})
                      /\ Ent(m).access = BranchAccess({m})
  OBVIOUS
<1>3. \A m \in rows :
        (op \in Ent(m).permissions /\ InScope(Ent(m).access, b)) <=> Grants(m, op, b)
  BY <1>2, GrantsAlone
<1>4. InScope(AccessScope(rows, op), b) <=> \E e \in granting : InScope(e.access, b)
  BY DEF InScope, AccessScope
<1>. HIDE DEF Ent
<1>5. InScope(AccessScope(rows, op), b) <=> \E m \in rows : Grants(m, op, b)
  BY <1>1, <1>3, <1>4
<1>6. CanExerciseInBranch(rows, op, b) <=> \E m \in rows : Grants(m, op, b)
  BY <1>1, <1>3 DEF CanExerciseInBranch
<1>. QED  BY <1>5, <1>6

-----------------------------------------------------------------------------
\* The rows a handler read are those of its caller in the company of its request.
OwnRows(q) == {m \in Membership : m.user = q.user /\ m.company = q.company}

ReadIsOwn == \A r \in Request :
    request[r].stage = "scoped" => request[r].read \subseteq OwnRows(request[r])

AccessInv == AccessTypeOK /\ ReadIsOwn

LEMMA IdleTyped ==
    /\ Idle \in [stage : Stage, user : User, company : Company,
                 op : Permission, read : SUBSET Membership]
    /\ Idle.stage = "idle"
<1>1. "audit.read" \in Permission
  BY DEF Permission
<1>2. (CHOOSE p \in Permission : TRUE) \in Permission
  BY <1>1
<1>3. (CHOOSE u \in User : TRUE) \in User /\ (CHOOSE c \in Company : TRUE) \in Company
  BY AccessConstantsOK
<1>. QED  BY <1>2, <1>3 DEF Idle, Stage

LEMMA AccessInit == Init => AccessInv
BY IdleTyped DEF Init, AccessInv, AccessTypeOK, ReadIsOwn

\* A request that is moved on, or ended, keeps its caller and gains no rows.
LEMMA AdvanceKeeps ==
    ASSUME AccessInv, NEW r \in Request,
           \/ \E stage \in Stage \ {"scoped"} : Advance(r, stage)
           \/ End(r)
    PROVE  AccessInv'
<1>1. ASSUME NEW stage \in Stage \ {"scoped"}, Advance(r, stage)  PROVE AccessInv'
  BY <1>1 DEF Advance, AccessInv, AccessTypeOK, ReadIsOwn, OwnRows
<1>2. ASSUME End(r)  PROVE AccessInv'
  BY <1>2, IdleTyped DEF End, AccessInv, AccessTypeOK, ReadIsOwn, OwnRows
<1>. QED  BY <1>1, <1>2

LEMMA ReadKeeps ==
    ASSUME AccessInv, NEW r \in Request, ReadMemberships(r)
    PROVE  AccessInv'
<1>. DEFINE rows == ActiveMemberships(request[r].user, request[r].company)
            q == [request[r] EXCEPT !.stage = "scoped", !.read = rows]
<1>1. rows \subseteq OwnRows(request[r])
  BY DEF AccessInv, AccessTypeOK, ActiveMemberships, OwnRows
<1>2. /\ request' = [request EXCEPT ![r] = q]
      /\ UNCHANGED <<member, enabled>>
  BY DEF ReadMemberships, AccessInv, AccessTypeOK
<1>3. AccessTypeOK'
  BY <1>1, <1>2 DEF AccessInv, AccessTypeOK, OwnRows, Stage
<1>4. q.user = request[r].user /\ q.company = request[r].company /\ q.read = rows
  BY DEF AccessInv, AccessTypeOK
<1>5. ReadIsOwn'
  BY <1>1, <1>2, <1>4 DEF AccessInv, AccessTypeOK, ReadIsOwn, OwnRows
<1>. QED  BY <1>3, <1>5 DEF AccessInv

\* A step of Access on its own, or of Api: a route may demand any permission.
AccessMove ==
    \/ \E r \in Request :
        \/ \E u \in User, c \in Company, op \in Permission : Arrive(r, u, c, op)
        \/ IdentifyCaller(r) \/ Guard(r)
        \/ LoadScope(r) \/ IdentifyReader(r) \/ LoadReadableBranches(r)
        \/ Answer(r)
    \/ \E gone, new \in AtMostOne : ChangeMemberships(gone, new)
    \/ \E u \in User : SwitchProfile(u)
    \/ UNCHANGED vars

LEMMA NextMoves == [Next]_vars => AccessMove
BY AccessConstantsOK DEF Next, AccessMove

LEMMA AccessStep ==
    ASSUME AccessInv, AccessMove
    PROVE  AccessInv'
<1>1. ASSUME NEW r \in Request, NEW u \in User, NEW c \in Company, NEW op \in Permission,
             Arrive(r, u, c, op)
      PROVE  AccessInv'
  BY <1>1, AccessConstantsOK
     DEF Arrive, Stage, AccessInv, AccessTypeOK, ReadIsOwn, OwnRows
<1>2. ASSUME NEW r \in Request, FindActiveProfile(r)  PROVE AccessInv'
  BY <1>2, AdvanceKeeps DEF FindActiveProfile, Stage
<1>3. ASSUME NEW r \in Request, IdentifyCaller(r) \/ IdentifyReader(r)  PROVE AccessInv'
  BY <1>2, <1>3 DEF IdentifyCaller, IdentifyReader
<1>4. ASSUME NEW r \in Request, Guard(r)  PROVE AccessInv'
  BY <1>4, AdvanceKeeps DEF Guard, Stage
<1>5. ASSUME NEW r \in Request, LoadScope(r) \/ LoadReadableBranches(r)  PROVE AccessInv'
  BY <1>5, ReadKeeps DEF LoadScope, LoadReadableBranches
<1>6. ASSUME NEW r \in Request, Answer(r)  PROVE AccessInv'
  BY <1>6, AdvanceKeeps DEF Answer
<1>7. ASSUME NEW gone \in AtMostOne, NEW new \in AtMostOne, ChangeMemberships(gone, new)
      PROVE  AccessInv'
  BY <1>7 DEF ChangeMemberships, AtMostOne, AccessInv, AccessTypeOK, ReadIsOwn, OwnRows
<1>8. ASSUME NEW u \in User, SwitchProfile(u)  PROVE AccessInv'
  BY <1>8 DEF SwitchProfile, AccessInv, AccessTypeOK, ReadIsOwn, OwnRows
<1>9. ASSUME UNCHANGED vars  PROVE AccessInv'
  BY <1>9 DEF vars, AccessInv, AccessTypeOK, ReadIsOwn, OwnRows
<1>. QED  BY <1>1, <1>3, <1>4, <1>5, <1>6, <1>7, <1>8, <1>9 DEF AccessMove

THEOREM AccessInvariant == Spec => []AccessInv
BY AccessInit, AccessStep, NextMoves, PTL DEF Spec

\* The rows and the requests are well typed in every reachable state.
THEOREM AccessTyped == Spec => []AccessTypeOK
<1>1. AccessInv => AccessTypeOK
  BY DEF AccessInv
<1>. QED  BY <1>1, AccessInvariant, PTL

-----------------------------------------------------------------------------
\* The branches a request may name, and those of them its rows let it reach.
Named(q) == BranchesOf(q.company)
                \cup (IF q.op \in ScopedOperation THEN {NoBranch} ELSE {})

GrantedBranch(q, b) == \E m \in q.read :
    /\ m.user = q.user /\ m.company = q.company
    /\ q.op \in BranchOperation
    /\ Grants(m, q.op, b)

\* Each kind of operation reaches the branches granted, in its own way.
LEMMA ReachedIsGranted ==
    ASSUME AccessInv, NEW r \in Request, request[r].stage = "scoped"
    PROVE  Reached(r) = {b \in Named(request[r]) : GrantedBranch(request[r], b)}
<1>. DEFINE q == request[r]
            branches == BranchesOf(q.company)
<1>1. q.read \in SUBSET MembershipRow
  BY AccessConstantsOK DEF AccessInv, AccessTypeOK
<1>2. \A m \in q.read : m.user = q.user /\ m.company = q.company
  BY DEF AccessInv, ReadIsOwn, OwnRows
<1>3. branches \subseteq Branch
  BY DEF BranchesOf
<1>4. ASSUME NEW b \in Branch \cup {NoBranch}, q.op \in BranchOperation
      PROVE  /\ InScope(AccessScope(q.read, q.op), b) <=> GrantedBranch(q, b)
             /\ CanExerciseInBranch(q.read, q.op, b) <=> GrantedBranch(q, b)
  BY <1>1, <1>2, <1>4, ScopeIsUnion DEF GrantedBranch
<1>5. CASE q.op \in ScopedOperation
  <2>1. q.op \notin {"bookings.create", "branches.read"} /\ q.op \in BranchOperation
    BY <1>5 DEF ScopedOperation, BranchOperation
  <2>2. Reached(r) = {b \in branches \cup {NoBranch} : InScope(AccessScope(q.read, q.op), b)}
    BY <1>5, <2>1 DEF Reached
  <2>3. Named(q) = branches \cup {NoBranch}
    BY <1>5 DEF Named
  <2>. QED  BY <1>3, <1>4, <2>1, <2>2, <2>3
<1>6. CASE q.op \in {"bookings.create", "branches.read"}
  <2>1. q.op \notin ScopedOperation /\ q.op \in BranchOperation
    BY <1>6 DEF ScopedOperation, BranchOperation
  <2>2. Reached(r) = {b \in branches : GrantedBranch(q, b)}
    <3>1. ASSUME q.op = "bookings.create"
          PROVE  \A b : b \in Reached(r) <=>
                    b \in branches /\ CanExerciseInBranch(q.read, q.op, b)
      BY <2>1, <3>1 DEF Reached
    <3>2. ASSUME q.op = "branches.read"
          PROVE  \A b : b \in Reached(r) <=>
                    b \in branches /\ InScope(AccessScope(q.read, q.op), b)
      BY <2>1, <3>2 DEF Reached
    <3>. QED  BY <1>3, <1>4, <1>6, <2>1, <3>1, <3>2
  <2>3. Named(q) = branches
    BY <2>1 DEF Named
  <2>. QED  BY <1>3, <1>4, <2>1, <2>2, <2>3
<1>7. CASE q.op \notin BranchOperation
  <2>1. Reached(r) = {}
    BY <1>7 DEF Reached, BranchOperation
  <2>. QED  BY <1>7, <2>1 DEF GrantedBranch
<1>. QED  BY <1>5, <1>6, <1>7 DEF BranchOperation

LEMMA AccessInvNoCross == AccessInv => NoCrossProduct
BY ReachedIsGranted DEF NoCrossProduct, Named, GrantedBranch

\* Whatever memberships a user holds and however they change during the request, its
\* permissions meet only the branches of the membership that gives them.
THEOREM NoCrossProductHolds == Spec => []NoCrossProduct
BY AccessInvNoCross, AccessInvariant, PTL

-----------------------------------------------------------------------------
\* What the guard admits a request on comes from some one membership of its user.
LEMMA PermittedBySome ==
    ASSUME NEW rows, NEW op, Permits(rows, op)
    PROVE  \E m \in rows : op \in RolePermissions(m.role)
BY DEF Permits, PermissionsForRoles

\* Only company-wide roles permit what is neither reading nor an agent's operation.
LEMMA ManagersPermit ==
    ASSUME NEW role, NEW op \in GuardedOperation \ ReadPermission,
           op \in RolePermissions(role)
    PROVE  role \in CompanyWideRole
BY DEF RolePermissions, GuardedOperation, BranchOperation

\* Nobody is admitted to an operation on the whole company who does not manage it.
LEMMA AdmitsOnlyManagers ==
    ASSUME AccessInv, AccessMove
    PROVE  AdmitsManagers
<1>. SUFFICES ASSUME NEW r \in Request,
                     request[r].stage = "known", request'[r].stage = "admitted",
                     request[r].op \in GuardedOperation \ ReadPermission
              PROVE  \E m \in member : /\ m.user = request[r].user
                                       /\ m.company = request[r].company
                                       /\ m.role \in CompanyWideRole
  BY DEF AdmitsManagers
<1>1. ASSUME NEW s \in Request, NEW u \in User, NEW c \in Company, NEW op \in Permission,
             Arrive(s, u, c, op)
      PROVE  FALSE
  BY <1>1 DEF Arrive, AccessInv, AccessTypeOK, Idle
<1>2. ASSUME NEW s \in Request, FindActiveProfile(s),
             request[s].stage \in {"arrived", "admitted"}
      PROVE  FALSE
  BY <1>2, IdleTyped DEF FindActiveProfile, Advance, End, AccessInv, AccessTypeOK
<1>3. ASSUME NEW s \in Request, ReadMemberships(s)  PROVE FALSE
  BY <1>3 DEF ReadMemberships, AccessInv, AccessTypeOK
<1>4. ASSUME NEW s \in Request, Answer(s)  PROVE FALSE
  BY <1>4, IdleTyped DEF Answer, End, AccessInv, AccessTypeOK
<1>5. ASSUME NEW s \in Request, Guard(s), s # r  PROVE FALSE
  BY <1>5 DEF Guard, Advance, End, AccessInv, AccessTypeOK
<1>6. ASSUME Guard(r)
      PROVE  Permits(ActiveMemberships(request[r].user, request[r].company),
                     request[r].op)
  BY <1>6, IdleTyped DEF Guard, End, AccessInv, AccessTypeOK
<1>7. ASSUME UNCHANGED request  PROVE FALSE
  BY <1>7
<1>8. Guard(r)
  <2>1. ASSUME NEW gone \in AtMostOne, NEW new \in AtMostOne,
               ChangeMemberships(gone, new)
        PROVE  FALSE
    BY <1>7, <2>1 DEF ChangeMemberships
  <2>2. ASSUME NEW u \in User, SwitchProfile(u)  PROVE FALSE
    BY <1>7, <2>2 DEF SwitchProfile
  <2>3. ASSUME UNCHANGED vars  PROVE FALSE
    BY <1>7, <2>3 DEF vars
  <2>4. ASSUME NEW s \in Request,
               \/ IdentifyCaller(s) \/ LoadScope(s)
               \/ IdentifyReader(s) \/ LoadReadableBranches(s)
        PROVE  FALSE
    BY <1>2, <1>3, <2>4 DEF IdentifyCaller, LoadScope, IdentifyReader, LoadReadableBranches
  <2>. QED  BY <1>1, <1>4, <1>5, <2>1, <2>2, <2>3, <2>4 DEF AccessMove
<1>9. PICK m \in ActiveMemberships(request[r].user, request[r].company) :
          request[r].op \in RolePermissions(m.role)
  BY <1>6, <1>8, PermittedBySome
<1>. QED  BY <1>9, ManagersPermit DEF ActiveMemberships

\* The guard admits to an operation on the whole company only who manages it.
THEOREM ManagersOnly == Spec => ManagementIsCompanyWide
<1>1. AccessInv /\ [Next]_vars => [AdmitsManagers]_vars
  BY NextMoves, AdmitsOnlyManagers
<1>. QED  BY <1>1, AccessInvariant, PTL DEF Spec, ManagementIsCompanyWide

-----------------------------------------------------------------------------
\* The memberships that count in a company, for either door.
LEMMA ActiveTyped ==
    ASSUME AccessTypeOK, NEW u \in User, NEW c \in Company
    PROVE  /\ ActiveMemberships(u, c) \in SUBSET MembershipRow
           /\ \A m \in ActiveMemberships(u, c) :
                m \in member /\ m.user = u /\ m.company = c /\ m.role \in Role
BY AccessConstantsOK DEF AccessTypeOK, ActiveMemberships, MembershipRow

\* Row-level security and the services' scopes show the same bookings and branches.
LEMMA BranchesMirrored ==
    ASSUME AccessTypeOK, NEW u \in User, NEW c \in Company, OrdinaryIn(u, c),
           NEW b \in Branch \cup {NoBranch},
           NEW op, \A role \in CompanyWideRole \cup BranchScopedRole :
                        op \in RolePermissions(role)
    PROVE  HasBranchAccess(u, c, b) <=> \E m \in ActiveMemberships(u, c) : Grants(m, op, b)
<1>. DEFINE rows == ActiveMemberships(u, c)
<1>1. \A m \in rows : m.role \in Role /\ m.role # "SUPER_ADMIN"
  BY ActiveTyped DEF OrdinaryIn
<1>2. \A m \in rows : Grants(m, op, b) <=>
        \/ m.role = "COMPANY_MANAGER"
        \/ m.role \in BranchScopedRole /\ b # NoBranch /\ m.branch = b
  <2>. SUFFICES ASSUME NEW m \in rows
                PROVE  Grants(m, op, b) <=>
                    \/ m.role = "COMPANY_MANAGER"
                    \/ m.role \in BranchScopedRole /\ b # NoBranch /\ m.branch = b
    OBVIOUS
  <2>1. CASE m.role \in CompanyWideRole
    BY <1>1, <2>1 DEF Grants, CompanyWideRole, BranchScopedRole
  <2>2. CASE m.role \in BranchScopedRole
    BY <1>1, <2>2 DEF Grants, CompanyWideRole, BranchScopedRole
  <2>3. CASE m.role \notin CompanyWideRole \cup BranchScopedRole
    BY <1>1, <2>3, PermittingRole DEF Grants, CompanyWideRole, BranchScopedRole
  <2>. QED  BY <2>1, <2>2, <2>3
<1>3. HasBranchAccess(u, c, b) <=> \E m \in rows :
        \/ m.role = "COMPANY_MANAGER"
        \/ m.role \in BranchScopedRole /\ b # NoBranch /\ m.branch = b
  BY DEF HasBranchAccess, OrdinaryIn, ActiveMemberships
<1>. QED  BY <1>2, <1>3

\* Data of the whole company is open, on both sides, to the same roles.
LEMMA CompanyMirrored ==
    ASSUME AccessTypeOK, NEW u \in User, NEW c \in Company, OrdinaryIn(u, c)
    PROVE  /\ \A p \in ReadPermission :
                HasCompanyAccess(u, c) <=> Permits(ActiveMemberships(u, c), p)
           /\ \A p \in {"memberships.read", "audit.read"} :
                CanManageCompany(u, c) <=> Permits(ActiveMemberships(u, c), p)
<1>. DEFINE rows == ActiveMemberships(u, c)
<1>1. \A m \in rows : m.role \in Role /\ m.role # "SUPER_ADMIN"
  BY ActiveTyped DEF OrdinaryIn
<1>2. \A p : Permits(rows, p) <=> \E m \in rows : p \in RolePermissions(m.role)
  BY DEF Permits, PermissionsForRoles
<1>3. \A role \in Role : \A p \in ReadPermission :
        p \in RolePermissions(role) <=> role # "PASSENGER"
  BY DEF Role, RolePermissions, CompanyWideRole, Permission
<1>4. \A role \in Role : \A p \in {"memberships.read", "audit.read"} :
        p \in RolePermissions(role) <=> role \in CompanyWideRole
  BY DEF Role, RolePermissions, CompanyWideRole, Permission, ReadPermission
<1>5. HasCompanyAccess(u, c) <=> \E m \in rows : m.role # "PASSENGER"
  BY <1>1 DEF HasCompanyAccess, OrdinaryIn, ActiveMemberships, Role
<1>6. CanManageCompany(u, c) <=> \E m \in rows : m.role \in CompanyWideRole
  BY <1>1 DEF CanManageCompany, OrdinaryIn, ActiveMemberships, CompanyWideRole
<1>7. ASSUME NEW p \in ReadPermission
      PROVE  HasCompanyAccess(u, c) <=> Permits(rows, p)
  BY <1>1, <1>2, <1>3, <1>5
<1>8. ASSUME NEW p \in {"memberships.read", "audit.read"}
      PROVE  CanManageCompany(u, c) <=> Permits(rows, p)
  BY <1>1, <1>2, <1>4, <1>6
<1>. QED  BY <1>7, <1>8

\* A commission is shown to managers and to the agent whose membership earned it.
LEMMA CommissionsMirrored ==
    ASSUME AccessTypeOK, NEW u \in User, NEW c \in Company, OrdinaryIn(u, c),
           NEW m \in Membership, m.company = c, m.role = "AGENT"
    PROVE  LET commissions == CommissionScope(ActiveMemberships(u, c)) IN
           ReadsCommission(u, c, m) <=>
                (commissions.companyWide \/ m \in commissions.agents)
<1>. DEFINE rows == ActiveMemberships(u, c)
<1>1. CommissionScope(rows).companyWide <=> CanManageCompany(u, c)
  BY DEF CommissionScope, CanManageCompany, OrdinaryIn, ActiveMemberships, CompanyWideRole
<1>2. m \in CommissionScope(rows).agents <=> m \in member /\ m.user = u
  BY DEF CommissionScope, ActiveMemberships
<1>. QED  BY <1>1, <1>2 DEF ReadsCommission

LEMMA TypedMirrors ==
    ASSUME AccessTypeOK
    PROVE  MirrorsRowSecurity
<1>. SUFFICES ASSUME NEW u \in User, NEW c \in Company, OrdinaryIn(u, c)
              PROVE  LET rows == ActiveMemberships(u, c)
                         commissions == CommissionScope(rows) IN
        /\ \A b \in BranchesOf(c) \cup {NoBranch} :
            HasBranchAccess(u, c, b) <=> InScope(AccessScope(rows, "bookings.read"), b)
        /\ \A b \in BranchesOf(c) :
            HasBranchAccess(u, c, b) <=> CanExerciseInBranch(rows, "branches.read", b)
        /\ \A p \in GuardedOperation \cap ReadPermission :
            HasCompanyAccess(u, c) <=> Permits(rows, p)
        /\ \A p \in {"memberships.read", "audit.read"} :
            CanManageCompany(u, c) <=> Permits(rows, p)
        /\ \A m \in {n \in Membership : n.company = c /\ n.role = "AGENT"} :
            ReadsCommission(u, c, m) <=>
                (commissions.companyWide \/ m \in commissions.agents)
  BY DEF MirrorsRowSecurity
<1>. DEFINE rows == ActiveMemberships(u, c)
<1>1. BranchesOf(c) \subseteq Branch
  BY DEF BranchesOf
<1>2. \A role \in CompanyWideRole \cup BranchScopedRole :
          {"bookings.read", "branches.read"} \subseteq RolePermissions(role)
  BY DEF RolePermissions, CompanyWideRole, BranchScopedRole, Permission, ReadPermission
<1>3. ASSUME NEW b \in Branch \cup {NoBranch}, NEW op \in {"bookings.read", "branches.read"}
      PROVE  /\ HasBranchAccess(u, c, b) <=> InScope(AccessScope(rows, op), b)
             /\ HasBranchAccess(u, c, b) <=> CanExerciseInBranch(rows, op, b)
  <2>1. rows \in SUBSET MembershipRow
    BY ActiveTyped
  <2>2. HasBranchAccess(u, c, b) <=> \E m \in rows : Grants(m, op, b)
    BY <1>2, BranchesMirrored
  <2>. QED  BY <2>1, <2>2, ScopeIsUnion
<1>4. \A m \in {n \in Membership : n.company = c /\ n.role = "AGENT"} :
          ReadsCommission(u, c, m) <=>
              \/ CommissionScope(rows).companyWide
              \/ m \in CommissionScope(rows).agents
  BY CommissionsMirrored
<1>5. /\ \A p \in GuardedOperation \cap ReadPermission :
          HasCompanyAccess(u, c) <=> Permits(rows, p)
      /\ \A p \in {"memberships.read", "audit.read"} :
          CanManageCompany(u, c) <=> Permits(rows, p)
  BY CompanyMirrored
<1>. QED  BY <1>1, <1>3, <1>4, <1>5

\* For every set of memberships the backend and the database's own policies agree on what
\* they open (enabled profiles; the policies' arm for a user's own bookings apart).
THEOREM DoorsAgree == Spec => []MirrorsRowSecurity
BY TypedMirrors, AccessTyped, PTL

-----------------------------------------------------------------------------
(***************************************************************************)
(* The routes: five places that must mean the same.                        *)
(***************************************************************************)

\* What the decorators of a route, its handler and its service agree on.
RouteShape(route) ==
    /\ route.company \in {None, "path", "header"}
    /\ (route.permission = None) = (route.company = None)
    /\ route.permission # None => route.permission \in Permission /\ ~route.public
    /\ route.controller \in DOMAIN ServiceScope /\ route.permission # None =>
            route.permission = ServiceScope[route.controller][route.handler]

LEMMA OwnShape ==
    ASSUME NEW controller, NEW handlers, NEW route \in Own(controller, handlers)
    PROVE  RouteShape(route)
BY DEF Own, Private, RouteShape, None

LEMMA PublicShape ==
    ASSUME NEW controller, NEW handlers, NEW throttled,
           NEW route \in Public(controller, handlers, throttled)
    PROVE  RouteShape(route)
BY DEF Public, RouteShape, None

\* A controller whose routes demand permissions, and what its service scopes by.
LEMMA PrivateShape ==
    ASSUME NEW controller, NEW company \in {"path", "header"}, NEW permissionOf,
           \A h \in DOMAIN permissionOf : permissionOf[h] \in Permission,
           controller \in DOMAIN ServiceScope => permissionOf = ServiceScope[controller],
           NEW route \in Private(controller, company, permissionOf)
    PROVE  RouteShape(route)
<1>1. None \notin Permission
  BY DEF None, Permission, ReadPermission
<1>2. PICK h \in DOMAIN permissionOf :
        route = [controller |-> controller, handler |-> h, company |-> company,
                 permission |-> permissionOf[h], public |-> FALSE, throttled |-> TRUE]
  BY DEF Private
<1>. QED  BY <1>1, <1>2 DEF RouteShape, None

LEMMA ScopedControllers ==
    /\ DOMAIN ServiceScope = {"bookings", "payments", "tickets"}
    /\ ServiceScope["bookings"] = BookingsServiceScope
    /\ ServiceScope["payments"] = PaymentsServiceScope
    /\ ServiceScope["tickets"] = TicketsServiceScope
BY DEF ServiceScope

\* The routes that demand a permission, scoped by a service or guarded only.
LEMMA ScopedRoutesShape ==
    ASSUME NEW route \in UNION {CompanyBookingsController, CompanyPaymentsController,
                                CompanyTicketsController}
    PROVE  RouteShape(route)
<1>1. CASE route \in CompanyBookingsController
  <2>1. \A h \in DOMAIN BookingsServiceScope : BookingsServiceScope[h] \in Permission
    BY DEF BookingsServiceScope, Permission, ReadPermission
  <2>2. route \in Private("bookings", "path", BookingsServiceScope)
    BY <1>1 DEF CompanyBookingsController, BookingsServiceScope
  <2>. QED  BY <2>1, <2>2, PrivateShape, ScopedControllers
<1>2. CASE route \in CompanyPaymentsController
  <2>1. \A h \in DOMAIN PaymentsServiceScope : PaymentsServiceScope[h] \in Permission
    BY DEF PaymentsServiceScope, Permission, ReadPermission
  <2>2. route \in Private("payments", "path", PaymentsServiceScope)
    BY <1>2 DEF CompanyPaymentsController, PaymentsServiceScope
  <2>. QED  BY <2>1, <2>2, PrivateShape, ScopedControllers
<1>3. CASE route \in CompanyTicketsController
  <2>1. \A h \in DOMAIN TicketsServiceScope : TicketsServiceScope[h] \in Permission
    BY DEF TicketsServiceScope, Permission, ReadPermission
  <2>2. route \in Private("tickets", "path", TicketsServiceScope)
    BY <1>3 DEF CompanyTicketsController, TicketsServiceScope
  <2>. QED  BY <2>1, <2>2, PrivateShape, ScopedControllers
<1>. QED  BY <1>1, <1>2, <1>3

\* The others rely on the guard: no service scopes by what they demand.
LEMMA GuardedRoutesShape ==
    ASSUME NEW route \in UNION {BranchesController, StaffController, BusesController,
                                RoutesController, RoutePricesController,
                                TripsController, TripEventsController,
                                MembershipsController, MaintenanceController,
                                CommissionsController, AuditController}
    PROVE  RouteShape(route)
<1>1. /\ route.controller \notin {"bookings", "payments", "tickets"}
      /\ route.company \in {"path", "header"}
      /\ route.permission \in Permission
      /\ ~route.public
  BY DEF BranchesController, StaffController, BusesController, RoutesController,
         RoutePricesController, TripsController, TripEventsController,
         MembershipsController, MaintenanceController, CommissionsController,
         AuditController, Private, Permission, ReadPermission
<1>2. None \notin Permission
  BY DEF None, Permission, ReadPermission
<1>. QED  BY <1>1, <1>2, ScopedControllers DEF RouteShape, None

LEMMA RoutesShape ==
    ASSUME NEW route \in Routes
    PROVE  RouteShape(route)
<1>1. route \in AllRoutes
  BY DEF Routes
<1>2. ASSUME route \in UNION {PassengerBookingsController, PassengerPaymentsController,
                              PassengerTicketsController, ProfilesController,
                              AuthController, StationsController, CitiesController,
                              SeatLayoutsController}
      PROVE  RouteShape(route)
  BY <1>2, OwnShape
     DEF PassengerBookingsController, PassengerPaymentsController,
         PassengerTicketsController, ProfilesController, AuthController,
         StationsController, CitiesController, SeatLayoutsController
<1>3. ASSUME route \in UNION {PaymentWebhookController, AvailabilityController,
                              HealthController}
      PROVE  RouteShape(route)
  BY <1>3, PublicShape
     DEF PaymentWebhookController, AvailabilityController, HealthController
<1>. QED  BY <1>1, <1>2, <1>3, ScopedRoutesShape, GuardedRoutesShape DEF AllRoutes

-----------------------------------------------------------------------------
(***************************************************************************)
(* A call and the request it stands for.                                   *)
(***************************************************************************)
CallStage == {"idle", "received", "counted", "authenticated", "authorizing", "handling"}

CallRow == [stage : CallStage, route : Routes \cup {NoCall.route},
            token : User \cup {Nobody, BadToken}, path : Company \cup {NoCompany},
            header : Company \cup {NoCompany}, principal : User \cup {Nobody}]

CallsTyped == call \in [Request -> CallRow]

\* A call the authorization guard has, or has let through, for a permission.
Guarded(q) == q.stage \in {"authorizing", "handling"} /\ q.route.permission # None

Carried(q) ==
    /\ q.route \in Routes
    /\ (q.path = NoCompany) = (q.route.company # "path")

\* The guard was asked about the call's caller, what its route demands, and the company
\* of the path or, on a route without one, of the header.
AskedAbout(q, access) ==
    /\ access.stage # "idle"
    /\ access.user = q.principal
    /\ access.op = q.route.permission
    /\ access.company = IF q.path # NoCompany THEN q.path ELSE q.header

CallAgrees(q, access) ==
    /\ q.stage # "idle" => Carried(q)
    /\ q.stage \in {"authenticated", "authorizing", "handling"} =>
            q.route.public \/ q.principal \in User
    /\ q.stage = "authorizing" => q.route.permission # None
    /\ Guarded(q) => AskedAbout(q, access)

CallsAgree == \A r \in Request : CallAgrees(call[r], request[r])

ApiInv == AccessInv /\ CallsTyped /\ CallsAgree

LEMMA NoCallAgrees == NoCall \in CallRow /\ \A access : CallAgrees(NoCall, access)
<1>1. /\ NoCall.stage = "idle" /\ NoCall.token = Nobody /\ NoCall.principal = Nobody
      /\ NoCall.path = NoCompany /\ NoCall.header = NoCompany
  BY DEF NoCall
<1>2. NoCall \in CallRow
  BY DEF NoCall, CallRow, CallStage
<1>. QED  BY <1>1, <1>2 DEF CallAgrees, Guarded

LEMMA ApiStarts == ApiInit => ApiInv
BY AccessInit, NoCallAgrees DEF ApiInit, ApiInv, CallsTyped, CallsAgree

\* What the guard and the services do to a request keeps whom and what it is about.
SameQuestion(r) ==
    /\ request'[r].stage # "idle" => /\ request'[r].user = request[r].user
                                     /\ request'[r].company = request[r].company
                                     /\ request'[r].op = request[r].op
    /\ \A s \in Request \ {r} : request'[s] = request[s]

LEMMA QuestionKept ==
    ASSUME AccessInv, NEW r \in Request,
           \/ IdentifyCaller(r) \/ Guard(r) \/ LoadScope(r)
           \/ IdentifyReader(r) \/ LoadReadableBranches(r) \/ Answer(r)
    PROVE  SameQuestion(r)
<1>1. ASSUME End(r)  PROVE SameQuestion(r)
  BY <1>1, IdleTyped DEF End, SameQuestion, AccessInv, AccessTypeOK
<1>2. ASSUME NEW stage, Advance(r, stage)  PROVE SameQuestion(r)
  BY <1>2 DEF Advance, SameQuestion, AccessInv, AccessTypeOK
<1>3. ASSUME ReadMemberships(r)  PROVE SameQuestion(r)
  BY <1>3 DEF ReadMemberships, SameQuestion, AccessInv, AccessTypeOK
<1>4. ASSUME IdentifyCaller(r) \/ IdentifyReader(r)  PROVE SameQuestion(r)
  BY <1>1, <1>2, <1>4 DEF IdentifyCaller, IdentifyReader, FindActiveProfile
<1>5. ASSUME Guard(r)  PROVE SameQuestion(r)
  BY <1>1, <1>2, <1>5 DEF Guard
<1>6. ASSUME LoadScope(r) \/ LoadReadableBranches(r)  PROVE SameQuestion(r)
  BY <1>3, <1>6 DEF LoadScope, LoadReadableBranches
<1>7. ASSUME Answer(r)  PROVE SameQuestion(r)
  BY <1>1, <1>7 DEF Answer
<1>. QED  BY <1>4, <1>5, <1>6, <1>7

\* Steps of one call leave the others and their requests alone.
LEMMA OthersAgree ==
    ASSUME ApiInv, NEW r \in Request, NEW q \in CallRow, call' = [call EXCEPT ![r] = q],
           \A s \in Request \ {r} : request'[s] = request[s],
           CallAgrees(q, request'[r])
    PROVE  CallsTyped' /\ CallsAgree'
<1>1. CallsTyped' /\ call'[r] = q /\ \A s \in Request \ {r} : call'[s] = call[s]
  BY DEF ApiInv, CallsTyped
<1>2. ASSUME NEW s \in Request  PROVE CallAgrees(call[s], request[s])' 
  <2>1. CASE s = r
    BY <1>1, <2>1
  <2>2. CASE s # r
    <3>1. CallAgrees(call[s], request[s])
      BY DEF ApiInv, CallsAgree
    <3>2. call'[s] = call[s] /\ request'[s] = request[s]
      BY <1>1, <2>2
    <3>. QED  BY <3>1, <3>2
  <2>. QED  BY <2>1, <2>2
<1>. QED  BY <1>1, <1>2 DEF CallsAgree

\* The guard is asked about whom the token says, in a company, for a permission.
LEMMA GuardAsks ==
    ASSUME ApiInv, NEW r \in Request, AuthorizationGuard(r),
           call[r].route.permission # None, ExtractCompanyId(r) # NoCompany
    PROVE  /\ call[r].principal \in User
           /\ ExtractCompanyId(r) \in Company
           /\ call[r].route.permission \in Permission
           /\ Arrive(r, call[r].principal, ExtractCompanyId(r), call[r].route.permission)
           /\ call' = [call EXCEPT ![r].stage = "authorizing"]
<1>1. call[r].stage = "authenticated"
  BY DEF AuthorizationGuard
<1>2. CallAgrees(call[r], request[r])
  BY DEF ApiInv, CallsAgree
<1>3. Carried(call[r]) /\ (call[r].route.public \/ call[r].principal \in User)
  BY <1>1, <1>2 DEF CallAgrees
<1>4. call[r] \in CallRow
  BY DEF ApiInv, CallsTyped
<1>5. RouteShape(call[r].route)
  BY <1>3, RoutesShape DEF Carried
<1>. QED  BY <1>3, <1>5, <1>4
          DEF Carried, CallRow, RouteShape, ExtractCompanyId, AuthorizationGuard

\* What Api does to the requests of Access is what Access may do.
LEMMA ApiStepMoves ==
    ASSUME ApiInv, [ApiNext]_apiVars
    PROVE  AccessMove
<1>1. ASSUME UNCHANGED vars  PROVE AccessMove
  BY <1>1 DEF AccessMove
<1>2. ASSUME NEW r \in Request, NEW route, NEW token, NEW path, NEW header,
             Receive(r, route, token, path, header)
      PROVE  AccessMove
  BY <1>1, <1>2 DEF Receive
<1>3. ASSUME NEW r \in Request, IdentityThrottlerGuard(r)  PROVE AccessMove
  BY <1>1, <1>3 DEF IdentityThrottlerGuard, Proceed, Reply
<1>4. ASSUME NEW r \in Request, AuthenticationGuard(r)  PROVE AccessMove
  BY <1>1, <1>4 DEF AuthenticationGuard, Proceed, Reply
<1>5. ASSUME NEW r \in Request, AuthorizationGuard(r)  PROVE AccessMove
  <2>1. CASE call[r].route.permission = None \/ ExtractCompanyId(r) = NoCompany
    BY <1>1, <1>5, <2>1 DEF AuthorizationGuard, Proceed, Reply
  <2>2. CASE call[r].route.permission # None /\ ExtractCompanyId(r) # NoCompany
    BY <1>5, <2>2, GuardAsks DEF AccessMove
  <2>. QED  BY <2>1, <2>2
<1>6. ASSUME NEW r \in Request, Authorize(r)  PROVE AccessMove
  BY <1>6 DEF Authorize, AccessMove
<1>7. ASSUME NEW r \in Request, LoadHandlerScope(r)  PROVE AccessMove
  BY <1>7 DEF LoadHandlerScope, AccessMove
<1>8. ASSUME NEW r \in Request, Respond(r)  PROVE AccessMove
  BY <1>1, <1>8 DEF Respond, Reply, AccessMove
<1>9. ASSUME NEW gone \in AtMostOne, NEW new \in AtMostOne, ChangeMemberships(gone, new)
      PROVE  AccessMove
  BY <1>9 DEF AccessMove
<1>10. ASSUME NEW u \in User, SwitchProfile(u)  PROVE AccessMove
  BY <1>10 DEF AccessMove
<1>11. ASSUME UNCHANGED apiVars  PROVE AccessMove
  BY <1>1, <1>11 DEF apiVars
<1>. QED  BY <1>2, <1>3, <1>4, <1>5, <1>6, <1>7, <1>8, <1>9, <1>10, <1>11 DEF ApiNext

\* A call that is moved on or answered while the requests stay as they are.
LEMMA CallAlone ==
    ASSUME ApiInv, NEW r \in Request, UNCHANGED vars, NEW q \in CallRow,
           call' = [call EXCEPT ![r] = q], CallAgrees(q, request[r])
    PROVE  CallsTyped' /\ CallsAgree'
BY OthersAgree DEF vars

LEMMA ReplyKeeps ==
    ASSUME ApiInv, NEW r \in Request, Reply(r)
    PROVE  CallsTyped' /\ CallsAgree'
BY CallAlone, NoCallAgrees DEF Reply

\* A call is followed from where the guard or the services left its request.
LEMMA FollowKeeps ==
    ASSUME ApiInv, NEW r \in Request, Follow(r), SameQuestion(r),
           call[r].stage \in {"authorizing", "handling"}
    PROVE  CallsTyped' /\ CallsAgree'
<1>. DEFINE q == call[r]
            moved == [q EXCEPT !.stage = "handling"]
<1>1. q \in CallRow /\ CallAgrees(q, request[r])
  BY DEF ApiInv, CallsTyped, CallsAgree
<1>2. \A s \in Request \ {r} : request'[s] = request[s]
  BY DEF SameQuestion
<1>3. CASE request'[r].stage = "idle"
  <2>1. call' = [call EXCEPT ![r] = NoCall]
    BY <1>3 DEF Follow
  <2>. QED  BY <1>2, <2>1, OthersAgree, NoCallAgrees
<1>4. ASSUME request'[r].stage # "idle"
      PROVE  CallAgrees(q, request'[r])
  BY <1>1, <1>4 DEF CallAgrees, SameQuestion, Guarded, AskedAbout
<1>5. CASE request'[r].stage \in {"arrived", "known"}
  <2>1. call' = [call EXCEPT ![r] = q]
    BY <1>5 DEF Follow
  <2>. QED  BY <1>1, <1>2, <1>4, <1>5, <2>1, OthersAgree
<1>6. CASE request'[r].stage \notin {"idle", "arrived", "known"}
  <2>1. call' = [call EXCEPT ![r] = moved]
    BY <1>6 DEF Follow
  <2>2. moved \in CallRow /\ CallAgrees(moved, request'[r])
    BY <1>1, <1>4, <1>6 DEF CallAgrees, CallRow, CallStage, Carried, Guarded, AskedAbout
  <2>. QED  BY <1>2, <2>1, <2>2, OthersAgree
<1>. QED  BY <1>3, <1>5, <1>6

LEMMA ReceiveKeeps ==
    ASSUME ApiInv, NEW r \in Request, NEW route \in Routes,
           NEW token \in User \cup {Nobody, BadToken},
           NEW path \in Company \cup {NoCompany}, NEW header \in Company \cup {NoCompany},
           Receive(r, route, token, path, header)
    PROVE  CallsTyped' /\ CallsAgree'
<1>. DEFINE q == [stage |-> "received", route |-> route, token |-> token, path |-> path,
                  header |-> header, principal |-> Nobody]
<1>1. q \in CallRow
  BY DEF CallRow, CallStage
<1>2. CallAgrees(q, request[r])
  BY DEF Receive, CallAgrees, Carried, Guarded
<1>3. call' = [call EXCEPT ![r] = q] /\ UNCHANGED vars
  BY DEF Receive
<1>. QED  BY <1>1, <1>2, <1>3, CallAlone

LEMMA ProceedKeeps ==
    ASSUME ApiInv, NEW r \in Request, NEW stage \in CallStage, Proceed(r, stage),
           call[r].stage # "idle", stage \notin {"idle", "authorizing"},
           stage \in {"authenticated", "handling"} =>
                call[r].route.public \/ call[r].principal \in User,
           stage = "handling" => call[r].route.permission = None
    PROVE  CallsTyped' /\ CallsAgree'
<1>. DEFINE q == [call[r] EXCEPT !.stage = stage]
<1>1. call[r] \in CallRow /\ CallAgrees(call[r], request[r])
  BY DEF ApiInv, CallsTyped, CallsAgree
<1>2. q \in CallRow /\ CallAgrees(q, request[r])
  BY <1>1 DEF CallRow, CallAgrees, Carried, Guarded, AskedAbout
<1>3. call' = [call EXCEPT ![r] = q] /\ UNCHANGED vars
  BY DEF Proceed
<1>. QED  BY <1>2, <1>3, CallAlone

LEMMA AuthenticationKeeps ==
    ASSUME ApiInv, NEW r \in Request, AuthenticationGuard(r)
    PROVE  CallsTyped' /\ CallsAgree'
<1>1. call[r].stage = "counted"
  BY DEF AuthenticationGuard
<1>2. CASE call[r].route.public
  <2>1. Proceed(r, "authenticated")
    BY <1>2 DEF AuthenticationGuard
  <2>. QED  BY <1>1, <1>2, <2>1, ProceedKeeps DEF CallStage
<1>3. CASE ~call[r].route.public
  <2>1. PICK principal \in Verdicts(call[r].token) :
            IF principal = Nobody THEN Reply(r)
            ELSE /\ call' = [call EXCEPT ![r].stage = "authenticated",
                                         ![r].principal = principal]
                 /\ UNCHANGED vars
    BY <1>3 DEF AuthenticationGuard
  <2>2. CASE principal = Nobody
    BY <2>1, <2>2, ReplyKeeps
  <2>3. CASE principal # Nobody
    <3>. DEFINE q == [call[r] EXCEPT !.stage = "authenticated", !.principal = principal]
    <3>1. principal \in User
      BY <2>3 DEF Verdicts
    <3>2. call[r] \in CallRow /\ CallAgrees(call[r], request[r])
      BY DEF ApiInv, CallsTyped, CallsAgree
    <3>3. q \in CallRow /\ CallAgrees(q, request[r])
      BY <1>1, <3>1, <3>2 DEF CallRow, CallStage, CallAgrees, Carried, Guarded
    <3>4. call' = [call EXCEPT ![r] = q] /\ UNCHANGED vars
      BY <2>1, <2>3 DEF ApiInv, CallsTyped
    <3>. QED  BY <3>3, <3>4, CallAlone
  <2>. QED  BY <2>2, <2>3
<1>. QED  BY <1>2, <1>3

LEMMA AuthorizationKeeps ==
    ASSUME ApiInv, NEW r \in Request, AuthorizationGuard(r)
    PROVE  CallsTyped' /\ CallsAgree'
<1>1. call[r].stage = "authenticated"
  BY DEF AuthorizationGuard
<1>2. call[r] \in CallRow /\ CallAgrees(call[r], request[r])
  BY DEF ApiInv, CallsTyped, CallsAgree
<1>3. CASE call[r].route.permission = None
  <2>1. Proceed(r, "handling")
    BY <1>3 DEF AuthorizationGuard
  <2>2. call[r].route.public \/ call[r].principal \in User
    BY <1>1, <1>2 DEF CallAgrees
  <2>. QED  BY <1>1, <1>3, <2>1, <2>2, ProceedKeeps DEF CallStage
<1>4. CASE call[r].route.permission # None /\ ExtractCompanyId(r) = NoCompany
  <2>1. Reply(r)
    BY <1>4 DEF AuthorizationGuard
  <2>. QED  BY <2>1, ReplyKeeps
<1>5. CASE call[r].route.permission # None /\ ExtractCompanyId(r) # NoCompany
  <2>. DEFINE q == [call[r] EXCEPT !.stage = "authorizing"]
  <2>1. /\ Arrive(r, call[r].principal, ExtractCompanyId(r), call[r].route.permission)
        /\ call' = [call EXCEPT ![r] = q]
    BY <1>5, GuardAsks
  <2>2. /\ \A s \in Request \ {r} : request'[s] = request[s]
        /\ request'[r] = [stage |-> "arrived", user |-> call[r].principal,
                          company |-> ExtractCompanyId(r),
                          op |-> call[r].route.permission, read |-> {}]
    BY <2>1 DEF Arrive, ApiInv, AccessInv, AccessTypeOK
  <2>3. AskedAbout(q, request'[r])
    BY <1>2, <2>2 DEF AskedAbout, ExtractCompanyId, CallRow
  <2>4. q \in CallRow /\ CallAgrees(q, request'[r])
    BY <1>1, <1>2, <1>5, <2>3 DEF CallRow, CallStage, CallAgrees, Carried
  <2>. QED  BY <2>1, <2>2, <2>4, OthersAgree
<1>. QED  BY <1>3, <1>4, <1>5

LEMMA ApiStep ==
    ASSUME ApiInv, [ApiNext]_apiVars
    PROVE  ApiInv'
<1>1. AccessInv'
  BY ApiStepMoves, AccessStep DEF ApiInv
<1>2. ASSUME NEW r \in Request, IdentityThrottlerGuard(r)  PROVE CallsTyped' /\ CallsAgree'
  <2>1. CASE Proceed(r, "counted")
    BY <1>2, <2>1, ProceedKeeps DEF IdentityThrottlerGuard, CallStage
  <2>2. CASE Reply(r)
    BY <2>2, ReplyKeeps
  <2>. QED  BY <1>2, <2>1, <2>2 DEF IdentityThrottlerGuard
<1>3. ASSUME NEW r \in Request, Authorize(r) \/ LoadHandlerScope(r)
      PROVE  CallsTyped' /\ CallsAgree'
  <2>1. Follow(r) /\ call[r].stage \in {"authorizing", "handling"}
    BY <1>3 DEF Authorize, LoadHandlerScope
  <2>2. SameQuestion(r)
    BY <1>3, QuestionKept DEF Authorize, LoadHandlerScope, ApiInv
  <2>. QED  BY <2>1, <2>2, FollowKeeps
<1>4. ASSUME NEW r \in Request, Respond(r)  PROVE CallsTyped' /\ CallsAgree'
  <2>1. CASE call[r].route.permission = None
    BY <1>4, <2>1, ReplyKeeps DEF Respond
  <2>2. CASE call[r].route.permission # None
    <3>1. Answer(r) /\ Follow(r) /\ call[r].stage \in {"authorizing", "handling"}
      BY <1>4, <2>2 DEF Respond
    <3>2. SameQuestion(r)
      BY <3>1, QuestionKept DEF ApiInv
    <3>. QED  BY <3>1, <3>2, FollowKeeps
  <2>. QED  BY <2>1, <2>2
<1>5. ASSUME UNCHANGED <<call, request>>  PROVE CallsTyped' /\ CallsAgree'
  <2>1. CallsTyped'
    BY <1>5 DEF ApiInv, CallsTyped
  <2>2. \A r \in Request : CallAgrees(call[r], request[r])'
    BY <1>5 DEF ApiInv, CallsAgree
  <2>. QED  BY <2>1, <2>2 DEF CallsAgree
<1>6. ASSUME NEW gone \in AtMostOne, NEW new \in AtMostOne, ChangeMemberships(gone, new),
             UNCHANGED call
      PROVE  CallsTyped' /\ CallsAgree'
  BY <1>5, <1>6 DEF ChangeMemberships
<1>7. ASSUME NEW u \in User, SwitchProfile(u), UNCHANGED call
      PROVE  CallsTyped' /\ CallsAgree'
  BY <1>5, <1>7 DEF SwitchProfile
<1>8. ASSUME UNCHANGED apiVars  PROVE CallsTyped' /\ CallsAgree'
  BY <1>5, <1>8 DEF apiVars, vars
<1>9. CallsTyped' /\ CallsAgree'
  BY <1>2, <1>3, <1>4, <1>6, <1>7, <1>8, ReceiveKeeps, AuthenticationKeeps,
     AuthorizationKeeps DEF ApiNext
<1>. QED  BY <1>1, <1>9 DEF ApiInv

\* Calls and requests agree, and Access's own invariant holds behind the routes.
THEOREM ApiInvariant == ApiSpec => []ApiInv
BY ApiStarts, ApiStep, PTL DEF ApiSpec

-----------------------------------------------------------------------------
(***************************************************************************)
(* What the interface promises.                                            *)
(***************************************************************************)

\* A guarded call in its handler: the caller, the company and the permission that the
\* guard was asked about are the token's, the handler's and the route's.
LEMMA HandledAsAsked ==
    ASSUME ApiInv, NEW r \in Request,
           call[r].stage = "handling", call[r].route.permission # None
    PROVE  /\ RouteShape(call[r].route)
           /\ request[r].user = call[r].principal
           /\ request[r].company = HandlerCompany(r)
<1>1. CallAgrees(call[r], request[r])
  BY DEF ApiInv, CallsAgree
<1>2. Carried(call[r]) /\ AskedAbout(call[r], request[r])
  BY <1>1 DEF CallAgrees, Guarded
<1>3. RouteShape(call[r].route)
  BY <1>2, RoutesShape DEF Carried
<1>. QED  BY <1>2, <1>3 DEF Carried, AskedAbout, RouteShape, HandlerCompany

\* On every route, whatever the path and the header say, the handler acts on the
\* company whose memberships the guard judged.
THEOREM GuardAndHandlerAgree == ApiSpec => []ActsWhereAdmitted
<1>1. ApiInv => ActsWhereAdmitted
  BY HandledAsAsked DEF ActsWhereAdmitted
<1>. QED  BY <1>1, ApiInvariant, PTL

\* What a route without a permission reaches, and what one with it reaches.
LEMMA OwnIsTouched ==
    ASSUME NEW r \in Request, RouteShape(call[r].route),
           call[r].route.controller \in DOMAIN ServiceScope,
           ~(call[r].route.controller = "bookings" /\ call[r].route.handler = "create"),
           call[r].route.permission = None
    PROVE  Touched(r) = {b \in Booking : b.bookedBy = call[r].principal /\ b.channel = "WEB"}
<1>1. call[r].route.company = None
  BY DEF RouteShape
<1>2. call[r].route.controller \in {"bookings", "payments", "tickets"}
  BY ScopedControllers
<1>. QED  BY <1>1, <1>2 DEF Touched, OwnBookings, OwnPayments, OwnTickets

LEMMA ScopeIsTouched ==
    ASSUME NEW r \in Request, RouteShape(call[r].route),
           call[r].route.controller \in DOMAIN ServiceScope,
           ~(call[r].route.controller = "bookings" /\ call[r].route.handler = "create"),
           call[r].route.permission # None
    PROVE  Touched(r) = {b \in Booking :
                /\ b.company = HandlerCompany(r)
                /\ InScope(AccessScope(request[r].read, call[r].route.permission), b.branch)}
<1>. DEFINE route == call[r].route
            scope == AccessScope(request[r].read, route.permission)
<1>1. route.company # None /\ route.permission = ServiceScope[route.controller][route.handler]
  BY DEF RouteShape
<1>2. route.controller \in {"bookings", "payments", "tickets"}
  BY ScopedControllers
<1>. QED  BY <1>1, <1>2 DEF Touched, ScopedBookings, ScopedPayments, ScopedTickets

LEMMA ScopeIsEarned ==
    ASSUME ApiInv, NEW r \in Request, call[r].stage = "handling",
           call[r].route.permission # None, request[r].stage = "scoped", NEW b \in Booking
    PROVE  /\ b.company = HandlerCompany(r)
           /\ InScope(AccessScope(request[r].read, call[r].route.permission), b.branch)
           <=> \E m \in request[r].read :
                /\ m.user = call[r].principal /\ m.company = b.company
                /\ Grants(m, call[r].route.permission, b.branch)
<1>. DEFINE op == call[r].route.permission
            rows == request[r].read
<1>1. rows \in SUBSET MembershipRow
  BY AccessConstantsOK DEF ApiInv, AccessInv, AccessTypeOK
<1>2. \A m \in rows : m.user = call[r].principal /\ m.company = HandlerCompany(r)
  BY HandledAsAsked DEF ApiInv, AccessInv, ReadIsOwn, OwnRows
<1>3. b.branch \in Branch \cup {NoBranch}
  BY ApiConstantsOK DEF BookingRow
<1>4. InScope(AccessScope(rows, op), b.branch) <=> \E m \in rows : Grants(m, op, b.branch)
  BY <1>1, <1>3, ScopeIsUnion
<1>. QED  BY <1>2, <1>4

\* A handler reaches exactly the caller's own online bookings or those its memberships
\* grant with what the ROUTE demands, one membership at a time.
THEOREM ReachEarned == ApiSpec => []ReachIsEarned
<1>1. ASSUME ApiInv  PROVE ReachIsEarned
  <2>. SUFFICES ASSUME NEW r \in Request, call[r].stage = "handling",
                       call[r].route.controller \in DOMAIN ServiceScope,
                       ~(call[r].route.controller = "bookings"
                            /\ call[r].route.handler = "create")
                PROVE  /\ call[r].route.permission = None =>
                            Touched(r) = {b \in Booking :
                                b.bookedBy = call[r].principal /\ b.channel = "WEB"}
                       /\ call[r].route.permission # None /\ request[r].stage = "scoped" =>
                            Touched(r) = {b \in Booking :
                                \E m \in request[r].read :
                                    /\ m.user = call[r].principal /\ m.company = b.company
                                    /\ Grants(m, call[r].route.permission, b.branch)}
    BY DEF ReachIsEarned
  <2>1. RouteShape(call[r].route)
    <3>1. CallAgrees(call[r], request[r])
      BY <1>1 DEF ApiInv, CallsAgree
    <3>. QED  BY <3>1, RoutesShape DEF CallAgrees, Carried
  <2>2. CASE call[r].route.permission = None
    BY <2>1, <2>2, OwnIsTouched
  <2>3. CASE call[r].route.permission # None /\ request[r].stage = "scoped"
    <3>1. Touched(r) = {b \in Booking :
            /\ b.company = HandlerCompany(r)
            /\ InScope(AccessScope(request[r].read, call[r].route.permission), b.branch)}
      BY <2>1, <2>3, ScopeIsTouched
    <3>. QED  BY <1>1, <2>3, <3>1, ScopeIsEarned
  <2>. QED  BY <2>2, <2>3
<1>. QED  BY <1>1, ApiInvariant, PTL

\* What is proved of Access on its own holds of the requests the routes make.
THEOREM RoutesNoCrossProduct == ApiSpec => []NoCrossProduct
<1>1. ApiInv => NoCrossProduct
  BY AccessInvNoCross DEF ApiInv
<1>. QED  BY <1>1, ApiInvariant, PTL

THEOREM RoutesDoorsAgree == ApiSpec => []MirrorsRowSecurity
<1>1. ApiInv => MirrorsRowSecurity
  BY TypedMirrors DEF ApiInv, AccessInv
<1>. QED  BY <1>1, ApiInvariant, PTL

THEOREM RoutesManagersOnly == ApiSpec => ManagementIsCompanyWide
<1>1. ApiInv /\ [ApiNext]_apiVars => [AdmitsManagers]_vars
  BY ApiStepMoves, AdmitsOnlyManagers DEF ApiInv
<1>. QED  BY <1>1, ApiInvariant, PTL DEF ApiSpec, ManagementIsCompanyWide
=============================================================================
