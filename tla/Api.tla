---------------------------------- MODULE Api ----------------------------------
(***************************************************************************)
(* The HTTP interface over Access: every route with what its decorators    *)
(* ask for, the guards in the order they run, and the bookings -- with     *)
(* their payments and tickets -- a handler's statements reach.             *)
(*                                                                         *)
(* What a route demands is written in a controller, whom the guard admits  *)
(* in the authorization module, the company a handler acts on in the       *)
(* controller again, the permission it filters by in a service and the     *)
(* filter in a repository: five places that must mean the same.            *)
(*                                                                         *)
(* A route is what its decorators say; a token is the user it was issued   *)
(* to, or a bad one.  The throttler's counters and the verification of a   *)
(* signature are libraries: their verdict is chosen.  X_Mutant, placed     *)
(* before X, is X with a plausible slip.                                   *)
(***************************************************************************)
EXTENDS Access

CONSTANTS
    Account,     \* whoever has booked; User are those who call
    Booking,     \* the bookings there are: [company, branch, bookedBy, channel]
    NoCompany,   \* no path parameter, or no X-Company-Id header
    Nobody,      \* no principal, or no Authorization header
    BadToken,    \* a token the verifier refuses, or a malformed header
    Offered      \* the controllers of the instance

BookingRow == [company : Company, branch : Branch \cup {NoBranch}, bookedBy : Account,
               channel : {"WEB", "AGENT"}]

ASSUME ApiConstantsOK ==
    /\ User \subseteq Account
    /\ Nobody \notin User /\ BadToken \notin User /\ Nobody # BadToken
    /\ NoCompany \notin Company
    /\ \A b \in Booking : 
          b \in BookingRow /\ (b.branch # NoBranch => CompanyOf[b.branch] = b.company)

VARIABLE call   \* what the requests of Access carry, from the socket on
apiVars == <<vars, call>>

-----------------------------------------------------------------------------
(***************************************************************************)
(* The routes.                                                             *)
(***************************************************************************)
None == "none"

\* company: where the handler takes the company from; permission: @RequirePermissions.
Private(controller, company, permissionOf) ==
    {[controller |-> controller, handler |-> h, company |-> company,
      permission |-> permissionOf[h], public |-> FALSE, throttled |-> TRUE]
        : h \in DOMAIN permissionOf}

\* Routes that ask for a token and no permission.
Own(controller, handlers) == Private(controller, None, [h \in handlers |-> None])

Public(controller, handlers, throttled) ==
    {[controller |-> controller, handler |-> h, company |-> None,
      permission |-> None, public |-> TRUE, throttled |-> throttled] : h \in handlers}

PassengerBookingsController == Own("bookings", {"create", "list", "get", "cancel", "events"})

CompanyBookingsController ==
    Private("bookings", "path",
            [create |-> "bookings.create", list |-> "bookings.read", get |-> "bookings.read",
             cancel |-> "bookings.cancel", events |-> "bookings.read"])

PassengerPaymentsController == Own("payments", {"create", "list", "get"})

CompanyPaymentsController ==
    Private("payments", "path",
            [create |-> "payments.confirm", list |-> "payments.read", get |-> "payments.read",
             confirm |-> "payments.confirm", refund |-> "payments.refund"])

PaymentWebhookController == Public("webhooks", {"receive"}, TRUE)

PassengerTicketsController == Own("tickets", {"issue", "listForBooking", "list", "get"})

CompanyTicketsController ==
    Private("tickets", "path",
            [issue |-> "tickets.issue", listForBooking |-> "tickets.read",
             list |-> "tickets.read", get |-> "tickets.read", verify |-> "tickets.validate",
             validate |-> "tickets.validate", revoke |-> "tickets.issue"])

BranchesController ==
    Private("branches", "path",
            [list |-> "branches.read", getOne |-> "branches.read",
             create |-> "branches.manage", update |-> "branches.manage",
             activate |-> "branches.manage", deactivate |-> "branches.manage"])

StaffController ==
    Private("staff", "path",
            [list |-> "staff.read", getOne |-> "staff.read", create |-> "staff.manage",
             update |-> "staff.manage", activate |-> "staff.manage",
             deactivate |-> "staff.manage"])

BusesController ==
    Private("buses", "path",
            [list |-> "fleet.read", getOne |-> "fleet.read", create |-> "fleet.manage",
             update |-> "fleet.manage", activate |-> "fleet.manage",
             deactivate |-> "fleet.manage"])

RoutesController ==
    Private("routes", "path",
            [list |-> "routes.read", getOne |-> "routes.read", create |-> "routes.manage",
             update |-> "routes.manage", activate |-> "routes.manage",
             deactivate |-> "routes.manage"])

RoutePricesController ==
    Private("routePrices", "path", [history |-> "routes.read", create |-> "routes.manage"])

TripsController ==
    Private("trips", "path",
            [list |-> "trips.read", getOne |-> "trips.read", create |-> "trips.manage",
             update |-> "trips.manage", start |-> "trips.manage",
             complete |-> "trips.manage", cancel |-> "trips.manage"])

TripEventsController == Private("tripEvents", "path", [list |-> "trips.read"])

MembershipsController ==
    Private("memberships", "path",
            [list |-> "memberships.read", getOne |-> "memberships.read"])

MaintenanceController ==
    Private("maintenance", "header",
            [list |-> "maintenance.read", create |-> "maintenance.manage",
             update |-> "maintenance.manage"])

CommissionsController == Private("commissions", "header", [list |-> "commissions.read"])

AuditController == Private("audit", "header", [list |-> "audit.read"])

ProfilesController == Own("profiles", {"me", "updateMe", "myCompanies"})
AuthController == Own("auth", {"me"})
StationsController == Own("stations", {"list", "getOne"})
CitiesController == Own("cities", {"list", "getOne"})
SeatLayoutsController == Own("seatLayouts", {"list", "getOne"})
AvailabilityController ==
    Public("availability", {"search", "getAvailability", "getPricePreview"}, TRUE)
HealthController == Public("health", {"live", "ready"}, FALSE)

AllRoutes ==
    UNION {PassengerBookingsController, CompanyBookingsController,
           PassengerPaymentsController, CompanyPaymentsController, PaymentWebhookController,
           PassengerTicketsController, CompanyTicketsController, BranchesController,
           StaffController, BusesController, RoutesController, RoutePricesController,
           TripsController, TripEventsController, MembershipsController,
           MaintenanceController, CommissionsController, AuditController,
           ProfilesController, AuthController, StationsController, CitiesController,
           SeatLayoutsController, AvailabilityController, HealthController}

Routes == {route \in AllRoutes : route.controller \in Offered}

-----------------------------------------------------------------------------
(***************************************************************************)
(* A request comes in and passes the guards.                               *)
(***************************************************************************)
NoCall == [stage |-> "idle", route |-> CHOOSE route \in Routes : TRUE, token |-> Nobody,
           path |-> NoCompany, header |-> NoCompany, principal |-> Nobody]

ApiInit == Init /\ call = [r \in Request |-> NoCall]

Proceed(r, stage) == call' = [call EXCEPT ![r].stage = stage] /\ UNCHANGED vars

\* The answer, whatever its status.
Reply(r) == call' = [call EXCEPT ![r] = NoCall] /\ UNCHANGED vars

Receive(r, route, token, path, header) ==
    /\ call[r].stage = "idle"
    /\ (path = NoCompany) <=> (route.company # "path")
    /\ call' = [call EXCEPT ![r] = [stage |-> "received", route |-> route, token |-> token,
                                    path |-> path, header |-> header, principal |-> Nobody]]
    /\ UNCHANGED vars

\* The first guard; its counters are the library's.
IdentityThrottlerGuard(r) ==
    /\ call[r].stage = "received"
    /\ \/ Proceed(r, "counted")
       \/ call[r].route.throttled /\ Reply(r)    \* 429

\* The verifier's answers: the token's user, or none -- 401, and 503 without keys.
Verdicts(token) == IF token \in User THEN {token, Nobody} ELSE {Nobody}

\* The second.
AuthenticationGuard(r) ==
    /\ call[r].stage = "counted"
    /\ IF call[r].route.public THEN Proceed(r, "authenticated")
       ELSE \E principal \in Verdicts(call[r].token) :
              IF principal = Nobody THEN Reply(r)
              ELSE /\ call' = [call EXCEPT ![r].stage = "authenticated",
                                           ![r].principal = principal]
                   /\ UNCHANGED vars

\* The header before the path.
ExtractCompanyId_Mutant(r) ==
    IF call[r].header # NoCompany THEN call[r].header ELSE call[r].path

ExtractCompanyId(r) == IF call[r].path # NoCompany THEN call[r].path ELSE call[r].header

\* The third: Access's guard, for the routes with a permission.  Without a company the
\* context has no permissions.
AuthorizationGuard(r) ==
    /\ call[r].stage = "authenticated"
    /\ CASE call[r].route.permission = None -> Proceed(r, "handling")
         [] call[r].route.permission # None /\ ExtractCompanyId(r) = NoCompany -> Reply(r)
         [] OTHER ->
              /\ Arrive(r, call[r].principal, ExtractCompanyId(r), call[r].route.permission)
              /\ call' = [call EXCEPT ![r].stage = "authorizing"]

\* A step of Access for a request it knows: refused or answered there, it is over here.
Follow(r) ==
    call' = [call EXCEPT ![r] =
        CASE request'[r].stage = "idle" -> NoCall
          [] request'[r].stage \in {"arrived", "known"} -> @
          [] OTHER -> [@ EXCEPT !.stage = "handling"]]

Authorize(r) ==
    /\ call[r].stage = "authorizing"
    /\ IdentifyCaller(r) \/ Guard(r)
    /\ Follow(r)

\* The services read the memberships of the handler's company, after the guard.
LoadHandlerScope(r) ==
    /\ call[r].stage = "handling"
    /\ LoadScope(r) \/ IdentifyReader(r) \/ LoadReadableBranches(r)
    /\ Follow(r)

Respond(r) ==
    /\ call[r].stage = "handling"
    /\ IF call[r].route.permission = None THEN Reply(r) ELSE Answer(r) /\ Follow(r)

ApiNext ==
    \/ \E r \in Request :
        \/ \E route \in Routes, token \in User \cup {Nobody, BadToken},
              path, header \in Company \cup {NoCompany} : Receive(r, route, token, path, header)
        \/ IdentityThrottlerGuard(r) \/ AuthenticationGuard(r) \/ AuthorizationGuard(r)
        \/ Authorize(r) \/ LoadHandlerScope(r) \/ Respond(r)
    \/ /\ \E gone, new \in AtMostOne : ChangeMemberships(gone, new)
       /\ UNCHANGED call
    \/ (\E u \in User : SwitchProfile(u)) /\ UNCHANGED call

ApiSpec == ApiInit /\ [][ApiNext]_apiVars

-----------------------------------------------------------------------------
(***************************************************************************)
(* What the statements of a handler reach.                                 *)
(***************************************************************************)

\* The @Param or @Headers argument of the handler.
HandlerCompany(r) ==
    IF call[r].route.company = "path" THEN call[r].path ELSE call[r].header

\* The permission a service scopes by, handler by handler.
BookingsServiceScope ==
    [create |-> "bookings.create", list |-> "bookings.read", get |-> "bookings.read",
     cancel |-> "bookings.cancel", events |-> "bookings.read"]

PaymentsServiceScope_Mutant ==
    [create |-> "payments.confirm", list |-> "payments.read", get |-> "payments.read",
     confirm |-> "payments.confirm", refund |-> "payments.read"]

PaymentsServiceScope ==
    [create |-> "payments.confirm", list |-> "payments.read", get |-> "payments.read",
     confirm |-> "payments.confirm", refund |-> "payments.refund"]

TicketsServiceScope ==
    [issue |-> "tickets.issue", listForBooking |-> "tickets.read", list |-> "tickets.read",
     get |-> "tickets.read", verify |-> "tickets.validate", validate |-> "tickets.validate",
     revoke |-> "tickets.issue"]

ServiceScope ==
    [bookings |-> BookingsServiceScope, payments |-> PaymentsServiceScope,
     tickets |-> TicketsServiceScope]

\* The repositories' WHERE clauses; a payment or a ticket is its booking's.
OwnBookings(user) == {b \in Booking : b.bookedBy = user /\ b.channel = "WEB"}

ScopedBookings(company, scope) ==
    {b \in Booking : b.company = company /\ InScope(scope, b.branch)}

OwnPayments(user) == {b \in Booking : b.bookedBy = user /\ b.channel = "WEB"}

ScopedPayments(company, scope) ==
    {b \in Booking : b.company = company /\ InScope(scope, b.branch)}

OwnTickets(user) == {b \in Booking : b.bookedBy = user /\ b.channel = "WEB"}

ScopedTickets(company, scope) ==
    {b \in Booking : b.company = company /\ InScope(scope, b.branch)}

\* A creation reaches no booking yet.
Touched(r) ==
    LET route == call[r].route
        company == HandlerCompany(r)
        scope == AccessScope(request[r].read, ServiceScope[route.controller][route.handler]) IN
    IF route.controller \notin DOMAIN ServiceScope THEN {}
    ELSE IF route.controller = "bookings" /\ route.handler = "create" THEN {}
    ELSE IF route.company = None
    THEN CASE route.controller = "bookings" -> OwnBookings(call[r].principal)
           [] route.controller = "payments" -> OwnPayments(call[r].principal)
           [] route.controller = "tickets" -> OwnTickets(call[r].principal)
    ELSE CASE route.controller = "bookings" -> ScopedBookings(company, scope)
           [] route.controller = "payments" -> ScopedPayments(company, scope)
           [] route.controller = "tickets" -> ScopedTickets(company, scope)

-----------------------------------------------------------------------------
(***************************************************************************)
(* Properties.                                                             *)
(***************************************************************************)

\* The company a handler acts on is the one the guard looked its caller up in, for
\* every route and whatever company the other source names.
ActsWhereAdmitted ==
    \A r \in Request :
        call[r].stage = "handling" /\ call[r].route.permission # None =>
            HandlerCompany(r) = request[r].company

\* A booking is reached as one's own online booking or through one membership, held in
\* the booking's company when the handler looked, that grants what the ROUTE demands
\* in the booking's branch; and everything so granted is reached.  An agent's own
\* sales are not his own bookings.
ReachIsEarned ==
    \A r \in Request :
        LET route == call[r].route
            caller == call[r].principal IN
        /\ call[r].stage = "handling"
        /\ route.controller \in DOMAIN ServiceScope
        /\ ~(route.controller = "bookings" /\ route.handler = "create")
        => /\ route.permission = None =>
                Touched(r) = {b \in Booking : b.bookedBy = caller /\ b.channel = "WEB"}
           /\ route.permission # None /\ request[r].stage = "scoped" =>
                Touched(r) = {b \in Booking :
                    \E m \in request[r].read :
                        /\ m.user = caller /\ m.company = b.company
                        /\ Grants(m, route.permission, b.branch)}
=============================================================================
