# A TLA+ model of the Voyagi backend

Voyagi sells seats on inter-city buses. The backend (`src/apps/backend`) is a set of
NestJS services over one PostgreSQL database; every operation that changes something
runs in one READ COMMITTED transaction (`TransactionManager.run`), and most guarantees
are shared between the service (guards, row locks) and the schema (unique and exclusion
constraints, triggers). This project models the parts of it where several actors, time
and failure meet.

## The system

| Component | State it keeps | Operations | Talks to |
|---|---|---|---|
| bookings | `bookings`, `seat_reservations`, `idempotency_records`, `booking_events` | create (idempotent, sweeps the trip first), cancel (owner, company), expire | trips (locks the trip FOR SHARE), seat layouts (trigger) |
| payments | `payments`, `idempotency_records` | create (idempotent), confirm cash, webhook, settle, refund | bookings (confirms them), commissions, the provider |
| commissions | `agent_commission_transactions` | create on settlement, cancel on refund | payments, memberships |
| tickets | `tickets` | issue, verify, validate (boards the seat), revoke | bookings, payments (reads is_paid), seats |
| trips | `trips`, `trip_events` | create, update (versioned), start, complete, cancel | buses, routes, staff, maintenance |
| maintenance | `vehicle_maintenance_records`, `buses.status` | schedule, start, complete, cancel | buses, trips |
| buses, seat layouts | `buses`, `seat_layouts` | create, update, (de)activate | trips and reservations through triggers |
| routes, route prices | `routes`, `route_price_history` | create, update, (de)activate, schedule a price | trips copy the price |
| staff | `staff_members` | create, update, (de)activate | trips, whose trigger asks for the crew |
| branches | one row each with an active flag | create, update, (de)activate | memberships |
| stations, cities | catalogues | reads | routes |
| availability | none | search, seat map, price preview | reads trips, seats, holds |
| identity, authorization, auth | `profiles`, `company_memberships` (read) | resolve entitlements, guard requests, verify tokens | every service |
| row-level security | none | policies over the same rows | clients that reach the database directly |
| HTTP interface (controllers, guards, filters, rate limits) | none of its own | route a request, admit it, answer it | every service |
| configuration, bootstrap, shutdown | `process.env`, the life of the process | validate, gate, build, listen; drain, watchdog | every namespace, the pool |
| health | none | readiness probe | the pool |
| database | the pool | connect, transactions, error mapping, end | every service |
| audit, logging | `audit_logs`, output | append in the caller's transaction | every service |

What is hard: concurrent transactions on one seat; holds that run out while money is on
its way; webhooks that are duplicated, reordered or late; retries under idempotency keys
that themselves expire; two columns and two boundaries that must agree on when a hold
ends; rows read before a lock is granted and used after it; schedules checked against
estimates; a pool with a limit, answers that get lost and a process that must end; one rule
written in several places (a permission in a controller and in a service, a setting in a
gate and in a namespace, a policy in the backend and in the database). `PROJECT.json` lists each with its line and the property that covers it.

What makes each part correct:

* bookings: a seat has one owner; a booking and its seats agree; holds are honoured until
  they end and nothing ended comes back; a retry is answered with the first result;
* payments: money is taken once per booking; only paid bookings are confirmed; events
  account for the money; a notified success is eventually settled;
* availability: what is shown as available can be booked;
* tickets: one ticket per seat, boarded once, only for confirmed, paid bookings;
* fleet: a bus never serves two live trips at once, nor a live trip in maintenance, and
  its status says whether it is in the workshop;
* routes: the price history has no gap and no overlap, nothing in it is ever altered, and
  the route shows the price in force;
* identity, authorization: a permission counts only in the branches of the membership that
  grants it, what the guard alone protects is open to company-wide roles only, and the
  database's own policies open the same by memberships;
* HTTP interface: a handler acts on the company its caller was admitted to, with the
  permission its route demands, and reaches what one membership grants and nothing else;
* trips, staff: an edit changes only what its author saw, half an edit is as good as a whole
  one, and nobody is put on a trip who is not qualified at that moment;
* configuration: what is served in production keeps the rules of the gate, wherever it was
  written, but in the cases named under "Where the code and its documents differ";
* server and pool: no connection leaks, every request ends, answers are true, and a shutdown
  cuts nothing off or is cut short, but never hangs;
* branches, layouts: what a trip was scheduled with existed and was active then.

## How the code is read

One database transaction is one action, taken at the moment it commits, wherever the
code makes that true: the transaction first locks the rows it decides on (`FOR UPDATE`,
`FOR SHARE`) and then reads them in statements of their own. A call that fails rolls back
and is a stutter. Six things do not fit, and each is modelled:

* `now()` is the START of a transaction. A transaction that waited works with a time in
  the past (`TxStart`, at most `TxLag` behind).
* A statement that waits for a lock took its snapshot before it waited. PostgreSQL reads
  the locked row again, not the rows behind a sub-select. `Tickets` splits such calls in
  two.
* What a transaction wrote and has not committed makes others wait, fail or deadlock.
  `RoutePrices` goes statement by statement.
* An edit of a trip reads the trip and asks for its staff before it waits for the bus.
  `Trips` reads in one step and writes in another.
* A transaction needs a connection, may lose it at any statement and may commit without
  saying so. `Service` puts the changes of `RoutePrices` behind the pool, the guards' query
  and the end of the process.
* Memberships and profiles are read without a lock, by the guard and again by the handler.
  `Access` goes query by query and lets them change in between.

Identifiers are model values; payloads are reduced to what a fingerprint, a constraint or
a property tells apart (a booking request is its trip and its seats). Prices of a booking,
passenger data, QR tokens, names and page contents are left out. Time is a small number.
A setting is one of a few spellings, one of each kind that the schema, the gate and the
namespaces treat differently (`Empty` is the empty one). A route is what its decorators say.

## Modules

| Module | Models | State, and where the code keeps it | Actions, and the code they are |
|---|---|---|---|
| `SeatMap` | what the backend promises about seats | `owner`, `sold`, `ended`, `boarded` (abstract) | `Take`, `GiveBack`, `Sell`, `Board` |
| `Bookings` | `bookings.service.ts` and its repository, trip status, the public seat map | `bookingStatus`, `expiresAt`, `bookingTrip` (bookings); `seatStatus`, `heldUntil` (seat_reservations); `idempotency`; `bookingEvents` | `CreateBooking` (claim, sweep of the trip, insert, seats, events, completed claim), `ExpireBookings`, `CancelBooking` (owner or company), `TripTransition`, `SwitchTrip`; `ConfirmBookingPaid`, `CheckInSeat` are the writes of other services |
| `Payments` | `payments.service.ts`, the commissions it writes | `paymentStatus`, `paymentBooking`, `paymentMethod`, `paymentClaim`, `paymentEvents`, `commission`; `notified` is the provider's | `CreatePayment`, `ConfirmCashPayment`, `HandleWebhook`, `RefundPayment`; `Settle` is the shared settlement |
| `Tickets` | `tickets.service.ts` | `ticket` (derived from the three timestamps), `call` (what a call under way saw) | `BeginIssue`/`CommitIssue`, `BeginValidate`/`CommitValidate`, `RevokeTicket`, `RollBack` |
| `Fleet` | `maintenance.service.ts`, scheduling in `trips.service.ts`, `setBusActive` | `busStatus`, `busActive`, `tripStatus`, `tripBus`, `tripWindow`, `jobStatus`, `jobBus`, `jobWindow` | `CreateTrip`, `UpdateTrip`, `StartTrip`, `CompleteTrip`, `CancelTrip`, `ScheduleJob`, `StartJob`, `CompleteJob`, `CancelJob`, `SetBusActive` |
| `RoutePrices` | `route-prices.service.ts`, the first period of `createRoute` | `history` (route_price_history), `mirror` (routes.default_price_mru), `change` (transactions under way) | `BeginChange`, `CloseOpenPeriod`, `OpenPeriod`, `PassConstraints`, `CommitChange`, `Refuse`, `BreakDeadlock`, `Fail` |
| `Access` | `entitlements.ts`, `branch-access.ts`, `role-permissions.ts`, `identity.service.ts`, the guard, the scopes of bookings, payments, tickets, commissions and branches, the read policies of `012_rls.sql` and `017_...sql` | `member` (active company_memberships), `enabled` (profiles.is_active), `request` (requests under way) | `Arrive`, `IdentifyCaller`, `Guard`, `LoadScope`, `IdentifyReader`, `LoadReadableBranches`, `Answer`; `ChangeMemberships` and `SwitchProfile` are the world's |
| `Trips` | `updateTrip`, the crews of `trips.service.ts`, the trigger on them, `staff.service.ts` | that of `Fleet`; `tripVersion`, `tripCrew`; `staffType`, `staffActive`; `call` (edits under way) | `ScheduleTrip`, `ReadTrip`/`UpdateDetails`/`GiveUp`, `ApplyTransition`, `CreateStaffMember`, `UpdateStaffMember`, `SetStaffMemberActive`, and `FleetStep`, the actions of `Fleet` on buses and records |
| `Service` | `transaction.manager.ts`, `database.service.ts`, the pool, the error mapper and filter, the readiness probe, `main.ts`'s shutdown | that of `RoutePrices`; `call` (requests), `free` and `queue` (the pool), `server` (the process) | `Arrive`, `Connect`, `ConnectTimeout`, `Guarded`, `Begin`, `Work`, `Commit`, `Conflict`, `StatementTimeout`, `LoseConnection`, `Release`, `HangUp`; `CheckReadiness`, `ReadinessTimeout`, `Probed`; `Signal`, `CloseServer`, `PoolEnded`, `Watchdog` |
| `Api` | the controllers with their decorators, the throttler, authentication and authorization guards, `company-id.util.ts`, the filters of the repositories | that of `Access`; `call` (what a request carries) | `Receive`, `IdentityThrottlerGuard`, `AuthenticationGuard`, `AuthorizationGuard`, `Authorize`, `LoadHandlerScope`, `Respond` |
| `Startup` | `env.validation.ts`, `production-config.validation.ts`, the namespaces under `config/`, `rate-limit.policies.ts`, the bootstrap | `given` (the settings of process and `.env`), `env` (process.env), `policies`, `served`, `step` | `LoadPolicies`, `ConfigModuleForRoot`, `AssertProductionConfig`, `CreateApp`, `Listen` |

`Payments` extends `Bookings` and `Tickets` extends `Payments`: one state, composed as in
the database, where the three services write each other's tables. `Bookings` implements
`SeatMap` (`ImplementsSeatMap`), and `Payments` and `Tickets` implement `Bookings`
(`ImplementsBookings`). `Trips` extends `Fleet` and implements it (`ImplementsFleet`): `Fleet`
is the abstract specification of scheduling, with edits in one step. `Service` extends
`RoutePrices`, whose steps are the statements of its requests, and `Api` extends `Access`,
whose steps are the queries of its requests. The four groups meet nowhere else: bookings see
of a trip only whether it is bookable (`tripStatus`, `tripOpen`), and what a request may
reach is settled before its transaction decides anything. `MC*` modules give the constants
values. `*Proofs` modules hold the theorems, those about an
extended specification with those about the one it extends (`TripsProofs` on `Fleet`,
`ServiceProofs` on `RoutePrices`, `ApiProofs` on `Access`). `PROJECT.json` maps every definition to its
lines.

An operator `X_Mutant` (or `X_...`, placed before `X`) is `X` with a slip a programmer could
make: a dropped guard, an off-by-one, a forgotten status. Each checked property has one
that it catches, which shows that the property depends on the code it is about.

## Runs

| Run | Instance | Shows |
|---|---|---|
| `bookings` | 2 trips with different layouts (2 seats and 1), 3 bookings, 2 claims, hold 1, window 2, lag 1, clock to 3 | tables, events, replay and seat map stay consistent while holds and records run out and sweeps span trips; every transaction is one step of `SeatMap` |
| `payments` | 1 seat, 2 bookings under 1 claim, 2 payments, 2 keys, hold 1, window 2, clock to 3, boarding closes at 3, fairness `Redelivery` | money is taken once, only paid bookings are confirmed, in every order of expiry, cancellation, webhooks and refunds; a notified success is answered in the end |
| `late_settlement` | 1 seat, 2 bookings, 2 claims, 2 payments, 2 keys, clock to 2 | VIOLATED: a settled payment whose booking is not confirmed |
| `refund` | as `late_settlement` | VIOLATED: a refunded payment whose booking stays confirmed |
| `tickets` | 2 seats, 1 booking, 1 payment, 2 calls under way, clock to 1 | tickets and seats agree although validate locks neither; nothing terminal changes; a refund closes tickets once older calls are over; `Bookings` is implemented |
| `refund_race_validate` | as `tickets` | VIOLATED: a ticket accepted after its refund |
| `trips` | 1 bus, 2 trips, 1 record, 2 edits under way (of the start and the assistant, of the end and the driver), 1 staff member, versions to 3, calendar of 3 hours | an edit in two steps does nothing an edit in one step could not; none is lost; crews are qualified when put on; the schedules of the bus never clash and its status follows its record |
| `fleet_overrun` | 1 bus, 2 trips, 1 record | VIOLATED: maintenance starts under a trip that is late |
| `fleet_early_start` | 1 bus, 2 trips, 1 record | VIOLATED: work in progress that cannot be completed |
| `service` | 2 changes and the probe, 2 connections, 2 prices, clock to 2, fairness `Fairness` | the history is gapless and append-only and the mirror honest while connections are lost; no connection leaks, answers are true, every request ends, a stop is clean or cut short |
| `startup` | a production configuration, in the process or in `.env`, or a development one; up to two deviating settings in either place | production serves nothing that breaks a rule of the gate, but in three named cases; the namespaces serve the same from either source, and the limits of the routes do unless `.env` alone sets one |
| `api` | 1 person, 2 companies, 3 branches, 9 possible memberships of which 2 at once, 6 bookings, the routes of 9 controllers, 1 request | a handler acts where its caller was admitted, reaches what a single membership grants, opens by memberships what row-level security opens, while memberships change under the request |

The bounds, and why they are enough:

* Two bookings are what it takes to contend for a seat; a third lets one be swept while
  two compete. Two seats let a request get one and not the other. Two trips are needed
  for a sweep that is wider than a creation.
* `Hold`, `ClaimWindow` and `MaxClock` are chosen so that holds and idempotency records
  run out, and are used again, within the run; `TxLag = 1` puts `now()` on either side of
  an expiry. Where `TxLag = 0` (payments, tickets) the lag is covered by `bookings` and by
  the theorems. In `payments` boarding closes at 3, after the first hold has run out, so that
  a second booking can take the seat and be paid while the first one's money arrives.
* Two payments of one booking are what it takes to settle twice, and the second
  idempotency key to open them. Two ticket calls race each other; a refund races both.
* Three hours hold two adjacent windows, one overlapping both, and the hours around them.
  Two edits of one trip are what it takes to lose one, and naming different ends makes the
  window that results one that neither saw; `MaxVersion` lets both and a transition happen.
  Two records of one bus, and two buses, are left to the theorems about `Fleet`, which hold
  for any number and carry over to `Trips`.
* A price change that loses needs one that wins; two make two inserts deadlock. Two moments
  past the first allow two changes in a row. Two connections and three callers are enough
  for one to queue; each request asks for a connection twice, so a request that has one may
  queue behind a newcomer. More changes, callers and connections are covered by
  `ServiceProofs`.
* Every setting takes every spelling, and every pair of settings every pair, in both places,
  around a complete configuration of either kind: the rules of the gate relate at most two
  settings (pool minimum and maximum, a URL and what is derived from it).
* Two memberships at once cover a company-wide role beside a branch-scoped one, two
  branch-scoped ones in different branches, and rows of two companies; the nine possible
  rows hold every role, with and without a branch. Requests and persons do not meet, so one
  of each is enough. The bookings are of every branch, channel and booker. The nine
  controllers offered hold every way a route is protected; the others repeat one of them.
* `TLC` explores all of it. Symmetry is used on identifiers only, and on no run with a
  liveness property. Deadlock is checked in every run but `service` and `startup`: a process
  that has stopped, and a start that has succeeded or been refused, stay so.

The theorems below hold for every value of these constants.

## Fairness

`Redelivery` (`payments`): weak fairness of handling each notification the provider sent.
The provider redelivers until it is acknowledged, which the webhook handler is built for: it
answers duplicates and stale notifications without a change. Nothing else is fair: no
sweep, cancellation or payment ever has to happen, for no code schedules one.

`Fairness` (`service`): weak fairness of giving a free connection to the head of the queue
and of the steps of a handler that wait for nothing (`Guarded`, `Begin`, `Release`,
`Probed`); strong fairness of the statements of a change, because the waiters of a row are
queued and PostgreSQL breaks deadlocks: a statement that waits gets its turn though other
changes come and go. No client ever has to hang up, and no timer of the pool or of a
statement has to strike: both may be configured to 0, and `EveryRequestEnds` holds without
them. The watchdog is fair: its timer cannot be configured away, and `ShutdownEnds` rests on
it alone.

## What is proved

Every theorem is about the specification with its constants left open. They assume the
named assumptions of the modules: `ConstantsOK` (sets and spans are what their names say),
`PaymentConstantsOK`, `TicketConstantsOK`, `FleetConstantsOK`, `TripsConstantsOK`,
`PricesConstantsOK`, `ServiceConstantsOK`, `AccessConstantsOK`, `ApiConstantsOK`,
`SettingsAreTexts`. Every safety property of a passing run is stated by a theorem of the
specification that run checks, or of one it extends or implements.

* **Bookings** (`BookingsProofs`). `TypeCorrect`; `SeatsAgree`, `SeatExclusive`,
  `AvailabilityHonest` from the invariant `IInv`: types, the agreement of a booking with its
  seats, exclusive seats, and `heldUntil = expiresAt` for every booking. None is
  inductive alone. Exclusiveness survives a confirmation only because a payable booking's
  seats are all held; the seat map is right only because the two expiry columns are equal.
  `EndedStaysEnded`, `HoldsAreHonoured`, `LiveClaimsKept` are action properties; the second
  and third rest on `t <= clock` for every transaction start. `EventsAreTrue` counts the
  events along the edges of a booking's life (`BookingKeepsSold`: what one transaction may
  do to a booking and its seats); `ReplaysAreTrue` adds that a record names an existing
  booking, and that no step changes the trip or the seats of one.
* **SeatMap** (`SeatMapProofs`). `TablesImplementSeatMap`: each transaction maps to one
  abstract step or a stutter. The mapping picks the owner of a place with CHOOSE;
  `NoDoubleBooking` makes the choice unique, and `SeatsFollowBooking` makes whole bookings
  give back or keep their seats.
* **Payments** (`PaymentsProofs`). `PaymentsImplementBookings` carries the booking theorems
  over. `MoneyTakenOnce`, `ConfirmedWasPaid`, `CommissionsEarned` follow from one money
  invariant: a booking with a settled payment is not payable, one that is confirmed has a
  settled payment, and a commission exists only with both. The step that matters is
  settlement after the booking ended: it must neither confirm nor earn. `MoneyAccounted`
  shows that each transaction adds one payment, one settlement or one refund of a booking
  together with its events, or none of them (`MoneyStep`); the invariant adds that a
  booking's payments are finitely many. `PaymentReplaysAreTrue`: a record names an existing
  payment, whose booking and method no step changes.
* **Tickets** (`TicketsProofs`). `TicketsAgreeWithSeats`, `TicketsImplementBookings`,
  `TicketsEndForGood`, `RefundShutsTickets`, for any number of calls under way. The invariant
  joins the bookings' and the money's to the agreement of tickets and seats. Boarding locks
  only the ticket; it is safe because the booking engine never touches a confirmed booking
  (`BookingKeepsSold`), so that the seat of an issued ticket is still confirmed
  (`ValidateChecksIn`). That a refund shuts tickets needs the money: a booking has one settled
  payment, so a call that starts after its refund sees no paid booking (`SawRefund`).
* **Fleet** (`TripsProofs`). `StatusFollows`, `SchedulesStayApart`, `NoTripAhead` from their
  conjunction (`FleetInvariant`). A start is safe only because at most one record is active
  on a bus; and no trip joins a bus whose work overruns, because the status is read under
  the bus's lock.
* **Trips** (`TripsProofs`). `TripsImplementFleet` carries the theorems about `Fleet` over to
  edits in two steps, half a window at a time (`EditedSchedulesStayApart`,
  `EditedWorkshopRules`); `NoEditLost`. They rest on the version: a trip whose version is the
  one a call read still has the window the call read and is still scheduled.
  `QualifiedWhenAssigned`: what an edit saw before it waited proves nothing; the trigger asks
  again for the whole crew when either post is written, so who is new on a trip is qualified.
* **RoutePrices** (`ServiceProofs`). `HistoryGapless`, `MirrorHonest`, `PastIsFixed`. The
  invariant adds that at most one change has closed the open period (`CloserInv`) and that
  a change whose insert passed the constraints is that one (`PassedInv`): any other would
  have met the open period, or waited for its closer. So the service's fallback to
  `clock_timestamp()` when the close found nothing never reaches a commit.
* **Service** (`ServiceProofs`). The same three of the history behind the pool
  (`ServedHistoryGapless`, `ServedMirrorHonest`, `ServedPastIsFixed`): a request moves the
  tables by statements of `RoutePrices` or not at all, and a lost connection or a killed process
  is a rollback. `PoolAccounted` counts: nobody stands in the queue twice or while holding a
  connection (`QueueInv`), so that each connection borrowed is one holder more (`PoolInv`).
  `ClientsToldTheTruth` follows a change from its COMMIT to its answer; `GracefulStop` needs
  that an open transaction is in the hands of a holder (`WorkInv`), for the pool ends only
  when every connection is back.
* **Access** (`ApiProofs`). `NoCrossProductHolds`, `ManagersOnly`, `DoorsAgree`. What a
  set of memberships reaches is reduced to single memberships (`ScopeIsUnion`); the
  induction carries only that the rows a handler read are its caller's own (`ReadIsOwn`).
  `DoorsAgree` needs no induction beyond types: it holds of every set of rows.
* **Api** (`ApiProofs`). A step of a call is a move of `Access` (`ApiStepMoves`): what is proved
  there holds behind the routes (`RoutesNoCrossProduct`, `RoutesManagersOnly`,
  `RoutesDoorsAgree`). `GuardAndHandlerAgree` and `ReachEarned` add what the routes have in
  common (`RouteShape`, proved controller by controller: a permission comes with a company
  and is the one the service scopes by) and that a call and the request the guard judged stay
  about the same caller, company and permission (`CallsAgree`).
* **Startup** (`StartupProofs`). `ProductionIsSafe`, `SameServerEitherWay`,
  `JudgedNumbersServed`, `CategoriesShareTheLimit` for EVERY text of every key in process and
  `.env` at once, where the run strays from a complete configuration in two places. The
  invariant is what the steps of the start have established and no later one takes back
  (`Progress`); the rest compares, namespace by namespace, what is served with what the
  schema and the gate demand. `ProductionIsSafe` covers every rule of the gate, with the
  exceptions below: a number that is read twice is never read as more than it was judged
  (`ReadNumber`), so a pool minimum spelled so does no harm and a maximum does (`PoolIsSafe`),
  and the port and the positive numbers stay in their bounds though 3000 becomes 3.
  `SameServerEitherWay` is about the namespaces, and about the limits of the routes
  where `.env` alone sets none of theirs.

Only model-checked: liveness (`NotifiedSuccessIsSettled`, `EveryRequestEnds`,
`ShutdownEnds`), which the prover cannot treat. The violations have no theorem: they are
counterexamples.

## Where the code and its documents differ

* A success notified after the booking expired or was cancelled settles the payment and
  confirms nothing (`late_settlement`); `README.md` says both success paths confirm.
* A full refund leaves the booking and its seats as they are (`refund`);
  `architecture/09-payment-state-machine.md` says the booking is cancelled.
* Validation reads `is_paid` before it checks the ticket in; a refund in between goes
  unseen (`refund_race_validate`). Issuance has the same window, between the snapshot of
  the statement that locks the booking and the lock: a refund that held the lock is unseen
  (`CommitIssue` acts on the snapshot). `RefundClosesTickets` says how far this goes: calls
  that began before the refund, no others.
* Maintenance may start under a trip that is late (`fleet_overrun`), and work begun before
  its planned hour cannot be completed before that hour (`fleet_early_start`).
* `architecture/12-business-rules.md:74`, `architecture/04-database-erd.md:475` and
  `bus-status.ts:6-8` say that opening a maintenance record sets the bus IN_MAINTENANCE.
  The code does so when the record is started; `Fleet` models the code.
* `branch-access.ts` says it mirrors `private.has_branch_access()`. It does for ordinary
  users (`MirrorsRowSecurity`); a super administrator is a membership for the backend and
  the token's `app_metadata` for the database, and only the backend asks whether the
  profile is active: a disabled user still passes row-level security. The policy on bookings
  also shows a user those he booked himself, of every channel, where the backend's list of
  own bookings holds WEB and MOBILE_APP only. The property compares what memberships open.
* A blank `SUPABASE_JWT_ISSUER` is taken for "derive it from `SUPABASE_URL`" by the gate
  (`||`) and for an empty issuer by `auth.config.ts:39` (`??`): the gate passes what is not
  served. `ServedConfigIsSafe` excepts it by name.
* The gate compares `DATABASE_POOL_MIN` with `DATABASE_POOL_MAX` only where both are set
  (`production-config.validation.ts:198`): a minimum of 3000 alone is served beside the
  default maximum of 10. `ServedConfigIsSafe` excepts a minimum without a maximum.
* A setting that `.env` alone carries comes too late for `rate-limit.policies.ts`, which
  reads `process.env` when it is imported: `RATE_LIMIT_BOOKING` is then ignored and the
  categories do not follow `RATE_LIMIT_LIMIT` (`PoliciesShareTheLimit` states what remains).
  It is the one way in which the place of a setting matters to the server
  (`OneServerPerSetting`, where the numbers of `.env` are written plainly).
* A number is read by `Number()` when it is judged and by `parseInt()` when a namespace
  reads it: `3e3` in the process is judged as 3000 and served as 3. In `.env` the validated
  number is what is read (`NumbersServedAsChecked`). So a production server may run with a
  shutdown timeout of 3 ms (`SHUTDOWN_TIMEOUT_MS=3e3`), or with a pool maximum below its
  minimum (`DATABASE_POOL_MAX=3e3`, `DATABASE_POOL_MIN=5`), past the gate that forbids both;
  `ServedConfigIsSafe` excepts these two keys, spelled so in the process, and no other.
* A request that gets no connection in time is answered 500: `pg`'s error has no code, so
  `database-error.mapper.ts` does not know it. `README.md:154` promises 503 for
  "connection/timeout".
* A bus may change its seat layout under the reservations of its trips
  (`buses.service.ts:71`); `architecture/DATABASE_CONVENTIONS.md:16` takes their labels to be
  those of the layout.
* `createEligible` earns one commission per AGENT membership of the booker, whatever branch
  the booking is of; `architecture/04-database-erd.md:474` says an agent never has two for
  one booking. `Payments` takes an agent to have one.

## Plan

In this order, the most important behaviour first:

1. `CreateTx`: the statements of a creation and of a sweep, with seats inserted one by one,
   waits on index entries and row locks, and the deadlocks of requests that name the same
   seats in opposite orders and of two sweeps; it implements the one-step `CreateBooking`.
2. `Payments` with the provider's session as state of its own: a rollback after the session
   was opened, and its notification; a commission per AGENT membership.
3. Routes, branches and seat layouts with their active flags, and the trip that is scheduled
   with them while they are deactivated; a layout replaced under reservations.

## Not modelled

Reads that change nothing (search, price preview, the contents of listings); QR tokens and
the verification of signatures (cryptography of libraries: either verdict is chosen); the
throttler's counters; `audit_logs`, written with the change they record and read by nothing;
DTO validation, pagination and response shapes; logging; the row-level policies by which
users see their own rows; the catalogues of stations and cities, read-only for the backend;
seeds and developer scripts. Partly modelled: buses (plates and layouts), seat layouts
(constant while trips sell), routes (their own fields), branches (the scoped reads), identity
(a user's own profile and companies), commissions (the listing's contents;
`applyBookingCancellation` acts on a cancelled booking, which never has a commission by
`CommissionIsEarned`), availability (the seat map only), auth, audit, stations and cities (who
may ask).
