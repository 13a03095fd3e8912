-------------------------------- MODULE Fleet ---------------------------------
(***************************************************************************)
(* Buses, their trips and their maintenance.                               *)
(*                                                                         *)
(* Scheduling a trip, rescheduling it and every maintenance operation lock *)
(* the bus row before they look at the other schedule, in statements of    *)
(* their own, so each is one step; rescheduling is refused if the trip's   *)
(* version has moved since it was read (Trips has the read and the write   *)
(* as two steps and shows that it makes no difference).  Starting,         *)
(* completing or cancelling a trip touches only the trip row and looks at  *)
(* no bus.                                                                 *)
(*                                                                         *)
(* Times are hours of a small calendar; a window is half open, as the      *)
(* tstzrange(..., '[)') of the queries and of the exclusion constraint.    *)
(* X_Mutant, placed before X, is X with a plausible slip.                  *)
(***************************************************************************)
EXTENDS Naturals

CONSTANTS
    Bus, Trip, Job,   \* identifiers; a job is a vehicle_maintenance_record
    Horizon           \* bound: the last hour of the calendar

ASSUME FleetConstantsOK ==
    /\ Bus # {}
    /\ Horizon \in Nat

VARIABLES
    clock,
    busStatus,    \* buses.status
    busActive,    \* buses.is_active
    tripStatus,   \* trips.status; "NONE" while the id is unused
    tripBus,      \* trips.bus_id
    tripWindow,   \* departure_time and estimated_arrival_time
    jobStatus,    \* vehicle_maintenance_records.status
    jobBus,
    jobWindow     \* started_at and scheduled_ends_at

tripVars == <<tripStatus, tripBus, tripWindow>>
jobVars == <<jobStatus, jobBus, jobWindow>>
vars == <<clock, busStatus, busActive, tripVars, jobVars>>

Hour == 0 .. Horizon

\* The windows the two check constraints accept.
Window == {w \in [from : Hour, until : Hour] : w.from < w.until}

\* The && of two half-open ranges.
Overlap(v, w) == v.from < w.until /\ w.from < v.until

TripStatus == {"SCHEDULED", "ONGOING", "COMPLETED", "CANCELLED"}
JobStatus == {"SCHEDULED", "IN_PROGRESS", "COMPLETED", "CANCELLED"}

TypeOK ==
    /\ clock \in Nat
    /\ busStatus \in [Bus -> {"ACTIVE", "IN_MAINTENANCE"}]
    /\ busActive \in [Bus -> BOOLEAN]
    /\ tripStatus \in [Trip -> TripStatus \cup {"NONE"}]
    /\ tripBus \in [Trip -> Bus]
    /\ tripWindow \in [Trip -> [from : Hour, until : Hour]]
    /\ jobStatus \in [Job -> JobStatus \cup {"NONE"}]
    /\ jobBus \in [Job -> Bus]
    /\ jobWindow \in [Job -> [from : Hour, until : Hour]]

AnyBus == CHOOSE bus \in Bus : TRUE
NoWindow == [from |-> 0, until |-> 0]

Init ==
    /\ clock = 0
    /\ busStatus = [bus \in Bus |-> "ACTIVE"]
    /\ busActive = [bus \in Bus |-> TRUE]
    /\ tripStatus = [tr \in Trip |-> "NONE"]
    /\ tripBus = [tr \in Trip |-> AnyBus]
    /\ tripWindow = [tr \in Trip |-> NoWindow]
    /\ jobStatus = [j \in Job |-> "NONE"]
    /\ jobBus = [j \in Job |-> AnyBus]
    /\ jobWindow = [j \in Job |-> NoWindow]

-----------------------------------------------------------------------------
\* The trips that occupy their bus: all but the cancelled ones, even completed.
LiveTrips(bus) == {tr \in Trip : /\ tripStatus[tr] \in TripStatus \ {"CANCELLED"}
                                 /\ tripBus[tr] = bus}

ActiveJobs(bus) == {j \in Job : /\ jobStatus[j] \in {"SCHEDULED", "IN_PROGRESS"}
                                /\ jobBus[j] = bus}

Operational(bus) == busActive[bus] /\ busStatus[bus] = "ACTIVE"

\* hasActiveMaintenanceOverlap: a job in progress has no end.
MaintenanceOverlaps(bus, w) ==
    \E j \in ActiveJobs(bus) :
        IF jobStatus[j] = "IN_PROGRESS" THEN jobWindow[j].from < w.until
                                        ELSE Overlap(jobWindow[j], w)

\* ex_trips_bus_no_overlap, for trip tr on the bus at w.
TripFits(tr, bus, w) ==
    \A other \in LiveTrips(bus) \ {tr} : ~ Overlap(tripWindow[other], w)

CreateTrip(tr, bus, w) ==
    /\ tripStatus[tr] = "NONE"
    /\ Operational(bus)
    /\ ~ MaintenanceOverlaps(bus, w)
    /\ TripFits(tr, bus, w)
    /\ tripStatus' = [tripStatus EXCEPT ![tr] = "SCHEDULED"]
    /\ tripBus' = [tripBus EXCEPT ![tr] = bus]
    /\ tripWindow' = [tripWindow EXCEPT ![tr] = w]
    /\ UNCHANGED <<clock, busStatus, busActive, jobVars>>

RescheduleClear(tr, w) == ~ MaintenanceOverlaps(tripBus[tr], w)

UpdateTrip(tr, w) ==
    /\ tripStatus[tr] = "SCHEDULED"
    /\ Operational(tripBus[tr])
    /\ RescheduleClear(tr, w)
    /\ TripFits(tr, tripBus[tr], w)
    /\ tripWindow' = [tripWindow EXCEPT ![tr] = w]
    /\ UNCHANGED <<clock, busStatus, busActive, tripStatus, tripBus, jobVars>>

TripTransition(tr, from, to) ==
    /\ tripStatus[tr] = from
    /\ tripStatus' = [tripStatus EXCEPT ![tr] = to]
    /\ UNCHANGED <<clock, busStatus, busActive, tripBus, tripWindow, jobVars>>

StartTrip(tr) == TripTransition(tr, "SCHEDULED", "ONGOING")
CompleteTrip(tr) == TripTransition(tr, "ONGOING", "COMPLETED")
CancelTrip(tr) == TripTransition(tr, "SCHEDULED", "CANCELLED")

-----------------------------------------------------------------------------
ScheduleJob(j, bus, w) ==
    /\ jobStatus[j] = "NONE"
    /\ busActive[bus]
    /\ ActiveJobs(bus) = {}
    /\ \A tr \in LiveTrips(bus) : ~ Overlap(tripWindow[tr], w)
    /\ jobStatus' = [jobStatus EXCEPT ![j] = "SCHEDULED"]
    /\ jobBus' = [jobBus EXCEPT ![j] = bus]
    /\ jobWindow' = [jobWindow EXCEPT ![j] = w]
    /\ UNCHANGED <<clock, busStatus, busActive, tripVars>>

\* No live trip of the bus is estimated to be still on its way, or to come.
ClearFromNow_Mutant(j) ==
    \A tr \in LiveTrips(jobBus[j]) : ~ Overlap(tripWindow[tr], jobWindow[j])

ClearFromNow(j) == \A tr \in LiveTrips(jobBus[j]) : tripWindow[tr].until <= clock

StartJob(j) ==
    /\ jobStatus[j] = "SCHEDULED"
    /\ ClearFromNow(j)
    /\ busStatus[jobBus[j]] = "ACTIVE"
    /\ jobStatus' = [jobStatus EXCEPT ![j] = "IN_PROGRESS"]
    /\ busStatus' = [busStatus EXCEPT ![jobBus[j]] = "IN_MAINTENANCE"]
    /\ UNCHANGED <<clock, busActive, tripVars, jobBus, jobWindow>>

\* The bus comes back unless another job of it is active.
RestoredBus_Mutant(j) == busStatus

RestoredBus(j) ==
    IF ActiveJobs(jobBus[j]) \ {j} = {} /\ busStatus[jobBus[j]] = "IN_MAINTENANCE"
    THEN [busStatus EXCEPT ![jobBus[j]] = "ACTIVE"] ELSE busStatus

EndJob(j, from, to) ==
    /\ jobStatus[j] \in from
    /\ jobStatus' = [jobStatus EXCEPT ![j] = to]
    /\ busStatus' = RestoredBus(j)
    /\ UNCHANGED <<clock, busActive, tripVars, jobBus, jobWindow>>

\* Completion stamps completed_at, which may not precede the PLANNED start: starting
\* early does not move started_at, and ck_maintenance_completed then refuses.
CompleteJob(j) ==
    /\ jobWindow[j].from <= clock
    /\ EndJob(j, {"IN_PROGRESS"}, "COMPLETED")

CancelJob(j) == EndJob(j, {"SCHEDULED", "IN_PROGRESS"}, "CANCELLED")

SetBusActive(bus) ==
    /\ busActive' = [busActive EXCEPT ![bus] = ~ @]
    /\ UNCHANGED <<clock, busStatus, tripVars, jobVars>>

Tick ==
    /\ clock < Horizon
    /\ clock' = clock + 1
    /\ UNCHANGED <<busStatus, busActive, tripVars, jobVars>>

Next ==
    \/ \E tr \in Trip, bus \in Bus, w \in Window : CreateTrip(tr, bus, w)
    \/ \E tr \in Trip, w \in Window : UpdateTrip(tr, w)
    \/ \E tr \in Trip : StartTrip(tr) \/ CompleteTrip(tr) \/ CancelTrip(tr)
    \/ \E j \in Job, bus \in Bus, w \in Window : ScheduleJob(j, bus, w)
    \/ \E j \in Job : StartJob(j) \/ CompleteJob(j) \/ CancelJob(j)
    \/ \E bus \in Bus : SetBusActive(bus)
    \/ Tick

Spec == Init /\ [][Next]_vars

-----------------------------------------------------------------------------
(***************************************************************************)
(* Properties.                                                             *)
(***************************************************************************)

\* buses.status, which three other modules read, never drifts from the jobs: a bus
\* is IN_MAINTENANCE exactly while one of its jobs is in progress, and then that is
\* its only active job.
BusStatusFollowsJobs ==
    \A bus \in Bus :
        LET Running == {j \in ActiveJobs(bus) : jobStatus[j] = "IN_PROGRESS"} IN
        /\ (busStatus[bus] = "IN_MAINTENANCE") <=> (Running # {})
        /\ \A j, k \in ActiveJobs(bus) : j = k

\* The two schedules of a bus, each checked only when it is written, never clash:
\* the windows of its live trips are apart from each other and from planned work,
\* through every reschedule, cancellation and (de)activation.
SchedulesApart ==
    \A bus \in Bus :
        /\ \A t1, t2 \in LiveTrips(bus) :
                t1 # t2 => ~ Overlap(tripWindow[t1], tripWindow[t2])
        /\ \A tr \in LiveTrips(bus), j \in ActiveJobs(bus) :
                jobStatus[j] = "SCHEDULED" => ~ Overlap(tripWindow[tr], jobWindow[j])

\* While a bus is in the workshop none of its live trips is expected to be on its
\* way or still to come, however long the work takes.
WorkshopBusHasNoTripAhead ==
    \A bus \in Bus : busStatus[bus] = "IN_MAINTENANCE" =>
        \A tr \in LiveTrips(bus) : tripWindow[tr].until <= clock

-----------------------------------------------------------------------------
\* maintenance.service.ts: maintenance cannot start while the bus has a live trip.
StartsOnlyIdle ==
    \A j \in Job :
        jobStatus[j] = "SCHEDULED" /\ jobStatus'[j] = "IN_PROGRESS" =>
            \A tr \in LiveTrips(jobBus[j]) : tripStatus[tr] # "ONGOING"

NoStartDuringTrip == [][StartsOnlyIdle]_vars

\* maintenance-transitions.ts: complete leads from IN_PROGRESS to COMPLETED, so work
\* that is in progress can be completed.
RunningJobCanBeCompleted ==
    \A j \in Job : jobStatus[j] = "IN_PROGRESS" => ENABLED CompleteJob(j)
=============================================================================
