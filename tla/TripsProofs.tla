------------------------------ MODULE TripsProofs ------------------------------
(***************************************************************************)
(* Theorems about Fleet, for every set of buses, trips and jobs and every  *)
(* calendar; then about Trips, for every staff and set of edits: editing a *)
(* trip in two steps is editing it in one, so Trips implements Fleet and   *)
(* what holds of Fleet holds of the trips as the service edits them.       *)
(***************************************************************************)
EXTENDS Trips, TLAPS

-----------------------------------------------------------------------------
(***************************************************************************)
(* Type correctness.                                                       *)
(***************************************************************************)

\* The tables start well typed.
LEMMA InitTypeOK == Init => TypeOK
  <1>1. AnyBus \in Bus
    BY FleetConstantsOK DEF FleetConstantsOK, AnyBus
  <1>2. NoWindow \in [from : Hour, until : Hour]
    BY FleetConstantsOK DEF FleetConstantsOK, NoWindow, Hour
  <1> QED
    BY <1>1, <1>2 DEF Init, TypeOK

\* Every operation keeps the tables well typed.
LEMMA NextTypeOK == TypeOK /\ [Next]_vars => TypeOK'
  <1> SUFFICES ASSUME TypeOK, [Next]_vars PROVE TypeOK'
    OBVIOUS
  <1> USE DEF TypeOK, TripStatus, JobStatus, Window, tripVars, jobVars
  <1>1. ASSUME NEW tr \in Trip, NEW bus \in Bus, NEW w \in Window, CreateTrip(tr, bus, w)
        PROVE  TypeOK'
    BY <1>1 DEF CreateTrip
  <1>2. ASSUME NEW tr \in Trip, NEW w \in Window, UpdateTrip(tr, w)
        PROVE  TypeOK'
    BY <1>2 DEF UpdateTrip
  <1>3. ASSUME NEW tr \in Trip, StartTrip(tr) \/ CompleteTrip(tr) \/ CancelTrip(tr)
        PROVE  TypeOK'
    BY <1>3 DEF StartTrip, CompleteTrip, CancelTrip, TripTransition
  <1>4. ASSUME NEW j \in Job, NEW bus \in Bus, NEW w \in Window, ScheduleJob(j, bus, w)
        PROVE  TypeOK'
    BY <1>4 DEF ScheduleJob
  <1>5. ASSUME NEW j \in Job, StartJob(j)
        PROVE  TypeOK'
    BY <1>5 DEF StartJob
  <1>6. ASSUME NEW j \in Job, CompleteJob(j) \/ CancelJob(j)
        PROVE  TypeOK'
    <2>1. RestoredBus(j) \in [Bus -> {"ACTIVE", "IN_MAINTENANCE"}]
      BY DEF RestoredBus
    <2> QED
      BY <1>6, <2>1 DEF CompleteJob, CancelJob, EndJob
  <1>7. ASSUME NEW bus \in Bus, SetBusActive(bus)
        PROVE  TypeOK'
    BY <1>7 DEF SetBusActive
  <1>8. CASE Tick
    BY <1>8 DEF Tick
  <1>9. CASE UNCHANGED vars
    BY <1>9 DEF vars
  <1> QED
    BY <1>1, <1>2, <1>3, <1>4, <1>5, <1>6, <1>7, <1>8, <1>9 DEF Next

\* The tables are well typed in every reachable state.
THEOREM TypeCorrect == Spec => []TypeOK
  BY InitTypeOK, NextTypeOK, PTL DEF Spec

-----------------------------------------------------------------------------
(***************************************************************************)
(* The invariant.  No part is inductive alone: planning work relies on the *)
(* bus status telling whether work is in progress, a new trip on the       *)
(* status telling that none is, and ending work on its being the only one. *)
(***************************************************************************)
IInv ==
    /\ TypeOK
    /\ BusStatusFollowsJobs
    /\ SchedulesApart
    /\ WorkshopBusHasNoTripAhead

\* Two half-open ranges overlap whichever is named first.
LEMMA OverlapSymmetric ==
    ASSUME NEW v, NEW w
    PROVE  Overlap(v, w) <=> Overlap(w, v)
  BY DEF Overlap

\* A job of a bus that is not in maintenance is planned, not in progress.
LEMMA JobsOfActiveBus ==
    ASSUME TypeOK, BusStatusFollowsJobs, NEW bus \in Bus, busStatus[bus] = "ACTIVE",
           NEW j \in ActiveJobs(bus)
    PROVE  jobStatus[j] = "SCHEDULED"
  BY DEF BusStatusFollowsJobs, ActiveJobs

\* Nothing is planned at the start.
LEMMA InitIInv == Init => IInv
  <1> SUFFICES ASSUME Init PROVE IInv
    OBVIOUS
  <1>1. \A bus \in Bus : LiveTrips(bus) = {} /\ ActiveJobs(bus) = {}
    BY DEF Init, LiveTrips, ActiveJobs, TripStatus
  <1>2. \A bus \in Bus : busStatus[bus] = "ACTIVE"
    BY DEF Init
  <1> QED
    BY <1>1, <1>2, InitTypeOK
       DEF IInv, BusStatusFollowsJobs, SchedulesApart, WorkshopBusHasNoTripAhead

-----------------------------------------------------------------------------
(***************************************************************************)
(* The trips' side: jobs and bus statuses stay as they are.                *)
(***************************************************************************)

\* What depends on jobs and bus statuses alone survives every trip operation.
LEMMA JobsUntouched ==
    ASSUME BusStatusFollowsJobs, UNCHANGED <<busStatus, jobVars>>
    PROVE  BusStatusFollowsJobs' /\ \A bus \in Bus : ActiveJobs(bus)' = ActiveJobs(bus)
  BY DEF BusStatusFollowsJobs, ActiveJobs, jobVars

\* A trip put on an operational bus at a window that fits keeps the schedules apart.
\* Scheduling and rescheduling both do that.
LEMMA PlacedTripFits ==
    ASSUME IInv, TypeOK', NEW tr \in Trip, NEW bus \in Bus, NEW w \in Window,
           Operational(bus), ~ MaintenanceOverlaps(bus, w), TripFits(tr, bus, w),
           tripBus' = [tripBus EXCEPT ![tr] = bus],
           tripWindow' = [tripWindow EXCEPT ![tr] = w],
           tripStatus' = [tripStatus EXCEPT ![tr] = "SCHEDULED"],
           UNCHANGED <<clock, busStatus, jobVars>>
    PROVE  IInv'
  <1> USE DEF IInv
  <1>1. BusStatusFollowsJobs' /\ \A b \in Bus : ActiveJobs(b)' = ActiveJobs(b)
    BY JobsUntouched
  <1>2. \A b \in Bus : LiveTrips(b)' \ {tr} = LiveTrips(b) \ {tr}
    BY DEF LiveTrips, TypeOK
  <1>3. \A b \in Bus : tr \in LiveTrips(b)' => b = bus
    BY DEF LiveTrips, TypeOK
  <1>4. /\ tripWindow'[tr] = w
        /\ \A other \in Trip \ {tr} : tripWindow'[other] = tripWindow[other]
    BY DEF TypeOK
  <1>5. \A b \in Bus : LiveTrips(b) \subseteq Trip /\ LiveTrips(b)' \subseteq Trip
    BY DEF LiveTrips
  <1>6. \A j \in ActiveJobs(bus) : jobStatus[j] = "SCHEDULED" /\ ~ Overlap(jobWindow[j], w)
    BY JobsOfActiveBus DEF Operational, MaintenanceOverlaps
  <1>7. SchedulesApart'
    <2> SUFFICES ASSUME NEW b \in Bus
                 PROVE  /\ \A t1, t2 \in LiveTrips(b)' :
                             t1 # t2 => ~ Overlap(tripWindow'[t1], tripWindow'[t2])
                        /\ \A t1 \in LiveTrips(b)', j \in ActiveJobs(b)' :
                             jobStatus'[j] = "SCHEDULED" =>
                                 ~ Overlap(tripWindow'[t1], jobWindow'[j])
      BY DEF SchedulesApart, Overlap
    <2>1. ASSUME NEW t1 \in LiveTrips(b)', NEW t2 \in LiveTrips(b)', t1 # t2
          PROVE  ~ Overlap(tripWindow'[t1], tripWindow'[t2])
      <3>1. CASE t1 # tr /\ t2 # tr
        <4>1. t1 \in LiveTrips(b) /\ t2 \in LiveTrips(b)
          BY <1>2, <3>1
        <4>2. tripWindow'[t1] = tripWindow[t1] /\ tripWindow'[t2] = tripWindow[t2]
          BY <1>4, <1>5, <3>1
        <4> QED
          BY <2>1, <4>1, <4>2 DEF SchedulesApart
      <3>2. CASE t1 = tr
        <4>1. t2 \in LiveTrips(bus) \ {tr} /\ tripWindow'[t2] = tripWindow[t2]
          BY <1>2, <1>3, <1>4, <1>5, <2>1, <3>2
        <4> QED
          BY <1>4, <3>2, <4>1, OverlapSymmetric DEF TripFits
      <3>3. CASE t2 = tr
        <4>1. t1 \in LiveTrips(bus) \ {tr} /\ tripWindow'[t1] = tripWindow[t1]
          BY <1>2, <1>3, <1>4, <1>5, <2>1, <3>3
        <4> QED
          BY <1>4, <3>3, <4>1 DEF TripFits
      <3> QED
        BY <3>1, <3>2, <3>3
    <2>2. ASSUME NEW t1 \in LiveTrips(b)', NEW j \in ActiveJobs(b)',
                 jobStatus'[j] = "SCHEDULED"
          PROVE  ~ Overlap(tripWindow'[t1], jobWindow'[j])
      <3>1. j \in ActiveJobs(b) /\ jobStatus[j] = "SCHEDULED" /\ jobWindow' = jobWindow
        BY <1>1, <2>2 DEF jobVars
      <3>2. CASE t1 = tr
        BY <1>3, <1>4, <1>6, <3>1, <3>2, OverlapSymmetric
      <3>3. CASE t1 # tr
        BY <1>2, <1>4, <1>5, <3>1, <3>3 DEF SchedulesApart
      <3> QED
        BY <3>2, <3>3
    <2> QED
      BY <2>1, <2>2
  <1>8. WorkshopBusHasNoTripAhead'
    <2> SUFFICES ASSUME NEW b \in Bus, busStatus'[b] = "IN_MAINTENANCE",
                        NEW t1 \in LiveTrips(b)'
                 PROVE  tripWindow'[t1].until <= clock'
      BY DEF WorkshopBusHasNoTripAhead
    <2>1. b # bus
      BY DEF Operational
    <2>2. t1 # tr
      BY <1>3, <2>1
    <2> QED
      BY <1>2, <1>4, <1>5, <2>2 DEF WorkshopBusHasNoTripAhead
  <1> QED
    BY <1>1, <1>7, <1>8

\* A transition of a trip never makes it live again.
LEMMA TripTransitionsKeepIInv ==
    ASSUME IInv, TypeOK', NEW tr \in Trip,
           StartTrip(tr) \/ CompleteTrip(tr) \/ CancelTrip(tr)
    PROVE  IInv'
  <1> USE DEF IInv
  <1>1. /\ \A b \in Bus : LiveTrips(b)' \subseteq LiveTrips(b)
        /\ UNCHANGED <<clock, busStatus, tripBus, tripWindow, jobVars>>
    BY DEF StartTrip, CompleteTrip, CancelTrip, TripTransition, LiveTrips, TypeOK, TripStatus
  <1>2. BusStatusFollowsJobs' /\ \A b \in Bus : ActiveJobs(b)' = ActiveJobs(b)
    BY <1>1, JobsUntouched
  <1>3. SchedulesApart'
    BY <1>1, <1>2 DEF SchedulesApart, Overlap, jobVars
  <1>4. WorkshopBusHasNoTripAhead'
    BY <1>1 DEF WorkshopBusHasNoTripAhead
  <1> QED
    BY <1>2, <1>3, <1>4

-----------------------------------------------------------------------------
(***************************************************************************)
(* The jobs' side: trips stay as they are.                                 *)
(***************************************************************************)

\* The live trips of a bus do not depend on jobs or statuses of buses.
LEMMA TripsUntouched ==
    ASSUME UNCHANGED tripVars
    PROVE  tripWindow' = tripWindow /\ \A bus \in Bus : LiveTrips(bus)' = LiveTrips(bus)
  BY DEF LiveTrips, tripVars

\* Planned work is the only active work of its bus and clear of its trips.
LEMMA ScheduleJobKeepsIInv ==
    ASSUME IInv, TypeOK', NEW j \in Job, NEW bus \in Bus, NEW w \in Window,
           ScheduleJob(j, bus, w)
    PROVE  IInv'
  <1> USE DEF IInv
  <1>1. tripWindow' = tripWindow /\ \A b \in Bus : LiveTrips(b)' = LiveTrips(b)
    BY TripsUntouched DEF ScheduleJob
  <1>2. ActiveJobs(bus) = {} /\ ActiveJobs(bus)' = {j}
    BY DEF ScheduleJob, ActiveJobs, TypeOK
  <1>3. \A b \in Bus \ {bus} : ActiveJobs(b)' = ActiveJobs(b) /\ j \notin ActiveJobs(b)
    BY DEF ScheduleJob, ActiveJobs, TypeOK
  <1>4. /\ jobStatus'[j] = "SCHEDULED" /\ jobWindow'[j] = w
        /\ \A k \in Job \ {j} : jobStatus'[k] = jobStatus[k] /\ jobWindow'[k] = jobWindow[k]
    BY DEF ScheduleJob, TypeOK
  <1>5. \A b \in Bus : ActiveJobs(b) \subseteq Job
    BY DEF ActiveJobs
  <1>6. BusStatusFollowsJobs'
    BY <1>2, <1>3, <1>4, <1>5 DEF BusStatusFollowsJobs, ScheduleJob
  <1>7. SchedulesApart'
    <2> SUFFICES ASSUME NEW b \in Bus
                 PROVE  /\ \A t1, t2 \in LiveTrips(b)' :
                             t1 # t2 => ~ Overlap(tripWindow'[t1], tripWindow'[t2])
                        /\ \A tr \in LiveTrips(b)', k \in ActiveJobs(b)' :
                             jobStatus'[k] = "SCHEDULED" =>
                                 ~ Overlap(tripWindow'[tr], jobWindow'[k])
      BY DEF SchedulesApart, Overlap
    <2>1. CASE b = bus
      BY <1>1, <1>2, <1>4, <2>1 DEF SchedulesApart, ScheduleJob
    <2>2. CASE b # bus
      BY <1>1, <1>3, <1>4, <1>5, <2>2 DEF SchedulesApart
    <2> QED
      BY <2>1, <2>2
  <1>8. WorkshopBusHasNoTripAhead'
    BY <1>1 DEF WorkshopBusHasNoTripAhead, ScheduleJob
  <1> QED
    BY <1>6, <1>7, <1>8

\* Work starts on an active bus, so it is its only work, with no trip ahead.
LEMMA StartJobKeepsIInv ==
    ASSUME IInv, TypeOK', NEW j \in Job, StartJob(j)
    PROVE  IInv'
  <1> USE DEF IInv
  <1> PICK bus \in Bus : bus = jobBus[j]
    BY DEF TypeOK
  <1>1. tripWindow' = tripWindow /\ \A b \in Bus : LiveTrips(b)' = LiveTrips(b)
    BY TripsUntouched DEF StartJob
  <1>2. j \in ActiveJobs(bus) /\ \A b \in Bus \ {bus} : j \notin ActiveJobs(b)
    BY DEF StartJob, ActiveJobs, TypeOK
  <1>3. \A b \in Bus : ActiveJobs(b)' = ActiveJobs(b) /\ ActiveJobs(b) \subseteq Job
    BY DEF StartJob, ActiveJobs, TypeOK
  <1>4. jobStatus'[j] = "IN_PROGRESS" /\ \A k \in Job \ {j} : jobStatus'[k] = jobStatus[k]
    BY DEF StartJob, TypeOK
  <1>5. busStatus'[bus] = "IN_MAINTENANCE" /\ \A b \in Bus \ {bus} : busStatus'[b] = busStatus[b]
    BY <1>2 DEF StartJob, TypeOK
  <1>6. BusStatusFollowsJobs'
    <2> SUFFICES ASSUME NEW b \in Bus
                 PROVE  /\ (busStatus'[b] = "IN_MAINTENANCE") <=>
                             ({k \in ActiveJobs(b)' : jobStatus'[k] = "IN_PROGRESS"} # {})
                        /\ \A k, l \in ActiveJobs(b)' : k = l
      BY DEF BusStatusFollowsJobs
    <2>1. CASE b = bus
      BY <1>2, <1>3, <1>4, <1>5, <2>1 DEF BusStatusFollowsJobs
    <2>2. CASE b # bus
      BY <1>2, <1>3, <1>4, <1>5, <2>2 DEF BusStatusFollowsJobs
    <2> QED
      BY <2>1, <2>2
  <1>7. SchedulesApart'
    BY <1>1, <1>3, <1>4 DEF SchedulesApart, Overlap, StartJob
  <1>8. WorkshopBusHasNoTripAhead'
    BY <1>1, <1>2, <1>5 DEF WorkshopBusHasNoTripAhead, StartJob, ClearFromNow
  <1> QED
    BY <1>6, <1>7, <1>8

\* Ending the only active work of a bus leaves it none, and gives it back.
LEMMA EndJobKeepsIInv ==
    ASSUME IInv, TypeOK', NEW j \in Job, CompleteJob(j) \/ CancelJob(j)
    PROVE  IInv'
  <1> USE DEF IInv
  <1> PICK bus \in Bus : bus = jobBus[j]
    BY DEF TypeOK
  <1>0. /\ jobStatus[j] \in {"SCHEDULED", "IN_PROGRESS"}
        /\ \E to \in {"COMPLETED", "CANCELLED"} : jobStatus' = [jobStatus EXCEPT ![j] = to]
        /\ busStatus' = RestoredBus(j)
        /\ UNCHANGED <<clock, busActive, tripVars, jobBus, jobWindow>>
    BY DEF CompleteJob, CancelJob, EndJob
  <1>1. tripWindow' = tripWindow /\ \A b \in Bus : LiveTrips(b)' = LiveTrips(b)
    BY <1>0, TripsUntouched
  <1>2. ActiveJobs(bus) = {j} /\ ActiveJobs(bus)' = {}
    <2>1. j \in ActiveJobs(bus)
      BY <1>0 DEF ActiveJobs, TypeOK
    <2>2. ActiveJobs(bus) = {j}
      BY <2>1 DEF BusStatusFollowsJobs
    <2>3. ActiveJobs(bus)' \subseteq ActiveJobs(bus) \ {j}
      BY <1>0 DEF ActiveJobs, TypeOK
    <2> QED
      BY <2>1, <2>2, <2>3
  <1>3. \A b \in Bus \ {bus} : ActiveJobs(b)' = ActiveJobs(b) /\ ActiveJobs(b) \subseteq Job \ {j}
    BY <1>0 DEF ActiveJobs, TypeOK
  <1>4. \A k \in Job \ {j} : jobStatus'[k] = jobStatus[k]
    BY <1>0 DEF TypeOK
  <1>5. busStatus'[bus] = "ACTIVE" /\ \A b \in Bus \ {bus} : busStatus'[b] = busStatus[b]
    BY <1>0, <1>2 DEF RestoredBus, TypeOK
  <1>6. BusStatusFollowsJobs'
    <2> SUFFICES ASSUME NEW b \in Bus
                 PROVE  /\ (busStatus'[b] = "IN_MAINTENANCE") <=>
                             ({k \in ActiveJobs(b)' : jobStatus'[k] = "IN_PROGRESS"} # {})
                        /\ \A k, l \in ActiveJobs(b)' : k = l
      BY DEF BusStatusFollowsJobs
    <2>1. CASE b = bus
      BY <1>2, <1>5, <2>1
    <2>2. CASE b # bus
      BY <1>3, <1>4, <1>5, <2>2 DEF BusStatusFollowsJobs
    <2> QED
      BY <2>1, <2>2
  <1>7. SchedulesApart'
    BY <1>0, <1>1, <1>2, <1>3, <1>4 DEF SchedulesApart, Overlap
  <1>8. WorkshopBusHasNoTripAhead'
    BY <1>0, <1>1, <1>2, <1>5 DEF WorkshopBusHasNoTripAhead
  <1> QED
    BY <1>6, <1>7, <1>8

-----------------------------------------------------------------------------
(***************************************************************************)
(* The theorems.                                                           *)
(***************************************************************************)

\* Every operation keeps the invariant.
LEMMA NextIInv == IInv /\ [Next]_vars => IInv'
  <1> SUFFICES ASSUME IInv, [Next]_vars PROVE IInv'
    OBVIOUS
  <1>0. TypeOK'
    BY NextTypeOK DEF IInv
  <1>1. ASSUME NEW tr \in Trip, NEW bus \in Bus, NEW w \in Window, CreateTrip(tr, bus, w)
        PROVE  IInv'
    BY <1>0, <1>1, PlacedTripFits DEF CreateTrip
  <1>2. ASSUME NEW tr \in Trip, NEW w \in Window, UpdateTrip(tr, w)
        PROVE  IInv'
    <2>1. /\ tripBus[tr] \in Bus
          /\ tripBus' = [tripBus EXCEPT ![tr] = tripBus[tr]]
          /\ tripStatus' = [tripStatus EXCEPT ![tr] = "SCHEDULED"]
      BY <1>2 DEF UpdateTrip, IInv, TypeOK
    <2> QED
      BY <1>0, <1>2, <2>1, PlacedTripFits DEF UpdateTrip, RescheduleClear
  <1>3. ASSUME NEW tr \in Trip, StartTrip(tr) \/ CompleteTrip(tr) \/ CancelTrip(tr)
        PROVE  IInv'
    BY <1>0, <1>3, TripTransitionsKeepIInv
  <1>4. ASSUME NEW j \in Job, NEW bus \in Bus, NEW w \in Window, ScheduleJob(j, bus, w)
        PROVE  IInv'
    BY <1>0, <1>4, ScheduleJobKeepsIInv
  <1>5. ASSUME NEW j \in Job, StartJob(j)
        PROVE  IInv'
    BY <1>0, <1>5, StartJobKeepsIInv
  <1>6. ASSUME NEW j \in Job, CompleteJob(j) \/ CancelJob(j)
        PROVE  IInv'
    BY <1>0, <1>6, EndJobKeepsIInv
  <1>7. ASSUME UNCHANGED <<busStatus, tripVars, jobVars>>, clock' \in Nat, clock <= clock'
        PROVE  IInv'
    <2>1. \A b \in Bus : LiveTrips(b)' = LiveTrips(b) /\ ActiveJobs(b)' = ActiveJobs(b)
      BY <1>7 DEF LiveTrips, ActiveJobs, tripVars, jobVars
    <2>2. BusStatusFollowsJobs'
      BY <1>7, <2>1 DEF IInv, BusStatusFollowsJobs, jobVars
    <2>3. SchedulesApart'
      BY <1>7, <2>1 DEF IInv, SchedulesApart, Overlap, tripVars, jobVars
    <2>4. \A b \in Bus : \A tr \in LiveTrips(b) : tripWindow[tr].until \in Nat
      BY FleetConstantsOK DEF FleetConstantsOK, IInv, TypeOK, LiveTrips, Hour
    <2>5. clock \in Nat
      BY DEF IInv, TypeOK
    <2>6. WorkshopBusHasNoTripAhead'
      BY <1>7, <2>1, <2>4, <2>5 DEF IInv, WorkshopBusHasNoTripAhead, tripVars
    <2> QED
      BY <1>0, <2>2, <2>3, <2>6 DEF IInv
  <1>8. clock \in Nat
    BY DEF IInv, TypeOK
  <1>9. ASSUME NEW bus \in Bus, SetBusActive(bus)
        PROVE  IInv'
    BY <1>7, <1>8, <1>9 DEF SetBusActive
  <1>10. CASE Tick
    BY <1>7, <1>8, <1>10 DEF Tick
  <1>11. CASE UNCHANGED vars
    BY <1>7, <1>8, <1>11 DEF vars
  <1> QED
    BY <1>1, <1>2, <1>3, <1>4, <1>5, <1>6, <1>9, <1>10, <1>11 DEF Next

\* The invariant holds in every reachable state.
THEOREM FleetInvariant == Spec => []IInv
  BY InitIInv, NextIInv, PTL DEF Spec

\* A bus is IN_MAINTENANCE exactly while its one active job is in progress.
THEOREM StatusFollows == Spec => []BusStatusFollowsJobs
  <1>1. IInv => BusStatusFollowsJobs
    BY DEF IInv
  <1> QED
    BY <1>1, FleetInvariant, PTL

\* The trips of a bus never clash with each other or with planned work.
THEOREM SchedulesStayApart == Spec => []SchedulesApart
  <1>1. IInv => SchedulesApart
    BY DEF IInv
  <1> QED
    BY <1>1, FleetInvariant, PTL

\* A bus in the workshop has no trip expected to be under way or to come.
THEOREM NoTripAhead == Spec => []WorkshopBusHasNoTripAhead
  <1>1. IInv => WorkshopBusHasNoTripAhead
    BY DEF IInv
  <1> QED
    BY <1>1, FleetInvariant, PTL


-----------------------------------------------------------------------------
(***************************************************************************)
(* The invariant: as long as the version has not moved, the trip is what   *)
(* its editor saw.  It holds because every writer of a trip that may have  *)
(* been read moves the version, and none moves it back.                    *)
(***************************************************************************)
SeenIsCurrent(c) ==
    call[c].step = "read" =>
        /\ tripStatus[call[c].trip] # "NONE"
        /\ call[c].version <= tripVersion[call[c].trip]
        /\ call[c].version = tripVersion[call[c].trip] =>
                call[c].seen = tripWindow[call[c].trip]

CallsTyped ==
    /\ tripVersion \in [Trip -> Nat]
    /\ call \in [Call -> {NoCall} \cup Reading]

EditInv == TypeOK /\ CallsTyped /\ \A c \in Call : SeenIsCurrent(c)

\* Nothing is under way at the start.
LEMMA InitEditInv == TripsInit => EditInv
  BY InitTypeOK DEF TripsInit, EditInv, CallsTyped, SeenIsCurrent, NoCall

\* A call under way knows its trip.
LEMMA ReadingTyped ==
    ASSUME CallsTyped, NEW c \in Call, call[c].step = "read"
    PROVE  call[c] \in Reading
  BY DEF CallsTyped, NoCall, Reading

\* What leaves trips, versions and calls alone keeps what the calls know.
LEMMA CallsUntouched ==
    ASSUME CallsTyped, \A c \in Call : SeenIsCurrent(c),
           UNCHANGED <<tripStatus, tripWindow, tripVersion, call>>
    PROVE  CallsTyped' /\ \A c \in Call : SeenIsCurrent(c)'
  BY DEF CallsTyped, SeenIsCurrent

-----------------------------------------------------------------------------
(***************************************************************************)
(* Step by step: what Fleet sees, and what the calls still know.           *)
(***************************************************************************)

\* Scheduling is Fleet's, and touches no trip a call can have read.
LEMMA ScheduleTripStep ==
    ASSUME EditInv, NEW tr \in Trip, NEW bus \in Bus, NEW w \in Window, NEW crew,
           ScheduleTrip(tr, bus, w, crew)
    PROVE  Next /\ CallsTyped' /\ \A c \in Call : SeenIsCurrent(c)'
  <1>1. CreateTrip(tr, bus, w) /\ UNCHANGED <<tripVersion, call>>
    BY DEF ScheduleTrip
  <1>2. Next
    BY <1>1 DEF Next
  <1>3. CallsTyped'
    BY <1>1 DEF EditInv, CallsTyped
  <1>4. ASSUME NEW c \in Call, call[c].step = "read"
        PROVE  SeenIsCurrent(c)'
    <2>1. call[c] \in Reading
      BY <1>4, ReadingTyped DEF EditInv
    <2>2. call[c].trip \in Trip /\ call[c].trip # tr
      BY <1>1, <1>4, <2>1 DEF EditInv, SeenIsCurrent, CreateTrip, Reading
    <2> QED
      BY <1>1, <1>4, <2>2 DEF EditInv, SeenIsCurrent, CreateTrip, TypeOK
  <1>5. ASSUME NEW c \in Call, call[c].step # "read"
        PROVE  SeenIsCurrent(c)'
    BY <1>1, <1>5 DEF SeenIsCurrent
  <1> QED
    BY <1>2, <1>3, <1>4, <1>5

\* A call that has just read knows the trip as it is.
LEMMA ReadTripStep ==
    ASSUME EditInv, NEW d \in Call, NEW tr \in Trip, NEW patch \in Patch,
           ReadTrip(d, tr, patch)
    PROVE  UNCHANGED vars /\ CallsTyped' /\ \A c \in Call : SeenIsCurrent(c)'
  <1> DEFINE r == [step |-> "read", trip |-> tr, patch |-> patch,
                   seen |-> tripWindow[tr], version |-> tripVersion[tr]]
  <1>1. /\ UNCHANGED <<vars, tripVersion>>
        /\ tripStatus[tr] = "SCHEDULED"
        /\ call' = [call EXCEPT ![d] = r]
    BY DEF ReadTrip
  <1>2. r \in Reading
    BY DEF EditInv, TypeOK, CallsTyped, Reading
  <1>3. CallsTyped'
    BY <1>1, <1>2 DEF EditInv, CallsTyped
  <1>4. ASSUME NEW c \in Call
        PROVE  SeenIsCurrent(c)'
    <2>1. UNCHANGED <<tripStatus, tripWindow, tripVersion>>
      BY <1>1 DEF vars, tripVars
    <2>2. CASE c = d
      <3>1. call'[c] = r
        BY <1>1, <2>2 DEF EditInv, CallsTyped
      <3>2. tripVersion[tr] \in Nat
        BY DEF EditInv, CallsTyped
      <3> QED
        BY <1>1, <2>1, <3>1, <3>2 DEF SeenIsCurrent
    <2>3. CASE c # d
      <3>1. call'[c] = call[c]
        BY <1>1, <2>3 DEF EditInv, CallsTyped
      <3> QED
        BY <2>1, <3>1 DEF EditInv, SeenIsCurrent
    <2> QED
      BY <2>2, <2>3
  <1> QED
    BY <1>1, <1>3, <1>4

\* A writer that moves the version of one trip outdates whoever has read it.
LEMMA BumpOutdates ==
    ASSUME EditInv, NEW tr \in Trip,
           tripVersion' = [tripVersion EXCEPT ![tr] = @ + 1],
           tripStatus'[tr] # "NONE",
           \A other \in Trip \ {tr} : /\ tripStatus'[other] = tripStatus[other]
                                      /\ tripWindow'[other] = tripWindow[other],
           NEW c \in Call, call'[c] \in {call[c], NoCall}
    PROVE  SeenIsCurrent(c)'
  <1> SUFFICES ASSUME call'[c] = call[c], call[c].step = "read"
               PROVE  SeenIsCurrent(c)'
    BY DEF SeenIsCurrent, NoCall
  <1>1. call[c] \in Reading
    BY ReadingTyped DEF EditInv
  <1>2. call[c].trip \in Trip /\ call[c].version \in Nat
    BY <1>1 DEF Reading
  <1>3. CASE call[c].trip = tr
    BY <1>2, <1>3 DEF EditInv, CallsTyped, SeenIsCurrent
  <1>4. CASE call[c].trip # tr
    BY <1>2, <1>4 DEF EditInv, CallsTyped, SeenIsCurrent
  <1> QED
    BY <1>3, <1>4

\* An applied edit is Fleet's edit in one step: the window it has checked is the one it
\* writes, because the trip is still what it saw.
LEMMA UpdateDetailsStep ==
    ASSUME EditInv, NEW d \in Call, UpdateDetails(d)
    PROVE  Next /\ CallsTyped' /\ \A c \in Call : SeenIsCurrent(c)'
  <1> DEFINE tr == call[d].trip
             w == PatchedWindow(tripWindow[tr], call[d].patch)
  <1>1. call[d] \in Reading
    BY ReadingTyped DEF EditInv, UpdateDetails
  <1>2. tr \in Trip
    BY <1>1 DEF Reading
  <1>3. tripWindow[tr] = call[d].seen
    BY DEF EditInv, SeenIsCurrent, UpdateDetails, StillAsRead
  <1>4. /\ tripStatus[tr] = "SCHEDULED"
        /\ Operational(tripBus[tr])
        /\ w \in Window /\ TripFits(tr, tripBus[tr], w)
        /\ tripWindow' = [tripWindow EXCEPT ![tr] = w]
        /\ tripVersion' = [tripVersion EXCEPT ![tr] = @ + 1]
        /\ call' = [call EXCEPT ![d] = NoCall]
        /\ UNCHANGED <<clock, busStatus, busActive, tripStatus, tripBus, jobVars>>
    BY DEF UpdateDetails, StillAsRead, Bumped
  <1>5. ~ MaintenanceOverlaps(tripBus[tr], w)
    BY <1>3 DEF UpdateDetails, CheckedWindow
  <1>6. Next
    <2>1. UpdateTrip(tr, w)
      BY <1>4, <1>5 DEF UpdateTrip, RescheduleClear
    <2> QED
      BY <1>2, <1>4, <2>1 DEF Next
  <1>7. CallsTyped'
    BY <1>2, <1>4 DEF EditInv, CallsTyped
  <1>8. ASSUME NEW c \in Call
        PROVE  SeenIsCurrent(c)'
    <2>1. call'[c] \in {call[c], NoCall}
      BY <1>4 DEF EditInv, CallsTyped
    <2>2. \A other \in Trip \ {tr} : /\ tripStatus'[other] = tripStatus[other]
                                     /\ tripWindow'[other] = tripWindow[other]
      BY <1>4 DEF EditInv, TypeOK
    <2>3. tripStatus'[tr] # "NONE"
      BY <1>4
    <2> QED
      BY <1>2, <1>4, <2>1, <2>2, <2>3, BumpOutdates
  <1> QED
    BY <1>6, <1>7, <1>8

\* A call that gives up leaves nothing behind.
LEMMA GiveUpStep ==
    ASSUME EditInv, NEW d \in Call, GiveUp(d)
    PROVE  UNCHANGED vars /\ CallsTyped' /\ \A c \in Call : SeenIsCurrent(c)'
  <1>1. UNCHANGED <<vars, tripVersion>> /\ call' = [call EXCEPT ![d] = NoCall]
    BY DEF GiveUp
  <1>2. UNCHANGED <<tripStatus, tripWindow, tripVersion>>
    BY <1>1 DEF vars, tripVars
  <1>3. \A c \in Call : call'[c] \in {call[c], NoCall}
    BY <1>1 DEF EditInv, CallsTyped
  <1>4. CallsTyped'
    BY <1>1 DEF EditInv, CallsTyped
  <1> QED
    BY <1>1, <1>2, <1>3, <1>4 DEF EditInv, SeenIsCurrent, NoCall

\* Starting, completing and cancelling are Fleet's, and outdate the edits under way.
LEMMA ApplyTransitionStep ==
    ASSUME EditInv, NEW tr \in Trip, ApplyTransition(tr)
    PROVE  Next /\ CallsTyped' /\ \A c \in Call : SeenIsCurrent(c)'
  <1>1. /\ StartTrip(tr) \/ CompleteTrip(tr) \/ CancelTrip(tr)
        /\ tripVersion' = [tripVersion EXCEPT ![tr] = @ + 1]
        /\ UNCHANGED call
    BY DEF ApplyTransition, Bumped
  <1>2. Next
    BY <1>1 DEF Next
  <1>3. CallsTyped'
    BY <1>1 DEF EditInv, CallsTyped
  <1>4. /\ tripStatus'[tr] # "NONE"
        /\ \A other \in Trip \ {tr} : /\ tripStatus'[other] = tripStatus[other]
                                      /\ tripWindow'[other] = tripWindow[other]
    BY <1>1 DEF EditInv, TypeOK, StartTrip, CompleteTrip, CancelTrip, TripTransition
  <1>5. \A c \in Call : call'[c] \in {call[c], NoCall}
    BY <1>1
  <1> QED
    BY <1>1, <1>2, <1>3, <1>4, <1>5, BumpOutdates

\* What others do to the fleet is Fleet's.
LEMMA FleetStepStep ==
    ASSUME EditInv, FleetStep
    PROVE  Next /\ CallsTyped' /\ \A c \in Call : SeenIsCurrent(c)'
  <1>1. Next
    BY DEF FleetStep, Next
  <1>2. UNCHANGED <<tripStatus, tripWindow, tripVersion, call>>
    BY DEF FleetStep, ScheduleJob, StartJob, CompleteJob, CancelJob, EndJob, SetBusActive,
           Tick, tripVars
  <1> QED
    BY <1>1, <1>2, CallsUntouched DEF EditInv

-----------------------------------------------------------------------------
\* Every step of Trips is a step of Fleet or leaves its tables alone, and keeps what the
\* calls know.
LEMMA NextEditInv == EditInv /\ [TripsNext]_tripsVars => EditInv' /\ [Next]_vars
  <1> SUFFICES ASSUME EditInv, [TripsNext]_tripsVars
               PROVE  [Next]_vars /\ CallsTyped' /\ \A c \in Call : SeenIsCurrent(c)'
    BY NextTypeOK DEF EditInv
  <1>1. ASSUME NEW tr \in Trip, NEW bus \in Bus, NEW w \in Window, NEW crew \in Crew,
               ScheduleTrip(tr, bus, w, crew)
        PROVE  [Next]_vars /\ CallsTyped' /\ \A c \in Call : SeenIsCurrent(c)'
    BY <1>1, ScheduleTripStep
  <1>2. ASSUME NEW c \in Call, NEW tr \in Trip, NEW patch \in Patch, ReadTrip(c, tr, patch)
        PROVE  [Next]_vars /\ CallsTyped' /\ \A e \in Call : SeenIsCurrent(e)'
    BY <1>2, ReadTripStep
  <1>3. ASSUME NEW c \in Call, UpdateDetails(c)
        PROVE  [Next]_vars /\ CallsTyped' /\ \A e \in Call : SeenIsCurrent(e)'
    BY <1>3, UpdateDetailsStep
  <1>4. ASSUME NEW c \in Call, GiveUp(c)
        PROVE  [Next]_vars /\ CallsTyped' /\ \A e \in Call : SeenIsCurrent(e)'
    BY <1>4, GiveUpStep
  <1>5. ASSUME NEW tr \in Trip, ApplyTransition(tr)
        PROVE  [Next]_vars /\ CallsTyped' /\ \A c \in Call : SeenIsCurrent(c)'
    BY <1>5, ApplyTransitionStep
  <1>6. CASE FleetStep
    BY <1>6, FleetStepStep
  <1>7. ASSUME UNCHANGED <<vars, tripVersion, call>>
        PROVE  [Next]_vars /\ CallsTyped' /\ \A c \in Call : SeenIsCurrent(c)'
    BY <1>7, CallsUntouched DEF EditInv, vars, tripVars
  <1>8. ASSUME NEW s \in Staff, NEW type \in Post,
               CreateStaffMember(s, type) \/ UpdateStaffMember(s, type)
        PROVE  UNCHANGED <<vars, tripVersion, call>>
    BY <1>8 DEF CreateStaffMember, UpdateStaffMember
  <1>9. ASSUME NEW s \in Staff, SetStaffMemberActive(s)
        PROVE  UNCHANGED <<vars, tripVersion, call>>
    BY <1>9 DEF SetStaffMemberActive
  <1>10. CASE UNCHANGED tripsVars
    BY <1>7, <1>10 DEF tripsVars
  <1> QED
    BY <1>1, <1>2, <1>3, <1>4, <1>5, <1>6, <1>7, <1>8, <1>9, <1>10 DEF TripsNext

\* Two-step edits of parts of a trip do nothing an edit in one step could not do
\* (updateTrip of trips.service.ts), whatever fleet, staff and edits there are.
THEOREM TripsImplementFleet == TripsSpec => ImplementsFleet
  <1>1. TripsInit => Init
    BY DEF TripsInit
  <1> QED
    BY <1>1, InitEditInv, NextEditInv, PTL DEF TripsSpec, Spec, ImplementsFleet

\* The schedules of a bus stay apart however edits of its trips interleave.
THEOREM EditedSchedulesStayApart == TripsSpec => []SchedulesApart
  BY TripsImplementFleet, SchedulesStayApart, PTL DEF ImplementsFleet

\* The status of a bus follows its maintenance and none of its live trips is ahead while
\* it is in the workshop, however edits of the trips interleave.
THEOREM EditedWorkshopRules ==
    TripsSpec => [](BusStatusFollowsJobs /\ WorkshopBusHasNoTripAhead)
  BY TripsImplementFleet, StatusFollows, NoTripAhead, PTL DEF ImplementsFleet

\* An edit that is applied is applied to the trip its author saw, because the version
\* it asks for is still the trip's.
LEMMA StepAppliedAsSeen == EditInv /\ [TripsNext]_tripsVars => AppliedAsSeen
  <1> SUFFICES ASSUME EditInv, [TripsNext]_tripsVars,
                      NEW c \in Call, call[c].step = "read", call'[c] = NoCall,
                      \/ tripWindow'[call[c].trip] # tripWindow[call[c].trip]
                      \/ tripCrew'[call[c].trip] # tripCrew[call[c].trip]
               PROVE  /\ tripWindow[call[c].trip] = call[c].seen
                      /\ tripStatus[call[c].trip] = "SCHEDULED"
    BY DEF AppliedAsSeen
  <1>1. CASE UNCHANGED call
    BY <1>1 DEF NoCall
  <1>2. CASE UNCHANGED <<vars, crewVars>>
    BY <1>2 DEF vars, tripVars, crewVars
  <1>3. ASSUME NEW d \in Call, UpdateDetails(d)
        PROVE  /\ tripWindow[call[c].trip] = call[c].seen
               /\ tripStatus[call[c].trip] = "SCHEDULED"
    <2>1. call' = [call EXCEPT ![d] = NoCall] /\ StillAsRead(d)
      BY <1>3 DEF UpdateDetails
    <2>2. c = d
      BY <2>1 DEF EditInv, CallsTyped, NoCall
    <2> QED
      BY <2>1, <2>2 DEF EditInv, SeenIsCurrent, StillAsRead
  <1>4. ASSUME NEW tr \in Trip, NEW bus \in Bus, NEW w \in Window, NEW crew \in Crew,
               ScheduleTrip(tr, bus, w, crew)
        PROVE  UNCHANGED call
    BY <1>4 DEF ScheduleTrip
  <1>5. ASSUME NEW d \in Call, NEW tr \in Trip, NEW patch \in Patch, ReadTrip(d, tr, patch)
        PROVE  UNCHANGED <<vars, crewVars>>
    BY <1>5 DEF ReadTrip
  <1>6. ASSUME NEW d \in Call, GiveUp(d)
        PROVE  UNCHANGED <<vars, crewVars>>
    BY <1>6 DEF GiveUp
  <1>7. ASSUME NEW tr \in Trip, ApplyTransition(tr)
        PROVE  UNCHANGED call
    BY <1>7 DEF ApplyTransition
  <1>8. ASSUME NEW s \in Staff, NEW type \in Post,
               CreateStaffMember(s, type) \/ UpdateStaffMember(s, type)
        PROVE  UNCHANGED call
    BY <1>8 DEF CreateStaffMember, UpdateStaffMember
  <1>9. ASSUME NEW s \in Staff, SetStaffMemberActive(s)
        PROVE  UNCHANGED call
    BY <1>9 DEF SetStaffMemberActive
  <1>10. CASE FleetStep \/ UNCHANGED tripsVars
    BY <1>1, <1>10 DEF FleetStep, tripsVars
  <1> QED
    BY <1>1, <1>2, <1>3, <1>4, <1>5, <1>6, <1>7, <1>8, <1>9, <1>10 DEF TripsNext

\* An edit is applied only to the trip its author saw ("a mismatch is 409"), however
\* many edits, transitions and staff changes interleave.
THEOREM NoEditLost == TripsSpec => NoLostEdit
  <1>1. EditInv /\ [TripsNext]_tripsVars => [AppliedAsSeen]_tripsVars
    BY StepAppliedAsSeen
  <1> QED
    BY <1>1, InitEditInv, NextEditInv, PTL DEF TripsSpec, NoLostEdit

-----------------------------------------------------------------------------
(***************************************************************************)
(* Crews.  Whoever is written on a trip was asked for by the statement     *)
(* that writes it, by the service in a creation and by the database in an  *)
(* edit; a post the edit does not name keeps its member unasked.           *)
(***************************************************************************)
CrewTyped == tripCrew \in [Trip -> [Post -> Staff \cup {NoOne}]]

\* A crew that one step writes: qualified wherever it differs from the old one.
Relieves(old, new) ==
    /\ new \in [Post -> Staff \cup {NoOne}]
    /\ \A post \in Post : new[post] \notin {old[post], NoOne} => Qualified(new[post], post)

\* A crew named as a whole.
LEMMA NamedCrew ==
    ASSUME NEW old, NEW crew \in [Post -> Staff \cup {NoOne}], AssertStaff(crew)
    PROVE  Relieves(old, crew)
  BY DEF Relieves, AssertStaff

\* A crew of which an edit names some posts.
LEMMA PatchedCrewRelieves ==
    ASSUME NEW old \in [Post -> Staff \cup {NoOne}], NEW patch \in Patch,
           CrewAccepted(patch, PatchedCrew(old, patch))
    PROVE  Relieves(old, PatchedCrew(old, patch))
  <1> DEFINE new == PatchedCrew(old, patch)
  <1>1. patch.crew \in [Post -> Staff \cup {NoOne, Same}]
    BY TripsConstantsOK
  <1>2. \A post \in Post :
            new[post] = IF patch.crew[post] = Same THEN old[post] ELSE patch.crew[post]
    BY DEF PatchedCrew, Patched
  <1>3. new \in [Post -> Staff \cup {NoOne}]
    BY <1>1, <1>2 DEF PatchedCrew
  <1>4. ASSUME NEW post \in Post, new[post] \notin {old[post], NoOne}
        PROVE  Qualified(new[post], post)
    <2>1. patch.crew[post] # Same
      BY <1>2, <1>4
    <2>2. AssertStaff(new)
      BY <2>1 DEF CrewAccepted
    <2>3. new[post] \in Staff
      BY <1>3, <1>4
    <2> QED
      BY <2>2, <2>3 DEF AssertStaff
  <1> QED
    BY <1>3, <1>4 DEF Relieves

\* What writes one crew keeps the crews typed and assigns only who is qualified.
LEMMA CrewWritten ==
    ASSUME CrewTyped, NEW tr \in Trip, NEW crew, Relieves(tripCrew[tr], crew),
           tripCrew' = [tripCrew EXCEPT ![tr] = crew]
    PROVE  CrewTyped' /\ AssignedQualified
  <1>1. \A other \in Trip : tripCrew'[other] = IF other = tr THEN crew ELSE tripCrew[other]
    BY DEF CrewTyped
  <1>2. CrewTyped'
    BY <1>1 DEF CrewTyped, Relieves
  <1>3. ASSUME NEW other \in Trip, NEW post \in Post,
               tripCrew'[other][post] \notin {tripCrew[other][post], NoOne}
        PROVE  Qualified(tripCrew'[other][post], post)
    <2>1. other = tr
      BY <1>1, <1>3
    <2> QED
      BY <1>1, <1>3, <2>1 DEF Relieves
  <1> QED
    BY <1>2, <1>3 DEF AssignedQualified

\* Every step keeps the crews typed, and puts on a trip only who is qualified for it.
LEMMA StepAssignsQualified ==
    ASSUME EditInv, CrewTyped, [TripsNext]_tripsVars
    PROVE  CrewTyped' /\ AssignedQualified
  <1>1. ASSUME UNCHANGED tripCrew
        PROVE  CrewTyped' /\ AssignedQualified
    BY <1>1 DEF CrewTyped, AssignedQualified
  <1>2. ASSUME NEW tr \in Trip, NEW bus \in Bus, NEW w \in Window, NEW crew \in Crew,
               ScheduleTrip(tr, bus, w, crew)
        PROVE  CrewTyped' /\ AssignedQualified
    <2>1. crew \in [Post -> Staff \cup {NoOne}] /\ AssertStaff(crew)
      BY <1>2, TripsConstantsOK DEF ScheduleTrip
    <2>2. tripCrew' = [tripCrew EXCEPT ![tr] = crew]
      BY <1>2 DEF ScheduleTrip
    <2> QED
      BY <2>1, <2>2, NamedCrew, CrewWritten
  <1>3. ASSUME NEW c \in Call, UpdateDetails(c)
        PROVE  CrewTyped' /\ AssignedQualified
    <2> DEFINE tr == call[c].trip
               crew == PatchedCrew(tripCrew[tr], call[c].patch)
    <2>1. call[c] \in Reading
      BY <1>3, ReadingTyped DEF EditInv, UpdateDetails
    <2>2. tr \in Trip /\ call[c].patch \in Patch
      BY <2>1 DEF Reading
    <2>3. tripCrew[tr] \in [Post -> Staff \cup {NoOne}]
      BY <2>2 DEF CrewTyped
    <2>4. CrewAccepted(call[c].patch, crew) /\ tripCrew' = [tripCrew EXCEPT ![tr] = crew]
      BY <1>3 DEF UpdateDetails
    <2> QED
      BY <2>2, <2>3, <2>4, PatchedCrewRelieves, CrewWritten
  <1>4. ASSUME NEW c \in Call, NEW tr \in Trip, NEW patch \in Patch, ReadTrip(c, tr, patch)
        PROVE  UNCHANGED tripCrew
    BY <1>4 DEF ReadTrip, crewVars
  <1>5. ASSUME NEW c \in Call, GiveUp(c)
        PROVE  UNCHANGED tripCrew
    BY <1>5 DEF GiveUp, crewVars
  <1>6. ASSUME NEW tr \in Trip, ApplyTransition(tr)
        PROVE  UNCHANGED tripCrew
    BY <1>6 DEF ApplyTransition, crewVars
  <1>7. ASSUME NEW s \in Staff, NEW type \in Post,
               CreateStaffMember(s, type) \/ UpdateStaffMember(s, type)
        PROVE  UNCHANGED tripCrew
    BY <1>7 DEF CreateStaffMember, UpdateStaffMember
  <1>8. ASSUME NEW s \in Staff, SetStaffMemberActive(s)
        PROVE  UNCHANGED tripCrew
    BY <1>8 DEF SetStaffMemberActive
  <1>9. ASSUME FleetStep \/ UNCHANGED tripsVars
        PROVE  UNCHANGED tripCrew
    BY <1>9 DEF FleetStep, tripsVars, crewVars
  <1> QED
    BY <1>1, <1>2, <1>3, <1>4, <1>5, <1>6, <1>7, <1>8, <1>9 DEF TripsNext

\* Whoever is put on a trip is then an active member of the staff for that post (the
\* trigger of trips, and assertStaff of trips.service.ts), however staff members change
\* posts and are switched while edits wait for a bus.
THEOREM QualifiedWhenAssigned == TripsSpec => StaffQualifiedWhenAssigned
  <1>1. TripsInit => CrewTyped
    BY DEF TripsInit, CrewTyped, NoCrew
  <1>2. EditInv /\ CrewTyped /\ [TripsNext]_tripsVars =>
            CrewTyped' /\ [AssignedQualified]_tripsVars
    BY StepAssignsQualified
  <1> QED
    BY <1>1, <1>2, InitEditInv, NextEditInv, PTL DEF TripsSpec, StaffQualifiedWhenAssigned
=============================================================================
