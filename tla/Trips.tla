--------------------------------- MODULE Trips ---------------------------------
(***************************************************************************)
(* The trips of Fleet as the service edits them: by calls that read the    *)
(* trip, wait for its bus, and write what the request names.  An edit may  *)
(* name one end of the window and leave the other, so what it checks is    *)
(* partly what it read; a version, moved by every writer, is to catch it   *)
(* when the row has changed meanwhile.  Crews are staff members whose rows *)
(* others edit, and nothing locks those.                                   *)
(*                                                                         *)
(* The route a trip is created on, its price and the hour boarding closes  *)
(* are left out.  X_Mutant, placed before X, is X with a plausible slip.   *)
(***************************************************************************)
EXTENDS Fleet

CONSTANTS
    Call,        \* edits that may be under way at once
    Staff,       \* staff_members
    NoOne,       \* NULL in driver_id or assistant_id
    Same,        \* a field the request does not name
    Crew,        \* bound: the crews trips are created with
    Patch,       \* bound: the edits asked for
    MaxVersion   \* bound: the last version of a trip

Post == {"DRIVER", "ASSISTANT"}

ASSUME TripsConstantsOK ==
    /\ MaxVersion \in Nat
    /\ NoOne \notin Staff /\ Same \notin Staff \cup {NoOne} \cup Hour
    /\ Crew \subseteq [Post -> Staff \cup {NoOne}]
    /\ Patch \subseteq [from : Hour \cup {Same}, until : Hour \cup {Same},
                        crew : [Post -> Staff \cup {NoOne, Same}]]

VARIABLES
    tripVersion,   \* trips.version
    tripCrew,      \* trips.driver_id and assistant_id
    staffType,     \* staff_members.staff_type; "NONE" while the id is unused
    staffActive,   \* staff_members.is_active
    call           \* the edits under way

crewVars == <<tripCrew, staffType, staffActive>>
tripsVars == <<vars, tripVersion, crewVars, call>>

\* seen and version: the window and the version the call has read.
NoCall == [step |-> "idle"]
Reading == [step : {"read"}, trip : Trip, patch : Patch,
            seen : [from : Hour, until : Hour], version : Nat]

NoCrew == [post \in Post |-> NoOne]

TripsInit ==
    /\ Init
    /\ tripVersion = [tr \in Trip |-> 1]
    /\ tripCrew = [tr \in Trip |-> NoCrew]
    /\ staffType = [s \in Staff |-> "NONE"]
    /\ staffActive = [s \in Staff |-> TRUE]
    /\ call = [c \in Call |-> NoCall]

-----------------------------------------------------------------------------
Qualified(s, post) == staffActive[s] /\ staffType[s] = post

Patched(old, new) == IF new = Same THEN old ELSE new

PatchedWindow(w, patch) == [from |-> Patched(w.from, patch.from),
                            until |-> Patched(w.until, patch.until)]

PatchedCrew(crew, patch) == [post \in Post |-> Patched(crew[post], patch.crew[post])]

\* assertStaff, for every staff member a request names.
AssertStaff(crew) == \A post \in Post : crew[post] \in Staff => Qualified(crew[post], post)

\* The trigger left to the service, which asked before it waited.
CrewAccepted_Mutant(patch, crew) == TRUE

\* What the database asks of the row: ck_trips_distinct_staff, and -- if the statement
\* writes either of the two columns -- that both staff members are qualified now.
CrewAccepted(patch, crew) ==
    /\ crew["DRIVER"] # NoOne => crew["DRIVER"] # crew["ASSISTANT"]
    /\ (\E post \in Post : patch.crew[post] # Same) => AssertStaff(crew)

ScheduleTrip(tr, bus, w, crew) ==
    /\ CreateTrip(tr, bus, w)
    /\ AssertStaff(crew)
    /\ crew["DRIVER"] # NoOne => crew["DRIVER"] # crew["ASSISTANT"]
    /\ tripCrew' = [tripCrew EXCEPT ![tr] = crew]
    /\ UNCHANGED <<tripVersion, staffType, staffActive, call>>

\* The staff the request names, then the trip, whose version must be the one asked for.
ReadTrip(c, tr, patch) ==
    /\ call[c] = NoCall
    /\ AssertStaff(patch.crew)
    /\ tripStatus[tr] = "SCHEDULED"
    /\ call' = [call EXCEPT ![c] = [step |-> "read", trip |-> tr, patch |-> patch,
                                    seen |-> tripWindow[tr], version |-> tripVersion[tr]]]
    /\ UNCHANGED <<vars, tripVersion, crewVars>>

\* The version compared when the trip was read, and not again.
StillAsRead_Mutant(c) == tripStatus[call[c].trip] = "SCHEDULED"

StillAsRead(c) ==
    /\ tripStatus[call[c].trip] = "SCHEDULED"
    /\ tripVersion[call[c].trip] = call[c].version

\* The times of the row instead of the times asked for.
CheckedWindow_Mutant(c) == call[c].seen

CheckedWindow(c) == PatchedWindow(call[c].seen, call[c].patch)

Bumped(tr) ==
    /\ tripVersion[tr] < MaxVersion
    /\ tripVersion' = [tripVersion EXCEPT ![tr] = @ + 1]

\* From the lock of the bus to the commit.
UpdateDetails(c) ==
    /\ call[c].step = "read"
    /\ LET tr == call[c].trip
           patch == call[c].patch
           w == PatchedWindow(tripWindow[tr], patch)
           crew == PatchedCrew(tripCrew[tr], patch)
       IN /\ Operational(tripBus[tr])
          /\ ~ MaintenanceOverlaps(tripBus[tr], CheckedWindow(c))
          /\ StillAsRead(c)
          /\ w \in Window /\ TripFits(tr, tripBus[tr], w)
          /\ CrewAccepted(patch, crew)
          /\ tripWindow' = [tripWindow EXCEPT ![tr] = w]
          /\ tripCrew' = [tripCrew EXCEPT ![tr] = crew]
          /\ Bumped(tr)
    /\ call' = [call EXCEPT ![c] = NoCall]
    /\ UNCHANGED <<clock, busStatus, busActive, tripStatus, tripBus, jobVars,
                   staffType, staffActive>>

\* The edit is refused or fails.
GiveUp(c) ==
    /\ call[c].step = "read"
    /\ call' = [call EXCEPT ![c] = NoCall]
    /\ UNCHANGED <<vars, tripVersion, crewVars>>

ApplyTransition(tr) ==
    /\ StartTrip(tr) \/ CompleteTrip(tr) \/ CancelTrip(tr)
    /\ Bumped(tr)
    /\ UNCHANGED <<crewVars, call>>

-----------------------------------------------------------------------------
CreateStaffMember(s, type) ==
    /\ staffType[s] = "NONE"
    /\ staffType' = [staffType EXCEPT ![s] = type]
    /\ UNCHANGED <<vars, tripVersion, tripCrew, staffActive, call>>

\* Neither looks at the trips the staff member is on.
UpdateStaffMember(s, type) ==
    /\ staffType[s] \in Post \ {type}
    /\ staffType' = [staffType EXCEPT ![s] = type]
    /\ UNCHANGED <<vars, tripVersion, tripCrew, staffActive, call>>

SetStaffMemberActive(s) ==
    /\ staffType[s] # "NONE"
    /\ staffActive' = [staffActive EXCEPT ![s] = ~ @]
    /\ UNCHANGED <<vars, tripVersion, tripCrew, staffType, call>>

\* What others do to buses and maintenance, as in Fleet.
FleetStep ==
    /\ \/ \E j \in Job, bus \in Bus, w \in Window : ScheduleJob(j, bus, w)
       \/ \E j \in Job : StartJob(j) \/ CompleteJob(j) \/ CancelJob(j)
       \/ \E bus \in Bus : SetBusActive(bus)
       \/ Tick
    /\ UNCHANGED <<tripVersion, crewVars, call>>

TripsNext ==
    \/ \E tr \in Trip, bus \in Bus, w \in Window, crew \in Crew :
          ScheduleTrip(tr, bus, w, crew)
    \/ \E c \in Call, tr \in Trip, patch \in Patch : ReadTrip(c, tr, patch)
    \/ \E c \in Call : UpdateDetails(c) \/ GiveUp(c)
    \/ \E tr \in Trip : ApplyTransition(tr)
    \/ \E s \in Staff, type \in Post : CreateStaffMember(s, type) \/ UpdateStaffMember(s, type)
    \/ \E s \in Staff : SetStaffMemberActive(s)
    \/ FleetStep

TripsSpec == TripsInit /\ [][TripsNext]_tripsVars

-----------------------------------------------------------------------------
(***************************************************************************)
(* Properties.                                                             *)
(***************************************************************************)

\* Editing in two steps, half a window at a time, does nothing an edit in one step
\* that checks the whole window could not do (trips.service.ts updateTrip).
ImplementsFleet == Spec

\* Optimistic locking (README: "a mismatch is 409"): an edit changes only the trip its
\* author saw, whoever edited, started or cancelled it meanwhile.
AppliedAsSeen ==
    \A c \in Call : call[c].step = "read" /\ call'[c] = NoCall =>
        LET tr == call[c].trip IN
        <<tripWindow'[tr], tripCrew'[tr]>> # <<tripWindow[tr], tripCrew[tr]>> =>
            tripWindow[tr] = call[c].seen /\ tripStatus[tr] = "SCHEDULED"

NoLostEdit == [][AppliedAsSeen]_tripsVars

\* Nobody is put on a trip who is not, at that moment, an active member of the staff
\* for that post, though the service asked before it waited for the bus.
AssignedQualified ==
    \A tr \in Trip, post \in Post :
        tripCrew'[tr][post] \notin {tripCrew[tr][post], NoOne} =>
            Qualified(tripCrew'[tr][post], post)

StaffQualifiedWhenAssigned == [][AssignedQualified]_tripsVars
=============================================================================
