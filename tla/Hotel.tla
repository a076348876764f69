------------------------------- MODULE Hotel -------------------------------
(* The three services that write the Rooms table, together: Reception,     *)
(* Housekeeping and Maintenance on one database, with room.vacated between *)
(* the first two.  What each of them assumes of the others is checked here.*)
EXTENDS HotelDb, FiniteSets

CONSTANTS Rooms, NoRoom,
          MaxGuests, MaxTasks, MaxMessages, MaxIssues, NumTechs,  \* bounds
          Clerks, Staff, Callers,  \* bounds: requests of each service
          Overlap                  \* bound: requests served at the same time

ASSUME HotelAssumption ==
  /\ NoRoom \notin Rooms
  /\ MaxGuests \in Nat /\ MaxTasks \in Nat /\ MaxMessages \in Nat
  /\ MaxIssues \in Nat /\ NumTechs \in Nat /\ Overlap \in Nat
  /\ IsFiniteSet(Clerks) /\ IsFiniteSet(Staff) /\ IsFiniteSet(Callers)

VARIABLES rooms, guests, bookings, bills, orderOf, tasks, issues,  \* the tables
          checkInLock, req,             \* Reception
          hk, vacated, listener, rec,   \* Housekeeping
          queue, mnt                    \* Maintenance

rcpLocal == <<bookings, bills, orderOf, checkInLock, req>>
hkLocal  == <<tasks, hk, listener, rec>>
mntLocal == <<issues, queue, mnt>>

hotelVars == <<rooms, guests, vacated, rcpLocal, hkLocal, mntLocal>>

-----------------------------------------------------------------------------
(* The rooms a query on the Guests table finds a checked-in guest in.      *)
Occupied == {guests[g].room : g \in {h \in 1..MaxGuests : guests[h].status = "CheckedIn"}}

R == INSTANCE Reception WITH RoomTypes <- {"any"}, TypeOf <- [r \in Rooms |-> "any"],
                             MaxOrders <- 0
H == INSTANCE Housekeeping WITH occupied <- Occupied, Faults <- FALSE
M == INSTANCE Maintenance WITH occupied <- Occupied, Faults <- FALSE,
                               Priorities <- {1}

HotelInit == R!RcpInit /\ H!HkInit /\ M!MntInit

InFlight == Cardinality({c \in Clerks : req[c].pc # "idle"})
          + Cardinality({h \in Staff : hk[h].pc # "idle"})
          + Cardinality({h \in Callers : mnt[h].pc # "idle"})

-----------------------------------------------------------------------------
(* room.vacated is published by a check-out; it arrives or is lost.        *)
PublishVacated(r) ==
  \/ UNCHANGED vacated
  \/ /\ vacated[r] + listener[r] < MaxMessages
     /\ vacated' = [vacated EXCEPT ![r] = @ + 1]

ReceptionStep(c) ==
  /\ \/ InFlight < Overlap /\ R!Arrive(c)
     \/ R!CheckInLock(c)
     \/ R!Proceed(c)
  /\ IF req[c].pc = "coPublish" THEN PublishVacated(req[c].room) ELSE UNCHANGED vacated
  /\ UNCHANGED <<hkLocal, mntLocal>>

HousekeepingStep ==
  /\ UNCHANGED <<guests, rcpLocal, mntLocal>>
  /\ \/ \E h \in Staff : \/ InFlight < Overlap /\ H!HkArrive(h)
                         \/ H!HkProceed(h)
     \/ H!HkBackground

MaintenanceStep(h) ==
  /\ UNCHANGED <<guests, vacated, rcpLocal, hkLocal>>
  /\ \/ /\ InFlight < Overlap
        /\ \/ \E r \in Rooms : M!Report(h, r, M!Critical)
           \/ \E i \in 1..MaxIssues : M!Resolve(h, i)
     \/ M!MntProceed(h)

HotelNext == \/ \E c \in Clerks : ReceptionStep(c)
             \/ HousekeepingStep
             \/ \E h \in Callers : MaintenanceStep(h)

HotelSpec == HotelInit /\ [][HotelNext]_hotelVars

(* The window of Housekeeping's completion: between its query of the       *)
(* Guests table and its save nothing keeps a check-in from letting the     *)
(* room, and the save then makes a room Clean that has a guest.            *)
Overtaken == \E c \in Clerks, h \in Staff :
  /\ R!CheckInSave(c)
  /\ hk[h].pc = "coSave" /\ hk[h].room = req[c].room

(* The behaviours in which no check-in is saved in that window: whatever   *)
(* else overlaps, however many requests are served.                        *)
ApartSpec == HotelInit /\ [][HotelNext /\ ~Overtaken]_hotelVars

-----------------------------------------------------------------------------
HotelTypeOK == R!TypeOK /\ H!HkTypeOK /\ M!MntTypeOK

(* A room is let to one guest at a time.                                   *)
NoDoubleBooking == R!NoDoubleBooking

(* Between requests the status of a room agrees with the Guests table: a   *)
(* Clean room has no guest and an Occupied one has.                        *)
RoomAgreesWithGuests ==
  InFlight = 0 => \A r \in Rooms : /\ rooms[r] = "Clean" => r \notin Occupied
                                   /\ rooms[r] = "Occupied" => r \in Occupied

(* A room is never left locked: whatever Housekeeping does to its status,  *)
(* a room under Maintenance has an issue whose resolution gives it back.   *)
LockHasIssue == M!LockHasIssue

(* A technician is not given a second issue before the first is resolved.  *)
OneJobPerTechnician == M!OneJobPerTechnician

(* Reception's own specification, with what it relies on the others for:   *)
(* they make a room Clean only while it has no guest.                      *)
ImplementsReception == R!RcpSafe

(* A room locked for a critical issue is not let before it is resolved.    *)
UnderRepair(r) == \E i \in 1..MaxIssues :
                    issues[i].status = "Assigned" /\ issues[i].room = r

NoLetUnderRepair ==
  [][\A r \in Rooms : (r \notin Occupied /\ r \in Occupied') => ~UnderRepair(r)]_hotelVars
=============================================================================
