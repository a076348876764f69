---------------------------- MODULE HotelProofs ----------------------------
(* The three services on one database, for any rooms, rows, technicians    *)
(* and number of requests: their types, what holds while check-ins keep    *)
(* clear of completions, what one maintenance request at a time preserves, *)
(* and what requests one at a time preserve.                               *)
EXTENDS Hotel, FiniteSetTheorems, TLAPS

RP == INSTANCE ReceptionProofs WITH RoomTypes <- {"any"}, TypeOf <- [r \in Rooms |-> "any"],
                                    MaxOrders <- 0
HP == INSTANCE HousekeepingProofs WITH occupied <- Occupied, Faults <- FALSE
MP == INSTANCE MaintenanceProofs WITH occupied <- Occupied, Faults <- FALSE,
                                      Priorities <- {1}

(* What the three modules assume of their constants.                       *)
LEMMA Instances ==
  /\ [r \in Rooms |-> "any"] \in [Rooms -> {"any"}]
  /\ MaxGuests \in Nat /\ 0 \in Nat /\ NoRoom \notin Rooms
  /\ MaxTasks \in Nat /\ MaxMessages \in Nat /\ FALSE \in BOOLEAN
  /\ {1} \subseteq 1..4 /\ MaxIssues \in Nat /\ NumTechs \in Nat
  BY HotelAssumption

(* The proofs are about instances of their own: the same actions renamed.  *)
LEMMA ReceptionRenamed == R!RcpNext => RP!RcpNext
<1> USE DEF R!Guests, RP!Guests, R!Orders, RP!Orders, R!Idle, RP!Idle, R!CheckInPc, RP!CheckInPc,
            R!Holders, RP!Holders, R!IsFirst, RP!IsFirst, R!Saved, RP!Saved
<1>1. ASSUME NEW c \in Clerks, R!Arrive(c) PROVE RP!Arrive(c)
  BY <1>1 DEF R!Arrive, RP!Arrive, R!CheckInArrive, RP!CheckInArrive,
              R!CheckOutGuest, RP!CheckOutGuest, R!Cardinality, RP!Cardinality
<1>2. ASSUME NEW c \in Clerks PROVE R!CheckInLock(c) => RP!CheckInLock(c)
  BY DEF R!CheckInLock, RP!CheckInLock
<1>3. ASSUME NEW c \in Clerks, R!Proceed(c) PROVE RP!Proceed(c)
  BY <1>3 DEF R!Proceed, RP!Proceed, R!CheckInRead, RP!CheckInRead, R!CleanRooms, RP!CleanRooms,
              R!CheckInNoRoom, RP!CheckInNoRoom, R!CheckInSave, RP!CheckInSave,
              R!CheckInBook, RP!CheckInBook, R!CheckInReply, RP!CheckInReply,
              R!CheckOutBooking, RP!CheckOutBooking, R!CheckOutRoom, RP!CheckOutRoom,
              R!CheckOutOrders, RP!CheckOutOrders, R!OrdersOf, RP!OrdersOf,
              R!CheckOutSave, RP!CheckOutSave, R!CheckOutReply, RP!CheckOutReply
<1>4. ASSUME NEW c \in Clerks PROVE R!SaveFails(c) => RP!SaveFails(c)
  BY DEF R!SaveFails, RP!SaveFails
<1>5. R!Restart => RP!Restart
  BY DEF R!Restart, RP!Restart
<1>6. R!Environment => RP!Environment
  BY DEF R!Environment, RP!Environment, R!OtherServices, RP!OtherServices, R!Vacant, RP!Vacant,
         R!PlaceOrder, RP!PlaceOrder, R!RoomStatus, RP!RoomStatus
<1> QED
  BY <1>1, <1>2, <1>3, <1>4, <1>5, <1>6 DEF R!RcpNext, RP!RcpNext, R!Step, RP!Step

(* A step of Reception is one of its own specification.                    *)
LEMMA ReceptionSteps == ASSUME NEW c \in Clerks, ReceptionStep(c) PROVE R!RcpNext /\ RP!RcpNext
<1>1. R!RcpNext
  BY DEF ReceptionStep, R!RcpNext, R!Step
<1> QED
  BY <1>1, ReceptionRenamed

(* So is a step of Housekeeping,                                           *)
LEMMA HousekeepingSteps == ASSUME HousekeepingStep PROVE HP!HkNext
<1> USE DEF H!TaskIds, HP!TaskIds, H!HkIdle, HP!HkIdle, H!HasOpenTask, HP!HasOpenTask, H!Open, HP!Open,
            H!NewTask, HP!NewTask, H!Unused, HP!Unused, H!IsFirst, HP!IsFirst, H!Saved, HP!Saved
<1>1. ASSUME NEW h \in Staff, H!HkArrive(h) PROVE HP!HkArrive(h)
  BY <1>1 DEF H!HkArrive, HP!HkArrive, H!StartTask, HP!StartTask, H!CompleteTask, HP!CompleteTask,
              H!DirtyRoom, HP!DirtyRoom
<1>2. ASSUME NEW h \in Staff, H!HkProceed(h) PROVE HP!HkProceed(h)
  BY <1>2 DEF H!HkProceed, HP!HkProceed, H!StartRoom, HP!StartRoom, H!StartSave, HP!StartSave,
              H!CompleteRoom, HP!CompleteRoom, H!CompleteGuest, HP!CompleteGuest,
              H!CleanedStatus, HP!CleanedStatus, H!CompleteSave, HP!CompleteSave,
              H!DirtyTask, HP!DirtyTask, H!DirtySave, HP!DirtySave
<1>3. H!HkBackground => HP!HkBackground
  BY DEF H!HkBackground, HP!HkBackground, H!RecIdle, HP!RecIdle, H!Vacated, HP!Vacated,
         H!VacatedInsert, HP!VacatedInsert, H!VacatedFails, HP!VacatedFails, H!RecRead, HP!RecRead,
         H!RecCheck, HP!RecCheck, H!RecInsert, HP!RecInsert, H!RecFails, HP!RecFails
<1> QED
  BY <1>1, <1>2, <1>3 DEF HousekeepingStep, HP!HkNext, HP!HkStep

(* and one of Maintenance.                                                 *)
LEMMA MaintenanceSteps ==
  ASSUME NEW h \in Callers, MaintenanceStep(h) PROVE MP!MntStep(h) /\ MP!MntNext
<1> USE DEF M!IssueIds, MP!IssueIds, M!Techs, MP!Techs, M!Critical, MP!Critical, M!MntIdle, MP!MntIdle,
            M!Track, MP!Track, M!IsFirst, MP!IsFirst, M!Saved, MP!Saved
<1>1. ASSUME NEW r \in Rooms, M!Report(h, r, M!Critical) PROVE MP!Report(h, r, MP!Critical)
  BY <1>1 DEF M!Report, MP!Report, M!Cardinality, MP!Cardinality
<1>2. ASSUME NEW i \in 1..MaxIssues, M!Resolve(h, i) PROVE MP!Resolve(h, i)
  BY <1>2 DEF M!Resolve, MP!Resolve
<1>3. ASSUME M!MntProceed(h) PROVE MP!MntProceed(h)
  BY <1>3 DEF M!MntProceed, MP!MntProceed, M!ReportSave, MP!ReportSave, M!ReportEnqueue, MP!ReportEnqueue,
    M!AssignBusy, MP!AssignBusy, M!Busy, MP!Busy, M!AssignTake, MP!AssignTake, M!IsTop, MP!IsTop,
    M!Before, MP!Before, M!AssignDone, MP!AssignDone, M!AssignFind, MP!AssignFind,
    M!AssignSave, MP!AssignSave, M!AssignRoom, MP!AssignRoom, M!AssignLock, MP!AssignLock,
    M!ResolveRoom, MP!ResolveRoom, M!ResolveGuest, MP!ResolveGuest, M!ResolveSave, MP!ResolveSave
<1> QED
  BY <1>1, <1>2, <1>3 DEF MaintenanceStep, MP!MntNext, MP!MntStep
-----------------------------------------------------------------------------
(* A guest who is checked in is in a room of the hotel.                    *)
GuestsInv == \A g \in 1..MaxGuests : guests[g].status = "CheckedIn" => guests[g].room \in Rooms

(* The types of the three services, and what their own proofs found that   *)
(* these rest on.                                                          *)
RcpTypes == RP!TypeOK /\ RP!RequestInv
HotelTypes == RcpTypes /\ GuestsInv /\ HP!HkTypesInv /\ MP!MntInv

(* Each service keeps its types by its own proof, and those of the others  *)
(* because all it writes of theirs is Rooms, Guests and a message.         *)
LEMMA ReceptionTypes ==
  ASSUME HotelTypes, NEW c \in Clerks, ReceptionStep(c)
  PROVE  HotelTypes'
<1>1. RcpTypes'
  <2>1. RP!RcpNext
    BY ReceptionSteps
  <2> QED
    BY <2>1, Instances, RP!TypeStep, RP!RequestStep DEF HotelTypes, RcpTypes
<1>2. GuestsInv'
  <2>1. CASE R!CheckInSave(c)
    BY <2>1 DEF R!CheckInSave, GuestsInv, HotelTypes, RcpTypes, RP!TypeOK, RP!RequestInv, RP!Guests, R!Guests
  <2>2. CASE R!CheckOutSave(c)
    BY <2>2 DEF R!CheckOutSave, GuestsInv, HotelTypes, RcpTypes, RP!TypeOK, RP!Guests
  <2>3. CASE UNCHANGED guests
    BY <2>3 DEF GuestsInv, HotelTypes
  <2> QED
    BY <2>1, <2>2, <2>3 DEF ReceptionStep, R!Arrive, R!Proceed, R!CheckInArrive, R!CheckOutGuest,
      R!CheckInLock, R!CheckInRead, R!CheckInNoRoom, R!CheckInBook, R!CheckInReply, R!CheckOutBooking,
      R!CheckOutRoom, R!CheckOutOrders, R!CheckOutReply
<1>3. rooms' \in [Rooms -> RoomStatus] /\ Occupied' \in SUBSET Rooms
  BY <1>1, <1>2 DEF GuestsInv, Occupied, RcpTypes, RP!TypeOK, RP!RoomStatus, RoomStatus
<1>4. HP!HkTypesInv'
  <2>1. \/ vacated' = vacated
        \/ \E r \in Rooms : /\ vacated[r] + listener[r] < MaxMessages
                            /\ vacated' = [vacated EXCEPT ![r] = @ + 1]
    BY DEF ReceptionStep, PublishVacated, HotelTypes, RcpTypes, RP!RequestInv, RP!CheckOutPc
  <2> QED
    BY <1>3, <2>1, Instances, HP!RoomsTypes DEF ReceptionStep, hkLocal, HotelTypes, HP!RoomStatus, RoomStatus
<1>5. MP!MntInv'
  BY <1>3 DEF ReceptionStep, mntLocal, HotelTypes, MP!MntInv, MP!MntTypeOK, MP!QueuePending, MP!Pending, MP!HandInv,
              MP!Holding, MP!StageInv, MP!RoomStatus, RoomStatus
<1> QED
  BY <1>1, <1>2, <1>4, <1>5 DEF HotelTypes

(* Steps of Housekeeping.                                                  *)
LEMMA HousekeepingTypes == ASSUME HotelTypes, HousekeepingStep PROVE HotelTypes'
<1>1. HP!HkTypesInv'
  <2>1. HP!HkNext
    BY HousekeepingSteps
  <2> QED
    BY <2>1, Instances, HP!StepTypes DEF HotelTypes
<1>2. rooms' \in [Rooms -> RoomStatus] /\ Occupied' \in SUBSET Rooms
  BY <1>1 DEF HP!HkTypesInv, HP!HkTypeOK, HP!RoomStatus, RoomStatus
<1>3. RcpTypes' /\ GuestsInv'
  BY <1>2 DEF HousekeepingStep, rcpLocal, HotelTypes, RcpTypes, RP!TypeOK, RP!RequestInv, GuestsInv,
              RP!RoomStatus, RoomStatus
<1>4. MP!MntInv'
  BY <1>2 DEF HousekeepingStep, mntLocal, HotelTypes, MP!MntInv, MP!MntTypeOK, MP!QueuePending, MP!Pending,
              MP!HandInv, MP!Holding, MP!StageInv, MP!RoomStatus, RoomStatus
<1> QED
  BY <1>1, <1>3, <1>4 DEF HotelTypes

(* Steps of Maintenance.                                                   *)
LEMMA MaintenanceTypes == ASSUME HotelTypes, NEW h \in Callers, MaintenanceStep(h) PROVE HotelTypes'
<1>1. MP!MntInv'
  <2>1. MP!MntNext
    BY MaintenanceSteps
  <2> QED
    BY <2>1, Instances, MP!InvStep DEF HotelTypes
<1>2. rooms' \in [Rooms -> RoomStatus] /\ Occupied' \in SUBSET Rooms
  BY <1>1 DEF MP!MntInv, MP!MntTypeOK, MP!RoomStatus, RoomStatus
<1>3. RcpTypes' /\ GuestsInv'
  BY <1>2 DEF MaintenanceStep, rcpLocal, HotelTypes, RcpTypes, RP!TypeOK, RP!RequestInv, GuestsInv,
              RP!RoomStatus, RoomStatus
<1>4. HP!HkTypesInv'
  BY <1>2, Instances, HP!RoomsTypes DEF MaintenanceStep, hkLocal, HotelTypes, HP!RoomStatus, RoomStatus
<1> QED
  BY <1>1, <1>3, <1>4 DEF HotelTypes

(* The services start with their types.                                    *)
LEMMA InitTypes == HotelInit => HotelTypes
<1> SUFFICES ASSUME HotelInit PROVE HotelTypes
  OBVIOUS
<1>1. RP!RcpInit
  BY DEF HotelInit, R!RcpInit, RP!RcpInit, R!Guests, RP!Guests, R!Orders, RP!Orders, R!Idle, RP!Idle
<1>2. HP!HkInit
  BY DEF HotelInit, H!HkInit, HP!HkInit, H!TaskIds, HP!TaskIds, H!HkIdle, HP!HkIdle, H!RecIdle, HP!RecIdle
<1>3. MP!MntInit
  BY DEF HotelInit, M!MntInit, MP!MntInit, M!IssueIds, MP!IssueIds, M!NoIssue, MP!NoIssue, M!MntIdle, MP!MntIdle
<1>4. GuestsInv
  BY DEF GuestsInv, HotelInit, R!RcpInit, R!Guests
<1>5. RcpTypes
  BY <1>1, Instances, RP!InvInit DEF RcpTypes, RP!RcpInv
<1>6. HP!HkTypesInv
  BY <1>2, Instances, HP!InitTypes
<1>7. MP!MntInv
  BY <1>3, Instances, MP!InvInit
<1> QED
  BY <1>4, <1>5, <1>6, <1>7 DEF HotelTypes

(* Every step of the hotel keeps them.                                     *)
LEMMA StepTypes == HotelTypes /\ [HotelNext]_hotelVars => HotelTypes'
<1> SUFFICES ASSUME HotelTypes, [HotelNext]_hotelVars PROVE HotelTypes'
  OBVIOUS
<1>1. CASE HotelNext
  BY <1>1, ReceptionTypes, HousekeepingTypes, MaintenanceTypes DEF HotelNext
<1>2. CASE UNCHANGED hotelVars
  <2>1. UNCHANGED <<RP!rcpVars, HP!hkVars, MP!mntVars, guests>>
    BY <1>2 DEF hotelVars, rcpLocal, hkLocal, mntLocal, RP!rcpVars, HP!hkVars, MP!mntVars, Occupied
  <2>2. RcpTypes'
    BY <2>1, Instances, RP!TypeStep, RP!RequestStep DEF HotelTypes, RcpTypes
  <2>3. HP!HkTypesInv'
    BY <2>1, Instances, HP!StepTypes DEF HotelTypes
  <2>4. MP!MntInv'
    BY <2>1, Instances, MP!InvStep DEF HotelTypes
  <2> QED
    BY <2>1, <2>2, <2>3, <2>4 DEF HotelTypes, GuestsInv
<1> QED
  BY <1>1, <1>2

-----------------------------------------------------------------------------
(* A completion about to write Clean has a room without a guest, unless a  *)
(* check-in overtakes it; a resolution never changes a room to Clean.      *)
ApartInv ==
  /\ \A h \in Staff : hk[h].pc = "coSave" /\ hk[h].to = "Clean" => hk[h].room \notin Occupied
  /\ \A h \in Callers : mnt[h].pc = "rsSave" /\ mnt[h].to = "Clean"
                          => mnt[h].tracked[mnt[h].room] = "Clean"

(* A status written by another service is a step Reception allows for.     *)
LEMMA RoomWritten ==
  ASSUME rooms \in [Rooms -> RoomStatus], NEW r \in Rooms, NEW s \in RoomStatus,
         rooms' = [rooms EXCEPT ![r] = s], s = "Clean" => rooms[r] = "Clean" \/ r \notin Occupied,
         UNCHANGED <<guests, rcpLocal>>
  PROVE  [R!RcpNext]_R!rcpVars
<1>1. CASE s = rooms[r]
  BY <1>1 DEF rcpLocal, R!rcpVars
<1>2. CASE s # rooms[r]
  <2>1. R!OtherServices(r, s)
    BY <1>2 DEF R!OtherServices, R!Vacant, R!Holders, R!Guests, Occupied, rcpLocal
  <2> QED
    BY <2>1 DEF R!RcpNext, R!Environment, R!RoomStatus, RoomStatus
<1> QED
  BY <1>1, <1>2

(* What Housekeeping writes to Rooms, and at which step.                   *)
LEMMA HousekeepingSaves ==
  ASSUME HotelTypes, HousekeepingStep
  PROVE  \/ UNCHANGED rooms
         \/ \E h \in Staff :
              /\ hk[h].room \in Rooms /\ hk[h].pc # "idle"
              /\ \E s \in {"Being Cleaned", "Dirty", rooms[hk[h].room]} :
                   rooms' = [rooms EXCEPT ![hk[h].room] = s]
         \/ \E h \in Staff :
              /\ hk[h].room \in Rooms /\ hk[h].pc = "coSave"
              /\ \E s \in {hk[h].to, rooms[hk[h].room]} :
                   rooms' = [rooms EXCEPT ![hk[h].room] = s]
<1>1. \A h \in Staff : hk[h].pc # "idle" => hk[h].room \in Rooms
  BY DEF HotelTypes, HP!HkTypesInv, HP!RequestInv
<1>2. ASSUME NEW h \in Staff, H!StartSave(h)
      PROVE  /\ hk[h].pc = "stSave"
             /\ \E s \in {"Being Cleaned", "Dirty", rooms[hk[h].room]} :
                   rooms' = [rooms EXCEPT ![hk[h].room] = s]
  BY <1>2 DEF H!StartSave, H!Saved
<1>3. ASSUME NEW h \in Staff, H!DirtySave(h)
      PROVE  /\ hk[h].pc \in {"diSave", "diInsert"}
             /\ \E s \in {"Being Cleaned", "Dirty", rooms[hk[h].room]} :
                   rooms' = [rooms EXCEPT ![hk[h].room] = s]
  BY <1>3 DEF H!DirtySave, H!Saved
<1>4. ASSUME NEW h \in Staff, H!CompleteSave(h)
      PROVE  /\ hk[h].pc = "coSave"
             /\ \E s \in {hk[h].to, rooms[hk[h].room]} :
                   rooms' = [rooms EXCEPT ![hk[h].room] = s]
  BY <1>4 DEF H!CompleteSave, H!Saved
<1>5. \/ UNCHANGED rooms
      \/ \E h \in Staff : H!StartSave(h) \/ H!DirtySave(h) \/ H!CompleteSave(h)
  BY DEF HousekeepingStep, H!HkArrive, H!HkProceed, H!HkBackground, H!StartTask, H!StartRoom, H!CompleteTask,
         H!CompleteRoom, H!CompleteGuest, H!DirtyRoom, H!DirtyTask, H!Vacated, H!VacatedInsert,
         H!VacatedFails, H!RecRead, H!RecCheck, H!RecInsert, H!RecFails
<1> QED
  BY <1>1, <1>2, <1>3, <1>4, <1>5

(* What Maintenance writes to Rooms, and at which step.                    *)
LEMMA MaintenanceSaves ==
  ASSUME HotelTypes, NEW h \in Callers, MaintenanceStep(h)
  PROVE  \/ UNCHANGED rooms
         \/ /\ mnt[h].room \in Rooms /\ mnt[h].pc = "asLock"
            /\ \E s \in {"Maintenance", rooms[mnt[h].room]} :
                 rooms' = [rooms EXCEPT ![mnt[h].room] = s]
         \/ /\ mnt[h].room \in Rooms /\ mnt[h].pc = "rsSave"
            /\ rooms' = [rooms EXCEPT ![mnt[h].room] =
                           Saved(mnt[h].tracked[mnt[h].room], mnt[h].to, rooms[mnt[h].room])]
<1>1. mnt[h].pc \in {"asLock", "rsSave"} => mnt[h].room \in Rooms
  BY DEF HotelTypes, MP!MntInv, MP!StageInv, MP!ResolvePc
<1>2. M!AssignLock(h) => /\ mnt[h].pc = "asLock"
                         /\ \E s \in {"Maintenance", rooms[mnt[h].room]} :
                              rooms' = [rooms EXCEPT ![mnt[h].room] = s]
  BY DEF M!AssignLock, M!Saved
<1>3. M!ResolveSave(h) => /\ mnt[h].pc = "rsSave"
                          /\ rooms' = [rooms EXCEPT ![mnt[h].room] =
                               Saved(mnt[h].tracked[mnt[h].room], mnt[h].to, rooms[mnt[h].room])]
  BY DEF M!ResolveSave, M!Saved, Saved
<1>4. UNCHANGED rooms \/ M!AssignLock(h) \/ M!ResolveSave(h)
  BY DEF MaintenanceStep, M!MntProceed, M!Report, M!Resolve, M!ReportSave, M!ReportEnqueue, M!AssignBusy,
         M!AssignTake, M!AssignDone, M!AssignFind, M!AssignSave, M!AssignRoom, M!ResolveRoom, M!ResolveGuest
<1> QED
  BY <1>1, <1>2, <1>3, <1>4

(* Every step of the hotel is a step of Reception's specification.         *)
LEMMA StepOfReception ==
  ASSUME HotelTypes, ApartInv, HotelNext
  PROVE  [R!RcpNext]_R!rcpVars
<1>1. ASSUME NEW c \in Clerks, ReceptionStep(c) PROVE R!RcpNext
  BY <1>1 DEF ReceptionStep, R!RcpNext, R!Step
<1>0. rooms \in [Rooms -> RoomStatus]
  BY DEF HotelTypes, RcpTypes, RP!TypeOK, RP!RoomStatus, RoomStatus
<1>a. UNCHANGED rooms /\ UNCHANGED <<guests, rcpLocal>> => UNCHANGED R!rcpVars
  BY DEF rcpLocal, R!rcpVars
<1>2. CASE HousekeepingStep
  <2>0. UNCHANGED <<guests, rcpLocal>>
    BY <1>2 DEF HousekeepingStep
  <2>1. ASSUME NEW h \in Staff, hk[h].room \in Rooms,
               NEW s \in {"Being Cleaned", "Dirty", rooms[hk[h].room]},
               rooms' = [rooms EXCEPT ![hk[h].room] = s]
        PROVE  [R!RcpNext]_R!rcpVars
    BY <1>0, <2>0, <2>1, RoomWritten DEF RoomStatus
  <2>2. ASSUME NEW h \in Staff, hk[h].room \in Rooms, hk[h].pc = "coSave",
               NEW s \in {hk[h].to, rooms[hk[h].room]},
               rooms' = [rooms EXCEPT ![hk[h].room] = s]
        PROVE  [R!RcpNext]_R!rcpVars
    <3>1. hk[h].to \in RoomStatus
      BY DEF HotelTypes, HP!HkTypesInv, HP!HkTypeOK, HP!HkRequests, HP!RoomStatus, RoomStatus
    <3>2. s \in RoomStatus /\ (s = "Clean" => rooms[hk[h].room] = "Clean" \/ hk[h].room \notin Occupied)
      BY <1>0, <2>2, <3>1 DEF ApartInv
    <3> QED
      BY <1>0, <2>0, <2>2, <3>2, RoomWritten
  <2> QED
    BY <1>2, <1>a, <2>0, <2>1, <2>2, HousekeepingSaves
<1>3. ASSUME NEW h \in Callers, MaintenanceStep(h) PROVE [R!RcpNext]_R!rcpVars
  <2> DEFINE r == mnt[h].room
  <2>0. UNCHANGED <<guests, rcpLocal>>
    BY <1>3 DEF MaintenanceStep
  <2>1. ASSUME r \in Rooms, NEW s \in {"Maintenance", rooms[r]}, rooms' = [rooms EXCEPT ![r] = s]
        PROVE  [R!RcpNext]_R!rcpVars
    BY <1>0, <2>0, <2>1, RoomWritten DEF RoomStatus
  <2>2. ASSUME r \in Rooms, mnt[h].pc = "rsSave",
               rooms' = [rooms EXCEPT ![r] = Saved(mnt[h].tracked[r], mnt[h].to, rooms[r])]
        PROVE  [R!RcpNext]_R!rcpVars
    <3>1. mnt[h].to \in RoomStatus
      BY DEF HotelTypes, MP!MntInv, MP!MntTypeOK, MP!MntRequests, MP!RoomStatus, RoomStatus
    <3> DEFINE s == Saved(mnt[h].tracked[r], mnt[h].to, rooms[r])
    <3>2. s \in RoomStatus /\ (s = "Clean" => rooms[r] = "Clean")
      BY <1>0, <2>2, <3>1 DEF ApartInv, Saved
    <3> HIDE DEF s, r
    <3> QED
      BY <1>0, <2>0, <2>2, <3>2, RoomWritten DEF s
  <2> QED
    BY <1>3, <1>a, <2>0, <2>1, <2>2, MaintenanceSaves
<1> QED
  BY <1>1, <1>2, <1>3 DEF HotelNext

-----------------------------------------------------------------------------
(* Who is in which room changes in two steps of Reception.                 *)
LEMMA GuestsChange ==
  ASSUME HotelTypes, NEW c \in Clerks, ReceptionStep(c)
  PROVE  /\ R!CheckInSave(c) => Occupied' = Occupied \cup {req[c].room}
         /\ R!CheckOutSave(c) => Occupied' \subseteq Occupied
         /\ R!CheckInSave(c) \/ R!CheckOutSave(c) \/ UNCHANGED guests
<1> USE DEF HotelTypes, RcpTypes, RP!TypeOK, RP!Guests, R!Guests, Occupied
<1>1. R!CheckInSave(c) => Occupied' = Occupied \cup {req[c].room}
  <2> SUFFICES ASSUME R!CheckInSave(c) PROVE Occupied' = Occupied \cup {req[c].room}
    OBVIOUS
  <2>1. PICK g \in 1..MaxGuests :
               /\ guests[g].status = "Absent"
               /\ guests' = [guests EXCEPT ![g] = [status |-> "CheckedIn", room |-> req[c].room]]
    BY DEF R!CheckInSave, R!IsFirst
  <2>2. \A k \in 1..MaxGuests : guests'[k] = IF k = g THEN [status |-> "CheckedIn", room |-> req[c].room]
                                                        ELSE guests[k]
    BY <2>1
  <2> QED
    BY <2>1, <2>2
<1>2. R!CheckOutSave(c) => Occupied' \subseteq Occupied
  <2> SUFFICES ASSUME R!CheckOutSave(c) PROVE Occupied' \subseteq Occupied
    OBVIOUS
  <2>1. \A k \in 1..MaxGuests : guests'[k] = guests[k] \/ guests'[k].status = "CheckedOut"
    BY DEF R!CheckOutSave
  <2> QED
    BY <2>1
<1>3. UNCHANGED guests \/ R!CheckInSave(c) \/ R!CheckOutSave(c)
  BY DEF ReceptionStep, R!Arrive, R!Proceed, R!CheckInArrive, R!CheckOutGuest,
      R!CheckInLock, R!CheckInRead, R!CheckInNoRoom, R!CheckInBook, R!CheckInReply, R!CheckOutBooking,
      R!CheckOutRoom, R!CheckOutOrders, R!CheckOutReply
<1> QED
  BY <1>1, <1>2, <1>3

(* What a completion is about to write is what the Guests table says at    *)
(* the moment it is looked at.                                             *)
LEMMA StaffMoves ==
  ASSUME HotelTypes, HousekeepingStep, NEW g \in Staff, hk'[g].pc = "coSave"
  PROVE  \/ hk'[g] = hk[g]
         \/ hk'[g].room = hk[g].room /\ hk'[g].to = IF hk[g].room \in Occupied THEN "Occupied" ELSE "Clean"
<1> DEFINE Unlooked(h) == hk'[h].pc # "coSave" /\ \A k \in Staff : k # h => hk'[k] = hk[k]
<1>0. hk \in [Staff -> HP!HkRequests]
  BY DEF HotelTypes, HP!HkTypesInv, HP!HkTypeOK
<1> USE <1>0 DEF HP!HkRequests
<1>1. ASSUME NEW h \in Staff, H!HkArrive(h) PROVE Unlooked(h)
  <2>1. ASSUME NEW i \in 1..MaxTasks, H!StartTask(h, i) PROVE Unlooked(h)
    BY <2>1 DEF H!StartTask
  <2>2. ASSUME NEW i \in 1..MaxTasks, H!CompleteTask(h, i) PROVE Unlooked(h)
    BY <2>2 DEF H!CompleteTask
  <2>3. ASSUME NEW r \in Rooms, H!DirtyRoom(h, r) PROVE Unlooked(h)
    BY <2>3 DEF H!DirtyRoom
  <2> QED
    BY <1>1, <2>1, <2>2, <2>3 DEF H!HkArrive, H!TaskIds
<1>2. ASSUME NEW h \in Staff, H!StartRoom(h) \/ H!CompleteRoom(h) \/ H!DirtyTask(h) PROVE Unlooked(h)
  BY <1>2 DEF H!StartRoom, H!CompleteRoom, H!DirtyTask
<1>3. ASSUME NEW h \in Staff, H!StartSave(h) \/ H!CompleteSave(h) \/ H!DirtySave(h) PROVE Unlooked(h)
  <2>1. hk' = [hk EXCEPT ![h] = H!HkIdle]
    BY <1>3 DEF H!StartSave, H!CompleteSave, H!DirtySave
  <2> QED
    BY <2>1 DEF H!HkIdle
<1>4. ASSUME NEW h \in Staff, H!CompleteGuest(h)
      PROVE  IF g = h
               THEN /\ hk'[g].room = hk[g].room
                    /\ hk'[g].to = IF hk[g].room \in Occupied THEN "Occupied" ELSE "Clean"
               ELSE hk'[g] = hk[g]
  BY <1>4 DEF H!CompleteGuest, H!CleanedStatus
<1>5. UNCHANGED hk \/ \E h \in Staff : Unlooked(h) \/ H!CompleteGuest(h)
  <2> HIDE DEF Unlooked
  <2> QED
    BY <1>1, <1>2, <1>3 DEF HousekeepingStep, H!HkProceed, H!HkBackground, H!Vacated,
      H!VacatedInsert, H!VacatedFails, H!RecRead, H!RecCheck, H!RecInsert, H!RecFails
<1> QED
  BY <1>4, <1>5

(* A resolution writes the room only if it read it as Maintenance; its     *)
(* other actions do not lead up to the save.                               *)
LEMMA CallerMoves ==
  ASSUME HotelTypes, NEW h \in Callers, MaintenanceStep(h)
  PROVE  /\ \A g \in Callers : g # h => mnt'[g] = mnt[g]
         /\ mnt'[h].pc = "rsSave" =>
              \/ /\ mnt'[h].to = rooms[mnt'[h].room] /\ mnt'[h].to # "Maintenance"
                 /\ mnt'[h].tracked[mnt'[h].room] = mnt'[h].to
              \/ /\ mnt[h].pc = "rsGuest"
                 /\ mnt'[h].room = mnt[h].room /\ mnt'[h].tracked = mnt[h].tracked
                 /\ mnt'[h].to = IF mnt[h].room \in Occupied THEN "Occupied" ELSE "Dirty"
<1> DEFINE Others == \A g \in Callers : g # h => mnt'[g] = mnt[g]
           Unread == mnt'[h].pc # "rsSave"
<1>0. mnt \in [Callers -> MP!MntRequests]
  BY DEF HotelTypes, MP!MntInv, MP!MntTypeOK
<1> USE <1>0 DEF MP!MntRequests
<1>1. ASSUME NEW r \in Rooms, NEW p, M!Report(h, r, p) PROVE Others /\ Unread
  BY <1>1 DEF M!Report
<1>2. ASSUME NEW i \in 1..MaxIssues, M!Resolve(h, i) PROVE Others /\ Unread
  BY <1>2 DEF M!Resolve
<1>3. M!ReportSave(h) => Others /\ Unread
  BY DEF M!ReportSave
<1>4. (M!ReportEnqueue(h) => Others /\ Unread) /\ (M!AssignBusy(h) => Others /\ Unread)
  BY DEF M!ReportEnqueue, M!AssignBusy
<1>5. M!AssignTake(h) => Others /\ Unread
  BY DEF M!AssignTake
<1>6. ASSUME M!AssignDone(h) PROVE Others /\ Unread
  <2>1. mnt' = [mnt EXCEPT ![h] = M!MntIdle] /\ M!MntIdle.pc = "idle"
    BY <1>6 DEF M!AssignDone, M!MntIdle
  <2> QED
    BY <2>1
<1>7. M!AssignFind(h) => Others /\ Unread
  BY DEF M!AssignFind
<1>8. M!AssignSave(h) => Others /\ Unread
  BY DEF M!AssignSave
<1>9. M!AssignRoom(h) => Others /\ Unread
  BY DEF M!AssignRoom
<1>10. M!AssignLock(h) => Others /\ Unread
  BY DEF M!AssignLock
<1>11. M!ResolveSave(h) => Others /\ Unread
  BY DEF M!ResolveSave
<1>12. ASSUME M!ResolveRoom(h)
       PROVE  /\ Others
              /\ mnt'[h].pc = "rsSave" =>
                   /\ mnt'[h].to = rooms[mnt'[h].room] /\ mnt'[h].to # "Maintenance"
                   /\ mnt'[h].tracked[mnt'[h].room] = mnt'[h].to
  BY <1>12 DEF M!ResolveRoom, M!Track
<1>13. ASSUME M!ResolveGuest(h)
       PROVE  /\ Others
              /\ mnt[h].pc = "rsGuest"
              /\ mnt'[h].room = mnt[h].room /\ mnt'[h].tracked = mnt[h].tracked
              /\ mnt'[h].to = IF mnt[h].room \in Occupied THEN "Occupied" ELSE "Dirty"
  BY <1>13 DEF M!ResolveGuest
<1> HIDE DEF Others
<1> QED
  BY <1>1, <1>2, <1>3, <1>4, <1>5, <1>6, <1>7, <1>8, <1>9, <1>10, <1>11, <1>12, <1>13
     DEF MaintenanceStep, M!MntProceed, Others

(* Kept as long as no check-in saves in the window of a completion.        *)
LEMMA ApartStep == HotelTypes /\ ApartInv /\ [HotelNext /\ ~Overtaken]_hotelVars => ApartInv'
<1> SUFFICES ASSUME HotelTypes, ApartInv, [HotelNext /\ ~Overtaken]_hotelVars PROVE ApartInv'
  OBVIOUS
<1>1. ASSUME NEW c \in Clerks, ReceptionStep(c), ~Overtaken PROVE ApartInv'
  <2>1. UNCHANGED <<hk, mnt>>
    BY <1>1 DEF ReceptionStep, hkLocal, mntLocal
  <2>2. \A h \in Staff : hk[h].pc = "coSave" /\ hk[h].room \in Occupied' => hk[h].room \in Occupied
    BY <1>1, GuestsChange DEF Overtaken, Occupied
  <2> QED
    BY <2>1, <2>2 DEF ApartInv
<1>2. ASSUME HousekeepingStep PROVE ApartInv'
  <2>1. UNCHANGED <<Occupied, mnt>>
    BY <1>2 DEF HousekeepingStep, mntLocal, Occupied
  <2> QED
    BY <1>2, <2>1, StaffMoves DEF ApartInv
<1>3. ASSUME NEW h \in Callers, MaintenanceStep(h) PROVE ApartInv'
  <2>1. UNCHANGED <<Occupied, hk>>
    BY <1>3 DEF MaintenanceStep, hkLocal, Occupied
  <2> QED
    BY <1>3, <2>1, CallerMoves DEF ApartInv
<1>4. CASE UNCHANGED hotelVars
  BY <1>4 DEF hotelVars, hkLocal, mntLocal, ApartInv, Occupied
<1> QED
  BY <1>1, <1>2, <1>3, <1>4 DEF HotelNext

(* At first no completion is under way.                                    *)
LEMMA InitApart == HotelInit => ApartInv
  BY DEF HotelInit, H!HkInit, H!HkIdle, M!MntInit, M!MntIdle, ApartInv

-----------------------------------------------------------------------------
(* Tables, requests, messages and queue keep their types in every state of *)
(* the hotel, however the requests of the three services interleave.       *)
THEOREM TypeCorrect == HotelSpec => []HotelTypeOK
<1>1. HotelTypes => HotelTypeOK
  <2>1. RP!TypeOK => R!TypeOK
    BY DEF R!TypeOK, RP!TypeOK, R!Guests, RP!Guests, R!Orders, RP!Orders, R!Requests, RP!Requests,
      R!CheckInPc, RP!CheckInPc, R!CheckOutPc, RP!CheckOutPc, R!RoomStatus, RP!RoomStatus,
      R!GuestStatus, RP!GuestStatus, R!BookingStatus, RP!BookingStatus
  <2>2. HP!HkTypeOK => H!HkTypeOK
    BY DEF H!HkTypeOK, HP!HkTypeOK, H!TaskIds, HP!TaskIds, H!HkRequests, HP!HkRequests,
      H!RoomStatus, HP!RoomStatus, H!TaskStatus, HP!TaskStatus
  <2>3. MP!MntTypeOK => M!MntTypeOK
    BY DEF M!MntTypeOK, MP!MntTypeOK, M!IssueIds, MP!IssueIds, M!Techs, MP!Techs, M!Issues, MP!Issues,
      M!IssueStatus, MP!IssueStatus, M!RoomStatus, MP!RoomStatus, M!MntRequests, MP!MntRequests,
      M!ReportPc, MP!ReportPc, M!AssignPc, MP!AssignPc, M!ResolvePc, MP!ResolvePc, M!Tracked, MP!Tracked
  <2> QED
    BY <2>1, <2>2, <2>3 DEF HotelTypes, RcpTypes, HotelTypeOK, HP!HkTypesInv, MP!MntInv
<1> QED
  BY <1>1, InitTypes, StepTypes, PTL DEF HotelSpec

(* The invariant holds while check-ins keep clear of completions.          *)
LEMMA ApartInvariance == ApartSpec => [](HotelTypes /\ ApartInv)
<1>1. HotelTypes /\ ApartInv /\ [HotelNext /\ ~Overtaken]_hotelVars => HotelTypes' /\ ApartInv'
  BY StepTypes, ApartStep
<1> QED
  BY <1>1, InitTypes, InitApart, PTL DEF ApartSpec

(* Unless a check-in saves between a completion's look at the Guests table *)
(* and its save, Housekeeping and Maintenance do to Rooms only what        *)
(* Reception's specification relies on, with any number of requests.       *)
THEOREM ReceptionImplemented == ApartSpec => ImplementsReception
<1>1. HotelInit => R!RcpInit
  BY DEF HotelInit
<1>2. HotelTypes /\ ApartInv /\ [HotelNext /\ ~Overtaken]_hotelVars => [R!RcpNext]_R!rcpVars
  <2>1. UNCHANGED hotelVars => UNCHANGED R!rcpVars
    BY DEF hotelVars, rcpLocal, R!rcpVars
  <2> QED
    BY <2>1, StepOfReception
<1> QED
  BY <1>1, <1>2, ApartInvariance, PTL DEF ApartSpec, ImplementsReception, R!RcpSafe

(* So the behaviours of Reception in the hotel are those its own proofs    *)
(* are about.                                                              *)
LEMMA ReceptionBehaves == ApartSpec => RP!RcpSafe
<1>1. R!RcpInit => RP!RcpInit
  BY DEF R!RcpInit, RP!RcpInit, R!Guests, RP!Guests, R!Orders, RP!Orders, R!Idle, RP!Idle
<1>2. [R!RcpNext]_R!rcpVars => [RP!RcpNext]_RP!rcpVars
  BY ReceptionRenamed DEF R!rcpVars, RP!rcpVars
<1>3. R!RcpSafe => RP!RcpSafe
  BY <1>1, <1>2, PTL DEF R!RcpSafe, RP!RcpSafe
<1> QED
  BY <1>3, ReceptionImplemented, PTL DEF ImplementsReception

(* With that one window excluded no room is ever let to two guests: what   *)
(* is proved of Reception alone carries over to the three services.        *)
THEOREM NeverDoubleBooked == ApartSpec => []NoDoubleBooking
<1>1. RP!RcpSafe => []RP!NoDoubleBooking
  BY Instances, RP!NeverDoubleBooked
<1>2. RP!NoDoubleBooking => NoDoubleBooking
  BY DEF NoDoubleBooking, R!NoDoubleBooking, RP!NoDoubleBooking, R!Guests, RP!Guests
<1> QED
  BY <1>1, <1>2, ReceptionBehaves, PTL

(* At no moment, between requests or within them, has a Clean room a guest.*)
CleanVacant == \A r \in Rooms : rooms[r] = "Clean" => r \notin Occupied

(* Nor is a room Clean while it has a guest, whatever Housekeeping and     *)
(* Maintenance write meanwhile.                                            *)
THEOREM CleanIsVacant == ApartSpec => []CleanVacant
<1>1. RP!RcpSafe => []RP!RcpInv
  BY Instances, RP!Invariance
<1>2. RP!RcpInv => CleanVacant
  BY DEF RP!RcpInv, RP!VacancyInv, RP!Vacant, RP!Holders, RP!Guests, CleanVacant, Occupied
<1> QED
  BY <1>1, <1>2, ReceptionBehaves, PTL

(* The hotel keeps the ledger of its rooms: three services and any number  *)
(* of requests on one database let a free room to a new guest, free a      *)
(* room, or do nothing that a guest would notice.                          *)
THEOREM KeepsLedger == ApartSpec => R!ImplementsLedger
<1>1. RP!RcpSafe => RP!ImplementsLedger
  BY Instances, RP!Refinement
<1>2. R!Guests = RP!Guests /\ \A r \in Rooms : R!Holder(r) = RP!Holder(r)
  BY DEF R!Guests, RP!Guests, R!Holder, RP!Holder, R!Only, RP!Only, R!Holders, RP!Holders
<1>3. RP!Ledger!LedgerInit => R!Ledger!LedgerInit
  BY <1>2 DEF RP!Ledger!LedgerInit, R!Ledger!LedgerInit
<1>4. [RP!Ledger!LedgerNext]_RP!Ledger!ledgerVars => [R!Ledger!LedgerNext]_R!Ledger!ledgerVars
  <2> USE <1>2 DEF RP!Ledger!ledgerVars, R!Ledger!ledgerVars
  <2>1. /\ [r \in Rooms |-> R!Holder(r)] = [r \in Rooms |-> RP!Holder(r)]
        /\ [r \in Rooms |-> R!Holder(r)]' = [r \in Rooms |-> RP!Holder(r)]'
    BY DEF R!Guests, RP!Guests, R!Holder, RP!Holder, R!Only, RP!Only, R!Holders, RP!Holders
  <2>2. RP!Ledger!LedgerNext => R!Ledger!LedgerNext
    BY <2>1 DEF RP!Ledger!LedgerNext, R!Ledger!LedgerNext, RP!Ledger!Let, R!Ledger!Let,
                RP!Ledger!Free, R!Ledger!Free
  <2> QED
    BY <2>1, <2>2
<1> QED
  BY <1>1, <1>3, <1>4, ReceptionBehaves, PTL
     DEF RP!ImplementsLedger, R!ImplementsLedger, RP!Ledger!LedgerSpec, R!Ledger!LedgerSpec

-----------------------------------------------------------------------------
(* A completion never locks the room.                                      *)
CleanedInv == \A h \in Staff : hk[h].pc = "coSave" => hk[h].to \in {"Clean", "Occupied"}

(* Every step of the hotel keeps it.                                       *)
LEMMA CleanedStep == HotelTypes /\ CleanedInv /\ [HotelNext]_hotelVars => CleanedInv'
  BY StaffMoves DEF CleanedInv, HotelNext, ReceptionStep, MaintenanceStep, hkLocal, hotelVars

(* The services other than Maintenance do not lock a room.                 *)
LEMMA OthersUnlock ==
  ASSUME HotelTypes, CleanedInv, HousekeepingStep \/ \E c \in Clerks : ReceptionStep(c)
  PROVE  /\ UNCHANGED <<issues, queue, mnt>>
         /\ \A r \in Rooms : rooms'[r] = "Maintenance" => rooms[r] = "Maintenance"
<1>0. rooms \in [Rooms -> RoomStatus]
  BY DEF HotelTypes, RcpTypes, RP!TypeOK, RP!RoomStatus, RoomStatus
<1>1. ASSUME HousekeepingStep
      PROVE  \A r \in Rooms : rooms'[r] = "Maintenance" => rooms[r] = "Maintenance"
  BY <1>0, <1>1, HousekeepingSaves DEF CleanedInv
<1>2. ASSUME NEW c \in Clerks, ReceptionStep(c)
      PROVE  \A r \in Rooms : rooms'[r] = "Maintenance" => rooms[r] = "Maintenance"
  <2>1. CASE R!CheckInSave(c)
    BY <1>0, <2>1 DEF R!CheckInSave
  <2>2. CASE R!CheckOutSave(c)
    BY <1>0, <2>2 DEF R!CheckOutSave, R!Saved
  <2>3. CASE UNCHANGED rooms
    BY <2>3
  <2> QED
    BY <1>2, <2>1, <2>2, <2>3 DEF ReceptionStep, R!Arrive, R!Proceed, R!CheckInArrive, R!CheckOutGuest,
      R!CheckInLock, R!CheckInRead, R!CheckInNoRoom, R!CheckInBook, R!CheckInReply, R!CheckOutBooking,
      R!CheckOutRoom, R!CheckOutOrders, R!CheckOutReply
<1> QED
  BY <1>1, <1>2 DEF HousekeepingStep, ReceptionStep, mntLocal

(* The types, what is read of the hotel and a locked room's issue: kept by *)
(* every step that finds no resolution saving while the room is locked.    *)
LEMMA RepairInvariance ==
  HotelSpec /\ []MP!LockApart => [](HotelTypes /\ CleanedInv /\ MP!RepairInv)
<1>1. HotelInit => HotelTypes /\ CleanedInv /\ MP!RepairInv
  <2> SUFFICES ASSUME HotelInit PROVE CleanedInv /\ MP!RepairInv
    BY InitTypes
  <2>1. CleanedInv
    BY DEF HotelInit, H!HkInit, H!HkIdle, CleanedInv
  <2>2. MP!RepairInv
    BY DEF HotelInit, M!MntInit, M!MntIdle, MP!RepairInv
  <2> QED
    BY <2>1, <2>2
<1>2. HotelTypes /\ CleanedInv /\ MP!RepairInv /\ MP!LockApart /\ [HotelNext]_hotelVars => MP!RepairInv'
  <2> SUFFICES ASSUME HotelTypes, CleanedInv, MP!RepairInv, MP!LockApart, [HotelNext]_hotelVars
               PROVE  MP!RepairInv'
    OBVIOUS
  <2>0. MP!MntInv
    BY DEF HotelTypes
  <2>1. ASSUME HousekeepingStep \/ \E c \in Clerks : ReceptionStep(c) PROVE MP!RepairInv'
    BY <2>0, <2>1, Instances, OthersUnlock, MP!RepairOthers
  <2>2. ASSUME NEW h \in Callers, MaintenanceStep(h) PROVE MP!RepairInv'
    BY <2>0, <2>2, Instances, MaintenanceSteps, MP!RepairStep
  <2>3. CASE UNCHANGED hotelVars
    <3>1. UNCHANGED <<rooms, issues, mnt>>
      BY <2>3 DEF hotelVars, mntLocal
    <3> QED
      BY <2>0, <3>1, Instances, MP!RepairOthers
  <2> QED
    BY <2>1, <2>2, <2>3 DEF HotelNext
<1> QED
  BY <1>1, <1>2, StepTypes, CleanedStep, PTL DEF HotelSpec

(* However Reception and Housekeeping write over a locked room meanwhile,  *)
(* a room under Maintenance has an assigned critical issue, unless a       *)
(* resolution saves while an issue of its room is about to lock it.        *)
THEOREM LockCanBeLifted == HotelSpec /\ []MP!LockApart => []LockHasIssue
<1>1. MP!RepairInv => LockHasIssue
  BY DEF MP!RepairInv, MP!Locking, LockHasIssue, M!LockHasIssue, M!IssueIds, MP!IssueIds, M!Critical, MP!Critical
<1> QED
  BY <1>1, RepairInvariance, PTL

(* A technician is given an issue before the one at hand is resolved only  *)
(* where two schedulers overlap.                                           *)
THEOREM OneJobEach == HotelSpec /\ []MP!OneScheduler => []OneJobPerTechnician
<1>1. HotelInit => HotelTypes /\ MP!JobInv
  <2>1. HotelInit => MP!JobInv
    BY DEF HotelInit, M!MntInit, M!MntIdle, M!NoIssue, M!IssueIds, MP!IssueIds, MP!JobInv,
           MP!OneJobPerTechnician, MP!Assigning
  <2> QED
    BY <2>1, InitTypes
<1>2. HotelTypes /\ MP!JobInv /\ MP!OneScheduler /\ [HotelNext]_hotelVars => MP!JobInv'
  <2> SUFFICES ASSUME HotelTypes, MP!JobInv, MP!OneScheduler, [HotelNext]_hotelVars PROVE MP!JobInv'
    OBVIOUS
  <2>1. ASSUME NEW h \in Callers, MaintenanceStep(h) PROVE MP!JobInv'
    <3>1. MP!MntInv
      BY DEF HotelTypes
    <3> QED
      BY <2>1, <3>1, Instances, MaintenanceSteps, MP!JobStep
  <2>2. CASE UNCHANGED mntLocal
    <3>1. UNCHANGED <<issues, mnt>>
      BY <2>2 DEF mntLocal
    <3> QED
      BY <3>1, Instances, MP!JobOthers
  <2> QED
    BY <2>1, <2>2 DEF HotelNext, HousekeepingStep, ReceptionStep, hotelVars
<1>3. MP!JobInv => OneJobPerTechnician
  BY DEF MP!JobInv, MP!OneJobPerTechnician, OneJobPerTechnician, M!OneJobPerTechnician, M!IssueIds, MP!IssueIds
<1> QED
  BY <1>1, <1>2, <1>3, StepTypes, PTL DEF HotelSpec

(* A hotel whose Maintenance serves one request at a time meets both       *)
(* conditions, with as many requests to the others as come.                *)
THEOREM OneCaller ==
  ASSUME \A h, d \in Callers : h = d PROVE HotelSpec => [](LockHasIssue /\ OneJobPerTechnician)
<1>1. MP!LockApart /\ MP!OneScheduler
  BY DEF MP!LockApart, MP!OneScheduler
<1> QED
  BY <1>1, LockCanBeLifted, OneJobEach, PTL

-----------------------------------------------------------------------------
(* Requests one at a time: all are idle, or all but one.                   *)
ClerksIdle  == \A c \in Clerks : req[c].pc = "idle"
StaffIdle   == \A h \in Staff : hk[h].pc = "idle"
CallersIdle == \A h \in Callers : mnt[h].pc = "idle"

ClerkAlone(c)  == StaffIdle /\ CallersIdle /\ \A d \in Clerks : d # c => req[d].pc = "idle"
StaffAlone(h)  == ClerksIdle /\ CallersIdle /\ \A g \in Staff : g # h => hk[g].pc = "idle"
CallerAlone(h) == ClerksIdle /\ StaffIdle /\ \A g \in Callers : g # h => mnt[g].pc = "idle"

Serial == \/ ClerksIdle /\ StaffIdle /\ CallersIdle
          \/ \E c \in Clerks : ClerkAlone(c)
          \/ \E h \in Staff : StaffAlone(h)
          \/ \E h \in Callers : CallerAlone(h)

(* The status of a room agrees with the Guests table, between requests and *)
(* between their steps as well.                                            *)
Agree == \A r \in Rooms : /\ rooms[r] = "Clean" => r \notin Occupied
                          /\ rooms[r] = "Occupied" => r \in Occupied

(* What the request in flight has read is still so.                        *)
CurrentInv ==
  /\ \A c \in Clerks : req[c].pc \in {"coBooking", "coRoom", "coOrders", "coSave"} =>
       guests[req[c].guest].status = "CheckedIn" /\ guests[req[c].guest].room = req[c].room
  /\ \A c \in Clerks : req[c].pc \in {"coOrders", "coSave"} => req[c].seen = rooms[req[c].room]
  /\ \A h \in Staff : hk[h].pc = "coSave" =>
       hk[h].to = IF hk[h].room \in Occupied THEN "Occupied" ELSE "Clean"
  /\ \A h \in Callers : mnt[h].pc = "rsSave" =>
       \/ mnt[h].to = mnt[h].tracked[mnt[h].room]
       \/ mnt[h].to = "Dirty"
       \/ mnt[h].to = "Occupied" /\ mnt[h].room \in Occupied

SerialInv == HotelTypes /\ Serial /\ Agree /\ CurrentInv

(* Nothing in flight: the three sets counted are empty.                    *)
LEMMA NoneInFlight ==
  /\ InFlight \in Nat
  /\ InFlight = 0 => ClerksIdle /\ StaffIdle /\ CallersIdle
<1> DEFINE C == {c \in Clerks : req[c].pc # "idle"}
           S == {h \in Staff : hk[h].pc # "idle"}
           K == {h \in Callers : mnt[h].pc # "idle"}
<1>1. IsFiniteSet(C) /\ IsFiniteSet(S) /\ IsFiniteSet(K)
  BY HotelAssumption, FS_Subset
<1>2. Cardinality(C) \in Nat /\ Cardinality(S) \in Nat /\ Cardinality(K) \in Nat
  BY <1>1, FS_CardinalityType
<1>3. Cardinality(C) = 0 /\ Cardinality(S) = 0 /\ Cardinality(K) = 0 => C = {} /\ S = {} /\ K = {}
  BY <1>1, FS_EmptySet
<1>4. C = {} /\ S = {} /\ K = {} => ClerksIdle /\ StaffIdle /\ CallersIdle
  BY DEF ClerksIdle, StaffIdle, CallersIdle
<1>5. InFlight = Cardinality(C) + Cardinality(S) + Cardinality(K)
  BY DEF InFlight
<1> HIDE DEF C, S, K
<1> QED
  BY <1>2, <1>3, <1>4, <1>5

(* A step is one request's, and that request was in flight or just came.   *)
LEMMA ClerkFrame ==
  ASSUME HotelTypes, NEW c \in Clerks, ReceptionStep(c)
  PROVE  /\ InFlight < Overlap \/ req[c].pc # "idle"
         /\ \A d \in Clerks : d # c => req'[d] = req[d]
<1>0. req \in [Clerks -> RP!Requests]
  BY DEF HotelTypes, RcpTypes, RP!TypeOK
<1> DEFINE Frame == \A d \in Clerks : d # c => req'[d] = req[d]
<1>1. R!Arrive(c) => Frame
  BY <1>0 DEF R!Arrive, R!CheckInArrive, R!CheckOutGuest
<1>2. R!CheckInLock(c) => Frame /\ req[c].pc # "idle"
  BY <1>0 DEF R!CheckInLock
<1>3. R!Proceed(c) => Frame /\ req[c].pc # "idle"
  BY <1>0 DEF R!Proceed, R!CheckInRead, R!CheckInNoRoom, R!CheckInSave, R!CheckInBook, R!CheckInReply,
     R!CheckOutBooking, R!CheckOutRoom, R!CheckOutOrders, R!CheckOutSave, R!CheckOutReply
<1> QED
  BY <1>1, <1>2, <1>3 DEF ReceptionStep

(* What a request of the staff leaves to the others.                       *)
LEMMA StaffFrame ==
  ASSUME HotelTypes, HousekeepingStep
  PROVE  \/ UNCHANGED <<hk, rooms>>
         \/ \E h \in Staff : /\ InFlight < Overlap \/ hk[h].pc # "idle"
                             /\ \A g \in Staff : g # h => hk'[g] = hk[g]
<1>0. hk \in [Staff -> HP!HkRequests]
  BY DEF HotelTypes, HP!HkTypesInv, HP!HkTypeOK
<1> DEFINE Frame(h) == \A g \in Staff : g # h => hk'[g] = hk[g]
<1>1. ASSUME NEW h \in Staff, H!HkArrive(h) PROVE Frame(h)
  BY <1>0, <1>1 DEF H!HkArrive, H!StartTask, H!CompleteTask, H!DirtyRoom
<1>2. ASSUME NEW h \in Staff, H!HkProceed(h) PROVE Frame(h) /\ hk[h].pc # "idle"
  BY <1>0, <1>2 DEF H!HkProceed, H!StartRoom, H!StartSave, H!CompleteRoom, H!CompleteGuest, H!CompleteSave,
     H!DirtyTask, H!DirtySave
<1>3. H!HkBackground => UNCHANGED <<hk, rooms>>
  BY DEF H!HkBackground, H!Vacated, H!VacatedInsert, H!VacatedFails, H!RecRead, H!RecCheck, H!RecInsert, H!RecFails
<1> HIDE DEF Frame
<1>4. UNCHANGED <<hk, rooms>> \/ \E h \in Staff : (InFlight < Overlap \/ hk[h].pc # "idle") /\ Frame(h)
  BY <1>1, <1>2, <1>3 DEF HousekeepingStep
<1> QED
  BY <1>4 DEF Frame

(* A request of Maintenance that goes on is the one under way.             *)
LEMMA CallerBusy ==
  ASSUME NEW h \in Callers, MaintenanceStep(h)
  PROVE  InFlight < Overlap \/ mnt[h].pc # "idle"
  BY DEF MaintenanceStep, M!MntProceed, M!ReportSave, M!ReportEnqueue, M!AssignBusy, M!AssignTake, M!AssignDone,
         M!AssignFind, M!AssignSave, M!AssignRoom, M!AssignLock, M!ResolveRoom, M!ResolveGuest, M!ResolveSave

(* The only request in flight, step by step.                               *)
LEMMA ReceptionSerial ==
  ASSUME Overlap <= 1, SerialInv, NEW c \in Clerks, ReceptionStep(c)
  PROVE  Serial' /\ Agree' /\ CurrentInv'
<1> USE DEF SerialInv
<1>1. ClerkAlone(c)
  BY ClerkFrame, NoneInFlight, HotelAssumption
     DEF Serial, ClerkAlone, StaffAlone, CallerAlone, ClerksIdle, StaffIdle, CallersIdle
<1>2. ClerkAlone(c)'
  BY <1>1, ClerkFrame DEF ReceptionStep, hkLocal, mntLocal, ClerkAlone, StaffIdle, CallersIdle
<1>3. Serial'
  BY <1>2 DEF Serial
<1>0. /\ rooms \in [Rooms -> RoomStatus] /\ req \in [Clerks -> RP!Requests]
      /\ guests \in [1..MaxGuests -> [status : RP!GuestStatus, room : Rooms \cup {NoRoom}]]
      /\ req[c].pc \in {"coBooking", "coRoom", "coOrders", "coSave"} =>
           req[c].room \in Rooms /\ req[c].guest \in 1..MaxGuests
  BY DEF HotelTypes, RcpTypes, RP!TypeOK, RP!RequestInv, RP!CheckOutPc, RP!Guests, RP!RoomStatus, RoomStatus
<1> DEFINE q == req'[c]
           Reads == /\ q.pc \in {"coBooking", "coRoom", "coOrders", "coSave"} =>
                         guests'[q.guest].status = "CheckedIn" /\ guests'[q.guest].room = q.room
                    /\ q.pc \in {"coOrders", "coSave"} => q.seen = rooms'[q.room]
<1>4. ASSUME Reads PROVE CurrentInv'
  <2> HIDE DEF q
  <2>1. \A d \in Clerks : req'[d].pc # "idle" => req'[d] = q
    BY <1>2 DEF ClerkAlone, q
  <2> QED
    BY <1>2, <1>4, <2>1 DEF CurrentInv, ClerkAlone, StaffIdle, CallersIdle
<1> USE <1>0 DEF RP!Requests
<1>5. ASSUME UNCHANGED <<rooms, guests>> PROVE Agree'
  BY <1>5 DEF Agree, Occupied
<1>6. ASSUME R!CheckInArrive(c) PROVE Agree' /\ Reads
  <2>1. UNCHANGED <<rooms, guests>> /\ q.pc = "ciWait"
    BY <1>6 DEF R!CheckInArrive
  <2> QED
    BY <1>5, <2>1
<1>7. ASSUME NEW r \in Rooms, R!CheckOutGuest(c, r) PROVE Agree' /\ Reads
  <2>1. UNCHANGED <<rooms, guests>>
    BY <1>7 DEF R!CheckOutGuest
  <2>2. PICK g \in 1..MaxGuests : /\ guests[g].status = "CheckedIn" /\ guests[g].room = r
                                  /\ req' = [req EXCEPT ![c] = [@ EXCEPT !.pc = "coBooking", !.room = r, !.guest = g]]
    BY <1>7 DEF R!CheckOutGuest, R!IsFirst, R!Holders, R!Guests
  <2>3. q.pc = "coBooking" /\ q.room = r /\ q.guest = g
    BY <2>2
  <2> QED
    BY <1>5, <2>1, <2>2, <2>3
<1>8. ASSUME R!CheckInLock(c) PROVE Agree' /\ Reads
  <2>1. UNCHANGED <<rooms, guests>> /\ q.pc = "ciRead"
    BY <1>8 DEF R!CheckInLock
  <2> QED
    BY <1>5, <2>1
<1>9. ASSUME NEW t, R!CheckInRead(c, t) PROVE Agree' /\ Reads
  <2>1. UNCHANGED <<rooms, guests>> /\ q.pc = "ciSave"
    BY <1>9 DEF R!CheckInRead
  <2> QED
    BY <1>5, <2>1
<1>17. ASSUME NEW t, R!CheckInNoRoom(c, t) PROVE Agree' /\ Reads
  <2>1. UNCHANGED <<rooms, guests>> /\ q.pc = "idle"
    BY <1>17 DEF R!CheckInNoRoom, R!Idle
  <2> QED
    BY <1>5, <2>1
<1>10. ASSUME R!CheckInSave(c) PROVE Agree' /\ Reads
  <2>1. rooms' = [rooms EXCEPT ![req[c].room] = "Occupied"] /\ q.pc = "ciBook"
    BY <1>10 DEF R!CheckInSave
  <2>2. Occupied' = Occupied \cup {req[c].room}
    BY <1>10, GuestsChange DEF R!CheckInSave, R!CheckOutSave
  <2> QED
    BY <2>1, <2>2 DEF Agree
<1>11. ASSUME R!CheckInBook(c) PROVE Agree' /\ Reads
  <2>1. UNCHANGED <<rooms, guests>> /\ q.pc = "ciPublish"
    BY <1>11 DEF R!CheckInBook
  <2> QED
    BY <1>5, <2>1
<1>12. ASSUME R!CheckInReply(c) \/ R!CheckOutReply(c) PROVE Agree' /\ Reads
  <2>1. UNCHANGED <<rooms, guests>> /\ q.pc = "idle"
    BY <1>12 DEF R!CheckInReply, R!CheckOutReply, R!Idle
  <2> QED
    BY <1>5, <2>1
<1>13. ASSUME R!CheckOutBooking(c) PROVE Agree' /\ Reads
  <2>1. /\ UNCHANGED <<rooms, guests>> /\ req[c].pc = "coBooking"
        /\ \/ q.pc = "idle"
           \/ q.pc = "coRoom" /\ q.guest = req[c].guest /\ q.room = req[c].room
    BY <1>13 DEF R!CheckOutBooking, R!Idle
  <2> QED
    BY <1>5, <2>1 DEF CurrentInv
<1>14. ASSUME R!CheckOutRoom(c) PROVE Agree' /\ Reads
  <2>1. /\ UNCHANGED <<rooms, guests>> /\ req[c].pc = "coRoom"
        /\ q.guest = req[c].guest /\ q.room = req[c].room /\ q.seen = rooms[q.room]
    BY <1>14 DEF R!CheckOutRoom
  <2> QED
    BY <1>5, <2>1 DEF CurrentInv
<1>15. ASSUME R!CheckOutOrders(c) PROVE Agree' /\ Reads
  <2>1. /\ UNCHANGED <<rooms, guests>> /\ req[c].pc = "coOrders"
        /\ q.guest = req[c].guest /\ q.room = req[c].room /\ q.seen = req[c].seen
    BY <1>15 DEF R!CheckOutOrders
  <2> QED
    BY <1>5, <2>1 DEF CurrentInv
<1>16. ASSUME R!CheckOutSave(c) PROVE Agree' /\ Reads
  <2> DEFINE g == req[c].guest
             r == req[c].room
  <2>1. /\ r \in Rooms /\ g \in 1..MaxGuests /\ q.pc = "coPublish"
        /\ guests' = [guests EXCEPT ![g] = [status |-> "CheckedOut", room |-> NoRoom]]
        /\ rooms' = [rooms EXCEPT ![r] = IF "Dirty" = req[c].seen THEN rooms[r] ELSE "Dirty"]
    BY <1>16 DEF R!CheckOutSave, R!Saved
  <2>2. guests[g].room = r /\ req[c].seen = rooms[r]
    BY <1>16 DEF R!CheckOutSave, CurrentInv
  <2> HIDE DEF g, r
  <2>3. rooms'[r] = "Dirty" /\ \A p \in Rooms : p # r => rooms'[p] = rooms[p]
    BY <2>1, <2>2
  <2>4. \A p \in Rooms : p # r => (p \in Occupied' <=> p \in Occupied)
    <3>1. \A k \in 1..MaxGuests : k # g => guests'[k] = guests[k]
      BY <2>1
    <3>2. guests'[g].status = "CheckedOut"
      BY <2>1
    <3> QED
      BY <2>2, <3>1, <3>2 DEF Occupied
  <2> QED
    BY <2>1, <2>3, <2>4 DEF Agree
<1> HIDE DEF Reads
<1> QED
  BY <1>3, <1>4, <1>6, <1>7, <1>8, <1>9, <1>10, <1>11, <1>12, <1>13, <1>14, <1>15, <1>16, <1>17
     DEF ReceptionStep, R!Arrive, R!Proceed

(* Steps of Housekeeping, with no other request under way.                 *)
LEMMA HousekeepingSerial ==
  ASSUME Overlap <= 1, SerialInv, HousekeepingStep
  PROVE  Serial' /\ Agree' /\ CurrentInv'
<1> USE DEF SerialInv
<1>0. UNCHANGED <<guests, Occupied, req, mnt>> /\ rooms \in [Rooms -> RoomStatus]
  BY DEF HousekeepingStep, rcpLocal, mntLocal, Occupied, HotelTypes, RcpTypes, RP!TypeOK, RP!RoomStatus, RoomStatus
<1>1. CASE UNCHANGED <<hk, rooms>>
  BY <1>0, <1>1 DEF Serial, ClerksIdle, StaffIdle, CallersIdle, ClerkAlone, StaffAlone, CallerAlone, Agree, CurrentInv
<1>2. ASSUME NEW h \in Staff, InFlight < Overlap \/ hk[h].pc # "idle",
             \A g \in Staff : g # h => hk'[g] = hk[g]
      PROVE  Serial' /\ Agree' /\ CurrentInv'
  <2>1. StaffAlone(h)
    BY <1>2, NoneInFlight, HotelAssumption
       DEF Serial, ClerkAlone, StaffAlone, CallerAlone, ClerksIdle, StaffIdle, CallersIdle
  <2>2. StaffAlone(h)'
    BY <1>0, <1>2, <2>1 DEF StaffAlone, ClerksIdle, CallersIdle
  <2>3. Serial'
    BY <2>2 DEF Serial
  <2>4. CurrentInv'
    BY <1>0, <2>2, StaffMoves DEF CurrentInv, StaffAlone, ClerksIdle, CallersIdle
  <2>5. Agree'
    <3>1. ASSUME NEW g \in Staff, hk[g].room \in Rooms,
                 NEW s \in {"Being Cleaned", "Dirty", rooms[hk[g].room]},
                 rooms' = [rooms EXCEPT ![hk[g].room] = s]
          PROVE  Agree'
      BY <1>0, <3>1 DEF Agree
    <3>2. ASSUME NEW g \in Staff, hk[g].room \in Rooms, hk[g].pc = "coSave",
                 NEW s \in {hk[g].to, rooms[hk[g].room]},
                 rooms' = [rooms EXCEPT ![hk[g].room] = s]
          PROVE  Agree'
      <4>1. hk[g].to = IF hk[g].room \in Occupied THEN "Occupied" ELSE "Clean"
        BY <3>2 DEF CurrentInv
      <4> QED
        BY <1>0, <3>2, <4>1 DEF Agree
    <3>3. CASE UNCHANGED rooms
      BY <1>0, <3>3 DEF Agree
    <3> QED
      BY <3>1, <3>2, <3>3, HousekeepingSaves
  <2> QED
    BY <2>3, <2>4, <2>5
<1> QED
  BY <1>1, <1>2, StaffFrame

(* Steps of Maintenance, with no other request under way.                  *)
LEMMA MaintenanceSerial ==
  ASSUME Overlap <= 1, SerialInv, NEW h \in Callers, MaintenanceStep(h)
  PROVE  Serial' /\ Agree' /\ CurrentInv'
<1> USE DEF SerialInv
<1>0. UNCHANGED <<guests, Occupied, req, hk>> /\ rooms \in [Rooms -> RoomStatus]
  BY DEF MaintenanceStep, rcpLocal, hkLocal, Occupied, HotelTypes, RcpTypes, RP!TypeOK, RP!RoomStatus, RoomStatus
<1>1. CallerAlone(h)
  BY CallerBusy, NoneInFlight, HotelAssumption
     DEF Serial, ClerkAlone, StaffAlone, CallerAlone, ClerksIdle, StaffIdle, CallersIdle
<1>2. CallerAlone(h)'
  BY <1>0, <1>1, CallerMoves DEF CallerAlone, ClerksIdle, StaffIdle
<1>3. Serial'
  BY <1>2 DEF Serial
<1>4. CurrentInv'
  BY <1>0, <1>2, CallerMoves DEF CurrentInv, CallerAlone, ClerksIdle, StaffIdle
<1>5. Agree'
  BY <1>0, MaintenanceSaves DEF Agree, CurrentInv, Saved
<1> QED
  BY <1>3, <1>4, <1>5

(* The invariant holds with requests one at a time.                        *)
LEMMA SerialInvariance == Overlap <= 1 /\ HotelSpec => []SerialInv
<1> DEFINE Inv == Overlap <= 1 /\ SerialInv
<1>1. HotelInit => SerialInv
  <2> SUFFICES ASSUME HotelInit PROVE Serial /\ Agree /\ CurrentInv
    BY InitTypes DEF SerialInv
  <2>1. ClerksIdle /\ StaffIdle /\ CallersIdle
    BY DEF HotelInit, R!RcpInit, R!Idle, H!HkInit, H!HkIdle, M!MntInit, M!MntIdle, ClerksIdle, StaffIdle, CallersIdle
  <2>2. Occupied = {} /\ rooms = [r \in Rooms |-> "Clean"]
    BY DEF HotelInit, R!RcpInit, R!Guests, Occupied
  <2> QED
    BY <2>1, <2>2 DEF Serial, Agree, CurrentInv, ClerksIdle, StaffIdle, CallersIdle
<1>2. Inv /\ [HotelNext]_hotelVars => Inv'
  <2> SUFFICES ASSUME Inv, [HotelNext]_hotelVars PROVE Serial' /\ Agree' /\ CurrentInv'
    BY StepTypes DEF SerialInv
  <2>1. CASE HotelNext
    BY <2>1, ReceptionSerial, HousekeepingSerial, MaintenanceSerial DEF HotelNext
  <2>2. CASE UNCHANGED hotelVars
    BY <2>2 DEF hotelVars, rcpLocal, hkLocal, mntLocal, SerialInv, Serial, ClerksIdle, StaffIdle, CallersIdle,
                ClerkAlone, StaffAlone, CallerAlone, Agree, CurrentInv, Occupied
  <2> QED
    BY <2>1, <2>2
<1> QED
  BY <1>1, <1>2, PTL DEF HotelSpec

(* With requests one at a time the Rooms table tells the truth: no Clean   *)
(* room has a guest and every Occupied one has.                            *)
THEOREM RoomsAgree == Overlap <= 1 /\ HotelSpec => []RoomAgreesWithGuests
<1>1. SerialInv => RoomAgreesWithGuests
  BY DEF SerialInv, Agree, RoomAgreesWithGuests
<1> QED
  BY <1>1, SerialInvariance, PTL

(* Requests one at a time never meet in the window: what is proved of      *)
(* ApartSpec holds of them.                                                *)
THEOREM OneAtATimeIsApart == Overlap <= 1 /\ HotelSpec => ApartSpec
<1>1. SerialInv => ~Overtaken
  BY DEF SerialInv, Serial, ClerkAlone, StaffAlone, CallerAlone, ClerksIdle, StaffIdle, CallersIdle,
         Overtaken, R!CheckInSave
<1>2. SerialInv /\ [HotelNext]_hotelVars => [HotelNext /\ ~Overtaken]_hotelVars
  BY <1>1
<1> QED
  BY <1>2, SerialInvariance, PTL DEF HotelSpec, ApartSpec
=============================================================================
