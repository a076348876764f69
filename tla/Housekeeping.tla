---------------------------- MODULE Housekeeping ----------------------------
(* The Housekeeping service: the staff endpoints that start and complete a *)
(* cleaning task or mark a room dirty, the room.vacated subscriber and the *)
(* reconciliation loop.  Each stops at every database access.              *)
EXTENDS HotelDb, FiniteSets

CONSTANTS Rooms,
          NoRoom,
          MaxTasks,     \* bound: task rows that matter at the same time
          MaxMessages,  \* bound: room.vacated messages in flight per room
          Staff,        \* bound: staff requests served at the same time
          Faults        \* whether saves may fail and the process restart

ASSUME HousekeepingAssumption ==
  /\ NoRoom \notin Rooms
  /\ MaxTasks \in Nat /\ MaxMessages \in Nat
  /\ Faults \in BOOLEAN

VARIABLES rooms,     \* Rooms.Status
          occupied,  \* the rooms with a checked-in guest (Guests table)
          tasks,     \* HousekeepingTasks: Status and RoomNumber
          hk,        \* the staff requests in flight
          vacated,   \* room.vacated messages not yet delivered, by room
          listener,  \* subscriber callbacks about to insert, by room
          rec        \* the reconciliation loop

hkVars == <<rooms, occupied, tasks, hk, vacated, listener, rec>>

-----------------------------------------------------------------------------
TaskIds == 1..MaxTasks

Open(i) == tasks[i].status \in {"Pending", "In Progress"}
HasOpenTask(r) == \E i \in TaskIds : Open(i) /\ tasks[i].room = r

HkIdle == [pc |-> "idle", task |-> 0, room |-> NoRoom, seen |-> "Clean", to |-> "Clean"]

HkRequests == [pc    : {"idle", "stRoom", "stSave", "coRoom", "coGuest", "coSave",
                        "diTask", "diSave", "diInsert"},
               task  : TaskIds \cup {0},
               room  : Rooms \cup {NoRoom},
               seen  : RoomStatus,
               to    : RoomStatus]

RecIdle == [todo |-> {}, at |-> NoRoom]

HkInit ==
  /\ rooms = [r \in Rooms |-> "Clean"]
  /\ occupied = {}
  /\ tasks = [i \in TaskIds |-> [status |-> "Absent", room |-> NoRoom]]
  /\ hk = [h \in Staff |-> HkIdle]
  /\ vacated = [r \in Rooms |-> 0]
  /\ listener = [r \in Rooms |-> 0]
  /\ rec = RecIdle

(* A new row.  A Finished row no request in flight refers to is never      *)
(* looked at again, so the model may use its place.                        *)
Unused(i) == \/ tasks[i].status = "Absent"
             \/ tasks[i].status = "Finished" /\ \A h \in Staff : hk[h].task # i

NewTask(r) == \E i \in TaskIds :
                /\ IsFirst(i, {j \in TaskIds : Unused(j)})
                /\ tasks' = [tasks EXCEPT ![i] = [status |-> "Pending", room |-> r]]

-----------------------------------------------------------------------------
(* Start cleaning: the task must be Pending when it is read.               *)
StartTask(h, i) ==
  /\ hk[h].pc = "idle"
  /\ tasks[i].status = "Pending"
  /\ hk' = [hk EXCEPT ![h].pc = "stRoom", ![h].task = i, ![h].room = tasks[i].room]
  /\ UNCHANGED <<rooms, occupied, tasks, vacated, listener, rec>>

StartRoom(h) ==
  /\ hk[h].pc = "stRoom"
  /\ hk' = [hk EXCEPT ![h].pc = "stSave", ![h].seen = rooms[hk[h].room]]
  /\ UNCHANGED <<rooms, occupied, tasks, vacated, listener, rec>>

StartSave(h) ==
  /\ hk[h].pc = "stSave"
  /\ tasks' = [tasks EXCEPT ![hk[h].task].status = "In Progress"]
  /\ rooms' = [rooms EXCEPT ![hk[h].room] = Saved(hk[h].seen, "Being Cleaned", @)]
  /\ hk' = [hk EXCEPT ![h] = HkIdle]
  /\ UNCHANGED <<occupied, vacated, listener, rec>>

(* Complete cleaning: the room becomes Occupied if a guest is checked in.  *)
CompleteTask(h, i) ==
  /\ hk[h].pc = "idle"
  /\ tasks[i].status = "In Progress"
  /\ hk' = [hk EXCEPT ![h].pc = "coRoom", ![h].task = i, ![h].room = tasks[i].room]
  /\ UNCHANGED <<rooms, occupied, tasks, vacated, listener, rec>>

CompleteRoom(h) ==
  /\ hk[h].pc = "coRoom"
  /\ hk' = [hk EXCEPT ![h].pc = "coGuest", ![h].seen = rooms[hk[h].room]]
  /\ UNCHANGED <<rooms, occupied, tasks, vacated, listener, rec>>

(* Mutant: the guest is not looked for.                                    *)
CleanedStatus_Always(guestFound) == "Clean"

CleanedStatus(guestFound) == IF guestFound THEN "Occupied" ELSE "Clean"

CompleteGuest(h) ==
  /\ hk[h].pc = "coGuest"
  /\ hk' = [hk EXCEPT ![h].pc = "coSave", ![h].to = CleanedStatus(hk[h].room \in occupied)]
  /\ UNCHANGED <<rooms, occupied, tasks, vacated, listener, rec>>

(* Mutant: only the task is updated.                                       *)
CompleteSave_TaskOnly(h) ==
  /\ hk[h].pc = "coSave"
  /\ tasks' = [tasks EXCEPT ![hk[h].task].status = "Finished"]
  /\ hk' = [hk EXCEPT ![h] = HkIdle]
  /\ UNCHANGED <<rooms, occupied, vacated, listener, rec>>

CompleteSave(h) ==
  /\ hk[h].pc = "coSave"
  /\ tasks' = [tasks EXCEPT ![hk[h].task].status = "Finished"]
  /\ rooms' = [rooms EXCEPT ![hk[h].room] = Saved(hk[h].seen, hk[h].to, @)]
  /\ hk' = [hk EXCEPT ![h] = HkIdle]
  /\ UNCHANGED <<occupied, vacated, listener, rec>>

(* Mark a room dirty, with a task unless it has an open one.               *)
DirtyRoom(h, r) ==
  /\ hk[h].pc = "idle"
  /\ hk' = [hk EXCEPT ![h].pc = "diTask", ![h].room = r, ![h].seen = rooms[r]]
  /\ UNCHANGED <<rooms, occupied, tasks, vacated, listener, rec>>

DirtyTask(h) ==
  /\ hk[h].pc = "diTask"
  /\ hk' = [hk EXCEPT ![h].pc = IF HasOpenTask(hk[h].room) THEN "diSave" ELSE "diInsert"]
  /\ UNCHANGED <<rooms, occupied, tasks, vacated, listener, rec>>

DirtySave(h) ==
  /\ hk[h].pc \in {"diSave", "diInsert"}
  /\ IF hk[h].pc = "diInsert" THEN NewTask(hk[h].room) ELSE UNCHANGED tasks
  /\ rooms' = [rooms EXCEPT ![hk[h].room] = Saved(hk[h].seen, "Dirty", @)]
  /\ hk' = [hk EXCEPT ![h] = HkIdle]
  /\ UNCHANGED <<occupied, vacated, listener, rec>>

HkSaveFails(h) ==
  /\ Faults
  /\ hk[h].pc \in {"stSave", "coSave", "diSave", "diInsert"}
  /\ hk' = [hk EXCEPT ![h] = HkIdle]
  /\ UNCHANGED <<rooms, occupied, tasks, vacated, listener, rec>>

HkProceed(h) ==
  \/ StartRoom(h) \/ StartSave(h)
  \/ CompleteRoom(h) \/ CompleteGuest(h) \/ CompleteSave(h)
  \/ DirtyTask(h) \/ DirtySave(h)

HkArrive(h) == \/ \E i \in TaskIds : StartTask(h, i) \/ CompleteTask(h, i)
               \/ \E r \in Rooms : DirtyRoom(h, r)

-----------------------------------------------------------------------------
(* The subscriber's callback checks for an open task, then inserts one.    *)
(* Callbacks are async void: several may be between the two.               *)
Vacated(r) ==
  /\ vacated[r] > 0
  /\ vacated' = [vacated EXCEPT ![r] = @ - 1]
  /\ listener' = IF HasOpenTask(r) THEN listener ELSE [listener EXCEPT ![r] = @ + 1]
  /\ UNCHANGED <<rooms, occupied, tasks, hk, rec>>

VacatedInsert(r) ==
  /\ listener[r] > 0
  /\ NewTask(r)
  /\ listener' = [listener EXCEPT ![r] = @ - 1]
  /\ UNCHANGED <<rooms, occupied, hk, vacated, rec>>

VacatedFails(r) ==
  /\ Faults
  /\ listener[r] > 0
  /\ listener' = [listener EXCEPT ![r] = @ - 1]
  /\ UNCHANGED <<rooms, occupied, tasks, hk, vacated, rec>>

(* The reconciliation loop, every two seconds: read the Dirty rooms, then  *)
(* for each of them check for an open task and insert one if there is none.*)
RecRead ==
  /\ rec = RecIdle
  /\ \E r \in Rooms : rooms[r] = "Dirty"
  /\ rec' = [rec EXCEPT !.todo = {r \in Rooms : rooms[r] = "Dirty"}]
  /\ UNCHANGED <<rooms, occupied, tasks, hk, vacated, listener>>

(* Mutant: a Finished task counts as an existing one.                      *)
RecCheck_AnyTask(r) ==
  /\ rec.at = NoRoom
  /\ r \in rec.todo
  /\ rec' = [todo |-> rec.todo \ {r},
             at |-> IF \E i \in TaskIds : tasks[i].room = r THEN NoRoom ELSE r]
  /\ UNCHANGED <<rooms, occupied, tasks, hk, vacated, listener>>

RecCheck(r) ==
  /\ rec.at = NoRoom
  /\ r \in rec.todo
  /\ rec' = [todo |-> rec.todo \ {r}, at |-> IF HasOpenTask(r) THEN NoRoom ELSE r]
  /\ UNCHANGED <<rooms, occupied, tasks, hk, vacated, listener>>

RecInsert ==
  /\ rec.at # NoRoom
  /\ NewTask(rec.at)
  /\ rec' = [rec EXCEPT !.at = NoRoom]
  /\ UNCHANGED <<rooms, occupied, hk, vacated, listener>>

(* An exception ends the pass; the loop logs it and starts the next one.   *)
RecFails ==
  /\ Faults
  /\ rec.at # NoRoom
  /\ rec' = RecIdle
  /\ UNCHANGED <<rooms, occupied, tasks, hk, vacated, listener>>

(* The process restarts: what it held in memory and the messages that were *)
(* on the way to it are gone, Redis keeps none for an absent subscriber.   *)
HkRestart ==
  /\ Faults
  /\ hk' = [h \in Staff |-> HkIdle]
  /\ vacated' = [r \in Rooms |-> 0]
  /\ listener' = [r \in Rooms |-> 0]
  /\ rec' = RecIdle
  /\ UNCHANGED <<rooms, occupied, tasks>>

HkBackground ==
  \/ \E r \in Rooms : Vacated(r) \/ VacatedInsert(r) \/ VacatedFails(r)
  \/ RecRead \/ RecInsert \/ RecFails
  \/ \E r \in Rooms : RecCheck(r)

HkStep(h) == HkArrive(h) \/ HkProceed(h) \/ HkSaveFails(h)

-----------------------------------------------------------------------------
(* The other services.  Reception lets a Clean room, and on check-out the  *)
(* room is Dirty and room.vacated is published: it arrives or is lost.     *)
CheckIn(r) ==
  /\ rooms[r] = "Clean"
  /\ rooms' = [rooms EXCEPT ![r] = "Occupied"]
  /\ occupied' = occupied \cup {r}
  /\ UNCHANGED <<tasks, hk, vacated, listener, rec>>

CheckOut(r) ==
  /\ r \in occupied
  /\ occupied' = occupied \ {r}
  /\ rooms' = [rooms EXCEPT ![r] = "Dirty"]
  /\ \/ UNCHANGED vacated
     \/ /\ vacated[r] + listener[r] < MaxMessages
        /\ vacated' = [vacated EXCEPT ![r] = @ + 1]
  /\ UNCHANGED <<tasks, hk, listener, rec>>

(* Maintenance locks a room and gives it back.                             *)
Lock(r) ==
  /\ rooms[r] # "Maintenance"
  /\ rooms' = [rooms EXCEPT ![r] = "Maintenance"]
  /\ UNCHANGED <<occupied, tasks, hk, vacated, listener, rec>>

Unlock(r) ==
  /\ rooms[r] = "Maintenance"
  /\ rooms' = [rooms EXCEPT ![r] = IF r \in occupied THEN "Occupied" ELSE "Dirty"]
  /\ UNCHANGED <<occupied, tasks, hk, vacated, listener, rec>>

HkEnvironment == \E r \in Rooms : CheckIn(r) \/ CheckOut(r) \/ Lock(r) \/ Unlock(r)

HkNext == (\E h \in Staff : HkStep(h)) \/ HkBackground \/ HkRestart \/ HkEnvironment

HkSafe == HkInit /\ [][HkNext]_hkVars

(* The loop runs for as long as the process does.  Strong fairness where a *)
(* failed save or a restart may take the step away: they do not for ever.  *)
LoopFairness ==
  /\ WF_hkVars(RecRead)
  /\ \A r \in Rooms : SF_hkVars(RecCheck(r)) /\ SF_hkVars(rec.at = r /\ RecInsert)

(* The staff: requests go on, tasks that wait are started, tasks in        *)
(* progress completed, and failures do not prevent that for ever.          *)
StaffFairness ==
  /\ \A h \in Staff : /\ WF_hkVars(HkProceed(h))
                      /\ SF_hkVars(StartRoom(h)) /\ SF_hkVars(StartSave(h))
                      /\ SF_hkVars(CompleteRoom(h)) /\ SF_hkVars(CompleteGuest(h))
                      /\ SF_hkVars(CompleteSave(h))
  /\ SF_hkVars(\E h \in Staff, i \in TaskIds : StartTask(h, i))
  /\ SF_hkVars(\E h \in Staff, i \in TaskIds : CompleteTask(h, i))

HkSpec == HkSafe /\ LoopFairness /\ StaffFairness

-----------------------------------------------------------------------------
HkTypeOK ==
  /\ rooms \in [Rooms -> RoomStatus]
  /\ occupied \in SUBSET Rooms
  /\ tasks \in [TaskIds -> [status : TaskStatus, room : Rooms \cup {NoRoom}]]
  /\ hk \in [Staff -> HkRequests]
  /\ vacated \in [Rooms -> 0..MaxMessages]
  /\ listener \in [Rooms -> 0..MaxMessages]
  /\ rec \in [todo : SUBSET Rooms, at : Rooms \cup {NoRoom}]

(* What Reception relies on: a Clean room has no guest.                    *)
CleanRoomsVacant == \A r \in Rooms : rooms[r] = "Clean" => r \notin occupied

(* The reconciliation loop: a room that stays Dirty gets an open task even *)
(* if its room.vacated message is lost, a save fails or the process dies.  *)
DirtyGetsTask ==
  \A r \in Rooms : rooms[r] = "Dirty" ~> (rooms[r] # "Dirty" \/ HasOpenTask(r))

(* With staff at work, a dirty room returns to service or is locked.       *)
DirtyIsCleaned ==
  \A r \in Rooms : rooms[r] = "Dirty" ~> rooms[r] \in {"Clean", "Occupied", "Maintenance"}

(* A room Being Cleaned has a task in progress, so that it can be completed.*)
BeingCleanedHasTask ==
  \A r \in Rooms : rooms[r] = "Being Cleaned" =>
    \E i \in TaskIds : tasks[i].status = "In Progress" /\ tasks[i].room = r

(* A room is queued for cleaning once: it has at most one open task.       *)
OneOpenTask ==
  \A i, j \in TaskIds : (Open(i) /\ Open(j) /\ tasks[i].room = tasks[j].room) => i = j

(* A task moves Pending, In Progress, Finished: a Finished one is never    *)
(* started again.                                                          *)
FinishedStaysFinished ==
  [][\A i \in TaskIds : tasks[i].status = "Finished" => tasks'[i].status # "In Progress"]_hkVars
=============================================================================
