------------------------- MODULE HousekeepingProofs -------------------------
(* Housekeeping, for any rooms, tasks, messages and number of staff.  Its   *)
(* types hold whatever the staff do, the rest as long as no two requests    *)
(* are about the same room at the same time.                                *)
EXTENDS Housekeeping, TLAPS

(* What the endpoints do not see to: requests about one room do not overlap. *)
Apart == \A g, h \in Staff :
           hk[g].pc # "idle" /\ hk[h].pc # "idle" /\ hk[g].room = hk[h].room => g = h

(* The staff make one request at a time.                                   *)
OneAtATime == \E h : Staff = {h}

TasksInv == \A i \in TaskIds : tasks[i].status # "Absent" => tasks[i].room \in Rooms

MessagesInv == \A r \in Rooms : vacated[r] + listener[r] <= MaxMessages

(* A request is about the room of its task.                                *)
RequestInv ==
  \A h \in Staff :
    /\ hk[h].pc # "idle" => hk[h].room \in Rooms
    /\ hk[h].pc \in {"stRoom", "stSave", "coRoom", "coGuest", "coSave"} =>
         /\ hk[h].task \in TaskIds
         /\ tasks[hk[h].task].room = hk[h].room /\ tasks[hk[h].task].status # "Absent"

(* What a completion has read: nobody else makes the room Clean or starts  *)
(* to clean it, and a guest can only have come to a room that was Clean.   *)
CompletionInv ==
  \A h \in Staff : hk[h].pc \in {"coGuest", "coSave"} =>
    /\ rooms[hk[h].room] \in {"Clean", "Being Cleaned"} => hk[h].seen = rooms[hk[h].room]
    /\ hk[h].pc = "coSave" => hk[h].to \in {"Clean", "Occupied"}
    /\ hk[h].pc = "coSave" /\ hk[h].to = "Clean" => hk[h].seen = "Clean" \/ hk[h].room \notin occupied

(* What holds however many requests the staff make at the same time.       *)
HkTypesInv == HkTypeOK /\ TasksInv /\ MessagesInv /\ RequestInv

HkInv == HkTypesInv /\ CompletionInv /\ CleanRoomsVacant /\ BeingCleanedHasTask

-----------------------------------------------------------------------------
(* What the module assumes of its constants.                               *)
LEMMA Constants == MaxTasks \in Nat /\ MaxMessages \in Nat /\ NoRoom \notin Rooms
  BY HousekeepingAssumption

(* A member of the staff without a request.                                *)
LEMMA IdleIsRequest == HkIdle \in HkRequests /\ HkIdle.pc = "idle" /\ HkIdle.task = 0
  BY DEF HkIdle, HkRequests, RoomStatus

(* At start-up every room is Clean, there are no tasks, messages, requests. *)
LEMMA InitTypes == HkInit => HkTypesInv
<1> SUFFICES ASSUME HkInit PROVE HkTypesInv
  OBVIOUS
<1> USE Constants, IdleIsRequest DEF HkInit
<1>1. HkTypeOK
  <2>1. rooms \in [Rooms -> RoomStatus] /\ occupied \in SUBSET Rooms
    BY DEF RoomStatus
  <2>2. tasks \in [TaskIds -> [status : TaskStatus, room : Rooms \cup {NoRoom}]]
    BY DEF TaskStatus
  <2>3. hk \in [Staff -> HkRequests]
    OBVIOUS
  <2>4. vacated \in [Rooms -> 0..MaxMessages] /\ listener \in [Rooms -> 0..MaxMessages]
    OBVIOUS
  <2>5. rec \in [todo : SUBSET Rooms, at : Rooms \cup {NoRoom}]
    BY DEF RecIdle
  <2> QED
    BY <2>1, <2>2, <2>3, <2>4, <2>5 DEF HkTypeOK
<1>2. TasksInv /\ MessagesInv /\ RequestInv
  BY DEF TasksInv, MessagesInv, RequestInv
<1> QED
  BY <1>1, <1>2 DEF HkTypesInv

(* A new row leaves the tasks in progress and those of requests alone.     *)
LEMMA NewTaskKeeps ==
  ASSUME HkTypesInv, NEW r \in Rooms, NewTask(r)
  PROVE  /\ tasks' \in [TaskIds -> [status : TaskStatus, room : Rooms \cup {NoRoom}]]
         /\ TasksInv'
         /\ \A i \in TaskIds : tasks[i].status = "In Progress" => tasks'[i] = tasks[i]
         /\ \A h \in Staff : hk[h].task \in TaskIds /\ tasks[hk[h].task].status # "Absent"
              => tasks'[hk[h].task] = tasks[hk[h].task]
<1>1. PICK i \in TaskIds : Unused(i) /\ tasks' = [tasks EXCEPT ![i] = [status |-> "Pending", room |-> r]]
  BY DEF NewTask, IsFirst
<1> QED
  BY <1>1 DEF HkTypesInv, HkTypeOK, TasksInv, Unused, TaskStatus

(* A task whose status is set keeps its room.                              *)
LEMMA StatusSet ==
  ASSUME HkTypesInv, NEW i \in TaskIds, tasks[i].status # "Absent",
         NEW s \in TaskStatus \ {"Absent"}, tasks' = [tasks EXCEPT ![i].status = s]
  PROVE  /\ tasks' \in [TaskIds -> [status : TaskStatus, room : Rooms \cup {NoRoom}]]
         /\ tasks'[i].status = s /\ tasks'[i].room = tasks[i].room
         /\ \A j \in TaskIds : j # i => tasks'[j] = tasks[j]
         /\ TasksInv'
<1> DEFINE n == [tasks[i] EXCEPT !.status = s]
<1>1. /\ tasks \in [TaskIds -> [status : TaskStatus, room : Rooms \cup {NoRoom}]]
      /\ tasks[i].room \in Rooms
  BY DEF HkTypesInv, HkTypeOK, TasksInv
<1>2. n \in [status : TaskStatus, room : Rooms] /\ n.status = s /\ n.room = tasks[i].room
  BY <1>1
<1>3. tasks' = [tasks EXCEPT ![i] = n]
  BY <1>1
<1> HIDE DEF n
<1>4. \A j \in TaskIds : tasks'[j] = IF j = i THEN n ELSE tasks[j]
  BY <1>1, <1>3
<1> QED
  BY <1>1, <1>2, <1>3, <1>4 DEF TasksInv, HkTypesInv

(* A step of the others: they leave the requests and their tasks alone.    *)
LEMMA OthersTypes ==
  ASSUME HkTypesInv, UNCHANGED hk, HkTypeOK', TasksInv', MessagesInv',
         \A h \in Staff : hk[h].task \in TaskIds /\ tasks[hk[h].task].status # "Absent"
           => tasks'[hk[h].task] = tasks[hk[h].task]
  PROVE  HkTypesInv'
  BY DEF HkTypesInv, RequestInv

(* Rooms are let, vacated and locked; a check-out may publish.             *)
LEMMA RoomsTypes ==
  ASSUME HkTypesInv, UNCHANGED <<hk, tasks, listener, rec>>,
         rooms' \in [Rooms -> RoomStatus], occupied' \in SUBSET Rooms,
         \/ vacated' = vacated
         \/ \E r \in Rooms : /\ vacated[r] + listener[r] < MaxMessages
                            /\ vacated' = [vacated EXCEPT ![r] = @ + 1]
  PROVE  HkTypesInv'
<1>1. MessagesInv' /\ vacated' \in [Rooms -> 0..MaxMessages]
  BY Constants DEF HkTypesInv, HkTypeOK, MessagesInv
<1>2. HkTypeOK' /\ TasksInv'
  BY <1>1 DEF HkTypesInv, HkTypeOK, TasksInv
<1> QED
  BY <1>1, <1>2, OthersTypes

(* Steps of the other services keep the types.                             *)
LEMMA EnvironmentTypes ==
  ASSUME HkTypesInv, NEW r \in Rooms, CheckIn(r) \/ CheckOut(r) \/ Lock(r) \/ Unlock(r)
  PROVE  HkTypesInv'
<1>1. /\ UNCHANGED <<hk, tasks, listener, rec>>
      /\ \E s \in {"Occupied", "Dirty", "Maintenance"} : rooms' = [rooms EXCEPT ![r] = s]
      /\ occupied' \in {occupied \cup {r}, occupied \ {r}, occupied}
      /\ \/ vacated' = vacated
         \/ vacated[r] + listener[r] < MaxMessages /\ vacated' = [vacated EXCEPT ![r] = @ + 1]
  BY DEF CheckIn, CheckOut, Lock, Unlock
<1>2. PICK s \in {"Occupied", "Dirty", "Maintenance"} : rooms' = [rooms EXCEPT ![r] = s]
  BY <1>1
<1>3. rooms' \in [Rooms -> RoomStatus]
  BY <1>2 DEF HkTypesInv, HkTypeOK, RoomStatus
<1>4. occupied' \in SUBSET Rooms
  BY <1>1 DEF HkTypesInv, HkTypeOK
<1> QED
  BY <1>1, <1>3, <1>4, RoomsTypes

(* The subscriber and the loop only insert tasks.                          *)
LEMMA BackgroundTypes ==
  ASSUME HkTypesInv, HkBackground
  PROVE  /\ HkTypesInv' /\ UNCHANGED <<rooms, occupied, hk>>
         /\ \A i \in TaskIds : tasks[i].status = "In Progress" => tasks'[i] = tasks[i]
         /\ \A h \in Staff : hk[h].task \in TaskIds /\ tasks[hk[h].task].status # "Absent"
              => tasks'[hk[h].task] = tasks[hk[h].task]
<1> DEFINE Goal ==
      /\ HkTypesInv' /\ UNCHANGED <<rooms, occupied, hk>>
      /\ \A i \in TaskIds : tasks[i].status = "In Progress" => tasks'[i] = tasks[i]
      /\ \A h \in Staff : hk[h].task \in TaskIds /\ tasks[hk[h].task].status # "Absent"
           => tasks'[hk[h].task] = tasks[hk[h].task]
<1>0. HkTypeOK /\ TasksInv /\ MessagesInv
  BY DEF HkTypesInv
<1>1. ASSUME UNCHANGED <<rooms, occupied, tasks, hk>>, HkTypeOK', MessagesInv' PROVE Goal
  <2>1. TasksInv'
    BY <1>0, <1>1 DEF TasksInv
  <2> QED
    BY <1>1, <2>1, OthersTypes
<1>2. ASSUME UNCHANGED <<rooms, occupied, hk>>, NEW r \in Rooms, NewTask(r), MessagesInv',
             vacated' \in [Rooms -> 0..MaxMessages], listener' \in [Rooms -> 0..MaxMessages],
             rec' \in [todo : SUBSET Rooms, at : Rooms \cup {NoRoom}]
      PROVE  Goal
  <2>1. HkTypeOK'
    BY <1>0, <1>2, NewTaskKeeps DEF HkTypeOK
  <2> QED
    BY <1>2, <2>1, NewTaskKeeps, OthersTypes
<1> HIDE DEF Goal
<1> USE Constants DEF HkTypeOK
<1>3. ASSUME NEW r \in Rooms, Vacated(r) PROVE Goal
  <2>1. /\ vacated[r] > 0 /\ vacated' = [vacated EXCEPT ![r] = @ - 1]
        /\ listener' \in {listener, [listener EXCEPT ![r] = @ + 1]}
        /\ UNCHANGED <<rooms, occupied, tasks, hk, rec>>
    BY <1>3 DEF Vacated
  <2>2. MessagesInv'
    BY <1>0, <2>1 DEF MessagesInv
  <2>3. vacated[r] \in Nat /\ listener[r] \in Nat /\ vacated[r] + listener[r] <= MaxMessages
    BY <1>0 DEF MessagesInv
  <2>4. vacated[r] - 1 \in 0..MaxMessages /\ listener[r] + 1 \in 0..MaxMessages
    BY <2>1, <2>3
  <2>5. HkTypeOK'
    BY <1>0, <2>1, <2>4
  <2> QED
    BY <1>1, <2>1, <2>2, <2>5
<1>4. ASSUME NEW r \in Rooms, VacatedInsert(r) \/ VacatedFails(r) PROVE Goal
  <2>1. /\ listener[r] > 0 /\ listener' = [listener EXCEPT ![r] = @ - 1]
        /\ UNCHANGED <<rooms, occupied, hk, vacated, rec>> /\ (NewTask(r) \/ UNCHANGED tasks)
    <3>1. CASE VacatedInsert(r)
      BY <3>1 DEF VacatedInsert
    <3>2. CASE VacatedFails(r)
      BY <3>2 DEF VacatedFails
    <3> QED
      BY <1>4, <3>1, <3>2
  <2>2. MessagesInv' /\ listener' \in [Rooms -> 0..MaxMessages]
    BY <1>0, <2>1 DEF MessagesInv
  <2>3. CASE NewTask(r)
    BY <1>0, <1>2, <2>1, <2>2, <2>3
  <2>4. CASE UNCHANGED tasks
    BY <1>0, <1>1, <2>1, <2>2, <2>4
  <2> QED
    BY <2>1, <2>3, <2>4
<1>5. ASSUME RecInsert PROVE Goal
  <2>1. /\ rec.at \in Rooms /\ NewTask(rec.at) /\ UNCHANGED <<rooms, occupied, hk, vacated, listener>>
        /\ rec' \in [todo : SUBSET Rooms, at : Rooms \cup {NoRoom}]
    BY <1>0, <1>5 DEF RecInsert
  <2>2. MessagesInv'
    BY <1>0, <2>1 DEF MessagesInv
  <2> QED
    BY <1>0, <1>2, <2>1, <2>2
<1>6. ASSUME RecRead \/ RecFails \/ \E r \in Rooms : RecCheck(r) PROVE Goal
  <2>1. UNCHANGED <<rooms, occupied, tasks, hk, vacated, listener>>
    BY <1>6 DEF RecRead, RecFails, RecCheck
  <2>2. rec' \in [todo : SUBSET Rooms, at : Rooms \cup {NoRoom}]
    BY <1>0, <1>6 DEF RecRead, RecFails, RecCheck, RecIdle
  <2>3. HkTypeOK' /\ MessagesInv'
    BY <1>0, <2>1, <2>2 DEF MessagesInv
  <2> QED
    BY <1>1, <2>1, <2>3
<1> QED
  BY <1>3, <1>4, <1>5, <1>6 DEF HkBackground, Goal

-----------------------------------------------------------------------------
(* A request that reads on, or ends with nothing done.                     *)
LEMMA ReadOnTypes ==
  ASSUME HkTypesInv, NEW h \in Staff, NEW q \in HkRequests,
         hk' = [hk EXCEPT ![h] = q],
         UNCHANGED <<rooms, occupied, tasks, vacated, listener, rec>>,
         q.pc # "idle" => q.room \in Rooms,
         q.pc \in {"stRoom", "stSave", "coRoom", "coGuest", "coSave"} =>
           q.task \in TaskIds /\ tasks[q.task].room = q.room /\ tasks[q.task].status # "Absent"
  PROVE  HkTypesInv'
<1> USE DEF HkTypesInv, HkTypeOK
<1>1. HkTypeOK'
  OBVIOUS
<1>2. \A g \in Staff : hk'[g] = IF g = h THEN q ELSE hk[g]
  OBVIOUS
<1>3. RequestInv'
  BY <1>2 DEF RequestInv
<1> QED
  BY <1>1, <1>3 DEF TasksInv, MessagesInv

(* A request that saves ends; the tasks of other requests are still there. *)
LEMMA SaveTypes ==
  ASSUME HkTypesInv, NEW h \in Staff, hk' = [hk EXCEPT ![h] = HkIdle],
         UNCHANGED <<occupied, vacated, listener, rec>>, rooms' \in [Rooms -> RoomStatus],
         tasks' \in [TaskIds -> [status : TaskStatus, room : Rooms \cup {NoRoom}]], TasksInv',
         \A g \in Staff : hk[g].task \in TaskIds /\ tasks[hk[g].task].status # "Absent" =>
           tasks'[hk[g].task].room = tasks[hk[g].task].room /\ tasks'[hk[g].task].status # "Absent"
  PROVE  HkTypesInv'
<1> USE DEF HkTypesInv, HkTypeOK
<1>1. HkTypeOK'
  BY IdleIsRequest
<1>2. \A g \in Staff : hk'[g] = IF g = h THEN HkIdle ELSE hk[g]
  OBVIOUS
<1>3. RequestInv'
  BY <1>2, IdleIsRequest DEF RequestInv
<1> QED
  BY <1>1, <1>3 DEF MessagesInv

(* What the three saves of the staff write.                                *)
LEMMA Saves ==
  ASSUME HkTypesInv, NEW h \in Staff, StartSave(h) \/ CompleteSave(h) \/ DirtySave(h)
  PROVE  /\ hk' = [hk EXCEPT ![h] = HkIdle] /\ UNCHANGED <<occupied, vacated, listener, rec>>
         /\ hk[h].room \in Rooms
         /\ rooms' \in [Rooms -> RoomStatus]
         /\ \A r \in Rooms \ {hk[h].room} : rooms'[r] = rooms[r]
         /\ rooms'[hk[h].room] = Saved(hk[h].seen, CASE hk[h].pc = "stSave" -> "Being Cleaned"
                                                     [] hk[h].pc = "coSave" -> hk[h].to
                                                     [] OTHER -> "Dirty", rooms[hk[h].room])
<1> DEFINE set == CASE hk[h].pc = "stSave" -> "Being Cleaned"
                    [] hk[h].pc = "coSave" -> hk[h].to
                    [] OTHER -> "Dirty"
           s == Saved(hk[h].seen, set, rooms[hk[h].room])
<1>1. /\ hk' = [hk EXCEPT ![h] = HkIdle] /\ UNCHANGED <<occupied, vacated, listener, rec>>
      /\ hk[h].pc # "idle"
      /\ rooms' = [rooms EXCEPT ![hk[h].room] = s]
  BY DEF StartSave, CompleteSave, DirtySave
<1>2. hk[h].room \in Rooms
  BY <1>1 DEF HkTypesInv, RequestInv
<1>3. rooms \in [Rooms -> RoomStatus] /\ hk[h].to \in RoomStatus
  BY DEF HkTypesInv, HkTypeOK, HkRequests
<1>4. set \in RoomStatus
  BY <1>3 DEF RoomStatus
<1>5. s \in RoomStatus
  BY <1>2, <1>3, <1>4 DEF Saved
<1> HIDE DEF s
<1>6. /\ rooms' \in [Rooms -> RoomStatus] /\ rooms'[hk[h].room] = s
      /\ \A r \in Rooms \ {hk[h].room} : rooms'[r] = rooms[r]
  BY <1>1, <1>2, <1>3, <1>5
<1> QED
  BY <1>1, <1>2, <1>6 DEF s

(* Steps of the requests keep them.                                        *)
LEMMA StepOfStaffTypes ==
  ASSUME HkTypesInv, NEW h \in Staff, HkStep(h)
  PROVE  HkTypesInv'
<1> DEFINE c == hk[h]
<1>0. HkTypeOK /\ TasksInv /\ RequestInv
  BY DEF HkTypesInv
<1>c. /\ c \in [pc : {"idle", "stRoom", "stSave", "coRoom", "coGuest", "coSave", "diTask", "diSave", "diInsert"},
               task : TaskIds \cup {0}, room : Rooms \cup {NoRoom}, seen : RoomStatus, to : RoomStatus]
      /\ c.pc # "idle" => c.room \in Rooms
      /\ c.pc \in {"stRoom", "stSave", "coRoom", "coGuest", "coSave"} =>
           c.task \in TaskIds /\ tasks[c.task].room = c.room /\ tasks[c.task].status # "Absent"
  BY <1>0 DEF HkTypeOK, HkRequests, RequestInv
<1>r. rooms \in [Rooms -> RoomStatus]
  BY <1>0 DEF HkTypeOK
<1>1. ASSUME NEW i \in TaskIds, StartTask(h, i) \/ CompleteTask(h, i) PROVE HkTypesInv'
  <2> DEFINE q(pc) == [c EXCEPT !.pc = pc, !.task = i, !.room = tasks[i].room]
  <2>1. PICK pc \in {"stRoom", "coRoom"} : hk' = [hk EXCEPT ![h] = q(pc)]
    BY <1>1 DEF StartTask, CompleteTask
  <2>2. /\ tasks[i].status # "Absent"
        /\ UNCHANGED <<rooms, occupied, tasks, vacated, listener, rec>>
    BY <1>1 DEF StartTask, CompleteTask
  <2>3. tasks[i].room \in Rooms
    BY <1>0, <2>2 DEF TasksInv
  <2>4. q(pc) \in HkRequests /\ q(pc).pc = pc /\ q(pc).task = i /\ q(pc).room = tasks[i].room
    BY <1>c, <2>3 DEF HkRequests
  <2> HIDE DEF q
  <2> QED
    BY <2>1, <2>2, <2>3, <2>4, ReadOnTypes
<1>2. ASSUME NEW r \in Rooms, DirtyRoom(h, r) PROVE HkTypesInv'
  <2> DEFINE q == [c EXCEPT !.pc = "diTask", !.room = r, !.seen = rooms[r]]
  <2>1. q \in HkRequests /\ q.pc = "diTask" /\ q.room = r
    BY <1>c, <1>r DEF HkRequests
  <2>2. hk' = [hk EXCEPT ![h] = q] /\ UNCHANGED <<rooms, occupied, tasks, vacated, listener, rec>>
    BY <1>2 DEF DirtyRoom
  <2> HIDE DEF q
  <2> QED
    BY <2>1, <2>2, ReadOnTypes
<1>3. ASSUME StartRoom(h) \/ CompleteRoom(h) PROVE HkTypesInv'
  <2> DEFINE q(pc) == [c EXCEPT !.pc = pc, !.seen = rooms[c.room]]
  <2>1. PICK pc \in {"stSave", "coGuest"} :
          /\ c.pc \in {"stRoom", "coRoom"} /\ hk' = [hk EXCEPT ![h] = q(pc)]
          /\ UNCHANGED <<rooms, occupied, tasks, vacated, listener, rec>>
    BY <1>3 DEF StartRoom, CompleteRoom
  <2>2. q(pc) \in HkRequests /\ q(pc).pc = pc /\ q(pc).room = c.room /\ q(pc).task = c.task
    BY <1>c, <1>r, <2>1 DEF HkRequests
  <2> HIDE DEF q
  <2> QED
    BY <1>c, <2>1, <2>2, ReadOnTypes
<1>4. CASE CompleteGuest(h)
  <2> DEFINE q == [c EXCEPT !.pc = "coSave", !.to = CleanedStatus(c.room \in occupied)]
  <2>1. c.pc = "coGuest" /\ hk' = [hk EXCEPT ![h] = q]
        /\ UNCHANGED <<rooms, occupied, tasks, vacated, listener, rec>>
    BY <1>4 DEF CompleteGuest
  <2>2. q \in HkRequests /\ q.pc = "coSave" /\ q.room = c.room /\ q.task = c.task
    BY <1>c DEF HkRequests, CleanedStatus, RoomStatus
  <2> HIDE DEF q
  <2> QED
    BY <1>c, <2>1, <2>2, ReadOnTypes
<1>5. CASE DirtyTask(h)
  <2> DEFINE q == [c EXCEPT !.pc = IF HasOpenTask(c.room) THEN "diSave" ELSE "diInsert"]
  <2>1. c.pc = "diTask" /\ hk' = [hk EXCEPT ![h] = q]
        /\ UNCHANGED <<rooms, occupied, tasks, vacated, listener, rec>>
    BY <1>5 DEF DirtyTask
  <2>2. q \in HkRequests /\ q.pc \in {"diSave", "diInsert"} /\ q.room = c.room
    BY <1>c, <2>1 DEF HkRequests
  <2> HIDE DEF q
  <2> QED
    BY <1>c, <2>1, <2>2, ReadOnTypes
<1>6. CASE HkSaveFails(h)
  BY <1>6, IdleIsRequest, ReadOnTypes DEF HkSaveFails
<1>7. ASSUME StartSave(h) \/ CompleteSave(h) PROVE HkTypesInv'
  <2>1. PICK s \in {"In Progress", "Finished"} :
          /\ c.task \in TaskIds /\ tasks[c.task].status # "Absent"
          /\ tasks' = [tasks EXCEPT ![c.task].status = s]
    BY <1>7, <1>c DEF StartSave, CompleteSave
  <2>2. s \in TaskStatus \ {"Absent"}
    BY DEF TaskStatus
  <2>3. /\ tasks' \in [TaskIds -> [status : TaskStatus, room : Rooms \cup {NoRoom}]]
        /\ tasks'[c.task].status = s /\ tasks'[c.task].room = tasks[c.task].room
        /\ \A j \in TaskIds : j # c.task => tasks'[j] = tasks[j]
        /\ TasksInv'
    BY <2>1, <2>2, StatusSet
  <2>4. \A g \in Staff : hk[g].task \in TaskIds /\ tasks[hk[g].task].status # "Absent" =>
          tasks'[hk[g].task].room = tasks[hk[g].task].room /\ tasks'[hk[g].task].status # "Absent"
    BY <2>2, <2>3
  <2>5. /\ hk' = [hk EXCEPT ![h] = HkIdle] /\ UNCHANGED <<occupied, vacated, listener, rec>>
        /\ rooms' \in [Rooms -> RoomStatus]
    BY <1>7, Saves
  <2> QED
    BY <2>3, <2>4, <2>5, SaveTypes
<1>8. CASE DirtySave(h)
  <2>1. UNCHANGED tasks \/ NewTask(c.room)
    BY <1>8 DEF DirtySave
  <2>2. /\ hk' = [hk EXCEPT ![h] = HkIdle] /\ UNCHANGED <<occupied, vacated, listener, rec>>
        /\ rooms' \in [Rooms -> RoomStatus] /\ c.room \in Rooms
    BY <1>8, Saves
  <2>3. /\ tasks' \in [TaskIds -> [status : TaskStatus, room : Rooms \cup {NoRoom}]] /\ TasksInv'
        /\ \A g \in Staff : hk[g].task \in TaskIds /\ tasks[hk[g].task].status # "Absent"
             => tasks'[hk[g].task] = tasks[hk[g].task]
    BY <1>0, <2>1, <2>2, NewTaskKeeps DEF HkTypeOK, TasksInv
  <2> QED
    BY <2>2, <2>3, SaveTypes
<1> QED
  BY <1>1, <1>2, <1>3, <1>4, <1>5, <1>6, <1>7, <1>8 DEF HkStep, HkArrive, HkProceed

(* A restart keeps them.                                                   *)
LEMMA RestartTypes == ASSUME HkTypesInv, HkRestart PROVE HkTypesInv'
<1>1. /\ HkTypeOK /\ \A h \in Staff : hk'[h] = HkIdle
      /\ UNCHANGED <<rooms, occupied, tasks>>
  BY DEF HkTypesInv, HkRestart
<1>2. HkTypeOK' /\ MessagesInv'
  BY <1>1, Constants, IdleIsRequest DEF HkRestart, HkTypeOK, MessagesInv, RecIdle
<1> QED
  BY <1>1, <1>2, IdleIsRequest DEF HkTypesInv, TasksInv, RequestInv

(* No step of anybody breaks a type or separates a request from its task.  *)
LEMMA StepTypes == HkTypesInv /\ [HkNext]_hkVars => HkTypesInv'
<1> SUFFICES ASSUME HkTypesInv, [HkNext]_hkVars PROVE HkTypesInv'
  OBVIOUS
<1>1. CASE UNCHANGED hkVars
  BY <1>1 DEF hkVars, HkTypesInv, HkTypeOK, TasksInv, MessagesInv, RequestInv
<1> QED
  BY <1>1, StepOfStaffTypes, BackgroundTypes, RestartTypes, EnvironmentTypes
     DEF HkNext, HkEnvironment

-----------------------------------------------------------------------------
(* At first no request is under way.                                       *)
LEMMA InitInv == HkInit => HkInv
  BY InitTypes, IdleIsRequest
     DEF HkInit, HkInv, CompletionInv, CleanRoomsVacant, BeingCleanedHasTask

(* A step of the others: they leave the requests and the tasks in progress *)
(* alone, and neither clean a room nor let one that is not Clean.          *)
LEMMA OthersInv ==
  ASSUME HkInv, HkTypesInv', UNCHANGED hk,
         \A i \in TaskIds : tasks[i].status = "In Progress" => tasks'[i] = tasks[i],
         \A r \in Rooms : rooms'[r] \in {"Clean", "Being Cleaned"} => rooms'[r] = rooms[r],
         \A r \in Rooms : r \in occupied' => r \in occupied \/ (rooms[r] = "Clean" /\ rooms'[r] # "Clean")
  PROVE  HkInv'
<1> USE DEF HkInv
<1>1. CompletionInv'
  <2> SUFFICES ASSUME NEW h \in Staff, hk[h].pc \in {"coGuest", "coSave"}
               PROVE  /\ rooms'[hk[h].room] \in {"Clean", "Being Cleaned"} => hk[h].seen = rooms'[hk[h].room]
                      /\ hk[h].pc = "coSave" => hk[h].to \in {"Clean", "Occupied"}
                      /\ hk[h].pc = "coSave" /\ hk[h].to = "Clean" =>
                           hk[h].seen = "Clean" \/ hk[h].room \notin occupied'
    BY DEF CompletionInv
  <2> DEFINE r == hk[h].room
  <2>1. r \in Rooms
    BY DEF HkTypesInv, RequestInv
  <2>2. /\ rooms[r] \in {"Clean", "Being Cleaned"} => hk[h].seen = rooms[r]
        /\ hk[h].pc = "coSave" /\ hk[h].to = "Clean" => hk[h].seen = "Clean" \/ r \notin occupied
    BY DEF CompletionInv
  <2> HIDE DEF r
  <2>3. /\ rooms'[r] \in {"Clean", "Being Cleaned"} => rooms'[r] = rooms[r]
        /\ r \in occupied' => r \in occupied \/ rooms[r] = "Clean"
    BY <2>1
  <2>4. /\ rooms'[r] \in {"Clean", "Being Cleaned"} => hk[h].seen = rooms'[r]
        /\ hk[h].pc = "coSave" /\ hk[h].to = "Clean" => hk[h].seen = "Clean" \/ r \notin occupied'
    BY ONLY <2>2, <2>3
  <2> QED
    BY <2>4 DEF r, CompletionInv
<1>2. CleanRoomsVacant'
  BY DEF CleanRoomsVacant
<1>3. BeingCleanedHasTask'
  <2>1. ASSUME NEW r \in Rooms, rooms'[r] = "Being Cleaned"
        PROVE  \E i \in TaskIds : tasks'[i].status = "In Progress" /\ tasks'[i].room = r
    <3>1. PICK i \in TaskIds : tasks[i].status = "In Progress" /\ tasks[i].room = r
      BY <2>1 DEF BeingCleanedHasTask
    <3>3. tasks'[i] = tasks[i]
      BY <3>1
    <3> QED
      BY <3>1, <3>3
  <2> QED
    BY <2>1 DEF BeingCleanedHasTask
<1> QED
  BY <1>1, <1>2, <1>3

-----------------------------------------------------------------------------
(* Steps of the other services keep the invariant.                         *)
LEMMA EnvironmentInv ==
  ASSUME HkInv, HkTypesInv', NEW r \in Rooms, CheckIn(r) \/ CheckOut(r) \/ Lock(r) \/ Unlock(r)
  PROVE  HkInv'
<1>1. /\ UNCHANGED <<hk, tasks>>
      /\ \E s \in {"Occupied", "Dirty", "Maintenance"} : rooms' = [rooms EXCEPT ![r] = s]
      /\ \/ occupied' = occupied \cup {r} /\ rooms[r] = "Clean"
         \/ occupied' = occupied \ {r}
         \/ occupied' = occupied
  BY DEF CheckIn, CheckOut, Lock, Unlock
<1>2. PICK s \in {"Occupied", "Dirty", "Maintenance"} : rooms' = [rooms EXCEPT ![r] = s]
  BY <1>1
<1>3. \A q \in Rooms : rooms'[q] = IF q = r THEN s ELSE rooms[q]
  BY <1>2 DEF HkInv, HkTypesInv, HkTypeOK
<1>4. \A q \in Rooms : rooms'[q] \in {"Clean", "Being Cleaned"} => rooms'[q] = rooms[q]
  BY <1>3
<1>5. \A q \in Rooms : q \in occupied' => q \in occupied \/ (rooms[q] = "Clean" /\ rooms'[q] # "Clean")
  BY <1>1, <1>3
<1> QED
  BY <1>1, <1>4, <1>5, OthersInv

(* So do the subscriber and the loop,                                      *)
LEMMA BackgroundInv ==
  ASSUME HkInv, HkTypesInv', HkBackground
  PROVE  HkInv'
  BY BackgroundTypes, OthersInv DEF HkInv

(* A request that reads on, or ends with nothing done.                     *)
LEMMA ReadOnInv ==
  ASSUME HkInv, HkTypesInv', NEW h \in Staff, NEW q, hk' = [hk EXCEPT ![h] = q],
         UNCHANGED <<rooms, occupied, tasks>>,
         q.pc \in {"coGuest", "coSave"} =>
           /\ rooms[q.room] \in {"Clean", "Being Cleaned"} => q.seen = rooms[q.room]
           /\ q.pc = "coSave" => q.to \in {"Clean", "Occupied"}
           /\ q.pc = "coSave" /\ q.to = "Clean" => q.seen = "Clean" \/ q.room \notin occupied
  PROVE  HkInv'
<1>0. hk \in [Staff -> HkRequests] /\ CompletionInv
  BY DEF HkInv, HkTypesInv, HkTypeOK
<1>1. \A g \in Staff : hk'[g] = IF g = h THEN q ELSE hk[g]
  BY <1>0
<1>2. CompletionInv'
  <2> SUFFICES ASSUME NEW g \in Staff, hk'[g].pc \in {"coGuest", "coSave"}
               PROVE  LET c == hk'[g] IN
                        /\ rooms[c.room] \in {"Clean", "Being Cleaned"} => c.seen = rooms[c.room]
                        /\ c.pc = "coSave" => c.to \in {"Clean", "Occupied"}
                        /\ c.pc = "coSave" /\ c.to = "Clean" => c.seen = "Clean" \/ c.room \notin occupied
    BY DEF CompletionInv
  <2>1. CASE g = h
    BY <1>1, <2>1
  <2>2. CASE g # h
    BY <1>0, <1>1, <2>2 DEF CompletionInv
  <2> QED
    BY <2>1, <2>2
<1> QED
  BY <1>2 DEF HkInv, CleanRoomsVacant, BeingCleanedHasTask

(* A request that saves ends; the others are about other rooms.            *)
LEMMA SaveInv ==
  ASSUME HkInv, Apart, HkTypesInv', NEW h \in Staff,
         StartSave(h) \/ CompleteSave(h) \/ DirtySave(h),
         CleanRoomsVacant', BeingCleanedHasTask'
  PROVE  HkInv'
<1>0. HkTypesInv /\ CompletionInv
  BY DEF HkInv
<1>1. /\ hk' = [hk EXCEPT ![h] = HkIdle] /\ UNCHANGED occupied
      /\ \A r \in Rooms \ {hk[h].room} : rooms'[r] = rooms[r]
  BY <1>0, Saves
<1>2. hk[h].pc # "idle"
  BY DEF StartSave, CompleteSave, DirtySave
<1>3. \A g \in Staff : hk'[g] = IF g = h THEN HkIdle ELSE hk[g]
  BY <1>0, <1>1 DEF HkTypesInv, HkTypeOK
<1>4. ASSUME NEW g \in Staff, hk'[g].pc \in {"coGuest", "coSave"}
      PROVE  /\ rooms'[hk'[g].room] \in {"Clean", "Being Cleaned"} => hk'[g].seen = rooms'[hk'[g].room]
             /\ hk'[g].pc = "coSave" => hk'[g].to \in {"Clean", "Occupied"}
             /\ hk'[g].pc = "coSave" /\ hk'[g].to = "Clean" =>
                  hk'[g].seen = "Clean" \/ hk'[g].room \notin occupied'
  <2>1. g # h /\ hk'[g] = hk[g]
    BY <1>3, <1>4, IdleIsRequest
  <2>2. hk[g].room \in Rooms \ {hk[h].room}
    BY <1>0, <1>2, <1>4, <2>1 DEF Apart, HkTypesInv, RequestInv
  <2>3. rooms'[hk[g].room] = rooms[hk[g].room]
    BY <1>1, <2>2
  <2>4. hk[g].pc \in {"coGuest", "coSave"}
    BY <1>4, <2>1
  <2>5. /\ rooms[hk[g].room] \in {"Clean", "Being Cleaned"} => hk[g].seen = rooms[hk[g].room]
        /\ hk[g].pc = "coSave" => hk[g].to \in {"Clean", "Occupied"}
        /\ hk[g].pc = "coSave" /\ hk[g].to = "Clean" => hk[g].seen = "Clean" \/ hk[g].room \notin occupied
    BY <1>0, <2>4 DEF CompletionInv
  <2>6. hk'[g] = hk[g] /\ rooms'[hk[g].room] = rooms[hk[g].room] /\ occupied' = occupied
    BY <1>1, <2>1, <2>3
  <2> QED
    BY ONLY <2>5, <2>6
<1>5. CompletionInv'
  BY <1>4 DEF CompletionInv
<1> QED
  BY <1>5 DEF HkInv

(* A room being cleaned has its task while no task in progress is changed. *)
LEMMA CleaningKept ==
  ASSUME BeingCleanedHasTask, NEW r \in Rooms, rooms[r] = "Being Cleaned",
         \A i \in TaskIds : tasks[i].status = "In Progress" =>
           tasks'[i].status = "In Progress" /\ tasks'[i].room = tasks[i].room
  PROVE  \E i \in TaskIds : tasks'[i].status = "In Progress" /\ tasks'[i].room = r
<1>1. PICK i \in TaskIds : tasks[i].status = "In Progress" /\ tasks[i].room = r
  BY DEF BeingCleanedHasTask
<1> QED
  BY <1>1

(* and the requests of the staff, of which no other is about the room.     *)
LEMMA StepOfStaffInv ==
  ASSUME HkInv, Apart, HkTypesInv', NEW h \in Staff, HkStep(h)
  PROVE  HkInv'
<1> DEFINE c == hk[h]
<1>0. HkTypesInv /\ CompletionInv /\ CleanRoomsVacant /\ BeingCleanedHasTask
  BY DEF HkInv
<1>c. /\ c \in [pc : {"idle", "stRoom", "stSave", "coRoom", "coGuest", "coSave", "diTask", "diSave", "diInsert"},
               task : TaskIds \cup {0}, room : Rooms \cup {NoRoom}, seen : RoomStatus, to : RoomStatus]
      /\ c.pc # "idle" => c.room \in Rooms
      /\ c.pc \in {"stRoom", "stSave", "coRoom", "coGuest", "coSave"} =>
           c.task \in TaskIds /\ tasks[c.task].room = c.room /\ tasks[c.task].status # "Absent"
      /\ c.pc \in {"coGuest", "coSave"} =>
           /\ rooms[c.room] \in {"Clean", "Being Cleaned"} => c.seen = rooms[c.room]
           /\ c.pc = "coSave" => c.to \in {"Clean", "Occupied"}
           /\ c.pc = "coSave" /\ c.to = "Clean" => c.seen = "Clean" \/ c.room \notin occupied
  BY <1>0 DEF HkTypesInv, HkTypeOK, HkRequests, RequestInv, CompletionInv
<1>1. ASSUME HkArrive(h) \/ StartRoom(h) \/ DirtyTask(h) \/ HkSaveFails(h) PROVE HkInv'
  <2> DEFINE Moves(q) == hk' = [hk EXCEPT ![h] = q] /\ q.pc \notin {"coGuest", "coSave"}
  <2>1. ASSUME NEW i \in TaskIds, StartTask(h, i) \/ CompleteTask(h, i) PROVE \E q : Moves(q)
    <3>1. PICK pc \in {"stRoom", "coRoom"} :
            hk' = [hk EXCEPT ![h] = [c EXCEPT !.pc = pc, !.task = i, !.room = tasks[i].room]]
      BY <2>1 DEF StartTask, CompleteTask
    <3>2. Moves([c EXCEPT !.pc = pc, !.task = i, !.room = tasks[i].room])
      BY <1>c, <3>1
    <3> QED
      BY <3>2
  <2>2. ASSUME NEW r \in Rooms, DirtyRoom(h, r) PROVE \E q : Moves(q)
    <3>1. Moves([c EXCEPT !.pc = "diTask", !.room = r, !.seen = rooms[r]])
      BY <1>c, <2>2 DEF DirtyRoom
    <3> QED
      BY <3>1
  <2>3. ASSUME StartRoom(h) PROVE \E q : Moves(q)
    <3>1. Moves([c EXCEPT !.pc = "stSave", !.seen = rooms[c.room]])
      BY <1>c, <2>3 DEF StartRoom
    <3> QED
      BY <3>1
  <2>4. ASSUME DirtyTask(h) PROVE \E q : Moves(q)
    <3>1. Moves([c EXCEPT !.pc = IF HasOpenTask(c.room) THEN "diSave" ELSE "diInsert"])
      BY <1>c, <2>4 DEF DirtyTask
    <3> QED
      BY <3>1
  <2>5. ASSUME HkSaveFails(h) PROVE \E q : Moves(q)
    <3>1. Moves(HkIdle)
      BY <2>5, IdleIsRequest DEF HkSaveFails
    <3> QED
      BY <3>1
  <2>6. UNCHANGED <<rooms, occupied, tasks>>
    BY <1>1 DEF HkArrive, StartTask, CompleteTask, DirtyRoom, StartRoom, DirtyTask, HkSaveFails
  <2> HIDE DEF Moves
  <2>7. PICK q : Moves(q)
    BY <1>1, <2>1, <2>2, <2>3, <2>4, <2>5 DEF HkArrive
  <2> QED
    BY <2>6, <2>7, ReadOnInv DEF Moves
<1>2. CASE CompleteRoom(h)
  <2> DEFINE q == [c EXCEPT !.pc = "coGuest", !.seen = rooms[c.room]]
  <2>1. hk' = [hk EXCEPT ![h] = q] /\ UNCHANGED <<rooms, occupied, tasks>>
    BY <1>2 DEF CompleteRoom
  <2>2. q.pc = "coGuest" /\ q.room = c.room /\ q.seen = rooms[c.room]
    BY <1>c
  <2> HIDE DEF q
  <2> QED
    BY <2>1, <2>2, ReadOnInv
<1>3. CASE CompleteGuest(h)
  <2> DEFINE q == [c EXCEPT !.pc = "coSave", !.to = CleanedStatus(c.room \in occupied)]
  <2>1. c.pc = "coGuest" /\ hk' = [hk EXCEPT ![h] = q] /\ UNCHANGED <<rooms, occupied, tasks>>
    BY <1>3 DEF CompleteGuest
  <2>2. /\ q.pc = "coSave" /\ q.room = c.room /\ q.seen = c.seen
        /\ (q.to = "Clean" => c.room \notin occupied) /\ q.to \in {"Clean", "Occupied"}
    BY <1>c DEF CleanedStatus
  <2> HIDE DEF q
  <2> QED
    BY <1>c, <2>1, <2>2, ReadOnInv
<1>4. CASE StartSave(h)
  <2>1. /\ c.pc = "stSave" /\ c.task \in TaskIds
        /\ tasks' = [tasks EXCEPT ![c.task].status = "In Progress"]
    BY <1>4, <1>c DEF StartSave
  <2>2. /\ hk' = [hk EXCEPT ![h] = HkIdle] /\ UNCHANGED occupied
        /\ \A r \in Rooms : rooms'[r] = rooms[r] \/ (r = c.room /\ rooms'[r] = "Being Cleaned")
    BY <1>0, <1>4, <2>1, Saves DEF Saved
  <2>3. /\ tasks'[c.task].status = "In Progress" /\ tasks'[c.task].room = c.room
        /\ \A i \in TaskIds : tasks[i].status = "In Progress" =>
             tasks'[i].status = "In Progress" /\ tasks'[i].room = tasks[i].room
    BY <1>0, <1>c, <2>1, StatusSet DEF TaskStatus
  <2>4. CleanRoomsVacant'
    BY <1>0, <2>2 DEF CleanRoomsVacant
  <2>5. ASSUME NEW r \in Rooms, rooms'[r] = "Being Cleaned"
        PROVE  \E i \in TaskIds : tasks'[i].status = "In Progress" /\ tasks'[i].room = r
    <3>1. CASE r = c.room
      BY <2>1, <2>3, <3>1
    <3>2. CASE r # c.room
      BY <1>0, <2>2, <2>3, <2>5, <3>2, CleaningKept
    <3> QED
      BY <3>1, <3>2
  <2> QED
    BY <1>4, <2>4, <2>5, SaveInv DEF BeingCleanedHasTask
<1>5. CASE CompleteSave(h)
  <2>1. /\ c.pc = "coSave" /\ c.task \in TaskIds
        /\ tasks' = [tasks EXCEPT ![c.task].status = "Finished"]
    BY <1>5, <1>c DEF CompleteSave
  <2> DEFINE s == Saved(c.seen, c.to, rooms[c.room])
  <2>2. /\ hk' = [hk EXCEPT ![h] = HkIdle] /\ UNCHANGED occupied
        /\ \A r \in Rooms : rooms'[r] = IF r = c.room THEN s ELSE rooms[r]
    BY <1>0, <1>5, <2>1, Saves
  <2>3. /\ s # "Being Cleaned"
        /\ s = "Clean" => rooms[c.room] = "Clean" \/ c.room \notin occupied
    <3> HIDE DEF c
    <3>1. /\ rooms[c.room] = "Being Cleaned" => c.seen = "Being Cleaned"
          /\ c.to \in {"Clean", "Occupied"}
          /\ c.to = "Clean" => c.seen = "Clean" \/ c.room \notin occupied
      BY <1>c, <2>1
    <3> QED
      BY <3>1 DEF Saved
  <2> HIDE DEF s
  <2>a. "Finished" \in TaskStatus \ {"Absent"} /\ tasks[c.task].status # "Absent"
    BY <1>c, <2>1 DEF TaskStatus
  <2> HIDE DEF c
  <2>4. \A i \in TaskIds : i # c.task => tasks'[i] = tasks[i]
    BY <1>0, <2>1, <2>a, StatusSet
  <2> USE DEF c
  <2>5. CleanRoomsVacant'
    BY <1>0, <1>c, <2>1, <2>2, <2>3 DEF CleanRoomsVacant
  <2>6. ASSUME NEW r \in Rooms, rooms'[r] = "Being Cleaned"
        PROVE  \E i \in TaskIds : tasks'[i].status = "In Progress" /\ tasks'[i].room = r
    <3>1. r # c.room /\ rooms[r] = "Being Cleaned"
      BY <2>2, <2>3, <2>6
    <3>2. PICK i \in TaskIds : tasks[i].status = "In Progress" /\ tasks[i].room = r
      BY <1>0, <3>1 DEF BeingCleanedHasTask
    <3>3. i # c.task
      BY <1>c, <2>1, <3>1, <3>2
    <3> QED
      BY <2>4, <3>2, <3>3
  <2> QED
    BY <1>5, <2>5, <2>6, SaveInv DEF BeingCleanedHasTask
<1>6. CASE DirtySave(h)
  <2>1. /\ c.pc \in {"diSave", "diInsert"} /\ (UNCHANGED tasks \/ NewTask(c.room))
    BY <1>6 DEF DirtySave
  <2>2. /\ hk' = [hk EXCEPT ![h] = HkIdle] /\ UNCHANGED occupied
        /\ \A r \in Rooms : rooms'[r] \in {rooms[r], "Dirty"}
    BY <1>0, <1>6, <2>1, Saves DEF Saved
  <2>3. \A i \in TaskIds : tasks[i].status = "In Progress" => tasks'[i] = tasks[i]
    BY <1>0, <1>c, <2>1, NewTaskKeeps
  <2>4. CleanRoomsVacant'
    BY <1>0, <2>2 DEF CleanRoomsVacant
  <2>5. BeingCleanedHasTask'
    <3>1. ASSUME NEW r \in Rooms, rooms'[r] = "Being Cleaned"
          PROVE  \E i \in TaskIds : tasks'[i].status = "In Progress" /\ tasks'[i].room = r
      BY <1>0, <2>2, <2>3, <3>1, CleaningKept
    <3> QED
      BY <3>1 DEF BeingCleanedHasTask
  <2> QED
    BY <1>6, <2>4, <2>5, SaveInv
<1> QED
  BY <1>1, <1>2, <1>3, <1>4, <1>5, <1>6 DEF HkStep, HkProceed

(* After a restart no request is under way.                                *)
LEMMA RestartInv == ASSUME HkInv, HkTypesInv', HkRestart PROVE HkInv'
<1>1. (\A h \in Staff : hk'[h] = HkIdle) /\ UNCHANGED <<rooms, occupied, tasks>>
  BY DEF HkRestart
<1>2. CompletionInv'
  BY <1>1, IdleIsRequest DEF CompletionInv
<1> QED
  BY <1>1, <1>2 DEF HkInv, CleanRoomsVacant, BeingCleanedHasTask

(* Every step of Housekeeping keeps the invariant.                         *)
LEMMA StepInv == HkInv /\ Apart /\ [HkNext]_hkVars => HkInv'
<1> SUFFICES ASSUME HkInv, Apart, [HkNext]_hkVars PROVE HkInv'
  OBVIOUS
<1>1. HkTypesInv'
  BY StepTypes DEF HkInv
<1>2. CASE UNCHANGED hkVars
  BY <1>1, <1>2 DEF hkVars, HkInv, CompletionInv, CleanRoomsVacant, BeingCleanedHasTask
<1> QED
  BY <1>1, <1>2, StepOfStaffInv, BackgroundInv, RestartInv, EnvironmentInv
     DEF HkNext, HkEnvironment

(* The tables, requests and messages stay within their types, and the task *)
(* of a request is of its room, however many requests the staff make.      *)
THEOREM TypeCorrect == HkSpec => []HkTypeOK
  BY InitTypes, StepTypes, PTL DEF HkSpec, HkSafe, HkTypesInv

(* The invariant holds while no two requests are about the same room.      *)
THEOREM Invariance == HkSpec /\ []Apart => []HkInv
  BY InitInv, StepInv, PTL DEF HkSpec, HkSafe

(* Whatever fails, restarts and is checked in, out or locked meanwhile, in *)
(* any number of rooms and with any number of staff, none of them declares *)
(* a room Clean that has a guest, unless two requests about the same room  *)
(* overlap.                                                                *)
THEOREM CleanIsVacant == HkSpec /\ []Apart => []CleanRoomsVacant
  BY Invariance, PTL DEF HkInv

(* Under the same condition a room being cleaned can be completed.         *)
THEOREM CleaningCanEnd == HkSpec /\ []Apart => []BeingCleanedHasTask
  BY Invariance, PTL DEF HkInv

(* With one request at a time no two overlap: both hold without condition. *)
THEOREM OneRequest ==
  ASSUME OneAtATime PROVE HkSpec => [](CleanRoomsVacant /\ BeingCleanedHasTask)
<1>1. Apart
  BY DEF OneAtATime, Apart
<1> QED
  BY <1>1, CleanIsVacant, CleaningCanEnd, PTL
=============================================================================
