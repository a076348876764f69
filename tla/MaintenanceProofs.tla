-------------------------- MODULE MaintenanceProofs ------------------------
(* What holds of Maintenance for any rooms, issues, technicians, callers   *)
(* and priorities, with saves that fail and restarts unless stated.        *)
EXTENDS Maintenance, TLAPS

(* The steps at which a request holds an issue that is not in the queue.   *)
Holding(h) == mnt[h].pc \in {"rpEnqueue", "asFind", "asSave"}

(* An issue in hand is Pending, is not queued, and is in one hand only.    *)
HandInv ==
  \A h \in Callers : Holding(h) =>
    /\ mnt[h].issue \in Pending
    /\ mnt[h].issue \notin queue
    /\ \A d \in Callers : (Holding(d) /\ mnt[d].issue = mnt[h].issue) => d = h

(* An issue has no technician before it is Assigned, and one that is being *)
(* resolved has been.                                                      *)
StageInv ==
  /\ \A i \in IssueIds : issues[i].status \in {"Absent", "Pending"} => issues[i].tech = 0
  /\ \A h \in Callers : mnt[h].pc \in ResolvePc =>
       /\ mnt[h].issue \in IssueIds
       /\ issues[mnt[h].issue].status \in {"Assigned", "Resolved"}
  /\ \A h \in Callers :
       mnt[h].pc \in {"rpSave", "asSave", "asRoom", "asLock"} \cup ResolvePc =>
         mnt[h].room \in Rooms
  /\ \A i \in IssueIds : issues[i].status # "Absent" => issues[i].room \in Rooms

MntInv == MntTypeOK /\ QueuePending /\ HandInv /\ StageInv

(* Only Pending issues enter the queue, and they leave it before they are  *)
(* anything else.                                                          *)
LEMMA QueueStep ==
  MntTypeOK /\ QueuePending /\ HandInv /\ StageInv /\ [MntNext]_mntVars => QueuePending'
<1> SUFFICES ASSUME MntTypeOK, QueuePending, HandInv, StageInv, [MntNext]_mntVars
             PROVE  QueuePending'
  OBVIOUS
<1> USE DEF QueuePending, HandInv, Holding, StageInv, Pending, MntTypeOK, ResolvePc
<1>1. ASSUME NEW h \in Callers, NEW r \in Rooms, NEW p \in Priorities, Report(h, r, p)
      PROVE  QueuePending'
  BY <1>1 DEF Report
<1>2. ASSUME NEW h \in Callers, ReportSave(h) PROVE QueuePending'
  BY <1>2 DEF ReportSave, IsFirst
<1>3. ASSUME NEW h \in Callers, ReportEnqueue(h) PROVE QueuePending'
  BY <1>3 DEF ReportEnqueue
<1>4. ASSUME NEW h \in Callers, AssignBusy(h) PROVE QueuePending'
  BY <1>4 DEF AssignBusy
<1>5. ASSUME NEW h \in Callers, AssignTake(h) PROVE QueuePending'
  BY <1>5 DEF AssignTake
<1>6. ASSUME NEW h \in Callers, AssignDone(h) PROVE QueuePending'
  BY <1>6 DEF AssignDone, MntIdle
<1>7. ASSUME NEW h \in Callers, AssignFind(h) PROVE QueuePending'
  BY <1>7 DEF AssignFind
<1>8. ASSUME NEW h \in Callers, AssignSave(h) PROVE QueuePending'
  BY <1>8 DEF AssignSave
<1>9. ASSUME NEW h \in Callers, AssignRoom(h) PROVE QueuePending'
  BY <1>9 DEF AssignRoom, Track
<1>10. ASSUME NEW h \in Callers, AssignLock(h) PROVE QueuePending'
  BY <1>10 DEF AssignLock, Track
<1>11. ASSUME NEW h \in Callers, NEW i \in IssueIds, Resolve(h, i) PROVE QueuePending'
  BY <1>11 DEF Resolve
<1>12. ASSUME NEW h \in Callers, ResolveRoom(h) PROVE QueuePending'
  BY <1>12 DEF ResolveRoom, Track
<1>13. ASSUME NEW h \in Callers, ResolveGuest(h) PROVE QueuePending'
  BY <1>13 DEF ResolveGuest
<1>14. ASSUME NEW h \in Callers, ResolveSave(h) PROVE QueuePending'
  BY <1>14 DEF ResolveSave
<1>15. ASSUME NEW h \in Callers, MntSaveFails(h) PROVE QueuePending'
  BY <1>15 DEF MntSaveFails, MntIdle
<1>16. CASE MntRestart
  BY <1>16 DEF MntRestart, MntIdle
<1>17. ASSUME NEW r \in Rooms, RoomLet(r) \/ RoomVacated(r) \/ RoomCleaned(r)
       PROVE  QueuePending'
  BY <1>17 DEF RoomLet, RoomVacated, RoomCleaned
<1>18. CASE UNCHANGED mntVars
  BY <1>18 DEF mntVars
<1> QED
  BY <1>1, <1>2, <1>3, <1>4, <1>5, <1>6, <1>7, <1>8, <1>9, <1>10, <1>11, <1>12,
     <1>13, <1>14, <1>15, <1>16, <1>17, <1>18
     DEF MntNext, MntStep, MntProceed, MntEnvironment

(* An issue passes from the queue into one hand.                           *)
LEMMA HandStep ==
  MntTypeOK /\ QueuePending /\ HandInv /\ StageInv /\ [MntNext]_mntVars => HandInv'
<1> SUFFICES ASSUME MntTypeOK, QueuePending, HandInv, StageInv, [MntNext]_mntVars
             PROVE  HandInv'
  OBVIOUS
<1> USE DEF QueuePending, HandInv, Holding, StageInv, Pending, MntTypeOK, ResolvePc
<1>1. ASSUME NEW h \in Callers, NEW r \in Rooms, NEW p \in Priorities, Report(h, r, p)
      PROVE  HandInv'
  BY <1>1 DEF Report
<1>2. ASSUME NEW h \in Callers, ReportSave(h) PROVE HandInv'
  BY <1>2 DEF ReportSave, IsFirst
<1>3. ASSUME NEW h \in Callers, ReportEnqueue(h) PROVE HandInv'
  BY <1>3 DEF ReportEnqueue
<1>4. ASSUME NEW h \in Callers, AssignBusy(h) PROVE HandInv'
  BY <1>4 DEF AssignBusy
<1>5. ASSUME NEW h \in Callers, AssignTake(h) PROVE HandInv'
  BY <1>5 DEF AssignTake
<1>6. ASSUME NEW h \in Callers, AssignDone(h) PROVE HandInv'
  BY <1>6 DEF AssignDone, MntIdle
<1>7. ASSUME NEW h \in Callers, AssignFind(h) PROVE HandInv'
  BY <1>7 DEF AssignFind
<1>8. ASSUME NEW h \in Callers, AssignSave(h) PROVE HandInv'
  BY <1>8 DEF AssignSave
<1>9. ASSUME NEW h \in Callers, AssignRoom(h) PROVE HandInv'
  BY <1>9 DEF AssignRoom, Track
<1>10. ASSUME NEW h \in Callers, AssignLock(h) PROVE HandInv'
  BY <1>10 DEF AssignLock, Track
<1>11. ASSUME NEW h \in Callers, NEW i \in IssueIds, Resolve(h, i) PROVE HandInv'
  BY <1>11 DEF Resolve
<1>12. ASSUME NEW h \in Callers, ResolveRoom(h) PROVE HandInv'
  BY <1>12 DEF ResolveRoom, Track
<1>13. ASSUME NEW h \in Callers, ResolveGuest(h) PROVE HandInv'
  BY <1>13 DEF ResolveGuest
<1>14. ASSUME NEW h \in Callers, ResolveSave(h) PROVE HandInv'
  BY <1>14 DEF ResolveSave
<1>15. ASSUME NEW h \in Callers, MntSaveFails(h) PROVE HandInv'
  BY <1>15 DEF MntSaveFails, MntIdle
<1>16. CASE MntRestart
  BY <1>16 DEF MntRestart, MntIdle
<1>17. ASSUME NEW r \in Rooms, RoomLet(r) \/ RoomVacated(r) \/ RoomCleaned(r)
       PROVE  HandInv'
  BY <1>17 DEF RoomLet, RoomVacated, RoomCleaned
<1>18. CASE UNCHANGED mntVars
  BY <1>18 DEF mntVars
<1> QED
  BY <1>1, <1>2, <1>3, <1>4, <1>5, <1>6, <1>7, <1>8, <1>9, <1>10, <1>11, <1>12,
     <1>13, <1>14, <1>15, <1>16, <1>17, <1>18
     DEF MntNext, MntStep, MntProceed, MntEnvironment

(* Issues go through their stages in step with the requests.               *)
LEMMA StageStep ==
  MntTypeOK /\ HandInv /\ StageInv /\ [MntNext]_mntVars => StageInv'
<1> SUFFICES ASSUME MntTypeOK, HandInv, StageInv, [MntNext]_mntVars PROVE StageInv'
  OBVIOUS
<1> USE DEF HandInv, Holding, StageInv, Pending, MntTypeOK, ResolvePc
<1>1. ASSUME NEW h \in Callers, NEW r \in Rooms, NEW p \in Priorities, Report(h, r, p)
      PROVE  StageInv'
  BY <1>1 DEF Report
<1>2. ASSUME NEW h \in Callers, ReportSave(h) PROVE StageInv'
  BY <1>2 DEF ReportSave, IsFirst
<1>3. ASSUME NEW h \in Callers, ReportEnqueue(h) PROVE StageInv'
  BY <1>3 DEF ReportEnqueue
<1>4. ASSUME NEW h \in Callers, AssignBusy(h) PROVE StageInv'
  BY <1>4 DEF AssignBusy
<1>5. ASSUME NEW h \in Callers, AssignTake(h) PROVE StageInv'
  BY <1>5 DEF AssignTake
<1>6. ASSUME NEW h \in Callers, AssignDone(h) PROVE StageInv'
  BY <1>6 DEF AssignDone, MntIdle
<1>7. ASSUME NEW h \in Callers, AssignFind(h) PROVE StageInv'
  BY <1>7 DEF AssignFind
<1>8. ASSUME NEW h \in Callers, AssignSave(h) PROVE StageInv'
  BY <1>8 DEF AssignSave
<1>9. ASSUME NEW h \in Callers, AssignRoom(h) PROVE StageInv'
  BY <1>9 DEF AssignRoom, Track
<1>10. ASSUME NEW h \in Callers, AssignLock(h) PROVE StageInv'
  BY <1>10 DEF AssignLock, Track
<1>11. ASSUME NEW h \in Callers, NEW i \in IssueIds, Resolve(h, i) PROVE StageInv'
  BY <1>11 DEF Resolve
<1>12. ASSUME NEW h \in Callers, ResolveRoom(h) PROVE StageInv'
  BY <1>12 DEF ResolveRoom, Track
<1>13. ASSUME NEW h \in Callers, ResolveGuest(h) PROVE StageInv'
  BY <1>13 DEF ResolveGuest
<1>14. ASSUME NEW h \in Callers, ResolveSave(h) PROVE StageInv'
  BY <1>14 DEF ResolveSave
<1>15. ASSUME NEW h \in Callers, MntSaveFails(h) PROVE StageInv'
  BY <1>15 DEF MntSaveFails, MntIdle
<1>16. CASE MntRestart
  BY <1>16 DEF MntRestart, MntIdle
<1>17. ASSUME NEW r \in Rooms, RoomLet(r) \/ RoomVacated(r) \/ RoomCleaned(r)
       PROVE  StageInv'
  BY <1>17 DEF RoomLet, RoomVacated, RoomCleaned
<1>18. CASE UNCHANGED mntVars
  BY <1>18 DEF mntVars
<1> QED
  BY <1>1, <1>2, <1>3, <1>4, <1>5, <1>6, <1>7, <1>8, <1>9, <1>10, <1>11, <1>12,
     <1>13, <1>14, <1>15, <1>16, <1>17, <1>18
     DEF MntNext, MntStep, MntProceed, MntEnvironment

-----------------------------------------------------------------------------
(* The literals the actions write are values of their columns.             *)
LEMMA Literals ==
  /\ {"Clean", "Dirty", "Occupied", "Maintenance"} \subseteq RoomStatus
  /\ {"Absent", "Pending", "Assigned", "Resolved"} \subseteq IssueStatus
BY DEF RoomStatus, IssueStatus

(* Reading or saving a room adds it to the tracked entities.               *)
LEMMA TrackType ==
  ASSUME NEW f \in Tracked, NEW r \in Rooms, NEW s \in RoomStatus
  PROVE  Track(f, r, s) \in Tracked
<1>1. PICK S \in SUBSET Rooms : f \in [S -> RoomStatus]
  BY DEF Tracked
<1>2. Track(f, r, s) \in [S \cup {r} -> RoomStatus]
  BY <1>1 DEF Track
<1> QED
  BY <1>2 DEF Tracked

(* A request starts and ends as MntIdle, and MntIdle is a request.         *)
LEMMA IdleType == MntIdle \in MntRequests
<1>1. [r \in {} |-> "Clean"] \in Tracked
  <2>1. [r \in {} |-> "Clean"] \in [{} -> RoomStatus]
    OBVIOUS
  <2> QED BY <2>1 DEF Tracked
<1> QED
  BY <1>1, Literals DEF MntIdle, MntRequests, Tracked

(* The empty tables, queue and requests of the first start have their type.*)
LEMMA TypeInit == MntInit => MntTypeOK
<1>1. NoIssue \in Issues
  BY Literals DEF NoIssue, Issues
<1> QED
  BY <1>1, Literals, IdleType DEF MntInit, MntTypeOK

(* A request that becomes a request keeps the type of mnt.                 *)
LEMMA Moved ==
  ASSUME mnt \in [Callers -> MntRequests], NEW h \in Callers, NEW q \in MntRequests,
         mnt' = [mnt EXCEPT ![h] = q]
  PROVE  mnt' \in [Callers -> MntRequests]
OBVIOUS

(* No action of Maintenance, nor of the services around it, breaks a type. *)
LEMMA TypeStep ==
  MntTypeOK /\ HandInv /\ StageInv /\ [MntNext]_mntVars => MntTypeOK'
<1> SUFFICES ASSUME MntTypeOK, HandInv, StageInv, [MntNext]_mntVars PROVE MntTypeOK'
  OBVIOUS
<1>1. ASSUME NEW h \in Callers, NEW r \in Rooms, NEW p \in Priorities, Report(h, r, p)
      PROVE  MntTypeOK'
  <2>1. rooms[r] \in RoomStatus /\ mnt[h].tracked \in Tracked
    BY DEF MntTypeOK, MntRequests
  <2>2. Track(mnt[h].tracked, r, rooms[r]) \in Tracked
    BY <2>1, TrackType
  <2> DEFINE q == [mnt[h] EXCEPT !.pc = "rpSave", !.room = r, !.priority = p,
                                 !.tracked = Track(mnt[h].tracked, r, rooms[r])]
  <2>3. q \in MntRequests
    BY <2>2 DEF MntTypeOK, MntRequests, ReportPc
  <2>4. mnt' = [mnt EXCEPT ![h] = q]
    BY <1>1 DEF Report
  <2> HIDE DEF q
  <2>5. mnt' \in [Callers -> MntRequests]
    BY <2>3, <2>4, Moved DEF MntTypeOK
  <2> QED
    BY <1>1, <2>5 DEF Report, MntTypeOK
<1>2. ASSUME NEW h \in Callers, ReportSave(h) PROVE MntTypeOK'
  <2> PICK i \in IssueIds :
         /\ issues' = [issues EXCEPT ![i] = [status |-> "Pending", room |-> mnt[h].room,
                                             priority |-> mnt[h].priority, tech |-> 0]]
         /\ mnt' = [mnt EXCEPT ![h] = [@ EXCEPT !.pc = "rpEnqueue", !.issue = i]]
    BY <1>2 DEF ReportSave
  <2>1. [mnt[h] EXCEPT !.pc = "rpEnqueue", !.issue = i] \in MntRequests
    BY DEF MntTypeOK, MntRequests, ReportPc
  <2>2. [status |-> "Pending", room |-> mnt[h].room,
         priority |-> mnt[h].priority, tech |-> 0] \in Issues
    BY Literals DEF Issues, MntTypeOK, MntRequests
  <2> QED
    BY <1>2, <2>1, <2>2 DEF ReportSave, MntTypeOK
<1>3. ASSUME NEW h \in Callers, ReportEnqueue(h) PROVE MntTypeOK'
  <2>1. [mnt[h] EXCEPT !.pc = "asBusy", !.issue = 0] \in MntRequests
    BY DEF MntTypeOK, MntRequests, AssignPc
  <2>2. mnt[h].issue \in IssueIds
    BY <1>3 DEF ReportEnqueue, HandInv, Holding, Pending
  <2> QED
    BY <1>3, <2>1, <2>2 DEF ReportEnqueue, MntTypeOK
<1>4. ASSUME NEW h \in Callers, AssignBusy(h) PROVE MntTypeOK'
  <2>1. [mnt[h] EXCEPT !.pc = "asTake", !.free = Techs \ Busy] \in MntRequests
    BY DEF MntTypeOK, MntRequests, AssignPc
  <2> QED
    BY <1>4, <2>1 DEF AssignBusy, MntTypeOK
<1>5. ASSUME NEW h \in Callers, AssignTake(h) PROVE MntTypeOK'
  <2> PICK i \in queue : mnt' = [mnt EXCEPT ![h] = [@ EXCEPT !.pc = "asFind", !.issue = i]]
                        /\ queue' = queue \ {i}
    BY <1>5 DEF AssignTake
  <2>1. [mnt[h] EXCEPT !.pc = "asFind", !.issue = i] \in MntRequests
    BY DEF MntTypeOK, MntRequests, AssignPc
  <2> QED
    BY <1>5, <2>1 DEF AssignTake, MntTypeOK
<1>6. ASSUME NEW h \in Callers, AssignDone(h) PROVE MntTypeOK'
  BY <1>6, IdleType DEF AssignDone, MntTypeOK, Pending
<1>7. ASSUME NEW h \in Callers, AssignFind(h) PROVE MntTypeOK'
  <2>1. issues[mnt[h].issue].room \in Rooms \cup {NoRoom}
    BY <1>7 DEF AssignFind, HandInv, Holding, Pending, MntTypeOK, Issues
  <2>2. [mnt[h] EXCEPT !.pc = "asSave", !.room = issues[mnt[h].issue].room] \in MntRequests
    BY <2>1 DEF MntTypeOK, MntRequests, AssignPc
  <2>3. [mnt[h] EXCEPT !.pc = "asTake", !.issue = 0] \in MntRequests
    BY DEF MntTypeOK, MntRequests, AssignPc
  <2> QED
    BY <1>7, <2>2, <2>3 DEF AssignFind, MntTypeOK
<1>8. ASSUME NEW h \in Callers, AssignSave(h) PROVE MntTypeOK'
  <2> PICK t \in Techs :
         /\ issues' = [issues EXCEPT ![mnt[h].issue] =
                          [@ EXCEPT !.status = "Assigned", !.tech = t]]
         /\ mnt' = [mnt EXCEPT ![h] =
                       [@ EXCEPT !.pc = IF issues[mnt[h].issue].priority = Critical
                                          THEN "asRoom" ELSE "asTake",
                                 !.free = mnt[h].free \ {t},
                                 !.issue = 0]]
    BY <1>8 DEF AssignSave
  <2> DEFINE p == IF issues[mnt[h].issue].priority = Critical THEN "asRoom" ELSE "asTake"
             q == [mnt[h] EXCEPT !.pc = p, !.free = mnt[h].free \ {t}, !.issue = 0]
  <2>1. p \in AssignPc
    BY DEF AssignPc
  <2>2. mnt' = [mnt EXCEPT ![h] = q]
    OBVIOUS
  <2> HIDE DEF p
  <2>3. q \in MntRequests
    BY <2>1 DEF MntTypeOK, MntRequests
  <2> HIDE DEF q
  <2>5. mnt' \in [Callers -> MntRequests]
    BY <2>2, <2>3, Moved DEF MntTypeOK
  <2>4. issues' \in [IssueIds -> Issues]
    BY Literals DEF MntTypeOK, Issues
  <2> QED
    BY <1>8, <2>4, <2>5 DEF AssignSave, MntTypeOK
<1>9. ASSUME NEW h \in Callers, AssignRoom(h) PROVE MntTypeOK'
  <2> DEFINE r == mnt[h].room
             f == mnt[h].tracked
             t == IF r \in DOMAIN f THEN f ELSE Track(f, r, rooms[r])
             q == [mnt[h] EXCEPT !.pc = "asLock", !.tracked = t]
  <2>1. r \in Rooms /\ f \in Tracked
    BY <1>9 DEF AssignRoom, StageInv, MntTypeOK, MntRequests
  <2>2. t \in Tracked
    BY <2>1, TrackType DEF MntTypeOK
  <2>3. mnt' = [mnt EXCEPT ![h] = q]
    BY <1>9 DEF AssignRoom
  <2> HIDE DEF t
  <2>4. q \in MntRequests
    BY <2>2 DEF MntTypeOK, MntRequests, AssignPc
  <2> HIDE DEF q
  <2>5. mnt' \in [Callers -> MntRequests]
    BY <2>3, <2>4, Moved DEF MntTypeOK
  <2> QED
    BY <1>9, <2>5 DEF AssignRoom, MntTypeOK
<1>10. ASSUME NEW h \in Callers, AssignLock(h) PROVE MntTypeOK'
  <2> DEFINE t == Track(mnt[h].tracked, mnt[h].room, "Maintenance")
             q == [mnt[h] EXCEPT !.pc = "asTake", !.tracked = t]
  <2>1. mnt[h].room \in Rooms /\ mnt[h].tracked \in Tracked
    BY <1>10 DEF AssignLock, StageInv, MntTypeOK, MntRequests
  <2>2. t \in Tracked
    BY <2>1, TrackType, Literals
  <2>3. mnt' = [mnt EXCEPT ![h] = q]
    BY <1>10 DEF AssignLock
  <2> HIDE DEF t
  <2>6. q \in MntRequests
    BY <2>2 DEF MntTypeOK, MntRequests, AssignPc
  <2> HIDE DEF q
  <2>4. mnt' \in [Callers -> MntRequests]
    BY <2>3, <2>6, Moved DEF MntTypeOK
  <2>5. rooms' \in [Rooms -> RoomStatus]
    BY <1>10, Literals DEF AssignLock, Saved, MntTypeOK
  <2> QED
    BY <1>10, <2>4, <2>5 DEF AssignLock, MntTypeOK
<1>11. ASSUME NEW h \in Callers, NEW i \in IssueIds, Resolve(h, i) PROVE MntTypeOK'
  <2>1. issues[i].room \in Rooms \cup {NoRoom}
    BY DEF MntTypeOK, Issues
  <2>2. [mnt[h] EXCEPT !.pc = "rsRoom", !.issue = i, !.room = issues[i].room] \in MntRequests
    BY <2>1 DEF MntTypeOK, MntRequests, ResolvePc
  <2> QED
    BY <1>11, <2>2 DEF Resolve, MntTypeOK
<1>12. ASSUME NEW h \in Callers, ResolveRoom(h) PROVE MntTypeOK'
  <2> DEFINE r == mnt[h].room
             t == Track(mnt[h].tracked, r, rooms[r])
             p == IF rooms[r] = "Maintenance" THEN "rsGuest" ELSE "rsSave"
             q == [mnt[h] EXCEPT !.pc = p, !.to = rooms[r], !.tracked = t]
  <2>1. r \in Rooms /\ mnt[h].tracked \in Tracked /\ rooms[r] \in RoomStatus
    BY <1>12 DEF ResolveRoom, StageInv, ResolvePc, MntTypeOK, MntRequests
  <2>2. t \in Tracked /\ p \in ResolvePc
    BY <2>1, TrackType DEF ResolvePc
  <2>3. mnt' = [mnt EXCEPT ![h] = q]
    BY <1>12 DEF ResolveRoom
  <2> HIDE DEF t, p
  <2>4. q \in MntRequests
    BY <2>1, <2>2 DEF MntTypeOK, MntRequests
  <2> HIDE DEF q
  <2>5. mnt' \in [Callers -> MntRequests]
    BY <2>3, <2>4, Moved DEF MntTypeOK
  <2> QED
    BY <1>12, <2>5 DEF ResolveRoom, MntTypeOK
<1>13. ASSUME NEW h \in Callers, ResolveGuest(h) PROVE MntTypeOK'
  <2> DEFINE s == IF mnt[h].room \in occupied THEN "Occupied" ELSE "Dirty"
  <2>1. s \in RoomStatus
    BY Literals
  <2> HIDE DEF s
  <2>2. [mnt[h] EXCEPT !.pc = "rsSave", !.to = s] \in MntRequests
    BY <2>1 DEF MntTypeOK, MntRequests, ResolvePc
  <2> QED
    BY <1>13, <2>2 DEF s, ResolveGuest, MntTypeOK
<1>14. ASSUME NEW h \in Callers, ResolveSave(h) PROVE MntTypeOK'
  <2> DEFINE t == Track(mnt[h].tracked, mnt[h].room, mnt[h].to)
             q == [mnt[h] EXCEPT !.pc = "asBusy", !.issue = 0, !.to = "Clean", !.tracked = t]
  <2>1. mnt[h].room \in Rooms /\ mnt[h].tracked \in Tracked /\ mnt[h].to \in RoomStatus
    BY <1>14 DEF ResolveSave, StageInv, ResolvePc, MntTypeOK, MntRequests
  <2>2. t \in Tracked
    BY <2>1, TrackType
  <2>3. mnt' = [mnt EXCEPT ![h] = q]
    BY <1>14 DEF ResolveSave
  <2> HIDE DEF t
  <2>7. q \in MntRequests
    BY <2>2, Literals DEF MntTypeOK, MntRequests, AssignPc
  <2> HIDE DEF q
  <2>4. mnt' \in [Callers -> MntRequests]
    BY <2>3, <2>7, Moved DEF MntTypeOK
  <2>5. rooms' \in [Rooms -> RoomStatus]
    BY <1>14, <2>1 DEF ResolveSave, Saved, MntTypeOK
  <2>6. issues' \in [IssueIds -> Issues]
    BY <1>14, Literals DEF ResolveSave, Issues, MntTypeOK
  <2> QED
    BY <1>14, <2>4, <2>5, <2>6 DEF ResolveSave, MntTypeOK
<1>15. ASSUME NEW h \in Callers, MntSaveFails(h) PROVE MntTypeOK'
  BY <1>15, IdleType DEF MntSaveFails, MntTypeOK, Pending
<1>16. CASE MntRestart
  BY <1>16, IdleType DEF MntRestart, MntTypeOK, Pending
<1>17. ASSUME NEW r \in Rooms, RoomLet(r) \/ RoomVacated(r) \/ RoomCleaned(r)
       PROVE  MntTypeOK'
  BY <1>17, Literals DEF RoomLet, RoomVacated, RoomCleaned, MntTypeOK
<1>18. CASE UNCHANGED mntVars
  BY <1>18, Literals DEF mntVars, MntTypeOK
<1> QED
  BY <1>1, <1>2, <1>3, <1>4, <1>5, <1>6, <1>7, <1>8, <1>9, <1>10, <1>11, <1>12,
     <1>13, <1>14, <1>15, <1>16, <1>17, <1>18
     DEF MntNext, MntStep, MntProceed, MntEnvironment

-----------------------------------------------------------------------------
(* At start-up there are no issues and no requests.                        *)
LEMMA InvInit == MntInit => MntInv
<1> SUFFICES ASSUME MntInit PROVE MntInv
  OBVIOUS
<1>1. QueuePending /\ HandInv /\ StageInv
  BY DEF MntInit, QueuePending, HandInv, StageInv, Holding, MntIdle, NoIssue, ResolvePc
<1> QED
  BY <1>1, TypeInit DEF MntInv

(* Every step of Maintenance keeps the invariant.                          *)
LEMMA InvStep == MntInv /\ [MntNext]_mntVars => MntInv'
  BY TypeStep, QueueStep, HandStep, StageStep DEF MntInv

(* The inductive invariant of Maintenance.                                 *)
THEOREM Invariance == MntSafe => []MntInv
  BY InvInit, InvStep, PTL DEF MntSafe

(* Rows, queue and requests keep their types.                              *)
THEOREM TypeCorrect == MntSafe => []MntTypeOK
<1>1. MntInv => MntTypeOK
  BY DEF MntInv
<1> QED
  BY Invariance, <1>1, PTL

(* The in-memory queue never disagrees with the table about an issue: what *)
(* is queued is Pending, also after failed saves and restarts.             *)
THEOREM QueueIsPending == MntSafe => []QueuePending
<1>1. MntInv => QueuePending
  BY DEF MntInv
<1> QED
  BY Invariance, <1>1, PTL

(* Concurrent schedulers never give an issue to a second technician, and   *)
(* never reopen a resolved one.                                            *)
THEOREM NeverReassigned == MntSafe => AssignedOnce
<1> DEFINE Once(i) == /\ issues[i].tech # 0 => issues'[i].tech = issues[i].tech
                      /\ issues[i].status = "Resolved" => issues'[i].status = "Resolved"
<1>1. MntInv /\ [MntNext]_mntVars => [\A i \in IssueIds : Once(i)]_mntVars
  <2> SUFFICES ASSUME MntInv, MntNext, NEW i \in IssueIds PROVE Once(i)
    OBVIOUS
  <2> USE DEF MntInv, MntTypeOK, HandInv, StageInv, Holding, Pending
  <2>1. ASSUME NEW h \in Callers, ReportSave(h) PROVE Once(i)
    BY <2>1 DEF ReportSave, IsFirst
  <2>2. ASSUME NEW h \in Callers, AssignSave(h) PROVE Once(i)
    BY <2>2 DEF AssignSave
  <2>3. ASSUME NEW h \in Callers, ResolveSave(h) PROVE Once(i)
    BY <2>3 DEF ResolveSave
  <2>4. CASE UNCHANGED issues
    BY <2>4
  <2> QED
    BY <2>1, <2>2, <2>3, <2>4
    DEF MntNext, MntStep, MntProceed, MntEnvironment, Report, ReportEnqueue, AssignBusy,
        AssignTake, AssignDone, AssignFind, AssignRoom, AssignLock, Resolve, ResolveRoom,
        ResolveGuest, MntSaveFails, MntRestart, RoomLet, RoomVacated, RoomCleaned
<1> QED
  BY Invariance, <1>1, PTL DEF MntSafe, AssignedOnce

(* As long as no save fails and the process keeps running, no issue is     *)
(* lost: every Pending one is queued or in the hands of a request.         *)
THEOREM NothingLost == ASSUME ~Faults PROVE MntSafe => []PendingTracked
<1>1. MntInit => PendingTracked
  BY DEF MntInit, PendingTracked, Pending, NoIssue
<1>2. MntInv /\ PendingTracked /\ [MntNext]_mntVars => PendingTracked'
  <2> SUFFICES ASSUME MntInv, PendingTracked, [MntNext]_mntVars PROVE PendingTracked'
    OBVIOUS
  <2> USE DEF PendingTracked, Taken, Pending, MntInv, MntTypeOK
  <2>1. ASSUME NEW h \in Callers, NEW r \in Rooms, NEW p \in Priorities, Report(h, r, p)
        PROVE  PendingTracked'
    BY <2>1 DEF Report
  <2>2. ASSUME NEW h \in Callers, ReportSave(h) PROVE PendingTracked'
    BY <2>2 DEF ReportSave, IsFirst
  <2>3. ASSUME NEW h \in Callers, ReportEnqueue(h) PROVE PendingTracked'
    BY <2>3 DEF ReportEnqueue
  <2>4. ASSUME NEW h \in Callers, AssignBusy(h) PROVE PendingTracked'
    BY <2>4 DEF AssignBusy
  <2>5. ASSUME NEW h \in Callers, AssignTake(h) PROVE PendingTracked'
    BY <2>5 DEF AssignTake
  <2>6. ASSUME NEW h \in Callers, AssignDone(h) PROVE PendingTracked'
    BY <2>6 DEF AssignDone, MntIdle
  <2>7. ASSUME NEW h \in Callers, AssignFind(h) PROVE PendingTracked'
    BY <2>7 DEF AssignFind
  <2>8. ASSUME NEW h \in Callers, AssignSave(h) PROVE PendingTracked'
    BY <2>8 DEF AssignSave
  <2>9. ASSUME NEW h \in Callers, AssignRoom(h) PROVE PendingTracked'
    BY <2>9 DEF AssignRoom, Track
  <2>10. ASSUME NEW h \in Callers, AssignLock(h) PROVE PendingTracked'
    BY <2>10 DEF AssignLock, Track
  <2>11. ASSUME NEW h \in Callers, NEW i \in IssueIds, Resolve(h, i) PROVE PendingTracked'
    BY <2>11 DEF Resolve
  <2>12. ASSUME NEW h \in Callers, ResolveRoom(h) PROVE PendingTracked'
    BY <2>12 DEF ResolveRoom, Track
  <2>13. ASSUME NEW h \in Callers, ResolveGuest(h) PROVE PendingTracked'
    BY <2>13 DEF ResolveGuest
  <2>14. ASSUME NEW h \in Callers, ResolveSave(h) PROVE PendingTracked'
    BY <2>14 DEF ResolveSave
  <2>15. ASSUME NEW h \in Callers, MntSaveFails(h) PROVE PendingTracked'
    BY <2>15 DEF MntSaveFails, MntIdle
  <2>16. CASE MntRestart
    BY <2>16 DEF MntRestart, MntIdle
  <2>17. ASSUME NEW r \in Rooms, RoomLet(r) \/ RoomVacated(r) \/ RoomCleaned(r)
         PROVE  PendingTracked'
    BY <2>17 DEF RoomLet, RoomVacated, RoomCleaned
  <2>18. CASE UNCHANGED mntVars
    BY <2>18 DEF mntVars
  <2> QED
    BY <2>1, <2>2, <2>3, <2>4, <2>5, <2>6, <2>7, <2>8, <2>9, <2>10, <2>11, <2>12,
       <2>13, <2>14, <2>15, <2>16, <2>17, <2>18
       DEF MntNext, MntStep, MntProceed, MntEnvironment
<1> QED
  BY Invariance, <1>1, <1>2, PTL DEF MntSafe

(* A free technician and a queued issue have a request that will bring     *)
(* them together: it will look for free technicians, or has found this one *)
(* and goes on until nobody is left or nothing is queued.                  *)
Considers(h, t) ==
  \/ mnt[h].pc = "asBusy"
  \/ mnt[h].pc \in {"asTake", "asFind", "asSave", "asRoom", "asLock"} /\ t \in mnt[h].free

FreeCovered ==
  /\ \A i \in IssueIds : issues[i].status = "Assigned" => issues[i].tech \in Techs
  /\ \A i \in queue, t \in Techs \ Busy : \E h \in Callers : Considers(h, t)

(* Every step without faults keeps it.                                     *)
LEMMA FreeCoveredStep ==
  ASSUME ~Faults, MntInv, FreeCovered, [MntNext]_mntVars PROVE FreeCovered'
<1> USE DEF FreeCovered, Considers, Pending, Busy, MntInv, MntTypeOK, QueuePending,
            HandInv, Holding, StageInv, ResolvePc
<1>1. ASSUME NEW h \in Callers, NEW r \in Rooms, NEW p \in Priorities, Report(h, r, p) PROVE FreeCovered'
  BY <1>1 DEF Report
<1>2. ASSUME NEW h \in Callers, ReportSave(h) PROVE FreeCovered'
  BY <1>2 DEF ReportSave, IsFirst
<1>3. ASSUME NEW h \in Callers, ReportEnqueue(h) PROVE FreeCovered'
  BY <1>3 DEF ReportEnqueue
<1>4. ASSUME NEW h \in Callers, AssignBusy(h) PROVE FreeCovered'
  BY <1>4 DEF AssignBusy
<1>5. ASSUME NEW h \in Callers, AssignTake(h) PROVE FreeCovered'
  BY <1>5 DEF AssignTake
<1>6. ASSUME NEW h \in Callers, AssignDone(h) PROVE FreeCovered'
  BY <1>6 DEF AssignDone, MntIdle
<1>7. ASSUME NEW h \in Callers, AssignFind(h) PROVE FreeCovered'
  BY <1>7 DEF AssignFind
<1>8. ASSUME NEW h \in Callers, AssignSave(h) PROVE FreeCovered'
  BY <1>8 DEF AssignSave, IsFirst
<1>9. ASSUME NEW h \in Callers, AssignRoom(h) PROVE FreeCovered'
  BY <1>9 DEF AssignRoom
<1>10. ASSUME NEW h \in Callers, AssignLock(h) PROVE FreeCovered'
  BY <1>10 DEF AssignLock
<1>11. ASSUME NEW h \in Callers, NEW i \in IssueIds, Resolve(h, i) PROVE FreeCovered'
  BY <1>11 DEF Resolve
<1>12. ASSUME NEW h \in Callers, ResolveRoom(h) PROVE FreeCovered'
  BY <1>12 DEF ResolveRoom
<1>13. ASSUME NEW h \in Callers, ResolveGuest(h) PROVE FreeCovered'
  BY <1>13 DEF ResolveGuest
<1>14. ASSUME NEW h \in Callers, ResolveSave(h) PROVE FreeCovered'
  BY <1>14 DEF ResolveSave
<1>15. ASSUME NEW r \in Rooms, RoomLet(r) \/ RoomVacated(r) \/ RoomCleaned(r)
       PROVE  FreeCovered'
  BY <1>15 DEF RoomLet, RoomVacated, RoomCleaned
<1>16. CASE UNCHANGED mntVars
  BY <1>16 DEF mntVars
<1>17. ~MntRestart /\ \A h \in Callers : ~MntSaveFails(h)
  BY DEF MntRestart, MntSaveFails
<1> QED
  BY <1>1, <1>2, <1>3, <1>4, <1>5, <1>6, <1>7, <1>8, <1>9, <1>10, <1>11, <1>12,
     <1>13, <1>14, <1>15, <1>16, <1>17
     DEF MntNext, MntStep, MntProceed, MntEnvironment

(* Then, however many requests cross, nobody is idle while an issue waits. *)
THEOREM NobodyIsIdle == ASSUME ~Faults PROVE MntSafe => []NobodyIdle
<1>1. MntInit => FreeCovered
  BY DEF MntInit, FreeCovered, NoIssue
<1>2. MntInv /\ FreeCovered /\ [MntNext]_mntVars => FreeCovered'
  BY FreeCoveredStep
<1>3. MntSafe => []PendingTracked
  BY NothingLost
<1>4. PendingTracked /\ FreeCovered => NobodyIdle
  <2> SUFFICES ASSUME PendingTracked, FreeCovered, Quiet, Pending # {} PROVE Busy = Techs
    BY DEF NobodyIdle
  <2>1. PICK i \in Pending : i \in queue
    BY DEF PendingTracked, Taken, Quiet
  <2>2. Techs \subseteq Busy
    BY <2>1 DEF FreeCovered, Considers, Quiet
  <2>3. Busy \subseteq Techs
    BY DEF FreeCovered, Busy
  <2> QED
    BY <2>2, <2>3
<1> QED
  BY Invariance, <1>1, <1>2, <1>3, <1>4, PTL DEF MntSafe
-----------------------------------------------------------------------------
(* A request moves on; the others in flight wait.                          *)
LEMMA OthersWait ==
  ASSUME MntTypeOK, NEW h \in Callers, MntStep(h)
  PROVE  \A g \in Callers \ {h} : mnt'[g] = mnt[g]
<1>0. mnt \in [Callers -> MntRequests]
  BY DEF MntTypeOK
<1>1. ASSUME NEW q, mnt' = [mnt EXCEPT ![h] = q] PROVE \A g \in Callers \ {h} : mnt'[g] = mnt[g]
  BY <1>0, <1>1
<1>2. \E q : mnt' = [mnt EXCEPT ![h] = q]
  <2>1. ASSUME NEW r \in Rooms, NEW p \in Priorities, Report(h, r, p)
        PROVE  \E q : mnt' = [mnt EXCEPT ![h] = q]
    BY <2>1 DEF Report
  <2>2. ASSUME NEW i \in IssueIds, Resolve(h, i) PROVE \E q : mnt' = [mnt EXCEPT ![h] = q]
    BY <2>2 DEF Resolve
  <2>3. ASSUME ReportSave(h) \/ ReportEnqueue(h) \/ AssignBusy(h) \/ AssignTake(h) \/ AssignDone(h)
               \/ AssignFind(h) \/ MntSaveFails(h)
        PROVE  \E q : mnt' = [mnt EXCEPT ![h] = q]
    BY <2>3 DEF ReportSave, ReportEnqueue, AssignBusy, AssignTake, AssignDone, AssignFind, MntSaveFails
  <2>4. ASSUME AssignSave(h) PROVE \E q : mnt' = [mnt EXCEPT ![h] = q]
    BY <2>4 DEF AssignSave
  <2>5. ASSUME AssignRoom(h) \/ AssignLock(h) \/ ResolveRoom(h) \/ ResolveGuest(h) \/ ResolveSave(h)
        PROVE  \E q : mnt' = [mnt EXCEPT ![h] = q]
    BY <2>5 DEF AssignRoom, AssignLock, ResolveRoom, ResolveGuest, ResolveSave
  <2> QED
    BY <2>1, <2>2, <2>3, <2>4, <2>5 DEF MntStep, MntProceed
<1> QED
  BY <1>1, <1>2

-----------------------------------------------------------------------------
(* From the read of the busy technicians to the end of the scheduler.      *)
Assigning == {"asTake", "asFind", "asSave", "asRoom", "asLock"}

(* What the two endpoints do not see to: one scheduler runs at a time.     *)
OneScheduler == \A h, d \in Callers : mnt[h].pc \in Assigning /\ mnt[d].pc \in Assigning => h = d

(* A technician a scheduler counts as free has no assigned issue.          *)
JobInv ==
  /\ OneJobPerTechnician
  /\ \A h \in Callers : mnt[h].pc \in Assigning => mnt[h].free \cap Busy = {}

(* Kept by each step of a request.                                         *)
LEMMA JobStep ==
  ASSUME MntInv, JobInv, OneScheduler, NEW h \in Callers, MntStep(h)
  PROVE  JobInv'
<1>0. /\ mnt \in [Callers -> MntRequests] /\ issues \in [IssueIds -> Issues]
      /\ mnt[h].pc \in {"asFind", "asSave"} => mnt[h].issue \in IssueIds
      /\ \A i \in IssueIds : issues[i].status = "Assigned" => issues[i].tech \in Busy
  BY DEF MntInv, MntTypeOK, HandInv, Holding, Pending, Busy
<1>a. \A g \in Callers \ {h} : mnt'[g] = mnt[g]
  BY OthersWait DEF MntInv
<1> USE <1>0 DEF MntRequests, Issues, Assigning
<1>2. ASSUME \A j \in IssueIds : issues'[j].status = "Assigned" => issues'[j] = issues[j],
             mnt'[h].pc \in Assigning => mnt'[h].free \cap Busy = {}
      PROVE  JobInv'
  <2>1. Busy' \subseteq Busy
    BY <1>2 DEF Busy
  <2>2. OneJobPerTechnician'
    BY <1>2 DEF JobInv, OneJobPerTechnician
  <2>3. \A g \in Callers : mnt'[g].pc \in Assigning => mnt'[g].free \cap Busy = {}
    BY <1>2, <1>a DEF JobInv
  <2> QED
    BY <2>1, <2>2, <2>3 DEF JobInv
<1> DEFINE Away == UNCHANGED issues /\ mnt'[h].pc \notin Assigning
           On == UNCHANGED issues /\ mnt[h].pc \in Assigning /\ mnt'[h].free = mnt[h].free
<1>3. ASSUME Away \/ On PROVE JobInv'
  BY <1>2, <1>3 DEF JobInv
<1>4. ASSUME NEW r \in Rooms, NEW p \in Priorities, Report(h, r, p) PROVE Away
  BY <1>4 DEF Report
<1>5. ASSUME NEW i \in IssueIds, Resolve(h, i) PROVE Away
  BY <1>5 DEF Resolve
<1>6. ASSUME ReportSave(h) PROVE JobInv'
  <2>1. mnt'[h].pc = "rpEnqueue" /\ \A j \in IssueIds : issues'[j].status = "Assigned" => issues'[j] = issues[j]
    BY <1>6 DEF ReportSave
  <2> QED
    BY <1>2, <2>1
<1>7. ReportEnqueue(h) => Away
  BY DEF ReportEnqueue
<1>8. ASSUME AssignBusy(h) PROVE JobInv'
  <2>1. UNCHANGED issues /\ mnt'[h].free = Techs \ Busy
    BY <1>8 DEF AssignBusy
  <2> QED
    BY <1>2, <2>1
<1>9. AssignTake(h) => On
  BY DEF AssignTake
<1>10. ASSUME AssignDone(h) \/ MntSaveFails(h) PROVE Away
  <2>1. UNCHANGED issues /\ mnt' = [mnt EXCEPT ![h] = MntIdle] /\ MntIdle.pc = "idle"
    BY <1>10 DEF AssignDone, MntSaveFails, MntIdle
  <2> QED
    BY <2>1
<1>11. AssignFind(h) => On
  BY DEF AssignFind
<1>12. AssignRoom(h) => On
  BY DEF AssignRoom
<1>13. AssignLock(h) => On
  BY DEF AssignLock
<1>14. ResolveRoom(h) => Away
  BY DEF ResolveRoom
<1>15. ResolveGuest(h) => Away
  BY DEF ResolveGuest
<1>16. ASSUME ResolveSave(h) PROVE JobInv'
  <2>1. mnt'[h].pc = "asBusy" /\ \A j \in IssueIds : issues'[j].status = "Assigned" => issues'[j] = issues[j]
    BY <1>16 DEF ResolveSave
  <2> QED
    BY <1>2, <2>1
<1>17. ASSUME AssignSave(h) PROVE JobInv'
  <2> DEFINE i == mnt[h].issue
  <2>1. PICK t \in mnt[h].free :
          /\ issues' = [issues EXCEPT ![i] = [issues[i] EXCEPT !.status = "Assigned", !.tech = t]]
          /\ mnt'[h].free = mnt[h].free \ {t}
    <3>1. PICK t \in Techs :
            /\ t \in mnt[h].free
            /\ issues' = [issues EXCEPT ![i] = [issues[i] EXCEPT !.status = "Assigned", !.tech = t]]
            /\ \E pc : mnt' = [mnt EXCEPT ![h] = [mnt[h] EXCEPT !.pc = pc, !.free = mnt[h].free \ {t}, !.issue = 0]]
      BY <1>17 DEF AssignSave, IsFirst
    <3> QED
      BY <3>1
  <2>2. i \in IssueIds /\ mnt[h].pc \in Assigning /\ mnt[h].free \cap Busy = {}
    BY <1>17 DEF AssignSave, JobInv
  <2>3. /\ \A j \in IssueIds : j # i => issues'[j] = issues[j]
        /\ issues'[i].tech = t
    BY <2>1, <2>2
  <2> HIDE DEF i
  <2>4. Busy' \subseteq Busy \cup {t}
    BY <2>2, <2>3 DEF Busy
  <2>5. mnt'[h].free \cap Busy' = {}
    BY <2>1, <2>2, <2>4
  <2>6. OneJobPerTechnician'
    <3>1. \A j \in IssueIds : j # i /\ issues'[j].status = "Assigned" => issues'[j].tech # t
      BY <2>1, <2>2, <2>3
    <3> QED
      BY <2>2, <2>3, <3>1 DEF JobInv, OneJobPerTechnician
  <2>7. \A g \in Callers \ {h} : mnt'[g].pc \notin Assigning
    BY <1>a, <2>2 DEF OneScheduler
  <2> QED
    BY <2>5, <2>6, <2>7 DEF JobInv
<1> HIDE DEF Away, On
<1> QED
  BY <1>3, <1>4, <1>5, <1>6, <1>7, <1>8, <1>9, <1>10, <1>11, <1>12, <1>13, <1>14, <1>15, <1>16, <1>17
     DEF MntStep, MntProceed

(* It holds when there is no issue and no request,                         *)
LEMMA JobInit == MntInit => JobInv
  BY DEF MntInit, MntIdle, NoIssue, JobInv, OneJobPerTechnician, Assigning

(* and nobody else, nor a restart, assigns an issue.                       *)
LEMMA JobOthers ==
  ASSUME JobInv, UNCHANGED issues, UNCHANGED mnt \/ MntRestart
  PROVE  JobInv'
<1>1. UNCHANGED Busy /\ OneJobPerTechnician'
  BY DEF Busy, JobInv, OneJobPerTechnician
<1>2. ASSUME MntRestart PROVE \A h \in Callers : mnt'[h].pc \notin Assigning
  <2>1. MntIdle.pc = "idle"
    BY DEF MntIdle
  <2> QED
    BY <1>2, <2>1 DEF MntRestart, Assigning
<1> QED
  BY <1>1, <1>2 DEF JobInv

(* Two schedulers that overlap are the only way to give a technician a     *)
(* second issue while the first is open.                                   *)
THEOREM OneJobEach == MntSafe /\ []OneScheduler => []OneJobPerTechnician
<1>1. MntInv /\ JobInv /\ OneScheduler /\ [MntNext]_mntVars => JobInv'
  <2> SUFFICES ASSUME MntInv, JobInv, OneScheduler, [MntNext]_mntVars PROVE JobInv'
    OBVIOUS
  <2>1. CASE MntRestart
    BY <2>1, JobOthers DEF MntRestart
  <2>2. CASE MntEnvironment \/ UNCHANGED mntVars
    BY <2>2, JobOthers DEF MntEnvironment, RoomLet, RoomVacated, RoomCleaned, mntVars
  <2> QED
    BY <2>1, <2>2, JobStep DEF MntNext
<1>2. JobInv => OneJobPerTechnician
  BY DEF JobInv
<1> QED
  BY Invariance, JobInit, <1>1, <1>2, PTL DEF MntSafe

-----------------------------------------------------------------------------
(* What the service does not see to either: a resolution does not save     *)
(* between the assignment of an issue of its room and the lock.            *)
LockApart ==
  \A h, d \in Callers :
    mnt[h].pc \in {"asRoom", "asLock"} /\ mnt[d].pc = "rsSave" => mnt[h].room # mnt[d].room

(* The issue i keeps the room r locked.                                    *)
Locking(i, r) ==
  issues[i].status = "Assigned" /\ issues[i].room = r /\ issues[i].priority = Critical

(* A locked room has its issue, and has one already while it is about to   *)
(* be locked; a resolution that found the room locked unlocks it, and one  *)
(* that did not leaves it, since nobody can have locked it since.          *)
RepairInv ==
  /\ \A r \in Rooms : rooms[r] = "Maintenance" => \E i \in IssueIds : Locking(i, r)
  /\ \A h \in Callers : mnt[h].pc \in {"asRoom", "asLock"} =>
       \E i \in IssueIds : Locking(i, mnt[h].room)
  /\ \A h \in Callers : mnt[h].pc \in {"asSave", "rsRoom", "rsGuest", "rsSave"} =>
       mnt[h].issue \in IssueIds /\ issues[mnt[h].issue].room = mnt[h].room
  /\ \A h \in Callers : mnt[h].pc = "rsGuest" => mnt[h].tracked[mnt[h].room] = "Maintenance"
  /\ \A h \in Callers : mnt[h].pc = "rsSave" =>
       IF mnt[h].tracked[mnt[h].room] = "Maintenance"
         THEN mnt[h].to \in {"Occupied", "Dirty"}
         ELSE mnt[h].to = mnt[h].tracked[mnt[h].room] /\ rooms[mnt[h].room] # "Maintenance"

(* It holds when there is no issue and no request.                         *)
LEMMA RepairInit == MntInit => RepairInv
  BY DEF MntInit, MntIdle, RepairInv

(* The other services may unlock a room, which needs no issue.             *)
LEMMA RepairOthers ==
  ASSUME MntInv, RepairInv, UNCHANGED <<issues, mnt>>,
         \A r \in Rooms : rooms'[r] = "Maintenance" => rooms[r] = "Maintenance"
  PROVE  RepairInv'
<1>1. \A h \in Callers : mnt[h].pc = "rsSave" => mnt[h].room \in Rooms
  BY DEF MntInv, StageInv, ResolvePc
<1> QED
  BY <1>1 DEF RepairInv, Locking

(* A restart forgets the requests, not the issues.                         *)
LEMMA RepairRestart == ASSUME RepairInv, MntRestart PROVE RepairInv'
<1>1. MntIdle.pc = "idle"
  BY DEF MntIdle
<1> QED
  BY <1>1 DEF RepairInv, Locking, MntRestart

(* The steps of a request.                                                 *)
LEMMA RepairStep ==
  ASSUME MntInv, RepairInv, LockApart, NEW h \in Callers, MntStep(h)
  PROVE  RepairInv'
<1>0. /\ mnt \in [Callers -> MntRequests] /\ issues \in [IssueIds -> Issues]
      /\ rooms \in [Rooms -> RoomStatus]
      /\ \A g \in Callers : mnt[g].pc \in {"rpSave", "asSave", "asRoom", "asLock", "rsRoom", "rsGuest", "rsSave"}
                              => mnt[g].room \in Rooms
      /\ \A g \in Callers : mnt[g].pc \in {"asFind", "asSave"} =>
           mnt[g].issue \in IssueIds /\ issues[mnt[g].issue].status = "Pending"
      /\ \A g \in Callers : mnt[g].pc \in {"rsRoom", "rsGuest", "rsSave"} =>
           mnt[g].issue \in IssueIds /\ issues[mnt[g].issue].status \in {"Assigned", "Resolved"}
  BY DEF MntInv, MntTypeOK, StageInv, ResolvePc, HandInv, Holding, Pending
<1>a. \A g \in Callers \ {h} : mnt'[g] = mnt[g]
  BY OthersWait DEF MntInv
<1> USE <1>0 DEF MntRequests, Issues
<1> DEFINE Locks(i, r) == /\ issues'[i].status = "Assigned" /\ issues'[i].room = r
                          /\ issues'[i].priority = Critical
           Locked == \A r \in Rooms : rooms'[r] = "Maintenance" => \E i \in IssueIds : Locks(i, r)
           Request(q) ==
             /\ q.pc \in {"asRoom", "asLock"} => \E i \in IssueIds : Locks(i, q.room)
             /\ q.pc \in {"asSave", "rsRoom", "rsGuest", "rsSave"} =>
                  q.issue \in IssueIds /\ issues'[q.issue].room = q.room
             /\ q.pc = "rsGuest" => q.tracked[q.room] = "Maintenance"
             /\ q.pc = "rsSave" =>
                  IF q.tracked[q.room] = "Maintenance"
                    THEN q.to \in {"Occupied", "Dirty"}
                    ELSE q.to = q.tracked[q.room] /\ rooms'[q.room] # "Maintenance"
           Others == \A g \in Callers \ {h} : Request(mnt[g])
           q == mnt'[h]
<1>1. ASSUME Locked, Others, Request(q) PROVE RepairInv'
  <2> HIDE DEF Request
  <2>1. \A g \in Callers : Request(mnt'[g])
    BY <1>a, <1>1
  <2> USE DEF Request
  <2> QED
    BY <1>1, <2>1 DEF RepairInv, Locking
(* What a step does to the others when it keeps the rooms of the issues.   *)
<1>b. ASSUME \A i \in IssueIds : issues[i].status # "Absent" => issues'[i].room = issues[i].room,
             \A g \in Callers \ {h} : mnt[g].pc \in {"asRoom", "asLock"} =>
               \A i \in IssueIds : Locking(i, mnt[g].room) => Locks(i, mnt[g].room),
             \A g \in Callers \ {h} : mnt[g].pc = "rsSave" =>
               (rooms'[mnt[g].room] = "Maintenance" => rooms[mnt[g].room] = "Maintenance")
      PROVE  Others
  <2> SUFFICES ASSUME NEW g \in Callers \ {h} PROVE Request(mnt[g])
    OBVIOUS
  <2>1. mnt[g].pc \in {"asRoom", "asLock"} => \E i \in IssueIds : Locks(i, mnt[g].room)
    BY <1>b DEF RepairInv
  <2>2. mnt[g].pc \in {"asSave", "rsRoom", "rsGuest", "rsSave"} =>
          mnt[g].issue \in IssueIds /\ issues'[mnt[g].issue].room = mnt[g].room
    BY <1>b DEF RepairInv
  <2>3. /\ mnt[g].pc = "rsGuest" => mnt[g].tracked[mnt[g].room] = "Maintenance"
        /\ mnt[g].pc = "rsSave" =>
             IF mnt[g].tracked[mnt[g].room] = "Maintenance"
               THEN mnt[g].to \in {"Occupied", "Dirty"}
               ELSE mnt[g].to = mnt[g].tracked[mnt[g].room] /\ rooms'[mnt[g].room] # "Maintenance"
    BY <1>b DEF RepairInv
  <2> QED
    BY <2>1, <2>2, <2>3
<1>2. ASSUME UNCHANGED <<rooms, issues>> PROVE Locked /\ Others
  BY <1>2, <1>b DEF RepairInv, Locking
<1> HIDE DEF Others
<1>3. ASSUME NEW r \in Rooms, NEW p \in Priorities, Report(h, r, p) PROVE Locked /\ Others /\ Request(q)
  <2>1. UNCHANGED <<rooms, issues>> /\ q.pc = "rpSave"
    BY <1>3 DEF Report
  <2> QED
    BY <1>2, <2>1
<1>4. ASSUME NEW i \in IssueIds, Resolve(h, i) PROVE Locked /\ Others /\ Request(q)
  <2>1. UNCHANGED <<rooms, issues>> /\ q.pc = "rsRoom" /\ q.issue = i /\ q.room = issues[i].room
    BY <1>4 DEF Resolve
  <2> QED
    BY <1>2, <2>1
<1>5. ASSUME ReportSave(h) PROVE Locked /\ Others /\ Request(q)
  <2>1. UNCHANGED rooms /\ q.pc = "rpEnqueue"
    BY <1>5 DEF ReportSave
  <2>2. \A i \in IssueIds : issues[i].status # "Absent" => issues'[i] = issues[i]
    BY <1>5 DEF ReportSave, IsFirst
  <2>3. Others
    BY <1>b, <2>1, <2>2 DEF Locking
  <2>4. \A i \in IssueIds, r \in Rooms : Locking(i, r) => Locks(i, r)
    BY <2>2 DEF Locking
  <2>5. Locked
    BY <2>1, <2>4 DEF RepairInv
  <2>6. Request(q)
    BY <2>1
  <2> QED
    BY <2>3, <2>5, <2>6
<1>6. ASSUME ReportEnqueue(h) PROVE Locked /\ Others /\ Request(q)
  <2>1. UNCHANGED <<rooms, issues>> /\ q.pc = "asBusy"
    BY <1>6 DEF ReportEnqueue
  <2> QED
    BY <1>2, <2>1
<1>7. ASSUME AssignBusy(h) PROVE Locked /\ Others /\ Request(q)
  <2>1. UNCHANGED <<rooms, issues>> /\ q.pc = "asTake"
    BY <1>7 DEF AssignBusy
  <2> QED
    BY <1>2, <2>1
<1>8. ASSUME AssignTake(h) PROVE Locked /\ Others /\ Request(q)
  <2>1. UNCHANGED <<rooms, issues>> /\ q.pc = "asFind"
    BY <1>8 DEF AssignTake
  <2> QED
    BY <1>2, <2>1
<1>9. ASSUME AssignDone(h) \/ MntSaveFails(h) PROVE Locked /\ Others /\ Request(q)
  <2>1. UNCHANGED <<rooms, issues>> /\ mnt' = [mnt EXCEPT ![h] = MntIdle] /\ MntIdle.pc = "idle"
    BY <1>9 DEF AssignDone, MntSaveFails, MntIdle
  <2>2. q.pc = "idle"
    BY <2>1
  <2> QED
    BY <1>2, <2>1, <2>2
<1>10. ASSUME AssignFind(h) PROVE Locked /\ Others /\ Request(q)
  <2>1. /\ UNCHANGED <<rooms, issues>> /\ mnt[h].pc = "asFind"
        /\ \/ q.pc = "asSave" /\ q.issue = mnt[h].issue /\ q.room = issues[mnt[h].issue].room
           \/ q.pc = "asTake"
    BY <1>10 DEF AssignFind
  <2> QED
    BY <1>2, <2>1
<1>11. ASSUME AssignSave(h) PROVE Locked /\ Others /\ Request(q)
  <2> DEFINE i == mnt[h].issue
  <2>1. /\ i \in IssueIds /\ mnt[h].pc = "asSave" /\ issues[i].status = "Pending"
        /\ \E t : issues' = [issues EXCEPT ![i] = [issues[i] EXCEPT !.status = "Assigned", !.tech = t]]
    BY <1>11 DEF AssignSave
  <2>2. /\ \A j \in IssueIds : j # i => issues'[j] = issues[j]
        /\ issues'[i].status = "Assigned" /\ issues'[i].room = issues[i].room
        /\ issues'[i].priority = issues[i].priority
    BY <2>1
  <2>3. /\ UNCHANGED rooms /\ q.room = mnt[h].room
        /\ \/ q.pc = "asTake"
           \/ q.pc = "asRoom" /\ issues[i].priority = Critical
    BY <1>11 DEF AssignSave
  <2>4. issues[i].room = mnt[h].room
    BY <2>1 DEF RepairInv
  <2> HIDE DEF i
  <2>5. \A j \in IssueIds, r \in Rooms : Locking(j, r) => Locks(j, r)
    BY <2>1, <2>2 DEF Locking
  <2>6. Others
    BY <1>b, <2>2, <2>3, <2>5
  <2> QED
    BY <2>1, <2>2, <2>3, <2>4, <2>5, <2>6 DEF RepairInv
<1>12. ASSUME AssignRoom(h) PROVE Locked /\ Others /\ Request(q)
  <2>1. mnt[h].pc = "asRoom" /\ UNCHANGED <<rooms, issues>> /\ q.pc = "asLock" /\ q.room = mnt[h].room
    BY <1>12 DEF AssignRoom
  <2> QED
    BY <1>2, <2>1 DEF RepairInv, Locking
<1>13. ASSUME AssignLock(h) PROVE Locked /\ Others /\ Request(q)
  <2>1. /\ mnt[h].pc = "asLock" /\ UNCHANGED issues /\ q.pc = "asTake"
        /\ \A r \in Rooms : r # mnt[h].room => rooms'[r] = rooms[r]
    BY <1>13 DEF AssignLock
  <2>2. Others
    <3>1. \A g \in Callers \ {h} : mnt[g].pc = "rsSave" => rooms'[mnt[g].room] = rooms[mnt[g].room]
      BY <2>1 DEF LockApart
    <3>2. \A i \in IssueIds, r \in Rooms : Locking(i, r) => Locks(i, r)
      BY <2>1 DEF Locking
    <3> QED
      BY <1>b, <2>1, <3>1, <3>2
  <2> QED
    BY <2>1, <2>2 DEF RepairInv, Locking
<1>14. ASSUME ResolveRoom(h) PROVE Locked /\ Others /\ Request(q)
  <2>1. /\ UNCHANGED <<rooms, issues>> /\ q.room = mnt[h].room /\ q.issue = mnt[h].issue
        /\ q.to = rooms[q.room] /\ q.tracked[q.room] = rooms[q.room]
        /\ q.pc = IF rooms[q.room] = "Maintenance" THEN "rsGuest" ELSE "rsSave"
        /\ mnt[h].pc = "rsRoom"
    BY <1>14 DEF ResolveRoom, Track
  <2> QED
    BY <1>2, <2>1 DEF RepairInv
<1>15. ASSUME ResolveGuest(h) PROVE Locked /\ Others /\ Request(q)
  <2>1. /\ UNCHANGED <<rooms, issues>> /\ q.room = mnt[h].room /\ q.issue = mnt[h].issue
        /\ mnt[h].pc = "rsGuest" /\ q.pc = "rsSave" /\ q.to \in {"Occupied", "Dirty"}
        /\ q.tracked = mnt[h].tracked
    BY <1>15 DEF ResolveGuest
  <2> QED
    BY <1>2, <2>1 DEF RepairInv
<1>16. ASSUME ResolveSave(h) PROVE Locked /\ Others /\ Request(q)
  <2> DEFINE i == mnt[h].issue
             r == mnt[h].room
  <2>1. mnt[h].pc = "rsSave" /\ i \in IssueIds /\ r \in Rooms /\ issues[i].room = r
    BY <1>16 DEF ResolveSave, RepairInv
  <2>2. /\ \A j \in IssueIds : j # i => issues'[j] = issues[j]
        /\ issues'[i].room = issues[i].room
        /\ q.pc = "asBusy"
        /\ \A p \in Rooms : p # r => rooms'[p] = rooms[p]
        /\ rooms'[r] = IF mnt[h].to = mnt[h].tracked[r] THEN rooms[r] ELSE mnt[h].to
    BY <1>16, <2>1 DEF ResolveSave, Saved
  <2>3. rooms'[r] # "Maintenance"
    BY <2>1, <2>2 DEF RepairInv
  <2>a. \A g \in Callers \ {h} : mnt[g].pc \in {"asRoom", "asLock"} => mnt[g].room # r
    BY <2>1 DEF LockApart
  <2> HIDE DEF i, r
  <2>4. ASSUME NEW p \in Rooms, rooms'[p] = "Maintenance" PROVE \E j \in IssueIds : Locks(j, p)
    <3>1. p # r /\ rooms[p] = "Maintenance"
      BY <2>2, <2>3, <2>4
    <3>2. PICK j \in IssueIds : Locking(j, p)
      BY <3>1 DEF RepairInv
    <3>3. j # i
      BY <2>1, <3>1, <3>2 DEF Locking
    <3> QED
      BY <2>2, <3>2, <3>3 DEF Locking
  <2>5. \A p \in Rooms \ {r}, j \in IssueIds : Locking(j, p) => Locks(j, p)
    BY <2>1, <2>2 DEF Locking
  <2>6. Others
    <3>1. \A g \in Callers \ {h} : mnt[g].pc \in {"asRoom", "asLock"} =>
            \A j \in IssueIds : Locking(j, mnt[g].room) => Locks(j, mnt[g].room)
      BY <2>a, <2>5
    <3>2. \A g \in Callers \ {h} : mnt[g].pc = "rsSave" =>
            (rooms'[mnt[g].room] = "Maintenance" => rooms[mnt[g].room] = "Maintenance")
      BY <2>2, <2>3
    <3> QED
      BY <1>b, <2>2, <3>1, <3>2
  <2> QED
    BY <2>2, <2>4, <2>6
<1> HIDE DEF Locked, Request
<1> QED
  BY <1>1, <1>3, <1>4, <1>5, <1>6, <1>7, <1>8, <1>9, <1>10, <1>11, <1>12, <1>13, <1>14, <1>15, <1>16
     DEF MntStep, MntProceed

(* Unless a resolution saves while an issue of its room is about to lock   *)
(* it, a locked room has an assigned critical issue whose resolution can   *)
(* lift the lock, whatever fails or restarts.                              *)
THEOREM LockCanBeLifted == MntSafe /\ []LockApart => []LockHasIssue
<1>1. MntInv /\ RepairInv /\ LockApart /\ [MntNext]_mntVars => RepairInv'
  <2> SUFFICES ASSUME MntInv, RepairInv, LockApart, [MntNext]_mntVars PROVE RepairInv'
    OBVIOUS
  <2>1. CASE MntRestart
    BY <2>1, RepairRestart
  <2>2. CASE MntEnvironment \/ UNCHANGED mntVars
    <3>1. rooms \in [Rooms -> RoomStatus]
      BY DEF MntInv, MntTypeOK
    <3> QED
      BY <2>2, <3>1, RepairOthers DEF MntEnvironment, RoomLet, RoomVacated, RoomCleaned, mntVars
  <2> QED
    BY <2>1, <2>2, RepairStep DEF MntNext
<1>2. RepairInv => LockHasIssue
  BY DEF RepairInv, Locking, LockHasIssue
<1> QED
  BY Invariance, RepairInit, <1>1, <1>2, PTL DEF MntSafe
=============================================================================
