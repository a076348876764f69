---------------------------- MODULE Maintenance ----------------------------
(* The Maintenance service: reporting and resolving issues, the in-memory  *)
(* priority queue, and the scheduler that both endpoints run afterwards to *)
(* give queued issues to free technicians and lock the critical rooms.     *)
EXTENDS HotelDb, FiniteSets

CONSTANTS Rooms,
          NoRoom,
          Priorities,  \* the priorities reported: some of 1 (Critical) .. 4 (Low)
          MaxIssues,   \* bound: issue rows that may be inserted
          NumTechs,    \* John, Sarah, Mike, in this order
          Callers,     \* bound: requests served at the same time
          Faults       \* whether saves may fail and the process restart

ASSUME MaintenanceAssumption ==
  /\ NoRoom \notin Rooms
  /\ Priorities \subseteq 1..4
  /\ MaxIssues \in Nat /\ NumTechs \in Nat
  /\ Faults \in BOOLEAN

IssueIds == 1..MaxIssues
Techs    == 1..NumTechs
Critical == 1

VARIABLES rooms,     \* Rooms.Status
          occupied,  \* the rooms with a checked-in guest (Guests table)
          issues,    \* MaintenanceIssues
          queue,     \* MaintenanceQueue: the ids in the in-memory list
          mnt        \* the requests in flight

mntVars == <<rooms, occupied, issues, queue, mnt>>

-----------------------------------------------------------------------------
Issues == [status   : IssueStatus,
           room     : Rooms \cup {NoRoom},
           priority : Priorities \cup {0},
           tech     : Techs \cup {0}]

NoIssue == [status |-> "Absent", room |-> NoRoom, priority |-> 0, tech |-> 0]

(* tracked is the room entity the request's DbContext holds: the values it *)
(* was read or last saved with, which a later query does not refresh.      *)
MntIdle == [pc |-> "idle", issue |-> 0, room |-> NoRoom, priority |-> 0,
            to |-> "Clean", free |-> {}, tracked |-> [r \in {} |-> "Clean"]]

Tracked == UNION {[S -> RoomStatus] : S \in SUBSET Rooms}

ReportPc  == {"rpSave", "rpEnqueue"}
AssignPc  == {"asBusy", "asTake", "asFind", "asSave", "asRoom", "asLock"}
ResolvePc == {"rsRoom", "rsGuest", "rsSave"}

MntRequests == [pc       : {"idle"} \cup ReportPc \cup AssignPc \cup ResolvePc,
                issue    : IssueIds \cup {0},
                room     : Rooms \cup {NoRoom},
                priority : Priorities \cup {0},
                to       : RoomStatus,
                free     : SUBSET Techs,
                tracked  : Tracked]

Track(tracked, r, s) ==
  [q \in DOMAIN tracked \cup {r} |-> IF q = r THEN s ELSE tracked[q]]

Pending == {i \in IssueIds : issues[i].status = "Pending"}
Busy    == {issues[i].tech : i \in {j \in IssueIds : issues[j].status = "Assigned"}}

(* The order of the queue: priority, then age; ids grow with CreatedAt.    *)
Before(i, j) == \/ issues[i].priority < issues[j].priority
                \/ issues[i].priority = issues[j].priority /\ i <= j
IsTop(i) == i \in queue /\ \A j \in queue : Before(i, j)

MntInit ==
  /\ rooms = [r \in Rooms |-> "Clean"]
  /\ occupied = {}
  /\ issues = [i \in IssueIds |-> NoIssue]
  /\ queue = {}
  /\ mnt = [h \in Callers |-> MntIdle]

-----------------------------------------------------------------------------
(* Report: read the room, insert the issue, put it in the queue, schedule. *)
Report(h, r, p) ==
  /\ mnt[h].pc = "idle"
  /\ Cardinality({i \in IssueIds : issues[i].status = "Absent"})
       > Cardinality({d \in Callers : mnt[d].pc = "rpSave"})
  /\ mnt' = [mnt EXCEPT ![h] = [@ EXCEPT !.pc = "rpSave", !.room = r, !.priority = p,
                                         !.tracked = Track(mnt[h].tracked, r, rooms[r])]]
  /\ UNCHANGED <<rooms, occupied, issues, queue>>

ReportSave(h) ==
  /\ mnt[h].pc = "rpSave"
  /\ \E i \in IssueIds :
       /\ IsFirst(i, {j \in IssueIds : issues[j].status = "Absent"})
       /\ issues' = [issues EXCEPT ![i] = [status |-> "Pending", room |-> mnt[h].room,
                                           priority |-> mnt[h].priority, tech |-> 0]]
       /\ mnt' = [mnt EXCEPT ![h] = [@ EXCEPT !.pc = "rpEnqueue", !.issue = i]]
  /\ UNCHANGED <<rooms, occupied, queue>>

(* Mutant: the list is initialised with the issue instead of extended.     *)
ReportEnqueue_Replaces(h) ==
  /\ mnt[h].pc = "rpEnqueue"
  /\ queue' = {mnt[h].issue}
  /\ mnt' = [mnt EXCEPT ![h] = [@ EXCEPT !.pc = "asBusy", !.issue = 0]]
  /\ UNCHANGED <<rooms, occupied, issues>>

ReportEnqueue(h) ==
  /\ mnt[h].pc = "rpEnqueue"
  /\ queue' = queue \cup {mnt[h].issue}
  /\ mnt' = [mnt EXCEPT ![h] = [@ EXCEPT !.pc = "asBusy", !.issue = 0]]
  /\ UNCHANGED <<rooms, occupied, issues>>

(* Mutant: every technician counts as free.                                *)
AssignBusy_AllFree(h) ==
  /\ mnt[h].pc = "asBusy"
  /\ mnt' = [mnt EXCEPT ![h] = [@ EXCEPT !.pc = "asTake", !.free = Techs]]
  /\ UNCHANGED <<rooms, occupied, issues, queue>>

(* Mutant: whoever ever had an issue counts as busy.                       *)
AssignBusy_EverAssigned(h) ==
  /\ mnt[h].pc = "asBusy"
  /\ mnt' = [mnt EXCEPT ![h] = [@ EXCEPT !.pc = "asTake",
                                         !.free = Techs \ {issues[i].tech : i \in IssueIds}]]
  /\ UNCHANGED <<rooms, occupied, issues, queue>>

(* The scheduler.  The free technicians are computed once, from one read.  *)
AssignBusy(h) ==
  /\ mnt[h].pc = "asBusy"
  /\ mnt' = [mnt EXCEPT ![h] = [@ EXCEPT !.pc = "asTake", !.free = Techs \ Busy]]
  /\ UNCHANGED <<rooms, occupied, issues, queue>>

(* Mutant: the issue stays in the queue while it is being assigned.        *)
AssignTake_Peek(h) ==
  /\ mnt[h].pc = "asTake"
  /\ mnt[h].free # {}
  /\ \E i \in queue :
       IsTop(i) /\ mnt' = [mnt EXCEPT ![h] = [@ EXCEPT !.pc = "asFind", !.issue = i]]
  /\ UNCHANGED <<rooms, occupied, issues, queue>>

(* The most urgent issue leaves the queue.                                 *)
AssignTake(h) ==
  /\ mnt[h].pc = "asTake"
  /\ mnt[h].free # {}
  /\ \E i \in queue :
       /\ IsTop(i)
       /\ queue' = queue \ {i}
       /\ mnt' = [mnt EXCEPT ![h] = [@ EXCEPT !.pc = "asFind", !.issue = i]]
  /\ UNCHANGED <<rooms, occupied, issues>>

(* No free technician or no queued issue: the request is answered.         *)
AssignDone(h) ==
  /\ mnt[h].pc = "asTake"
  /\ mnt[h].free = {} \/ queue = {}
  /\ mnt' = [mnt EXCEPT ![h] = MntIdle]
  /\ UNCHANGED <<rooms, occupied, issues, queue>>

AssignFind(h) ==
  /\ mnt[h].pc = "asFind"
  /\ LET row == issues[mnt[h].issue] IN
       mnt' = [mnt EXCEPT ![h] = IF row.status = "Pending"
                                   THEN [@ EXCEPT !.pc = "asSave", !.room = row.room]
                                   ELSE [@ EXCEPT !.pc = "asTake", !.issue = 0]]
  /\ UNCHANGED <<rooms, occupied, issues, queue>>

(* The first free technician gets the issue.                               *)
AssignSave(h) ==
  /\ mnt[h].pc = "asSave"
  /\ \E t \in Techs :
       /\ IsFirst(t, mnt[h].free)
       /\ issues' = [issues EXCEPT ![mnt[h].issue] =
                        [@ EXCEPT !.status = "Assigned", !.tech = t]]
       /\ mnt' = [mnt EXCEPT ![h] =
                     [@ EXCEPT !.pc = IF issues[mnt[h].issue].priority = Critical
                                        THEN "asRoom" ELSE "asTake",
                               !.free = mnt[h].free \ {t},
                               !.issue = 0]]
  /\ UNCHANGED <<rooms, occupied, queue>>

(* A critical issue locks its room.  The query returns the tracked entity  *)
(* if the request already holds one.                                       *)
AssignRoom(h) ==
  LET r == mnt[h].room IN
  /\ mnt[h].pc = "asRoom"
  /\ mnt' = [mnt EXCEPT ![h] = [@ EXCEPT !.pc = "asLock",
                                         !.tracked = IF r \in DOMAIN mnt[h].tracked
                                                       THEN mnt[h].tracked
                                                       ELSE Track(mnt[h].tracked, r, rooms[r])]]
  /\ UNCHANGED <<rooms, occupied, issues, queue>>

AssignLock(h) ==
  LET r == mnt[h].room IN
  /\ mnt[h].pc = "asLock"
  /\ rooms' = [rooms EXCEPT ![r] = Saved(mnt[h].tracked[r], "Maintenance", @)]
  /\ mnt' = [mnt EXCEPT ![h] = [@ EXCEPT !.pc = "asTake",
                                         !.tracked = Track(mnt[h].tracked, r, "Maintenance")]]
  /\ UNCHANGED <<occupied, issues, queue>>

-----------------------------------------------------------------------------
(* Resolve: the issue must be Assigned when it is read; a room found under *)
(* Maintenance goes back to its guest or to Housekeeping.                  *)
Resolve(h, i) ==
  /\ mnt[h].pc = "idle"
  /\ issues[i].status = "Assigned"
  /\ mnt' = [mnt EXCEPT ![h] = [@ EXCEPT !.pc = "rsRoom", !.issue = i,
                                         !.room = issues[i].room]]
  /\ UNCHANGED <<rooms, occupied, issues, queue>>

(* Mutant: the room is left as it is.                                      *)
ResolveRoom_NoUnlock(h) ==
  LET r == mnt[h].room IN
  /\ mnt[h].pc = "rsRoom"
  /\ mnt' = [mnt EXCEPT ![h] = [@ EXCEPT !.pc = "rsSave", !.to = rooms[r],
                                         !.tracked = Track(mnt[h].tracked, r, rooms[r])]]
  /\ UNCHANGED <<rooms, occupied, issues, queue>>

ResolveRoom(h) ==
  LET r == mnt[h].room IN
  /\ mnt[h].pc = "rsRoom"
  /\ mnt' = [mnt EXCEPT ![h] =
               [@ EXCEPT !.pc = IF rooms[r] = "Maintenance" THEN "rsGuest" ELSE "rsSave",
                         !.to = rooms[r],
                         !.tracked = Track(mnt[h].tracked, r, rooms[r])]]
  /\ UNCHANGED <<rooms, occupied, issues, queue>>

(* Mutant: the room is given back to a guest who may not be there.         *)
ResolveGuest_AlwaysOccupied(h) ==
  /\ mnt[h].pc = "rsGuest"
  /\ mnt' = [mnt EXCEPT ![h] = [@ EXCEPT !.pc = "rsSave", !.to = "Occupied"]]
  /\ UNCHANGED <<rooms, occupied, issues, queue>>

ResolveGuest(h) ==
  /\ mnt[h].pc = "rsGuest"
  /\ mnt' = [mnt EXCEPT ![h] =
               [@ EXCEPT !.pc = "rsSave",
                         !.to = IF mnt[h].room \in occupied THEN "Occupied" ELSE "Dirty"]]
  /\ UNCHANGED <<rooms, occupied, issues, queue>>

(* Issue and room in one SaveChanges, then the scheduler runs.             *)
ResolveSave(h) ==
  LET r == mnt[h].room IN
  /\ mnt[h].pc = "rsSave"
  /\ issues' = [issues EXCEPT ![mnt[h].issue] = [@ EXCEPT !.status = "Resolved"]]
  /\ rooms' = [rooms EXCEPT ![r] = Saved(mnt[h].tracked[r], mnt[h].to, @)]
  /\ mnt' = [mnt EXCEPT ![h] = [@ EXCEPT !.pc = "asBusy", !.issue = 0, !.to = "Clean",
                                         !.tracked = Track(mnt[h].tracked, r, mnt[h].to)]]
  /\ UNCHANGED <<occupied, queue>>

-----------------------------------------------------------------------------
(* A save throws: the request is answered 500; the queue stays as it is.   *)
MntSaveFails(h) ==
  /\ Faults
  /\ mnt[h].pc \in {"rpSave", "asSave", "asLock", "rsSave"}
  /\ mnt' = [mnt EXCEPT ![h] = MntIdle]
  /\ UNCHANGED <<rooms, occupied, issues, queue>>

(* Mutant: every issue that is not resolved is loaded.                     *)
MntRestart_LoadsUnresolved ==
  /\ Faults
  /\ queue' = {i \in IssueIds : issues[i].status \in {"Pending", "Assigned"}}
  /\ mnt' = [h \in Callers |-> MntIdle]
  /\ UNCHANGED <<rooms, occupied, issues>>

(* The process restarts and loads the Pending issues into the queue.       *)
MntRestart ==
  /\ Faults
  /\ queue' = Pending
  /\ mnt' = [h \in Callers |-> MntIdle]
  /\ UNCHANGED <<rooms, occupied, issues>>

MntProceed(h) ==
  \/ ReportSave(h) \/ ReportEnqueue(h)
  \/ AssignBusy(h) \/ AssignTake(h) \/ AssignDone(h) \/ AssignFind(h)
  \/ AssignSave(h) \/ AssignRoom(h) \/ AssignLock(h)
  \/ ResolveRoom(h) \/ ResolveGuest(h) \/ ResolveSave(h)

MntStep(h) ==
  \/ \E r \in Rooms, p \in Priorities : Report(h, r, p)
  \/ \E i \in IssueIds : Resolve(h, i)
  \/ MntProceed(h)
  \/ MntSaveFails(h)

(* The other services, while they leave a locked room alone (Hotel drops   *)
(* this): rooms are let, vacated and cleaned.                              *)
RoomLet(r) ==
  /\ rooms[r] = "Clean"
  /\ rooms' = [rooms EXCEPT ![r] = "Occupied"]
  /\ occupied' = occupied \cup {r}
  /\ UNCHANGED <<issues, queue, mnt>>

RoomVacated(r) ==
  /\ rooms[r] = "Occupied" /\ r \in occupied
  /\ rooms' = [rooms EXCEPT ![r] = "Dirty"]
  /\ occupied' = occupied \ {r}
  /\ UNCHANGED <<issues, queue, mnt>>

RoomCleaned(r) ==
  /\ rooms[r] = "Dirty"
  /\ rooms' = [rooms EXCEPT ![r] = IF r \in occupied THEN "Occupied" ELSE "Clean"]
  /\ UNCHANGED <<occupied, issues, queue, mnt>>

MntEnvironment == \E r \in Rooms : RoomLet(r) \/ RoomVacated(r) \/ RoomCleaned(r)

MntNext == (\E h \in Callers : MntStep(h)) \/ MntRestart \/ MntEnvironment

MntSafe == MntInit /\ [][MntNext]_mntVars

(* Requests go on, and the technicians finish the jobs they have.          *)
MntFairness ==
  /\ \A h \in Callers : WF_mntVars(MntProceed(h))
  /\ \A i \in IssueIds : SF_mntVars(\E h \in Callers : Resolve(h, i))

MntSpec == MntSafe /\ MntFairness

-----------------------------------------------------------------------------
Quiet == \A h \in Callers : mnt[h].pc = "idle"

(* The request that has taken issue i out of the queue to assign it.       *)
Taken(i) == \E h \in Callers : mnt[h].pc \in {"asFind", "asSave"} /\ mnt[h].issue = i

MntTypeOK ==
  /\ rooms \in [Rooms -> RoomStatus]
  /\ occupied \in SUBSET Rooms
  /\ issues \in [IssueIds -> Issues]
  /\ queue \in SUBSET IssueIds
  /\ mnt \in [Callers -> MntRequests]

(* The queue holds only Pending issues, whatever fails or restarts, so the *)
(* scheduler never spends a turn on a job that is already somebody's.      *)
QueuePending == queue \subseteq Pending

(* An issue that has been assigned stays with its technician, and one that *)
(* is resolved is not assigned again.                                      *)
AssignedOnce ==
  [][\A i \in IssueIds :
       /\ issues[i].tech # 0 => issues'[i].tech = issues[i].tech
       /\ issues[i].status = "Resolved" => issues'[i].status = "Resolved"]_mntVars

(* No issue is forgotten: a Pending one is queued, or a request has it.    *)
PendingTracked ==
  \A i \in Pending :
    \/ i \in queue
    \/ Taken(i)
    \/ \E h \in Callers : mnt[h].pc = "rpEnqueue" /\ mnt[h].issue = i

(* Free technicians are given work automatically: when every request has   *)
(* been answered, an issue still Pending means that nobody is free.        *)
NobodyIdle == (Quiet /\ Pending # {}) => Busy = Techs

(* Every reported issue is eventually given to a technician.               *)
PendingIsAssigned ==
  \A i \in IssueIds : issues[i].status = "Pending" ~> issues[i].status = "Assigned"

(* A technician works on one issue at a time.                              *)
OneJobPerTechnician ==
  \A i, j \in IssueIds :
    (issues[i].status = "Assigned" /\ issues[j].status = "Assigned"
       /\ issues[i].tech = issues[j].tech) => i = j

(* A locked room has an assigned critical issue: its lock can be lifted.   *)
LockHasIssue ==
  Quiet => \A r \in Rooms : rooms[r] = "Maintenance" =>
             \E i \in IssueIds : /\ issues[i].status = "Assigned"
                                 /\ issues[i].room = r
                                 /\ issues[i].priority = Critical

(* Critical lockout: while a critical issue is being worked on, its room   *)
(* is under Maintenance.                                                   *)
CriticalLocksRoom ==
  Quiet => \A i \in IssueIds :
             (issues[i].status = "Assigned" /\ issues[i].priority = Critical)
               => rooms[issues[i].room] = "Maintenance"
=============================================================================
