------------------------------ MODULE Portals ------------------------------
(* The portals: each shows lists it has fetched, and fetches them all again *)
(* when the gateway relays one of the events it listens to.  One portal is *)
(* followed, and of its lists one, beside the services that change the     *)
(* tables and publish the events.                                          *)
EXTENDS Sequences, FiniteSets, Integers

CONSTANTS Views,     \* the portals to choose from
          Jobs,      \* bound: requests the services work on at a time
          Fetches,   \* bound: fetches of the portal under way at a time
          MaxWire,   \* bound: relayed events under way at a time
          Faults     \* whether fetches, publications and connections fail

Portals  == {"guest", "housekeeper", "kitchen", "maintenance", "operations", "receptionist"}
Tables   == {"rooms", "guests", "tasks", "issues", "orders", "bill", "audit", "staff"}
Events   == {"guest.checked_in", "guest.checked_out", "room.vacated",
             "room.cleaning_started", "room.cleaned", "room.status_changed",
             "room_service.created", "room_service.updated",
             "maintenance.created", "maintenance.assigned", "maintenance.resolved"}
Copies   == {"own", "dashboard.notification"}

ASSUME PortalsAssumption ==
  Views \subseteq Portals /\ MaxWire \in Nat /\ Faults \in BOOLEAN

-----------------------------------------------------------------------------
(* The lists a portal fetches, in order, and the events that make it.      *)
KitchenLists      == <<"rooms", "orders">>
HousekeeperLists  == <<"rooms", "tasks">>
ReceptionistLists == <<"rooms", "guests">>
MaintenanceLists  == <<"rooms", "issues">>
OperationsLists   == <<"rooms", "guests", "tasks", "issues", "orders", "audit", "staff">>
GuestLists        == <<"orders", "issues", "bill">>

KitchenEvents(e)      == e \in {"room.status_changed", "room_service.created", "room_service.updated"}
HousekeeperEvents(e)  == e \in {"room.status_changed", "room.cleaning_started", "room.cleaned", "room.vacated"}
ReceptionistEvents(e) == e \in {"room.status_changed", "guest.checked_in", "guest.checked_out"}
MaintenanceEvents(e)  == e \in {"room.status_changed", "maintenance.created",
                                "maintenance.assigned", "maintenance.resolved"}
OperationsEvents(e)   == e \in Events
GuestEvents(e)        == e \in Events

Lists(p) == CASE p = "kitchen" -> KitchenLists [] p = "housekeeper" -> HousekeeperLists
              [] p = "receptionist" -> ReceptionistLists [] p = "maintenance" -> MaintenanceLists
              [] p = "operations" -> OperationsLists [] p = "guest" -> GuestLists

ListensTo(p, e) ==
  CASE p = "kitchen" -> KitchenEvents(e) [] p = "housekeeper" -> HousekeeperEvents(e)
    [] p = "receptionist" -> ReceptionistEvents(e) [] p = "maintenance" -> MaintenanceEvents(e)
    [] p = "operations" -> OperationsEvents(e) [] p = "guest" -> GuestEvents(e)

(* The lists for which the answer 401, 403 or 404 logs the portal out.     *)
Guarded(p) == IF p = "guest" THEN {"orders", "issues", "bill"}
                             ELSE {"tasks", "issues", "orders", "audit", "staff"}

(* The operations after which the portal that asked for them fetches.      *)
KitchenRequests      == {"UpdateOrder"}
HousekeeperRequests  == {"StartTask", "CompleteTask"}
ReceptionistRequests == {"CheckIn", "CheckOut"}
MaintenanceRequests  == {"Resolve"}
OperationsRequests   == {"StartTask", "CompleteTask", "Report", "Resolve", "UpdateOrder", "EditStaff"}
GuestRequests        == {"PlaceOrder", "Report"}

AsksFor(p) == CASE p = "kitchen" -> KitchenRequests [] p = "housekeeper" -> HousekeeperRequests
                [] p = "receptionist" -> ReceptionistRequests [] p = "maintenance" -> MaintenanceRequests
                [] p = "operations" -> OperationsRequests [] p = "guest" -> GuestRequests

-----------------------------------------------------------------------------
(* What the services do: saves and publications, in order.                 *)
Save(ts)   == [do |-> "save", tables |-> ts, event |-> "none"]
Publish(e) == [do |-> "publish", tables |-> {}, event |-> e]

(* PublishEventAsync: the event, then the audit row, whose save takes      *)
(* whatever else is tracked and unsaved with it.                           *)
PublishEventAsync(e, unsaved) == <<Publish(e), Save({"audit"} \cup unsaved)>>

CheckIn      == <<Save({"rooms", "guests"})>> \o PublishEventAsync("guest.checked_in", {})
                  \o PublishEventAsync("room.status_changed", {})
CheckOut     == <<Save({"rooms", "guests", "stay"})>> \o PublishEventAsync("guest.checked_out", {})
                  \o PublishEventAsync("room.vacated", {}) \o PublishEventAsync("room.status_changed", {})
NewTask      == <<Save({"tasks"})>>
StartTask    == <<Save({"tasks", "rooms"})>> \o PublishEventAsync("room.cleaning_started", {})
                  \o PublishEventAsync("room.status_changed", {})
CompleteTask == <<Save({"tasks", "rooms"})>> \o PublishEventAsync("room.cleaned", {})
                  \o PublishEventAsync("room.status_changed", {})
MarkDirty    == <<Save({"tasks", "rooms"})>> \o PublishEventAsync("room.status_changed", {})
PlaceOrder   == <<Save({"orders", "bill"})>> \o PublishEventAsync("room_service.created", {})

(* Mutant: the event is published before the row is saved.                 *)
UpdateOrder_Early == PublishEventAsync("room_service.updated", {}) \o <<Save({"orders"})>>

UpdateOrder  == <<Save({"orders"})>> \o PublishEventAsync("room_service.updated", {})

(* The scheduler assigns an issue, and locks the room of a critical one.   *)
Assign(critical) ==
  <<Save({"issues"})>>
    \o (IF critical THEN <<Save({"rooms"})>> \o PublishEventAsync("room.status_changed", {}) ELSE <<>>)
    \o PublishEventAsync("maintenance.assigned", {})

(* Resolving the issue of a locked room publishes before anything is saved.*)
Unlock(locked) ==
  IF locked THEN PublishEventAsync("room.status_changed", {"issues", "rooms"}) ELSE <<Save({"issues"})>>

Scheduled == {<<>>} \cup {Assign(critical) : critical \in BOOLEAN}
Report    == {<<Save({"issues"})>> \o PublishEventAsync("maintenance.created", {}) \o s : s \in Scheduled}
Resolve   == {Unlock(locked) \o PublishEventAsync("maintenance.resolved", {}) \o s :
                locked \in BOOLEAN, s \in Scheduled}
EditStaff == <<Save({"staff"})>>

Operations == {"CheckIn", "CheckOut", "NewTask", "StartTask", "CompleteTask", "MarkDirty",
               "PlaceOrder", "UpdateOrder", "Report", "Resolve", "EditStaff"}

Script(op) == CASE op = "CheckIn" -> {CheckIn}     [] op = "CheckOut" -> {CheckOut}
                [] op = "NewTask" -> {NewTask}     [] op = "StartTask" -> {StartTask}
                [] op = "CompleteTask" -> {CompleteTask} [] op = "MarkDirty" -> {MarkDirty}
                [] op = "PlaceOrder" -> {PlaceOrder} [] op = "UpdateOrder" -> {UpdateOrder}
                [] op = "Report" -> Report         [] op = "Resolve" -> Resolve
                [] op = "EditStaff" -> {EditStaff}
-----------------------------------------------------------------------------
VARIABLES portal,   \* the portal followed, and the list of it
          list,
          link,     \* "out": not logged in; "connecting", "live", "dead": the socket
          allowed,  \* whether the services accept its token
          unread,   \* the list has changed since a fetch last read it, or the socket opened,
                    \* or the publication or the fetch that was due failed
          stale,    \* the list has changed since what is shown was read
          wire,     \* events the gateway is relaying to the portal
          fetch,    \* fetches: the list asked for, and the answer
          jobs      \* requests at the services: what they have still to do

poVars == <<portal, list, link, allowed, unread, stale, wire, fetch, jobs>>

NoFetch  == [at |-> 0, answer |-> "none"]
NoJob    == [op |-> "none", todo |-> <<>>]
Watched  == CHOOSE k \in DOMAIN Lists(portal) : Lists(portal)[k] = list
FetchRuns(f) == fetch[f].at # 0

PoInit ==
  /\ portal \in Views
  /\ list \in {Lists(portal)[k] : k \in DOMAIN Lists(portal)}
  /\ link = "out"
  /\ allowed = FALSE
  /\ unread = TRUE
  /\ stale = TRUE
  /\ wire = {}
  /\ fetch = [f \in Fetches |-> NoFetch]
  /\ jobs = [j \in Jobs |-> NoJob]

(* fetchData is called: it will ask for the first list.  (fetchStaff, its  *)
(* last part, is also called alone.)                                       *)
FetchFrom(k) == \E f \in Fetches : /\ ~FetchRuns(f)
                                   /\ fetch' = [fetch EXCEPT ![f].at = k]
FetchStarts == FetchFrom(1)

NoSession == link' = "out" /\ wire' = {}
Fixed     == UNCHANGED <<portal, list>>

-----------------------------------------------------------------------------
(* The services.                                                           *)
Begin(j, op) ==
  /\ jobs[j] = NoJob
  /\ \E s \in Script(op) : jobs' = [jobs EXCEPT ![j] = [op |-> op, todo |-> s]]
  /\ Fixed /\ UNCHANGED <<link, allowed, unread, stale, wire, fetch>>

Next(j, what) == jobs[j].todo # <<>> /\ Head(jobs[j].todo).do = what
Done(j) == jobs' = [jobs EXCEPT ![j].todo = Tail(@)]

(* A save commits: what was read of the list before is old.  A check-out   *)
(* changes all that the guest may see.                                     *)
Commit(j) ==
  LET saved  == Head(jobs[j].todo).tables
      leaves == portal = "guest" /\ "stay" \in saved
  IN
  /\ Next(j, "save")
  /\ Done(j)
  /\ allowed' = (allowed /\ ~leaves)
  /\ IF list \in saved \/ leaves
       THEN /\ unread' = TRUE /\ stale' = TRUE
            /\ fetch' = [f \in Fetches |-> IF fetch[f].at = Watched /\ fetch[f].answer = "new"
                                             THEN [fetch[f] EXCEPT !.answer = "old"] ELSE fetch[f]]
       ELSE UNCHANGED <<unread, stale, fetch>>
  /\ Fixed /\ UNCHANGED <<link, wire>>

(* The event goes out on two channels, or fails to (that only the second   *)
(* fails is left to Gateway), and the gateway relays both; the relays of   *)
(* events the portal does not listen to are left out.                      *)
Announce(j) ==
  LET e == Head(jobs[j].todo).event IN
  /\ Next(j, "publish")
  /\ Done(j)
  /\ \E sent \in IF Faults THEN {{}, Copies} ELSE {Copies} :
       /\ wire' = IF link = "live" /\ ListensTo(portal, e) THEN wire \cup {<<e, c>> : c \in sent}
                                                           ELSE wire
       /\ unread' = (unread /\ ~(sent = {} /\ ListensTo(portal, e)))
  /\ Cardinality(wire') <= MaxWire
  /\ Fixed /\ UNCHANGED <<link, allowed, stale, fetch>>

(* The request is answered; if the portal sent it, it fetches.             *)
Answer(j) ==
  /\ jobs[j] # NoJob /\ jobs[j].todo = <<>>
  /\ jobs' = [jobs EXCEPT ![j] = NoJob]
  /\ \/ /\ jobs[j].op \in AsksFor(portal) /\ link # "out"
        /\ FetchFrom(IF jobs[j].op = "EditStaff" THEN Len(Lists(portal)) ELSE 1)
     \/ UNCHANGED fetch
  /\ Fixed /\ UNCHANGED <<link, allowed, unread, stale, wire>>

-----------------------------------------------------------------------------
(* The portal.  It logs in: it fetches and opens a socket.                 *)
Login ==
  /\ link = "out"
  /\ link' = "connecting"
  /\ allowed' = TRUE
  /\ FetchStarts
  /\ Fixed /\ UNCHANGED <<unread, stale, wire, jobs>>

(* Its page is loaded again, with the token it has stored: what it showed, *)
(* fetched and listened to is gone.                                        *)
Reload ==
  /\ link # "out"
  /\ link' = "connecting"
  /\ stale' = TRUE /\ wire' = {}
  /\ \E f \in Fetches : fetch' = [g \in Fetches |-> IF g = f THEN [NoFetch EXCEPT !.at = 1]
                                                         ELSE NoFetch]
  /\ Fixed /\ UNCHANGED <<allowed, unread, jobs>>

(* The gateway has registered the socket; nobody fetches for what happened *)
(* before.                                                                 *)
Register ==
  /\ link = "connecting"
  /\ link' = "live"
  /\ unread' = FALSE
  /\ Fixed /\ UNCHANGED <<allowed, stale, wire, fetch, jobs>>

(* The guest portal logs out when it hears of a check-out of its room.     *)
LogsOut(e) == portal = "guest" /\ e = "guest.checked_out"

(* A relayed event arrives.                                                *)
Hear(m) ==
  /\ m \in wire
  /\ IF LogsOut(m[1]) THEN NoSession /\ UNCHANGED fetch
                      ELSE wire' = wire \ {m} /\ FetchStarts /\ UNCHANGED link
  /\ Fixed /\ UNCHANGED <<allowed, unread, stale, jobs>>

(* A service reads the list a fetch asks for.                              *)
Read(f) ==
  LET asked  == Lists(portal)[fetch[f].at]
      denied == ~allowed /\ asked \in Guarded(portal)
  IN
  /\ FetchRuns(f) /\ fetch[f].answer = "none"
  /\ fetch' = [fetch EXCEPT ![f].answer = IF denied THEN "denied" ELSE "new"]
  /\ unread' = (unread /\ (denied \/ asked # list))
  /\ Fixed /\ UNCHANGED <<link, allowed, stale, wire, jobs>>

(* Its answer arrives: the list is shown, and the next one asked for.      *)
Show(f) ==
  /\ fetch[f].answer \in {"new", "old"}
  /\ stale' = IF fetch[f].at = Watched THEN fetch[f].answer = "old" ELSE stale
  /\ fetch' = [fetch EXCEPT ![f] = IF fetch[f].at = Len(Lists(portal)) THEN NoFetch
                                     ELSE [at |-> fetch[f].at + 1, answer |-> "none"]]
  /\ Fixed /\ UNCHANGED <<link, allowed, unread, wire, jobs>>

(* A denied list logs the portal out.                                      *)
Denied(f) ==
  /\ fetch[f].answer = "denied"
  /\ NoSession
  /\ fetch' = [fetch EXCEPT ![f] = NoFetch]
  /\ Fixed /\ UNCHANGED <<allowed, unread, stale, jobs>>

Expire ==
  /\ allowed /\ portal # "guest"
  /\ allowed' = FALSE
  /\ Fixed /\ UNCHANGED <<link, unread, stale, wire, fetch, jobs>>

Logout ==
  /\ link # "out"
  /\ NoSession
  /\ Fixed /\ UNCHANGED <<allowed, unread, stale, fetch, jobs>>

(* A fetch fails and is given up; a lost socket is not opened again.       *)
FetchFails(f) ==
  /\ Faults
  /\ FetchRuns(f)
  /\ fetch' = [fetch EXCEPT ![f] = NoFetch]
  /\ unread' = (unread /\ fetch[f].at > Watched)
  /\ Fixed /\ UNCHANGED <<link, allowed, stale, wire, jobs>>

Disconnect ==
  /\ Faults
  /\ link \in {"connecting", "live"}
  /\ link' = "dead" /\ wire' = {}
  /\ Fixed /\ UNCHANGED <<allowed, unread, stale, fetch, jobs>>

Work(j)      == Commit(j) \/ Announce(j) \/ Answer(j)
FetchStep(f) == Read(f) \/ Show(f) \/ Denied(f)
HearAny      == \E m \in Events \X Copies : Hear(m)

PoNext == \/ \E j \in Jobs : Work(j) \/ \E op \in Operations : Begin(j, op)
          \/ \E f \in Fetches : FetchStep(f) \/ FetchFails(f)
          \/ HearAny
          \/ Login \/ Reload \/ Register \/ Expire \/ Logout \/ Disconnect

PoSafe == PoInit /\ [][PoNext]_poVars

-----------------------------------------------------------------------------
PoTypeOK ==
  /\ portal \in Portals /\ list \in Tables
  /\ link \in {"out", "connecting", "live", "dead"}
  /\ {allowed, unread, stale} \subseteq BOOLEAN
  /\ wire \subseteq Events \X Copies
  /\ fetch \in [Fetches -> [at : 0..Len(Lists(portal)), answer : {"none", "new", "old", "denied"}]]
  /\ \A j \in Jobs : jobs[j].op \in Operations \cup {"none"}

(* A fetch will still read the list, or log out; an event is still to come.*)
WillRead == \E f \in Fetches :
              \/ FetchRuns(f) /\ fetch[f].at < Watched
              \/ fetch[f].at = Watched /\ fetch[f].answer = "none"
              \/ fetch[f].answer = "denied"
WillHear == \/ wire # {}
            \/ \E j \in Jobs : \E k \in DOMAIN jobs[j].todo :
                 jobs[j].todo[k].do = "publish" /\ ListensTo(portal, jobs[j].todo[k].event)

Unnoticed == link = "live" /\ unread /\ ~WillRead /\ ~WillHear

(* The lists no event announces in time: cleaning tasks inserted by the    *)
(* subscriber and the loop, audit rows saved after their event, staff; and *)
(* the room a resolve unlocks, announced before it is saved, for whoever   *)
(* does not listen to maintenance.resolved.                                *)
Unannounced(p) ==
  {"tasks", "audit", "staff"}
    \cup IF p \in {"kitchen", "housekeeper", "receptionist"} THEN {"rooms"} ELSE {}

(* No change goes unnoticed: a connected portal has read each change of    *)
(* what it shows, or an event on its way will make it, whatever order the  *)
(* two copies of the events and the answers arrive in.  So a guest who has *)
(* checked out does not go on looking at the room of the next one.         *)
ChangesNoticed == list \notin Unannounced(portal) => ~Unnoticed

(* Not even the lists excepted above.                                      *)
AllChangesNoticed == ~Unnoticed

(* "perfect synchronization": when nothing is on its way, the portal shows *)
(* what is stored.                                                         *)
PerfectSync ==
  (/\ link = "live" /\ allowed /\ wire = {} /\ list \notin Unannounced(portal)
   /\ \A f \in Fetches : ~FetchRuns(f)
   /\ \A j \in Jobs : jobs[j] = NoJob)
  => ~stale
=============================================================================
