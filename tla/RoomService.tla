---------------------------- MODULE RoomService ----------------------------
(* The RoomService service: placing an order, moving it through the        *)
(* kitchen, and the in-memory list of active orders that shadows the       *)
(* RoomServiceOrders table.                                                *)
EXTENDS HotelDb, SequencesExt

CONSTANTS Guests,     \* guests, each in a room of their own
          MaxOrders,  \* bound: order rows that may be inserted
          Callers,    \* bound: requests served at the same time
          Faults      \* whether saves may fail and the process restart

ASSUME RoomServiceAssumption ==
  /\ 0 \notin Guests
  /\ MaxOrders \in Nat
  /\ Faults \in BOOLEAN

OrderIds == 1..MaxOrders

(* The statuses in their documented order.                                 *)
Stages      == <<"Received", "Preparing", "Out For Delivery", "Delivered">>
OrderStatus == {Stages[k] : k \in 1..4}
Rank(s)     == IF s = "Absent" THEN 0 ELSE CHOOSE k \in 1..4 : Stages[k] = s
Active      == OrderStatus \ {"Delivered"}

VARIABLES present,   \* guests whose Guests row says CheckedIn
          occupied,  \* guests whose room is Occupied
          orders,    \* RoomServiceOrders: Status and GuestId
          kitchen,   \* ActiveOrderQueue: the list of ids with their status
          ord,       \* the requests in flight
          serial     \* whether a request only comes when no other is served

rsVars == <<present, occupied, orders, kitchen, ord, serial>>

-----------------------------------------------------------------------------
RsIdle == [pc |-> "idle", guest |-> 0, order |-> 0, seen |-> "Absent", to |-> "Absent"]

RsRequests == [pc    : {"idle", "plGuest", "plSave", "plEnqueue", "upSave", "upSync"},
               guest : Guests \cup {0},
               order : OrderIds \cup {0},
               seen  : OrderStatus \cup {"Absent"},
               to    : OrderStatus \cup {"Absent"}]

Entry(o, s) == [id |-> o, status |-> s]
At(o)  == {k \in DOMAIN kitchen : kitchen[k].id = o}
Queued == {kitchen[k].id : k \in DOMAIN kitchen}

RsQuiet == \A h \in Callers : ord[h].pc = "idle"

RsInit ==
  /\ present = Guests
  /\ occupied = Guests
  /\ orders = [o \in OrderIds |-> [status |-> "Absent", guest |-> 0]]
  /\ kitchen = <<>>
  /\ ord = [h \in Callers |-> RsIdle]
  /\ serial \in BOOLEAN

-----------------------------------------------------------------------------
(* ActiveOrderQueue: Remove and UpdateStatus look for the first entry with *)
(* the id, and do nothing if there is none.                                *)
QueueRemove(o) ==
  \/ At(o) = {} /\ UNCHANGED kitchen
  \/ \E k \in At(o) : IsFirst(k, At(o)) /\ kitchen' = RemoveAt(kitchen, k)

QueueUpdateStatus(o, s) ==
  \/ At(o) = {} /\ UNCHANGED kitchen
  \/ \E k \in At(o) : IsFirst(k, At(o)) /\ kitchen' = [kitchen EXCEPT ![k].status = s]

(* The entries of the active orders, oldest first: an order that was       *)
(* inserted later has a larger id and a later CreatedAt.                   *)
ActiveOrders == {o \in OrderIds : orders[o].status \in Active}

OldestFirst == {f \in [1..Cardinality(ActiveOrders) -> ActiveOrders] :
                  /\ \A k, m \in DOMAIN f : k < m => f[k] < f[m]
                  /\ \A o \in ActiveOrders : \E k \in DOMAIN f : f[k] = o}

Loaded(f) == [k \in DOMAIN f |-> Entry(f[k], orders[f[k]].status)]

-----------------------------------------------------------------------------
(* Place an order: the room must be Occupied, then the guest checked in,   *)
(* each when it is read.                                                   *)
PlaceRoom(h, g) ==
  /\ ord[h].pc = "idle" /\ (serial => RsQuiet)
  /\ g \in occupied
  /\ ord' = [ord EXCEPT ![h].pc = "plGuest", ![h].guest = g]
  /\ UNCHANGED <<present, occupied, orders, kitchen, serial>>

PlaceGuest(h) ==
  /\ ord[h].pc = "plGuest"
  /\ ord' = IF ord[h].guest \in present THEN [ord EXCEPT ![h].pc = "plSave"]
                                        ELSE [ord EXCEPT ![h] = RsIdle]
  /\ UNCHANGED <<present, occupied, orders, kitchen, serial>>

PlaceSave(h) ==
  /\ ord[h].pc = "plSave"
  /\ \E o \in OrderIds :
       /\ IsFirst(o, {p \in OrderIds : orders[p].status = "Absent"})
       /\ orders' = [orders EXCEPT ![o] = [status |-> "Received", guest |-> ord[h].guest]]
       /\ ord' = [ord EXCEPT ![h].pc = "plEnqueue", ![h].order = o]
  /\ UNCHANGED <<present, occupied, kitchen, serial>>

PlaceEnqueue(h) ==
  /\ ord[h].pc = "plEnqueue"
  /\ kitchen' = Append(kitchen, Entry(ord[h].order, "Received"))
  /\ ord' = [ord EXCEPT ![h] = RsIdle]
  /\ UNCHANGED <<present, occupied, orders, serial>>

(* Update the status: the endpoint accepts any.  A portal asks for the one *)
(* after the status it shows, which may be an old one by then.             *)
Update(h, o, s) ==
  /\ ord[h].pc = "idle" /\ (serial => RsQuiet)
  /\ orders[o].status # "Absent"
  /\ ord' = [ord EXCEPT ![h].pc = "upSave", ![h].order = o,
                        ![h].seen = orders[o].status, ![h].to = s]
  /\ UNCHANGED <<present, occupied, orders, kitchen, serial>>

UpdateSave(h) ==
  /\ ord[h].pc = "upSave"
  /\ orders' = [orders EXCEPT ![ord[h].order].status = Saved(ord[h].seen, ord[h].to, @)]
  /\ ord' = [ord EXCEPT ![h].pc = "upSync"]
  /\ UNCHANGED <<present, occupied, kitchen, serial>>

(* Mutant: the list only drops delivered orders.                           *)
UpdateSync_OnlyDelivered(h) ==
  /\ ord[h].pc = "upSync"
  /\ IF ord[h].to = "Delivered" THEN QueueRemove(ord[h].order) ELSE UNCHANGED kitchen
  /\ ord' = [ord EXCEPT ![h] = RsIdle]
  /\ UNCHANGED <<present, occupied, orders, serial>>

(* Then the list is brought in line: a delivered order leaves it.          *)
UpdateSync(h) ==
  /\ ord[h].pc = "upSync"
  /\ IF ord[h].to = "Delivered" THEN QueueRemove(ord[h].order)
                                 ELSE QueueUpdateStatus(ord[h].order, ord[h].to)
  /\ ord' = [ord EXCEPT ![h] = RsIdle]
  /\ UNCHANGED <<present, occupied, orders, serial>>

RsSaveFails(h) ==
  /\ Faults
  /\ ord[h].pc \in {"plSave", "upSave"}
  /\ ord' = [ord EXCEPT ![h] = RsIdle]
  /\ UNCHANGED <<present, occupied, orders, kitchen, serial>>

(* Mutant: the list is extended instead of cleared (a reload).             *)
RsRestart_Appends ==
  /\ Faults
  /\ \E f \in OldestFirst : kitchen' = kitchen \o Loaded(f)
  /\ ord' = [h \in Callers |-> RsIdle]
  /\ UNCHANGED <<present, occupied, orders, serial>>

(* The process restarts: the list is loaded from the active orders by age. *)
RsRestart ==
  /\ Faults
  /\ \E f \in OldestFirst : kitchen' = Loaded(f)
  /\ ord' = [h \in Callers |-> RsIdle]
  /\ UNCHANGED <<present, occupied, orders, serial>>

(* Reception checks a guest out; Housekeeping may clean the room meanwhile.*)
Leave(g) ==
  /\ g \in present
  /\ present' = present \ {g}
  /\ occupied' = occupied \ {g}
  /\ UNCHANGED <<orders, kitchen, ord, serial>>

RoomDirtied(g) ==
  /\ g \in occupied
  /\ occupied' = occupied \ {g}
  /\ UNCHANGED <<present, orders, kitchen, ord, serial>>

RoomReady(g) ==
  /\ g \in present \ occupied
  /\ occupied' = occupied \cup {g}
  /\ UNCHANGED <<present, orders, kitchen, ord, serial>>

RsProceed(h) == \/ PlaceGuest(h) \/ PlaceSave(h) \/ PlaceEnqueue(h)
                \/ UpdateSave(h) \/ UpdateSync(h)

RsStep(h) ==
  \/ \E g \in Guests : PlaceRoom(h, g)
  \/ \E o \in OrderIds, s \in OrderStatus \ {"Received"} : Update(h, o, s)
  \/ RsProceed(h)
  \/ RsSaveFails(h)

RsNext == \/ \E h \in Callers : RsStep(h)
          \/ RsRestart
          \/ \E g \in Guests : Leave(g) \/ RoomDirtied(g) \/ RoomReady(g)

RsSafe == RsInit /\ [][RsNext]_rsVars

-----------------------------------------------------------------------------
RsTypeOK ==
  /\ present \in SUBSET Guests
  /\ occupied \in SUBSET Guests
  /\ orders \in [OrderIds -> [status : OrderStatus \cup {"Absent"}, guest : Guests \cup {0}]]
  /\ kitchen \in Seq([id : OrderIds, status : Active])
  /\ ord \in [Callers -> RsRequests]
  /\ serial \in BOOLEAN

(* An order is in the list once, and only if it is stored, across failed   *)
(* saves and restarts; and as long as nobody has touched it, it is there,  *)
(* or the request that placed it is about to put it there.                 *)
QueuedOnce ==
  /\ \A k, m \in DOMAIN kitchen : kitchen[k].id = kitchen[m].id => k = m
  /\ \A o \in Queued : orders[o].status # "Absent"
  /\ \A o \in OrderIds : orders[o].status = "Received" =>
       \/ o \in Queued
       \/ \E h \in Callers : ord[h].pc = "plEnqueue" /\ ord[h].order = o

(* The list is first in, first out: an older order comes first.            *)
FifoOrder == \A k, m \in DOMAIN kitchen : k < m => kitchen[k].id < kitchen[m].id

(* Between requests no entry of the list is a ghost: the order is still    *)
(* active, with the status the list shows.                                 *)
NoGhosts ==
  RsQuiet => \A k \in DOMAIN kitchen : orders[kitchen[k].id].status = kitchen[k].status

(* One request at a time, the list is oldest first and agrees with the     *)
(* table: no entry is a ghost, through failed saves and restarts.          *)
SerialListExact == serial => FifoOrder /\ NoGhosts

(* The list holds the active orders: between requests none is missing.     *)
ActiveIsQueued ==
  RsQuiet => \A o \in OrderIds : orders[o].status \in Active => o \in Queued

(* Received, Preparing, Out For Delivery, Delivered: never backwards.      *)
StatusForward ==
  [][\A o \in OrderIds : Rank(orders[o].status) <= Rank(orders'[o].status)]_rsVars

(* An order is inserted only for a guest who is checked in.                *)
OrderOfPresentGuest ==
  [][\A o \in OrderIds :
       (orders[o].status = "Absent" /\ orders'[o].status # "Absent")
         => orders'[o].guest \in present]_rsVars
=============================================================================
