----------------------------- MODULE Reception -----------------------------
(* The Reception service: check-in under the SemaphoreSlim, and check-out. *)
(* A request is a process: it stops at every await, where other requests   *)
(* and the other services may run.  The database outlives the process.     *)
EXTENDS HotelDb, FiniteSets, Sequences

CONSTANTS Rooms,      \* rooms of the hotel
          RoomTypes,  \* Single, Double, Accessible, Suite
          TypeOf,     \* the type of each room
          MaxGuests,  \* bound: guest rows that may be inserted
          MaxOrders,  \* bound: room service orders that may be placed
          Clerks,     \* bound: requests Reception serves at the same time
          NoRoom      \* null in Guest.RoomNumber

ASSUME ReceptionAssumption ==
  /\ TypeOf \in [Rooms -> RoomTypes]
  /\ MaxGuests \in Nat
  /\ MaxOrders \in Nat
  /\ NoRoom \notin Rooms

Guests == 1..MaxGuests
Orders == 1..MaxOrders

VARIABLES rooms,        \* Rooms.Status
          guests,       \* Guests: Status and RoomNumber
          bookings,     \* Bookings.Status of the booking of each guest
          bills,        \* BillingRecords of each guest: the orders charged
          orderOf,      \* RoomServiceOrders.GuestId, 0 while not inserted
          checkInLock,  \* CurrentCount of the SemaphoreSlim
          req           \* the requests in flight

rcpVars == <<rooms, guests, bookings, bills, orderOf, checkInLock, req>>

-----------------------------------------------------------------------------
Holders(r) == {g \in Guests : guests[g].status = "CheckedIn" /\ guests[g].room = r}
Vacant(r)  == Holders(r) = {}
OrdersOf(g) == {o \in Orders : orderOf[o] = g}

CheckInPc  == {"ciRead", "ciSave", "ciBook", "ciPublish"}  \* inside the lock
CheckOutPc == {"coBooking", "coRoom", "coOrders", "coSave", "coPublish"}

Idle == [pc |-> "idle", room |-> NoRoom, guest |-> 0, seen |-> "Clean", orders |-> {}]

Requests == [pc     : {"idle", "ciWait"} \cup CheckInPc \cup CheckOutPc,
             room   : Rooms \cup {NoRoom},
             guest  : Guests \cup {0},
             seen   : RoomStatus,
             orders : SUBSET Orders]

(* At start-up the seeded rooms are Clean and every other table is empty.  *)
RcpInit ==
  /\ rooms = [r \in Rooms |-> "Clean"]
  /\ guests = [g \in Guests |-> [status |-> "Absent", room |-> NoRoom]]
  /\ bookings = [g \in Guests |-> "Absent"]
  /\ bills = [g \in Guests |-> <<>>]
  /\ orderOf = [o \in Orders |-> 0]
  /\ checkInLock = 1
  /\ req = [c \in Clerks |-> Idle]

-----------------------------------------------------------------------------
(* Check-in.  A request that fails validation is answered 422 and changes  *)
(* nothing, so only valid requests arrive.  Arrivals are bounded by the    *)
(* guest rows that are left.                                               *)
CheckInArrive(c) ==
  /\ req[c].pc = "idle"
  /\ Cardinality({d \in Clerks : req[d].pc \in {"ciWait", "ciRead", "ciSave"}})
       < Cardinality({g \in Guests : guests[g].status = "Absent"})
  /\ req' = [req EXCEPT ![c] = [@ EXCEPT !.pc = "ciWait"]]
  /\ UNCHANGED <<rooms, guests, bookings, bills, orderOf, checkInLock>>

(* Mutant: the semaphore is not waited for.                                *)
CheckInLock_NoWait(c) ==
  /\ req[c].pc = "ciWait"
  /\ checkInLock' = 0
  /\ req' = [req EXCEPT ![c] = [@ EXCEPT !.pc = "ciRead"]]
  /\ UNCHANGED <<rooms, guests, bookings, bills, orderOf>>

CheckInLock(c) ==
  /\ req[c].pc = "ciWait"
  /\ checkInLock = 1
  /\ checkInLock' = 0
  /\ req' = [req EXCEPT ![c] = [@ EXCEPT !.pc = "ciRead"]]
  /\ UNCHANGED <<rooms, guests, bookings, bills, orderOf>>

(* Mutant: the query forgets the status.                                   *)
CleanRooms_AnyStatus(t) == {r \in Rooms : TypeOf[r] = t}

CleanRooms(t) == {r \in Rooms : TypeOf[r] = t /\ rooms[r] = "Clean"}

(* The Clean rooms of the requested type are read; which of them the       *)
(* preferences select is the subject of RoomAssignment.                    *)
CheckInRead(c, t) ==
  /\ req[c].pc = "ciRead"
  /\ \E r \in CleanRooms(t) :
       req' = [req EXCEPT ![c] = [@ EXCEPT !.pc = "ciSave", !.room = r]]
  /\ UNCHANGED <<rooms, guests, bookings, bills, orderOf, checkInLock>>

CheckInNoRoom(c, t) ==
  /\ req[c].pc = "ciRead"
  /\ CleanRooms(t) = {}
  /\ req' = [req EXCEPT ![c] = Idle]
  /\ checkInLock' = 1
  /\ UNCHANGED <<rooms, guests, bookings, bills, orderOf>>

(* First SaveChanges: the room and the new guest in one transaction.  The  *)
(* room was read Clean, so Occupied is written whatever is stored by now.  *)
CheckInSave(c) ==
  /\ req[c].pc = "ciSave"
  /\ \E g \in Guests :
       /\ IsFirst(g, {h \in Guests : guests[h].status = "Absent"})
       /\ guests' = [guests EXCEPT ![g] = [status |-> "CheckedIn", room |-> req[c].room]]
       /\ req' = [req EXCEPT ![c] = [@ EXCEPT !.pc = "ciBook", !.guest = g]]
  /\ rooms' = [rooms EXCEPT ![req[c].room] = "Occupied"]
  /\ UNCHANGED <<bookings, bills, orderOf, checkInLock>>

(* Second SaveChanges: the booking, in a transaction of its own.           *)
CheckInBook(c) ==
  /\ req[c].pc = "ciBook"
  /\ bookings' = [bookings EXCEPT ![req[c].guest] = "Active"]
  /\ req' = [req EXCEPT ![c] = [@ EXCEPT !.pc = "ciPublish"]]
  /\ UNCHANGED <<rooms, guests, bills, orderOf, checkInLock>>

(* Both events are published, the lock released and the request answered.  *)
CheckInReply(c) ==
  /\ req[c].pc = "ciPublish"
  /\ req' = [req EXCEPT ![c] = Idle]
  /\ checkInLock' = 1
  /\ UNCHANGED <<rooms, guests, bookings, bills, orderOf>>

-----------------------------------------------------------------------------
(* Check-out of the room r: four reads, one save, no lock.                 *)
CheckOutGuest(c, r) ==
  /\ req[c].pc = "idle"
  /\ \E g \in Guests :
       /\ IsFirst(g, Holders(r))
       /\ req' = [req EXCEPT ![c] =
                     [@ EXCEPT !.pc = "coBooking", !.room = r, !.guest = g]]
  /\ UNCHANGED <<rooms, guests, bookings, bills, orderOf, checkInLock>>

(* Mutant: check-out goes on without an Active booking.                    *)
CheckOutBooking_NoCheck(c) ==
  /\ req[c].pc = "coBooking"
  /\ req' = [req EXCEPT ![c] = [@ EXCEPT !.pc = "coRoom"]]
  /\ UNCHANGED <<rooms, guests, bookings, bills, orderOf, checkInLock>>

(* Without an Active booking the answer is 404.                            *)
CheckOutBooking(c) ==
  /\ req[c].pc = "coBooking"
  /\ req' = IF bookings[req[c].guest] = "Active"
              THEN [req EXCEPT ![c] = [@ EXCEPT !.pc = "coRoom"]]
              ELSE [req EXCEPT ![c] = Idle]
  /\ UNCHANGED <<rooms, guests, bookings, bills, orderOf, checkInLock>>

CheckOutRoom(c) ==
  /\ req[c].pc = "coRoom"
  /\ req' = [req EXCEPT ![c] = [@ EXCEPT !.pc = "coOrders", !.seen = rooms[req[c].room]]]
  /\ UNCHANGED <<rooms, guests, bookings, bills, orderOf, checkInLock>>

CheckOutOrders(c) ==
  /\ req[c].pc = "coOrders"
  /\ req' = [req EXCEPT ![c] = [@ EXCEPT !.pc = "coSave", !.orders = OrdersOf(req[c].guest)]]
  /\ UNCHANGED <<rooms, guests, bookings, bills, orderOf, checkInLock>>

(* The bill, the booking, the guest and the room in one SaveChanges.       *)
CheckOutSave(c) ==
  LET g == req[c].guest
      r == req[c].room
  IN  /\ req[c].pc = "coSave"
      /\ bills' = [bills EXCEPT ![g] = Append(@, req[c].orders)]
      /\ bookings' = [bookings EXCEPT ![g] = "Completed"]
      /\ guests' = [guests EXCEPT ![g] = [status |-> "CheckedOut", room |-> NoRoom]]
      /\ rooms' = [rooms EXCEPT ![r] = Saved(req[c].seen, "Dirty", @)]
      /\ req' = [req EXCEPT ![c] = [@ EXCEPT !.pc = "coPublish"]]
      /\ UNCHANGED <<orderOf, checkInLock>>

(* Mutant: check-out releases the semaphore too, which it never acquired.  *)
CheckOutReply_Releases(c) ==
  /\ req[c].pc = "coPublish"
  /\ req' = [req EXCEPT ![c] = Idle]
  /\ checkInLock' = checkInLock + 1
  /\ UNCHANGED <<rooms, guests, bookings, bills, orderOf>>

(* guest.checked_out, room.vacated and room.status_changed are published.  *)
CheckOutReply(c) ==
  /\ req[c].pc = "coPublish"
  /\ req' = [req EXCEPT ![c] = Idle]
  /\ UNCHANGED <<rooms, guests, bookings, bills, orderOf, checkInLock>>

-----------------------------------------------------------------------------
(* Mutant: an exception leaves the semaphore held, there is no finally.    *)
SaveFails_KeepsLock(c) ==
  /\ req[c].pc \in {"ciSave", "ciBook", "coSave"}
  /\ req' = [req EXCEPT ![c] = Idle]
  /\ UNCHANGED <<rooms, guests, bookings, bills, orderOf, checkInLock>>

(* SaveChanges throws (the database stays locked beyond the busy timeout): *)
(* its transaction is rolled back, check-in releases the lock in finally.  *)
SaveFails(c) ==
  /\ req[c].pc \in {"ciSave", "ciBook", "coSave"}
  /\ checkInLock' = IF req[c].pc \in CheckInPc THEN 1 ELSE checkInLock
  /\ req' = [req EXCEPT ![c] = Idle]
  /\ UNCHANGED <<rooms, guests, bookings, bills, orderOf>>

(* The process stops and starts again: requests and lock are in memory.    *)
Restart ==
  /\ \E c \in Clerks : req[c].pc # "idle"
  /\ req' = [c \in Clerks |-> Idle]
  /\ checkInLock' = 1
  /\ UNCHANGED <<rooms, guests, bookings, bills, orderOf>>

Arrive(c) == CheckInArrive(c) \/ \E r \in Rooms : CheckOutGuest(c, r)

Proceed(c) ==
  \/ \E t \in RoomTypes : CheckInRead(c, t) \/ CheckInNoRoom(c, t)
  \/ CheckInSave(c)
  \/ CheckInBook(c)
  \/ CheckInReply(c)
  \/ CheckOutBooking(c)
  \/ CheckOutRoom(c)
  \/ CheckOutOrders(c)
  \/ CheckOutSave(c)
  \/ CheckOutReply(c)

Step(c) == Arrive(c) \/ CheckInLock(c) \/ Proceed(c) \/ SaveFails(c)

-----------------------------------------------------------------------------
(* The other services, as Reception may rely on them: Housekeeping and     *)
(* Maintenance may give a room any status at any moment, but make it Clean *)
(* only while it has no guest.                                             *)
OtherServices(r, s) ==
  /\ s # rooms[r]
  /\ s = "Clean" => Vacant(r)
  /\ rooms' = [rooms EXCEPT ![r] = s]
  /\ UNCHANGED <<guests, bookings, bills, orderOf, checkInLock, req>>

(* RoomService inserts an order of a guest whose room is Occupied.         *)
PlaceOrder(g, o) ==
  /\ IsFirst(o, {p \in Orders : orderOf[p] = 0})
  /\ guests[g].status = "CheckedIn"
  /\ rooms[guests[g].room] = "Occupied"
  /\ orderOf' = [orderOf EXCEPT ![o] = g]
  /\ UNCHANGED <<rooms, guests, bookings, bills, checkInLock, req>>

Environment ==
  \/ \E r \in Rooms, s \in RoomStatus : OtherServices(r, s)
  \/ \E g \in Guests, o \in Orders : PlaceOrder(g, o)

RcpNext == (\E c \in Clerks : Step(c)) \/ Restart \/ Environment

RcpSafe == RcpInit /\ [][RcpNext]_rcpVars

(* A request that can go on does; waiters of the semaphore are served in   *)
(* order, so a waiter that finds it free again and again gets it.          *)
RcpFairness == \A c \in Clerks : WF_rcpVars(Proceed(c)) /\ SF_rcpVars(CheckInLock(c))

RcpSpec == RcpSafe /\ RcpFairness

-----------------------------------------------------------------------------
TypeOK ==
  /\ rooms \in [Rooms -> RoomStatus]
  /\ guests \in [Guests -> [status : GuestStatus, room : Rooms \cup {NoRoom}]]
  /\ bookings \in [Guests -> BookingStatus]
  /\ bills \in [Guests -> Seq(SUBSET Orders)]
  /\ orderOf \in [Orders -> Guests \cup {0}]
  /\ checkInLock \in {0, 1}
  /\ req \in [Clerks -> Requests]

(* No two checked-in guests ever share a room, however check-ins, late     *)
(* check-outs, failed saves, restarts and the other services interleave.   *)
NoDoubleBooking ==
  \A g, h \in Guests :
    (guests[g].status = "CheckedIn" /\ guests[h].status = "CheckedIn"
       /\ guests[g].room = guests[h].room) => g = h

(* A guest who has left was billed and has a Completed booking; a guest    *)
(* who has not left was never billed.                                      *)
SettledWhenGone ==
  \A g \in Guests :
    IF guests[g].status = "CheckedOut"
      THEN bookings[g] = "Completed" /\ bills[g] # <<>>
      ELSE bookings[g] # "Completed" /\ bills[g] = <<>>

(* Every request is answered: no check-in waits for the lock for ever and  *)
(* no exit of the handler forgets to release it.                           *)
RequestsAnswered == \A c \in Clerks : req[c].pc # "idle" ~> req[c].pc = "idle"

-----------------------------------------------------------------------------
(* The promise Reception implements: RoomLedger, where the holder of a     *)
(* room is the guest checked in there.                                     *)
Only(S)   == IF S = {} THEN 0 ELSE CHOOSE g \in S : TRUE
Holder(r) == Only(Holders(r))

Ledger == INSTANCE RoomLedger WITH
            Guests <- Guests, Nobody <- 0,
            holder <- [r \in Rooms |-> Holder(r)],
            served <- {g \in Guests : guests[g].status # "Absent"}

(* Every step of Reception lets a free room to a new guest, frees a room,  *)
(* or leaves the ledger alone.                                             *)
ImplementsLedger == Ledger!LedgerSpec

-----------------------------------------------------------------------------
(* What the documentation promises and the code does not keep.             *)

(* One stay, one bill: no guest has two billing records.                   *)
BilledOnce == \A g \in Guests : Len(bills[g]) <= 1

(* The bill computes the room service total: when a guest has left, every  *)
(* order the guest placed is on a bill.                                    *)
OrdersBilled ==
  \A g \in Guests : guests[g].status = "CheckedOut" =>
    \A o \in OrdersOf(g) : \E i \in DOMAIN bills[g] : o \in bills[g][i]

(* Check-in is one transaction: a checked-in guest has a booking unless    *)
(* the check-in is still being served.                                     *)
CheckedInHasBooking ==
  \A g \in Guests : guests[g].status = "CheckedIn" =>
    \/ bookings[g] = "Active"
    \/ \E c \in Clerks : req[c].pc = "ciBook" /\ req[c].guest = g

(* Check-out makes Dirty only the room it vacates: it never changes a room *)
(* that is by now let to another guest.                                    *)
CheckOutSparesNextGuest ==
  [][\A c \in Clerks : \A h \in Guests \ {req[c].guest} :
       (CheckOutSave(c) /\ h \in Holders(req[c].room))
         => rooms'[req[c].room] = rooms[req[c].room]]_rcpVars
=============================================================================
