-------------------------- MODULE ReceptionProofs --------------------------
(* What holds of Reception for every hotel: any rooms, types, number of    *)
(* clerks, guests and orders.                                              *)
EXTENDS Reception, TLAPS

(* The request c is between WaitAsync and Release.                         *)
Inside(c) == req[c].pc \in CheckInPc

(* At most one check-in is inside, and only while the semaphore is taken.  *)
LockInv ==
  \A c \in Clerks : Inside(c) =>
    checkInLock = 0 /\ \A d \in Clerks : Inside(d) => d = c

(* A Clean room has no guest, nor has the room a check-in is about to let: *)
(* what it read as Clean under the lock is still without a guest.          *)
VacancyInv ==
  /\ \A r \in Rooms : rooms[r] = "Clean" => Vacant(r)
  /\ \A c \in Clerks : req[c].pc = "ciSave" => req[c].room \in Rooms /\ Vacant(req[c].room)

(* A request has the room and the guest that its later steps use.          *)
RequestInv ==
  /\ \A c \in Clerks : req[c].pc \in {"ciSave", "ciBook", "ciPublish"} \cup CheckOutPc
                       => req[c].room \in Rooms
  /\ \A c \in Clerks : req[c].pc \in {"ciBook", "ciPublish"} \cup CheckOutPc
                       => req[c].guest \in Guests

(* The stay so far: a row not yet inserted has no booking and no bill, the *)
(* booking of a check-in between its two saves is still to be inserted,    *)
(* and a check-out past its second read found a booking.                   *)
StayInv ==
  /\ \A g \in Guests : guests[g].status = "Absent" => bookings[g] = "Absent"
  /\ \A g \in Guests : guests[g].status = "CheckedIn" => guests[g].room \in Rooms
  /\ \A c \in Clerks : req[c].pc = "ciBook" =>
       guests[req[c].guest].status = "CheckedIn" /\ bookings[req[c].guest] = "Absent"
  /\ \A c \in Clerks : req[c].pc \in {"coRoom", "coOrders", "coSave"} =>
       bookings[req[c].guest] # "Absent"

RcpInv ==
  /\ TypeOK
  /\ RequestInv
  /\ LockInv
  /\ VacancyInv
  /\ NoDoubleBooking
  /\ StayInv
  /\ SettledWhenGone

-----------------------------------------------------------------------------
(* Every variable of Reception has its type: rows, requests and semaphore. *)
LEMMA TypeInit == RcpInit => TypeOK
BY ReceptionAssumption DEF RcpInit, TypeOK, Idle, Requests, RoomStatus, GuestStatus,
   BookingStatus, Guests, Orders

(* A bill added to the bills of a guest.                                   *)
LEMMA AppendBill ==
  ASSUME NEW s \in Seq(SUBSET Orders), NEW e \in SUBSET Orders
  PROVE  Append(s, e) \in Seq(SUBSET Orders)
OBVIOUS

(* A guest who has been billed has a bill.                                  *)
LEMMA BillNotEmpty ==
  ASSUME NEW s \in Seq(SUBSET Orders), NEW e
  PROVE  Append(s, e) # <<>>
OBVIOUS

(* The literals the actions write are values of their columns.             *)
LEMMA Literals ==
  /\ {"Clean", "Occupied", "Dirty"} \subseteq RoomStatus
  /\ {"CheckedIn", "CheckedOut"} \subseteq GuestStatus
  /\ {"Active", "Completed"} \subseteq BookingStatus
BY DEF RoomStatus, GuestStatus, BookingStatus

(* A request starts and ends as Idle, and Idle is a request.               *)
LEMMA IdleType == Idle \in Requests
BY Literals DEF Idle, Requests

(* No action of Reception, nor of the services around it, breaks a type.   *)
LEMMA TypeStep == TypeOK /\ RequestInv /\ [RcpNext]_rcpVars => TypeOK'
<1> SUFFICES ASSUME TypeOK, RequestInv, [RcpNext]_rcpVars PROVE TypeOK'
  OBVIOUS
<1>1. ASSUME NEW c \in Clerks, CheckInArrive(c) PROVE TypeOK'
  BY <1>1 DEF CheckInArrive, TypeOK, Requests
<1>2. ASSUME NEW c \in Clerks, NEW r \in Rooms, CheckOutGuest(c, r) PROVE TypeOK'
  <2> PICK g \in Guests :
         req' = [req EXCEPT ![c] =
                   [@ EXCEPT !.pc = "coBooking", !.room = r, !.guest = g]]
    BY <1>2 DEF CheckOutGuest
  <2>1. [req[c] EXCEPT !.pc = "coBooking", !.room = r, !.guest = g] \in Requests
    BY DEF TypeOK, Requests, CheckOutPc
  <2> QED BY <1>2, <2>1 DEF CheckOutGuest, TypeOK
<1>3. ASSUME NEW c \in Clerks, CheckInLock(c) PROVE TypeOK'
  BY <1>3 DEF CheckInLock, TypeOK, Requests, CheckInPc
<1>4. ASSUME NEW c \in Clerks, NEW t \in RoomTypes, CheckInRead(c, t) PROVE TypeOK'
  <2> PICK r \in Rooms : req' = [req EXCEPT ![c] = [@ EXCEPT !.pc = "ciSave", !.room = r]]
    BY <1>4 DEF CheckInRead, CleanRooms
  <2>1. [req[c] EXCEPT !.pc = "ciSave", !.room = r] \in Requests
    BY DEF TypeOK, Requests, CheckInPc
  <2> QED BY <1>4, <2>1 DEF CheckInRead, TypeOK
<1>5. ASSUME NEW c \in Clerks, NEW t \in RoomTypes, CheckInNoRoom(c, t) PROVE TypeOK'
  BY <1>5, IdleType DEF CheckInNoRoom, TypeOK
<1>6. ASSUME NEW c \in Clerks, CheckInSave(c) PROVE TypeOK'
  <2> PICK g \in Guests :
         /\ guests' = [guests EXCEPT ![g] = [status |-> "CheckedIn", room |-> req[c].room]]
         /\ req' = [req EXCEPT ![c] = [@ EXCEPT !.pc = "ciBook", !.guest = g]]
    BY <1>6 DEF CheckInSave
  <2>1. [req[c] EXCEPT !.pc = "ciBook", !.guest = g] \in Requests
    BY DEF TypeOK, Requests, CheckInPc
  <2>2. req[c].room \in Rooms \cup {NoRoom}
    BY DEF TypeOK, Requests
  <2> QED BY <1>6, <2>1, <2>2, Literals DEF CheckInSave, TypeOK
<1>7. ASSUME NEW c \in Clerks, CheckInBook(c) PROVE TypeOK'
  BY <1>7, Literals DEF CheckInBook, TypeOK, Requests, CheckInPc
<1>8. ASSUME NEW c \in Clerks, CheckInReply(c) PROVE TypeOK'
  BY <1>8, IdleType DEF CheckInReply, TypeOK
<1>9. ASSUME NEW c \in Clerks, CheckOutBooking(c) PROVE TypeOK'
  BY <1>9, IdleType DEF CheckOutBooking, TypeOK, Requests, CheckOutPc
<1>10. ASSUME NEW c \in Clerks, CheckOutRoom(c) PROVE TypeOK'
  <2>0. req[c].room \in Rooms
    BY <1>10 DEF CheckOutRoom, RequestInv, CheckOutPc
  <2>1. [req[c] EXCEPT !.pc = "coOrders", !.seen = rooms[req[c].room]] \in Requests
    BY <2>0 DEF TypeOK, Requests, CheckOutPc
  <2> QED BY <1>10, <2>1 DEF CheckOutRoom, TypeOK
<1>11. ASSUME NEW c \in Clerks, CheckOutOrders(c) PROVE TypeOK'
  <2>0. OrdersOf(req[c].guest) \in SUBSET Orders
    BY DEF OrdersOf
  <2>1. [req[c] EXCEPT !.pc = "coSave", !.orders = OrdersOf(req[c].guest)] \in Requests
    BY <2>0 DEF TypeOK, Requests, CheckOutPc
  <2> QED BY <1>11, <2>1 DEF CheckOutOrders, TypeOK
<1>12. ASSUME NEW c \in Clerks, CheckOutSave(c) PROVE TypeOK'
  <2>1. [req[c] EXCEPT !.pc = "coPublish"] \in Requests
    BY DEF TypeOK, Requests, CheckOutPc
  <2>2. req' \in [Clerks -> Requests]
    BY <1>12, <2>1 DEF CheckOutSave, TypeOK
  <2>3. bills' \in [Guests -> Seq(SUBSET Orders)]
    <3>1. req[c].orders \in SUBSET Orders
      BY DEF TypeOK, Requests
    <3> QED BY <1>12, <3>1, AppendBill DEF CheckOutSave, TypeOK
  <2>4. rooms' \in [Rooms -> RoomStatus]
    BY <1>12, Literals DEF CheckOutSave, Saved, TypeOK
  <2>5. bookings' \in [Guests -> BookingStatus]
    BY <1>12, Literals DEF CheckOutSave, TypeOK
  <2>6. guests' \in [Guests -> [status : GuestStatus, room : Rooms \cup {NoRoom}]]
    BY <1>12, Literals DEF CheckOutSave, TypeOK
  <2>7. orderOf' \in [Orders -> Guests \cup {0}] /\ checkInLock' \in {0, 1}
    BY <1>12 DEF CheckOutSave, TypeOK
  <2> QED BY <2>2, <2>3, <2>4, <2>5, <2>6, <2>7 DEF TypeOK
<1>13. ASSUME NEW c \in Clerks, CheckOutReply(c) PROVE TypeOK'
  BY <1>13, IdleType DEF CheckOutReply, TypeOK
<1>14. ASSUME NEW c \in Clerks, SaveFails(c) PROVE TypeOK'
  BY <1>14, IdleType DEF SaveFails, TypeOK
<1>15. CASE Restart
  BY <1>15, IdleType DEF Restart, TypeOK
<1>16. ASSUME NEW r \in Rooms, NEW s \in RoomStatus, OtherServices(r, s) PROVE TypeOK'
  BY <1>16 DEF OtherServices, TypeOK
<1>17. ASSUME NEW g \in Guests, NEW o \in Orders, PlaceOrder(g, o) PROVE TypeOK'
  BY <1>17 DEF PlaceOrder, TypeOK
<1>18. CASE UNCHANGED rcpVars
  BY <1>18 DEF rcpVars, TypeOK
<1> QED
  BY <1>1, <1>2, <1>3, <1>4, <1>5, <1>6, <1>7, <1>8, <1>9, <1>10, <1>11, <1>12, <1>13,
     <1>14, <1>15, <1>16, <1>17, <1>18
     DEF RcpNext, Step, Arrive, Proceed, Environment
(* No step loses the room or the guest a request works with.               *)
LEMMA RequestStep == TypeOK /\ RequestInv /\ [RcpNext]_rcpVars => RequestInv'
<1> SUFFICES ASSUME TypeOK, RequestInv, [RcpNext]_rcpVars PROVE RequestInv'
  OBVIOUS
<1> USE DEF RequestInv, CheckOutPc, TypeOK
<1>1. ASSUME NEW c \in Clerks, CheckInArrive(c) PROVE RequestInv'
  BY <1>1 DEF CheckInArrive
<1>2. ASSUME NEW c \in Clerks, NEW r \in Rooms, CheckOutGuest(c, r) PROVE RequestInv'
  BY <1>2 DEF CheckOutGuest
<1>3. ASSUME NEW c \in Clerks, CheckInLock(c) PROVE RequestInv'
  BY <1>3 DEF CheckInLock
<1>4. ASSUME NEW c \in Clerks, NEW t \in RoomTypes, CheckInRead(c, t) PROVE RequestInv'
  BY <1>4 DEF CheckInRead, CleanRooms
<1>5. ASSUME NEW c \in Clerks, NEW t \in RoomTypes, CheckInNoRoom(c, t) PROVE RequestInv'
  BY <1>5 DEF CheckInNoRoom, Idle
<1>6. ASSUME NEW c \in Clerks, CheckInSave(c) PROVE RequestInv'
  BY <1>6 DEF CheckInSave
<1>7. ASSUME NEW c \in Clerks, CheckInBook(c) PROVE RequestInv'
  BY <1>7 DEF CheckInBook
<1>8. ASSUME NEW c \in Clerks, CheckInReply(c) PROVE RequestInv'
  BY <1>8 DEF CheckInReply, Idle
<1>9. ASSUME NEW c \in Clerks, CheckOutBooking(c) PROVE RequestInv'
  BY <1>9 DEF CheckOutBooking, Idle
<1>10. ASSUME NEW c \in Clerks, CheckOutRoom(c) PROVE RequestInv'
  BY <1>10 DEF CheckOutRoom
<1>11. ASSUME NEW c \in Clerks, CheckOutOrders(c) PROVE RequestInv'
  BY <1>11 DEF CheckOutOrders
<1>12. ASSUME NEW c \in Clerks, CheckOutSave(c) PROVE RequestInv'
  BY <1>12 DEF CheckOutSave
<1>13. ASSUME NEW c \in Clerks, CheckOutReply(c) PROVE RequestInv'
  BY <1>13 DEF CheckOutReply, Idle
<1>14. ASSUME NEW c \in Clerks, SaveFails(c) PROVE RequestInv'
  BY <1>14 DEF SaveFails, Idle
<1>15. CASE Restart
  BY <1>15 DEF Restart, Idle
<1>16. ASSUME NEW r \in Rooms, NEW s \in RoomStatus, OtherServices(r, s) PROVE RequestInv'
  BY <1>16 DEF OtherServices
<1>17. ASSUME NEW g \in Guests, NEW o \in Orders, PlaceOrder(g, o) PROVE RequestInv'
  BY <1>17 DEF PlaceOrder
<1>18. CASE UNCHANGED rcpVars
  BY <1>18 DEF rcpVars
<1> QED
  BY <1>1, <1>2, <1>3, <1>4, <1>5, <1>6, <1>7, <1>8, <1>9, <1>10, <1>11, <1>12,
     <1>13, <1>14, <1>15, <1>16, <1>17, <1>18
     DEF RcpNext, Step, Arrive, Proceed, Environment

(* The semaphore keeps check-ins apart: nobody enters while it is taken.   *)
LEMMA LockStep == TypeOK /\ LockInv /\ [RcpNext]_rcpVars => LockInv'
<1> SUFFICES ASSUME TypeOK, LockInv, [RcpNext]_rcpVars PROVE LockInv'
  OBVIOUS
<1> USE DEF LockInv, Inside, CheckInPc, TypeOK
<1>1. ASSUME NEW c \in Clerks, CheckInArrive(c) PROVE LockInv'
  BY <1>1 DEF CheckInArrive
<1>2. ASSUME NEW c \in Clerks, NEW r \in Rooms, CheckOutGuest(c, r) PROVE LockInv'
  BY <1>2 DEF CheckOutGuest
<1>3. ASSUME NEW c \in Clerks, CheckInLock(c) PROVE LockInv'
  BY <1>3 DEF CheckInLock
<1>4. ASSUME NEW c \in Clerks, NEW t \in RoomTypes, CheckInRead(c, t) PROVE LockInv'
  BY <1>4 DEF CheckInRead, CleanRooms
<1>5. ASSUME NEW c \in Clerks, NEW t \in RoomTypes, CheckInNoRoom(c, t) PROVE LockInv'
  BY <1>5 DEF CheckInNoRoom, Idle
<1>6. ASSUME NEW c \in Clerks, CheckInSave(c) PROVE LockInv'
  BY <1>6 DEF CheckInSave
<1>7. ASSUME NEW c \in Clerks, CheckInBook(c) PROVE LockInv'
  BY <1>7 DEF CheckInBook
<1>8. ASSUME NEW c \in Clerks, CheckInReply(c) PROVE LockInv'
  BY <1>8 DEF CheckInReply, Idle
<1>9. ASSUME NEW c \in Clerks, CheckOutBooking(c) PROVE LockInv'
  BY <1>9 DEF CheckOutBooking, Idle
<1>10. ASSUME NEW c \in Clerks, CheckOutRoom(c) PROVE LockInv'
  BY <1>10 DEF CheckOutRoom
<1>11. ASSUME NEW c \in Clerks, CheckOutOrders(c) PROVE LockInv'
  BY <1>11 DEF CheckOutOrders
<1>12. ASSUME NEW c \in Clerks, CheckOutSave(c) PROVE LockInv'
  BY <1>12 DEF CheckOutSave
<1>13. ASSUME NEW c \in Clerks, CheckOutReply(c) PROVE LockInv'
  BY <1>13 DEF CheckOutReply, Idle
<1>14. ASSUME NEW c \in Clerks, SaveFails(c) PROVE LockInv'
  BY <1>14 DEF SaveFails, Idle
<1>15. CASE Restart
  BY <1>15 DEF Restart, Idle
<1>16. ASSUME NEW r \in Rooms, NEW s \in RoomStatus, OtherServices(r, s) PROVE LockInv'
  BY <1>16 DEF OtherServices
<1>17. ASSUME NEW g \in Guests, NEW o \in Orders, PlaceOrder(g, o) PROVE LockInv'
  BY <1>17 DEF PlaceOrder
<1>18. CASE UNCHANGED rcpVars
  BY <1>18 DEF rcpVars
<1> QED
  BY <1>1, <1>2, <1>3, <1>4, <1>5, <1>6, <1>7, <1>8, <1>9, <1>10, <1>11, <1>12,
     <1>13, <1>14, <1>15, <1>16, <1>17, <1>18
     DEF RcpNext, Step, Arrive, Proceed, Environment

(* No step lets a guest into a room while it stays or becomes Clean.       *)
LEMMA VacancyStep == TypeOK /\ LockInv /\ VacancyInv /\ [RcpNext]_rcpVars => VacancyInv'
<1> SUFFICES ASSUME TypeOK, LockInv, VacancyInv, [RcpNext]_rcpVars PROVE VacancyInv'
  OBVIOUS
<1> USE DEF VacancyInv, Vacant, Holders, LockInv, Inside, CheckInPc, TypeOK
<1>1. ASSUME NEW c \in Clerks, CheckInArrive(c) PROVE VacancyInv'
  BY <1>1 DEF CheckInArrive
<1>2. ASSUME NEW c \in Clerks, NEW r \in Rooms, CheckOutGuest(c, r) PROVE VacancyInv'
  BY <1>2 DEF CheckOutGuest
<1>3. ASSUME NEW c \in Clerks, CheckInLock(c) PROVE VacancyInv'
  BY <1>3 DEF CheckInLock
<1>4. ASSUME NEW c \in Clerks, NEW t \in RoomTypes, CheckInRead(c, t) PROVE VacancyInv'
  BY <1>4 DEF CheckInRead, CleanRooms
<1>5. ASSUME NEW c \in Clerks, NEW t \in RoomTypes, CheckInNoRoom(c, t) PROVE VacancyInv'
  BY <1>5 DEF CheckInNoRoom, Idle
<1>6. ASSUME NEW c \in Clerks, CheckInSave(c) PROVE VacancyInv'
  BY <1>6 DEF CheckInSave
<1>7. ASSUME NEW c \in Clerks, CheckInBook(c) PROVE VacancyInv'
  BY <1>7 DEF CheckInBook
<1>8. ASSUME NEW c \in Clerks, CheckInReply(c) PROVE VacancyInv'
  BY <1>8 DEF CheckInReply, Idle
<1>9. ASSUME NEW c \in Clerks, CheckOutBooking(c) PROVE VacancyInv'
  BY <1>9 DEF CheckOutBooking, Idle
<1>10. ASSUME NEW c \in Clerks, CheckOutRoom(c) PROVE VacancyInv'
  BY <1>10 DEF CheckOutRoom
<1>11. ASSUME NEW c \in Clerks, CheckOutOrders(c) PROVE VacancyInv'
  BY <1>11 DEF CheckOutOrders
<1>12. ASSUME NEW c \in Clerks, CheckOutSave(c) PROVE VacancyInv'
  BY <1>12 DEF CheckOutSave, Saved
<1>13. ASSUME NEW c \in Clerks, CheckOutReply(c) PROVE VacancyInv'
  BY <1>13 DEF CheckOutReply, Idle
<1>14. ASSUME NEW c \in Clerks, SaveFails(c) PROVE VacancyInv'
  BY <1>14 DEF SaveFails, Idle
<1>15. CASE Restart
  BY <1>15 DEF Restart, Idle
<1>16. ASSUME NEW r \in Rooms, NEW s \in RoomStatus, OtherServices(r, s) PROVE VacancyInv'
  BY <1>16 DEF OtherServices
<1>17. ASSUME NEW g \in Guests, NEW o \in Orders, PlaceOrder(g, o) PROVE VacancyInv'
  BY <1>17 DEF PlaceOrder
<1>18. CASE UNCHANGED rcpVars
  BY <1>18 DEF rcpVars
<1> QED
  BY <1>1, <1>2, <1>3, <1>4, <1>5, <1>6, <1>7, <1>8, <1>9, <1>10, <1>11, <1>12,
     <1>13, <1>14, <1>15, <1>16, <1>17, <1>18
     DEF RcpNext, Step, Arrive, Proceed, Environment

(* Only three actions change guests, bookings or bills: the saves.         *)
LEMMA StepKinds ==
  ASSUME [RcpNext]_rcpVars
  PROVE  \/ \E c \in Clerks : CheckInSave(c) \/ CheckInBook(c) \/ CheckOutSave(c)
         \/ UNCHANGED <<guests, bookings, bills>>
BY DEF rcpVars, RcpNext, Step, Arrive, Proceed, Environment, Restart, CheckInArrive,
   CheckOutGuest, CheckInLock, CheckInRead, CheckInNoRoom, CheckInReply, CheckOutBooking,
   CheckOutRoom, CheckOutOrders, CheckOutReply, SaveFails, OtherServices, PlaceOrder

(* A check-in lets a vacant room and a check-out takes guests away only.   *)
LEMMA BookingStep ==
  TypeOK /\ VacancyInv /\ NoDoubleBooking /\ [RcpNext]_rcpVars => NoDoubleBooking'
<1> SUFFICES ASSUME TypeOK, VacancyInv, NoDoubleBooking, [RcpNext]_rcpVars
             PROVE  NoDoubleBooking'
  OBVIOUS
<1> USE DEF NoDoubleBooking, TypeOK
<1>1. ASSUME NEW c \in Clerks, CheckInSave(c) PROVE NoDoubleBooking'
  BY <1>1 DEF CheckInSave, VacancyInv, Vacant, Holders
<1>2. ASSUME NEW c \in Clerks, CheckInBook(c) PROVE NoDoubleBooking'
  BY <1>2 DEF CheckInBook
<1>3. ASSUME NEW c \in Clerks, CheckOutSave(c) PROVE NoDoubleBooking'
  BY <1>3 DEF CheckOutSave
<1>4. CASE UNCHANGED <<guests, bookings, bills>>
  BY <1>4
<1> QED
  BY <1>1, <1>2, <1>3, <1>4, StepKinds

(* What the stays are in keeps in step with the requests that serve them.  *)
LEMMA StayStep ==
  TypeOK /\ RequestInv /\ LockInv /\ StayInv /\ [RcpNext]_rcpVars => StayInv'
<1> SUFFICES ASSUME TypeOK, RequestInv, LockInv, StayInv, [RcpNext]_rcpVars PROVE StayInv'
  OBVIOUS
<1> USE DEF StayInv, RequestInv, LockInv, Inside, CheckInPc, CheckOutPc, TypeOK
<1>1. ASSUME NEW c \in Clerks, CheckInArrive(c) PROVE StayInv'
  BY <1>1 DEF CheckInArrive
<1>2. ASSUME NEW c \in Clerks, NEW r \in Rooms, CheckOutGuest(c, r) PROVE StayInv'
  BY <1>2 DEF CheckOutGuest
<1>3. ASSUME NEW c \in Clerks, CheckInLock(c) PROVE StayInv'
  BY <1>3 DEF CheckInLock
<1>4. ASSUME NEW c \in Clerks, NEW t \in RoomTypes, CheckInRead(c, t) PROVE StayInv'
  BY <1>4 DEF CheckInRead, CleanRooms
<1>5. ASSUME NEW c \in Clerks, NEW t \in RoomTypes, CheckInNoRoom(c, t) PROVE StayInv'
  BY <1>5 DEF CheckInNoRoom, Idle
<1>6. ASSUME NEW c \in Clerks, CheckInSave(c) PROVE StayInv'
  BY <1>6 DEF CheckInSave, IsFirst
<1>7. ASSUME NEW c \in Clerks, CheckInBook(c) PROVE StayInv'
  BY <1>7 DEF CheckInBook
<1>8. ASSUME NEW c \in Clerks, CheckInReply(c) PROVE StayInv'
  BY <1>8 DEF CheckInReply, Idle
<1>9. ASSUME NEW c \in Clerks, CheckOutBooking(c) PROVE StayInv'
  BY <1>9 DEF CheckOutBooking, Idle
<1>10. ASSUME NEW c \in Clerks, CheckOutRoom(c) PROVE StayInv'
  BY <1>10 DEF CheckOutRoom
<1>11. ASSUME NEW c \in Clerks, CheckOutOrders(c) PROVE StayInv'
  BY <1>11 DEF CheckOutOrders
<1>12. ASSUME NEW c \in Clerks, CheckOutSave(c) PROVE StayInv'
  BY <1>12 DEF CheckOutSave
<1>13. ASSUME NEW c \in Clerks, CheckOutReply(c) PROVE StayInv'
  BY <1>13 DEF CheckOutReply, Idle
<1>14. ASSUME NEW c \in Clerks, SaveFails(c) PROVE StayInv'
  BY <1>14 DEF SaveFails, Idle
<1>15. CASE Restart
  BY <1>15 DEF Restart, Idle
<1>16. ASSUME NEW r \in Rooms, NEW s \in RoomStatus, OtherServices(r, s) PROVE StayInv'
  BY <1>16 DEF OtherServices
<1>17. ASSUME NEW g \in Guests, NEW o \in Orders, PlaceOrder(g, o) PROVE StayInv'
  BY <1>17 DEF PlaceOrder
<1>18. CASE UNCHANGED rcpVars
  BY <1>18 DEF rcpVars
<1> QED
  BY <1>1, <1>2, <1>3, <1>4, <1>5, <1>6, <1>7, <1>8, <1>9, <1>10, <1>11, <1>12,
     <1>13, <1>14, <1>15, <1>16, <1>17, <1>18
     DEF RcpNext, Step, Arrive, Proceed, Environment

(* A bill, the Completed booking and the departure come together.          *)
LEMMA SettledStep ==
  TypeOK /\ RequestInv /\ StayInv /\ SettledWhenGone /\ [RcpNext]_rcpVars => SettledWhenGone'
<1> SUFFICES ASSUME TypeOK, RequestInv, StayInv, SettledWhenGone, [RcpNext]_rcpVars
             PROVE  SettledWhenGone'
  OBVIOUS
<1>1. ASSUME NEW c \in Clerks, CheckInSave(c) PROVE SettledWhenGone'
  BY <1>1 DEF CheckInSave, IsFirst, SettledWhenGone, StayInv, TypeOK
<1>2. ASSUME NEW c \in Clerks, CheckInBook(c) PROVE SettledWhenGone'
  BY <1>2 DEF CheckInBook, SettledWhenGone, StayInv, TypeOK
<1>3. ASSUME NEW c \in Clerks, CheckOutSave(c) PROVE SettledWhenGone'
  <2>1. req[c].guest \in Guests
    BY <1>3 DEF CheckOutSave, RequestInv, CheckOutPc
  <2>2. bills'[req[c].guest] # <<>>
    BY <1>3, <2>1, BillNotEmpty DEF CheckOutSave, TypeOK
  <2>3. guests'[req[c].guest].status = "CheckedOut" /\ bookings'[req[c].guest] = "Completed"
    BY <1>3, <2>1 DEF CheckOutSave, TypeOK
  <2>4. \A h \in Guests \ {req[c].guest} :
          guests'[h] = guests[h] /\ bookings'[h] = bookings[h] /\ bills'[h] = bills[h]
    BY <1>3 DEF CheckOutSave, TypeOK
  <2> QED BY <2>2, <2>3, <2>4 DEF SettledWhenGone
<1>4. CASE UNCHANGED <<guests, bookings, bills>>
  BY <1>4 DEF SettledWhenGone
<1> QED
  BY <1>1, <1>2, <1>3, <1>4, StepKinds

-----------------------------------------------------------------------------
(* The inductive invariant holds at start-up, when every table but Rooms   *)
(* is empty and nobody holds the semaphore.                                *)
LEMMA InvInit == RcpInit => RcpInv
<1> SUFFICES ASSUME RcpInit PROVE RcpInv
  OBVIOUS
<1>1. TypeOK
  BY TypeInit
<1>2. RequestInv /\ LockInv
  BY DEF RcpInit, RequestInv, LockInv, Inside, CheckInPc, CheckOutPc, Idle
<1>3. VacancyInv /\ NoDoubleBooking
  BY DEF RcpInit, VacancyInv, NoDoubleBooking, Vacant, Holders, Idle
<1>4. StayInv /\ SettledWhenGone
  BY DEF RcpInit, StayInv, SettledWhenGone, Idle
<1> QED
  BY <1>1, <1>2, <1>3, <1>4 DEF RcpInv

(* The invariant of Reception: in every reachable state the rows, the lock *)
(* and the requests agree.                                                 *)
THEOREM Invariance == RcpSafe => []RcpInv
<1>1. RcpInv /\ [RcpNext]_rcpVars => RcpInv'
  BY TypeStep, RequestStep, LockStep, VacancyStep, BookingStep, StayStep, SettledStep
     DEF RcpInv
<1> QED
  BY InvInit, <1>1, PTL DEF RcpSafe

(* The semaphore is not lost: while it is taken, a check-in has it.        *)
HeldInv == checkInLock = 0 => \E c \in Clerks : Inside(c)

(* Whoever leaves gives it back, whichever way it leaves.                  *)
LEMMA HeldStep == TypeOK /\ HeldInv /\ [RcpNext]_rcpVars => HeldInv'
<1> SUFFICES ASSUME TypeOK, HeldInv, [RcpNext]_rcpVars PROVE HeldInv'
  OBVIOUS
<1> USE DEF HeldInv, Inside, CheckInPc, TypeOK
<1>1. ASSUME NEW c \in Clerks, CheckInArrive(c) PROVE HeldInv'
  BY <1>1 DEF CheckInArrive
<1>2. ASSUME NEW c \in Clerks, NEW r \in Rooms, CheckOutGuest(c, r) PROVE HeldInv'
  BY <1>2 DEF CheckOutGuest
<1>3. ASSUME NEW c \in Clerks, CheckInLock(c) PROVE HeldInv'
  BY <1>3 DEF CheckInLock
<1>4. ASSUME NEW c \in Clerks, NEW t \in RoomTypes, CheckInRead(c, t) PROVE HeldInv'
  BY <1>4 DEF CheckInRead
<1>5. ASSUME NEW c \in Clerks, NEW t \in RoomTypes, CheckInNoRoom(c, t) PROVE HeldInv'
  BY <1>5 DEF CheckInNoRoom
<1>6. ASSUME NEW c \in Clerks, CheckInSave(c) PROVE HeldInv'
  BY <1>6 DEF CheckInSave
<1>7. ASSUME NEW c \in Clerks, CheckInBook(c) PROVE HeldInv'
  BY <1>7 DEF CheckInBook
<1>8. ASSUME NEW c \in Clerks, CheckInReply(c) PROVE HeldInv'
  BY <1>8 DEF CheckInReply
<1>9. ASSUME NEW c \in Clerks, CheckOutBooking(c) PROVE HeldInv'
  BY <1>9 DEF CheckOutBooking, Idle
<1>10. ASSUME NEW c \in Clerks, CheckOutRoom(c) PROVE HeldInv'
  BY <1>10 DEF CheckOutRoom
<1>11. ASSUME NEW c \in Clerks, CheckOutOrders(c) PROVE HeldInv'
  BY <1>11 DEF CheckOutOrders
<1>12. ASSUME NEW c \in Clerks, CheckOutSave(c) PROVE HeldInv'
  BY <1>12 DEF CheckOutSave
<1>13. ASSUME NEW c \in Clerks, CheckOutReply(c) PROVE HeldInv'
  BY <1>13 DEF CheckOutReply
<1>14. ASSUME NEW c \in Clerks, SaveFails(c) PROVE HeldInv'
  BY <1>14 DEF SaveFails, CheckOutPc
<1>15. CASE Restart
  BY <1>15 DEF Restart
<1>16. ASSUME NEW r \in Rooms, NEW s \in RoomStatus, OtherServices(r, s) PROVE HeldInv'
  BY <1>16 DEF OtherServices
<1>17. ASSUME NEW g \in Guests, NEW o \in Orders, PlaceOrder(g, o) PROVE HeldInv'
  BY <1>17 DEF PlaceOrder
<1>18. CASE UNCHANGED rcpVars
  BY <1>18 DEF rcpVars
<1> QED
  BY <1>1, <1>2, <1>3, <1>4, <1>5, <1>6, <1>7, <1>8, <1>9, <1>10, <1>11, <1>12,
     <1>13, <1>14, <1>15, <1>16, <1>17, <1>18
     DEF RcpNext, Step, Arrive, Proceed, Environment

(* Held by exactly one check-in or by none: every exit of the handler, a   *)
(* failed save and a full hotel included, releases it, and nothing else    *)
(* does.  Waiters wait for a request that goes on, never for nobody.       *)
LockExact ==
  /\ checkInLock = 0 <=> \E c \in Clerks : Inside(c)
  /\ \A c, d \in Clerks : Inside(c) /\ Inside(d) => c = d

(* The semaphore of check-in is exact, whatever fails or restarts.         *)
THEOREM SemaphoreExact == RcpSafe => []LockExact
<1>1. RcpInit => HeldInv
  BY DEF RcpInit, HeldInv
<1>2. RcpInv /\ HeldInv /\ [RcpNext]_rcpVars => HeldInv'
  BY HeldStep DEF RcpInv
<1>3. RcpInv /\ HeldInv => LockExact
  BY DEF RcpInv, LockInv, HeldInv, LockExact
<1> QED
  BY Invariance, <1>1, <1>2, <1>3, PTL DEF RcpSafe

(* The tables, the semaphore and the requests keep their types.            *)
THEOREM TypeCorrect == RcpSafe => []TypeOK
<1>1. RcpInv => TypeOK
  BY DEF RcpInv
<1> QED
  BY Invariance, <1>1, PTL

(* Reception never lets a room to two guests, whatever fails, restarts or  *)
(* runs at the same time, as long as the other services give no room the   *)
(* status Clean while a guest is in it.                                    *)
THEOREM NeverDoubleBooked == RcpSafe => []NoDoubleBooking
<1>1. RcpInv => NoDoubleBooking
  BY DEF RcpInv
<1> QED
  BY Invariance, <1>1, PTL

(* Guests who have left are billed and their bookings Completed, although  *)
(* a check-out reads in four steps and takes no lock.                      *)
THEOREM Settled == RcpSafe => []SettledWhenGone
<1>1. RcpInv => SettledWhenGone
  BY DEF RcpInv
<1> QED
  BY Invariance, <1>1, PTL

-----------------------------------------------------------------------------
(* The holder of a room in the ledger is the one guest checked in there.   *)
LEMMA OnlyOne == ASSUME NEW g PROVE Only({g}) = g
BY DEF Only

(* A room without checked-in guests has no holder.                          *)
LEMMA OnlyNone == Only({}) = 0
BY DEF Only

(* At start-up nobody holds a room and nobody has been served.             *)
LEMMA LedgerInit == RcpInit => Ledger!LedgerInit
<1> SUFFICES ASSUME RcpInit PROVE Ledger!LedgerInit
  OBVIOUS
<1>1. \A r \in Rooms : Holders(r) = {}
  BY DEF RcpInit, Holders
<1>2. {g \in Guests : guests[g].status # "Absent"} = {}
  BY DEF RcpInit
<1> QED
  BY <1>1, <1>2, OnlyNone DEF Ledger!LedgerInit, Holder

(* A step that changes nothing in the table Guests is no step of the       *)
(* ledger.                                                                 *)
LEMMA LedgerStutters ==
  ASSUME guests' = guests
  PROVE  UNCHANGED Ledger!ledgerVars
<1>1. \A r \in Rooms : Holders(r)' = Holders(r)
  BY DEF Holders
<1> QED
  BY <1>1 DEF Ledger!ledgerVars, Holder

(* The first save of a check-in lets the room to a guest who never stayed. *)
LEMMA CheckInLets ==
  ASSUME RcpInv, NEW c \in Clerks, CheckInSave(c)
  PROVE  Ledger!LedgerNext
<1> PICK r \in Rooms : r = req[c].room /\ Vacant(r)
  BY DEF RcpInv, VacancyInv, CheckInSave
<1> PICK g \in Guests :
      /\ guests[g].status = "Absent"
      /\ guests' = [guests EXCEPT ![g] = [status |-> "CheckedIn", room |-> r]]
  BY DEF CheckInSave, IsFirst
<1> DEFINE Row == [status : GuestStatus, room : Rooms \cup {NoRoom}]
<1>0. guests \in [Guests -> Row]
  BY DEF RcpInv, TypeOK
<1>1. r \in Rooms /\ Holders(r) = {}
  BY DEF Vacant
<1>2. Holders(r)' = {g}
  <2>1. g \in Holders(r)'
    BY <1>0 DEF Holders
  <2>2. \A h \in Guests \ {g} : h \notin Holders(r)'
    <3>1. \A h \in Guests : h \notin Holders(r)
      BY <1>1
    <3>2. \A h \in Guests \ {g} : guests'[h] = guests[h]
      BY <1>0
    <3> QED BY <3>1, <3>2 DEF Holders
  <2>3. Holders(r)' \subseteq Guests
    BY DEF Holders
  <2> QED BY <2>1, <2>2, <2>3
<1>3. \A q \in Rooms \ {r} : Holders(q)' = Holders(q)
  BY <1>0 DEF Holders
<1>4. {h \in Guests : guests'[h].status # "Absent"}
        = {h \in Guests : guests[h].status # "Absent"} \cup {g}
  BY <1>0
<1>5. Holder(r) = 0 /\ Holder(r)' = g /\ \A q \in Rooms \ {r} : Holder(q)' = Holder(q)
  BY <1>1, <1>2, <1>3, OnlyOne, OnlyNone DEF Holder
<1>6. Ledger!Let(r, g)
  <2>1. [q \in Rooms |-> Holder(q)][r] = 0
    BY <1>1, <1>5
  <2>2. g \notin {h \in Guests : guests[h].status # "Absent"}
    OBVIOUS
  <2>3. [q \in Rooms |-> Holder(q)]' = [[q \in Rooms |-> Holder(q)] EXCEPT ![r] = g]
    BY <1>1, <1>5
  <2> QED
    BY <1>4, <2>1, <2>2, <2>3 DEF Ledger!Let
<1> QED
  BY <1>1, <1>6 DEF Ledger!LedgerNext

(* The save of a check-out frees the room of the guest, or finds the guest *)
(* already gone.                                                           *)
LEMMA CheckOutFrees ==
  ASSUME RcpInv, NEW c \in Clerks, CheckOutSave(c)
  PROVE  [Ledger!LedgerNext]_Ledger!ledgerVars
<1> PICK g \in Guests : g = req[c].guest
  BY DEF RcpInv, RequestInv, CheckOutPc, CheckOutSave
<1> DEFINE Row == [status : GuestStatus, room : Rooms \cup {NoRoom}]
<1>0. guests \in [Guests -> Row]
  BY DEF RcpInv, TypeOK
<1>1. g \in Guests /\ guests[g].status # "Absent"
  BY DEF RcpInv, StayInv, CheckOutSave
<1>2. guests' = [guests EXCEPT ![g] = [status |-> "CheckedOut", room |-> NoRoom]]
  BY DEF CheckOutSave
<1>3. {h \in Guests : guests'[h].status # "Absent"}
        = {h \in Guests : guests[h].status # "Absent"}
  BY <1>0, <1>1, <1>2
<1>4. CASE guests[g].status = "CheckedIn"
  <2>1. PICK r \in Rooms : r = guests[g].room
    BY <1>1, <1>4 DEF RcpInv, StayInv
  <2>2. Holders(r) = {g}
    BY <1>1, <1>4, <2>1 DEF RcpInv, NoDoubleBooking, Holders
  <2>3. Holders(r)' = {}
    <3>1. g \notin Holders(r)'
      BY <1>0, <1>1, <1>2 DEF Holders
    <3>2. \A h \in Guests \ {g} : h \notin Holders(r) /\ guests'[h] = guests[h]
      BY <1>0, <1>2, <2>2
    <3>3. \A h \in Guests \ {g} : h \notin Holders(r)'
      BY <3>2 DEF Holders
    <3> QED
      BY <3>1, <3>3 DEF Holders
  <2>4. \A q \in Rooms \ {r} : Holders(q)' = Holders(q)
    BY <1>0, <1>1, <1>2, <2>1 DEF Holders
  <2>5. Holder(r) = g /\ Holder(r)' = 0 /\ \A q \in Rooms \ {r} : Holder(q)' = Holder(q)
    BY <2>2, <2>3, <2>4, OnlyOne, OnlyNone DEF Holder
  <2>6. g # 0
    BY <1>1, ReceptionAssumption DEF Guests
  <2>7. Ledger!Free(r)
    <3>1. [q \in Rooms |-> Holder(q)][r] # 0
      BY <2>1, <2>5, <2>6
    <3>2. [q \in Rooms |-> Holder(q)]' = [[q \in Rooms |-> Holder(q)] EXCEPT ![r] = 0]
      BY <2>1, <2>5
    <3> QED
      BY <1>3, <3>1, <3>2 DEF Ledger!Free
  <2> QED
    BY <2>1, <2>7 DEF Ledger!LedgerNext
<1>5. CASE guests[g].status # "CheckedIn"
  <2>1. \A q \in Rooms : Holders(q)' = Holders(q)
    BY <1>0, <1>1, <1>2, <1>5 DEF Holders
  <2> QED
    BY <1>3, <2>1 DEF Ledger!ledgerVars, Holder
<1> QED
  BY <1>4, <1>5

(* Reception implements the ledger: only the saves of check-in and         *)
(* check-out change who holds a room, and they let a free room to a new    *)
(* guest or free a room.                                                   *)
THEOREM Refinement == RcpSafe => ImplementsLedger
<1>1. RcpInv /\ [RcpNext]_rcpVars => [Ledger!LedgerNext]_Ledger!ledgerVars
  <2> SUFFICES ASSUME RcpInv, [RcpNext]_rcpVars PROVE [Ledger!LedgerNext]_Ledger!ledgerVars
    OBVIOUS
  <2>1. ASSUME NEW c \in Clerks, CheckInSave(c) PROVE [Ledger!LedgerNext]_Ledger!ledgerVars
    BY <2>1, CheckInLets
  <2>2. ASSUME NEW c \in Clerks, CheckOutSave(c) PROVE [Ledger!LedgerNext]_Ledger!ledgerVars
    BY <2>2, CheckOutFrees
  <2>3. ASSUME NEW c \in Clerks, CheckInBook(c) PROVE [Ledger!LedgerNext]_Ledger!ledgerVars
    BY <2>3, LedgerStutters DEF CheckInBook
  <2>4. CASE UNCHANGED <<guests, bookings, bills>>
    BY <2>4, LedgerStutters
  <2> QED
    BY <2>1, <2>2, <2>3, <2>4, StepKinds
<1> QED
  BY Invariance, LedgerInit, <1>1, PTL DEF RcpSafe, ImplementsLedger, Ledger!LedgerSpec
=============================================================================
