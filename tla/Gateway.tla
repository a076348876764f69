------------------------------ MODULE Gateway ------------------------------
(* The Notification Gateway: the registry of sockets, for staff and by     *)
(* room for guests, and the relay of published events to them.  Handlers,  *)
(* and the callbacks of the two channels an event comes on, run at once on *)
(* several threads; a step is one access to one concurrent dictionary, or  *)
(* one send.                                                               *)
EXTENDS FiniteSets, Naturals

CONSTANTS StaffSockets,  \* connections with a staff token, or with none that is valid
          GuestSockets,  \* connections with a guest token
          Rooms,
          RoomOf,        \* the room_number of a guest's token
          MaxEvents      \* bound: events published

ASSUME GatewayAssumption ==
  /\ StaffSockets \cap GuestSockets = {}
  /\ "none" \notin StaffSockets \cup GuestSockets
  /\ RoomOf \in [GuestSockets -> Rooms] /\ Rooms \cap {"no room", "unpublished"} = {}
  /\ MaxEvents \in Nat

Sockets  == StaffSockets \cup GuestSockets
NoSocket == "none"
NoRoom   == "no room"
Ids      == 1..MaxEvents
Channels == {"own", "dashboard.notification"}

(* The sockets of a room are kept in a dictionary, which is named here by  *)
(* the socket whose connection created it.                                 *)
VARIABLES conn,      \* the handler of each connection
          mine,      \* the dictionary a guest's handler has in hand
          staff,     \* StaffConnections
          byRoom,    \* GuestConnections
          members,   \* the contents of the dictionaries
          event,     \* the published events: their room
          relay,     \* BroadcastEventAsync, for each event and channel
          received   \* how often each socket got each event

gwVars == <<conn, mine, staff, byRoom, members, event, relay, received>>
registry == <<staff, byRoom, members>>

Relays   == Ids \X Channels
NoRelay  == [at |-> "idle", dict |-> NoSocket, left |-> {}]
Relayed  == [NoRelay EXCEPT !.at = "guests"]  \* and nobody left to send to
Stages   == {"new", "found", "open", "closed", "leaving", "left", "empty", "gone"}
Event(m) == event[m[1]]
Open(s)  == conn[s] \in {"found", "open"}  \* the socket itself is open

GwInit ==
  /\ conn = [s \in Sockets |-> "new"]
  /\ mine = [s \in GuestSockets |-> NoSocket]
  /\ staff = {}
  /\ byRoom = [r \in Rooms |-> NoSocket]
  /\ members = [s \in GuestSockets |-> {}]
  /\ event = [e \in Ids |-> "unpublished"]
  /\ relay = [m \in Relays |-> NoRelay]
  /\ received = [s \in Sockets |-> [e \in Ids |-> 0]]

-----------------------------------------------------------------------------
(* A connection is accepted, with the role and the room of its token, and  *)
(* AddConnection is called.                                                *)
AddStaff(s) ==
  /\ s \in StaffSockets /\ conn[s] = "new"
  /\ staff' = staff \cup {s}
  /\ conn' = [conn EXCEPT ![s] = "open"]
  /\ UNCHANGED <<mine, byRoom, members, event, relay, received>>

(* GetOrAdd: the dictionary of the room, a new one if it has none.         *)
GetOrAdd(s) ==
  /\ s \in GuestSockets /\ conn[s] = "new"
  /\ LET r == RoomOf[s]
         d == IF byRoom[r] = NoSocket THEN s ELSE byRoom[r]
     IN  /\ byRoom' = [byRoom EXCEPT ![r] = d]
         /\ mine' = [mine EXCEPT ![s] = d]
  /\ conn' = [conn EXCEPT ![s] = "found"]
  /\ UNCHANGED <<staff, members, event, relay, received>>

AddGuest(s) ==
  /\ conn[s] = "found"
  /\ members' = [members EXCEPT ![mine[s]] = @ \cup {s}]
  /\ mine' = [mine EXCEPT ![s] = NoSocket]
  /\ conn' = [conn EXCEPT ![s] = "open"]
  /\ UNCHANGED <<staff, byRoom, event, relay, received>>

(* The client goes, or the connection is lost: the receive loop ends.      *)
Close(s) ==
  /\ conn[s] = "open"
  /\ conn' = [conn EXCEPT ![s] = "closed"]
  /\ UNCHANGED <<mine, registry, event, relay, received>>

(* RemoveConnection.                                                       *)
RemoveStaff(s) ==
  /\ s \in StaffSockets /\ conn[s] = "closed"
  /\ staff' = staff \ {s}
  /\ conn' = [conn EXCEPT ![s] = "gone"]
  /\ UNCHANGED <<mine, byRoom, members, event, relay, received>>

(* Mutant: the handler removes from the dictionary it once added to.       *)
LookUp_Skipped(s) ==
  /\ s \in GuestSockets /\ conn[s] = "closed"
  /\ conn' = [conn EXCEPT ![s] = "gone"]
  /\ UNCHANGED <<mine, registry, event, relay, received>>

LookUp(s) ==
  /\ s \in GuestSockets /\ conn[s] = "closed"
  /\ mine' = [mine EXCEPT ![s] = byRoom[RoomOf[s]]]
  /\ conn' = [conn EXCEPT ![s] = IF byRoom[RoomOf[s]] = NoSocket THEN "gone" ELSE "leaving"]
  /\ UNCHANGED <<registry, event, relay, received>>

RemoveGuest(s) ==
  /\ conn[s] = "leaving"
  /\ members' = [members EXCEPT ![mine[s]] = @ \ {s}]
  /\ conn' = [conn EXCEPT ![s] = "left"]
  /\ UNCHANGED <<mine, staff, byRoom, event, relay, received>>

CheckEmpty(s) ==
  /\ conn[s] = "left"
  /\ conn' = [conn EXCEPT ![s] = IF members[mine[s]] = {} THEN "empty" ELSE "gone"]
  /\ mine' = [mine EXCEPT ![s] = NoSocket]
  /\ UNCHANGED <<registry, event, relay, received>>

(* TryRemove: whichever dictionary the room has by now.                    *)
RemoveRoom(s) ==
  /\ conn[s] = "empty"
  /\ byRoom' = [byRoom EXCEPT ![RoomOf[s]] = NoSocket]
  /\ conn' = [conn EXCEPT ![s] = "gone"]
  /\ UNCHANGED <<mine, staff, members, event, relay, received>>

-----------------------------------------------------------------------------
(* A service publishes an event, of a room or of none, on two channels;    *)
(* the second publication may fail.                                        *)
PublishEvent(e, r) ==
  /\ event[e] = "unpublished"
  /\ \A p \in 1..(e - 1) : event[p] # "unpublished"
  /\ event' = [event EXCEPT ![e] = r]
  /\ \E cs \in {{"own"}, Channels} :
       relay' = [m \in Relays |-> IF m[1] = e /\ m[2] \in cs
                                    THEN [NoRelay EXCEPT !.at = "begin"] ELSE relay[m]]
  /\ UNCHANGED <<conn, mine, registry, received>>

(* Mutant: to spare them the duplicate, staff get the copy for dashboards. *)
ToStaff_Once(m) ==
  /\ relay[m].at = "begin"
  /\ relay' = [relay EXCEPT ![m].at = "staff",
                            ![m].left = IF m[2] = "own" THEN {} ELSE staff]
  /\ UNCHANGED <<conn, mine, registry, event, received>>

(* The worker's callback begins the broadcast: a snapshot of the staff.    *)
ToStaff(m) ==
  /\ relay[m].at = "begin"
  /\ relay' = [relay EXCEPT ![m].at = "staff", ![m].left = staff]
  /\ UNCHANGED <<conn, mine, registry, event, received>>

(* Mutant: any room that has guests is taken.                              *)
ToRoom_Any(m) ==
  /\ relay[m].at = "staff" /\ relay[m].left = {}
  /\ \E r \in Rooms :
       relay' = [relay EXCEPT ![m] =
         IF byRoom[r] # NoSocket
           THEN [at |-> "room", dict |-> byRoom[r], left |-> {}] ELSE Relayed]
  /\ UNCHANGED <<conn, mine, registry, event, received>>

(* Then the guests of the room in the payload, if that has a dictionary.   *)
ToRoom(m) ==
  LET r == Event(m) IN
  /\ relay[m].at = "staff" /\ relay[m].left = {}
  /\ relay' = [relay EXCEPT ![m] =
       IF r \in Rooms /\ byRoom[r] # NoSocket
         THEN [at |-> "room", dict |-> byRoom[r], left |-> {}] ELSE Relayed]
  /\ UNCHANGED <<conn, mine, registry, event, received>>

(* A snapshot of it.                                                       *)
ToGuests(m) ==
  /\ relay[m].at = "room"
  /\ relay' = [relay EXCEPT ![m] = [Relayed EXCEPT !.left = members[relay[m].dict]]]
  /\ UNCHANGED <<conn, mine, registry, event, received>>

(* The event is sent to the next socket, if it is open.                    *)
Send(m, s) ==
  /\ s \in relay[m].left
  /\ relay' = [relay EXCEPT ![m].left = @ \ {s}]
  /\ received' = IF Open(s) THEN [received EXCEPT ![s][m[1]] = @ + 1] ELSE received
  /\ UNCHANGED <<conn, mine, registry, event>>

Handler(s)   == \/ AddStaff(s) \/ RemoveStaff(s) \/ GetOrAdd(s) \/ AddGuest(s)
                \/ LookUp(s) \/ RemoveGuest(s) \/ CheckEmpty(s) \/ RemoveRoom(s)
Broadcast(m) == ToStaff(m) \/ ToRoom(m) \/ ToGuests(m) \/ \E s \in Sockets : Send(m, s)

GwNext == \/ \E s \in Sockets : Handler(s) \/ Close(s)
          \/ \E m \in Relays : Broadcast(m)
          \/ \E e \in Ids, r \in Rooms \cup {NoRoom} : PublishEvent(e, r)

GwSafe == GwInit /\ [][GwNext]_gwVars

(* Handlers and broadcasts go on: no client stops reading for ever.        *)
GwFairness == /\ \A s \in Sockets : WF_gwVars(Handler(s))
              /\ \A m \in Relays : WF_gwVars(Broadcast(m))
GwSpec == GwSafe /\ GwFairness

-----------------------------------------------------------------------------
GwTypeOK ==
  /\ conn \in [Sockets -> Stages]
  /\ mine \in [GuestSockets -> GuestSockets \cup {NoSocket}]
  /\ staff \subseteq StaffSockets
  /\ byRoom \in [Rooms -> GuestSockets \cup {NoSocket}]
  /\ members \in [GuestSockets -> SUBSET GuestSockets]
  /\ event \in [Ids -> Rooms \cup {NoRoom, "unpublished"}]
  /\ relay \in [Relays -> [at   : {"idle", "begin", "staff", "room", "guests"},
                           dict : GuestSockets \cup {NoSocket},
                           left : SUBSET Sockets]]
  /\ received \in [Sockets -> [Ids -> Nat]]

(* Guest isolation: a guest's portal is sent events of its own room only,  *)
(* whatever connects, leaves and is published meanwhile.                   *)
GuestIsolation ==
  \A s \in GuestSockets, e \in Ids : received[s][e] > 0 => event[e] = RoomOf[s]

Reachable(s) == IF s \in StaffSockets THEN s \in staff
                ELSE byRoom[RoomOf[s]] # NoSocket /\ s \in members[byRoom[RoomOf[s]]]

(* The registry does not leak: a socket a broadcast can still find is open *)
(* or its handler has yet to remove it, although the dictionary of a room  *)
(* may be replaced at any moment.                                          *)
NothingLeaks ==
  \A s \in Sockets : Reachable(s) => conn[s] \in {"open", "closed", "leaving"}

(* A staff portal connected when an event comes in is sent it, unless it   *)
(* leaves first, even if the second publication fails.                     *)
StaffHears ==
  \A s \in StaffSockets, m \in Relays :
    (relay[m].at = "begin" /\ conn[s] = "open") ~> (received[s][m[1]] > 0 \/ conn[s] # "open")

(* A connected guest can be reached, once the handler has registered it.   *)
OpenIsReachable == \A s \in Sockets : conn[s] = "open" => Reachable(s)
=============================================================================
