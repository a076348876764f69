---------------------------- MODULE EventsProofs ----------------------------
(* The events on their way to the portals: what the gateway does with them,*)
(* for any sockets and rooms, and that no change goes unnoticed by a       *)
(* connected portal, whichever portal and list are followed.               *)
EXTENDS Gateway, Portals, SequenceTheorems, TLAPS

-----------------------------------------------------------------------------
(* A dictionary holds sockets of one room, the one it is or was kept for,  *)
(* and a handler has one of its own room in hand.                          *)
SameRoom(s, t) == RoomOf[s] = RoomOf[t]

RoomsInv ==
  /\ \A s \in StaffSockets : conn[s] \notin {"found", "leaving", "left", "empty"}
  /\ \A r \in Rooms : byRoom[r] # NoSocket => RoomOf[byRoom[r]] = r
  /\ \A s \in GuestSockets : conn[s] \in {"found", "leaving", "left"} =>
       mine[s] # NoSocket /\ SameRoom(s, mine[s])
  /\ \A d, s \in GuestSockets : s \in members[d] => SameRoom(s, d)

(* A broadcast has guests of the room of its event left to send to.        *)
RelayInv ==
  /\ \A m \in Relays : Event(m) = "unpublished" => relay[m] = NoRelay
  /\ \A m \in Relays, s \in GuestSockets : s \in relay[m].left => RoomOf[s] = Event(m)
  /\ \A m \in Relays : relay[m].at = "room" =>
       relay[m].dict \in GuestSockets /\ RoomOf[relay[m].dict] = Event(m)

(* A new dictionary is empty and in nobody's hand: a room whose dictionary *)
(* is replaced cannot bring back a socket that has left.                   *)
FreshInv ==
  /\ \A d \in GuestSockets : conn[d] = "new" =>
       /\ members[d] = {}
       /\ \A r \in Rooms : byRoom[r] # d
       /\ \A s \in GuestSockets : mine[s] # d
  /\ \A s, d \in GuestSockets : conn[s] \in {"new", "found"} => s \notin members[d]

(* The handler that leaves has the dictionary in hand that it is found in. *)
LeavingInv ==
  \A s \in GuestSockets : conn[s] = "leaving" /\ Reachable(s) => mine[s] = byRoom[RoomOf[s]]

GwInv == /\ GwTypeOK /\ RoomsInv /\ RelayInv /\ GuestIsolation
         /\ FreshInv /\ LeavingInv /\ NothingLeaks

-----------------------------------------------------------------------------
(* Values that stand for no socket and no room are none of those.          *)
LEMMA Names ==
  /\ NoSocket \notin Sockets /\ NoSocket \notin GuestSockets
  /\ \A s \in GuestSockets : s \in Sockets /\ s \notin StaffSockets /\ RoomOf[s] \in Rooms
  /\ "unpublished" \notin Rooms /\ NoRoom \notin Rooms
  BY GatewayAssumption DEF Sockets, NoSocket, NoRoom

(* At first nobody is connected.                                           *)
LEMMA InitInv == GwInit => GwInv
<1> SUFFICES ASSUME GwInit PROVE GwInv
  OBVIOUS
<1> USE Names DEF GwInit
<1>1. GwTypeOK
  BY DEF GwTypeOK, Stages, NoRelay
<1>2. RoomsInv /\ FreshInv /\ LeavingInv /\ NothingLeaks
  BY DEF RoomsInv, FreshInv, LeavingInv, NothingLeaks, Reachable, Sockets, SameRoom
<1>3. RelayInv
  BY DEF RelayInv, NoRelay, Event, Relays
<1>4. GuestIsolation
  BY DEF GuestIsolation
<1> QED
  BY <1>1, <1>2, <1>3, <1>4 DEF GwInv

-----------------------------------------------------------------------------
(* A step of the registry leaves the broadcasts alone, and the other way   *)
(* round.                                                                  *)
LEMMA RegistryStep ==
  ASSUME GwInv, UNCHANGED <<event, relay, received>>
  PROVE  RelayInv' /\ GuestIsolation'
  BY DEF GwInv, RelayInv, GuestIsolation, Event

(* Relaying changes nothing in the registry.                               *)
LEMMA RelayStep ==
  ASSUME GwInv, UNCHANGED <<conn, mine, staff, byRoom, members>>
  PROVE  RoomsInv' /\ FreshInv' /\ LeavingInv' /\ NothingLeaks'
  BY DEF GwInv, RoomsInv, FreshInv, LeavingInv, NothingLeaks, Reachable

(* The steps of the handlers of the connections.                           *)
LEMMA HandlerInv ==
  ASSUME GwInv, NEW s \in Sockets, Handler(s) \/ Close(s)
  PROVE  GwInv'
<1> USE Names DEF GwInv, GwTypeOK
<1>0. UNCHANGED <<event, relay, received>>
  BY DEF Handler, Close, AddStaff, RemoveStaff, GetOrAdd, AddGuest, LookUp, RemoveGuest,
         CheckEmpty, RemoveRoom, registry
<1>r. RelayInv' /\ GuestIsolation'
  BY <1>0, RegistryStep
<1>1. CASE AddStaff(s)
  <2>1. GwTypeOK'
    BY <1>1 DEF AddStaff, Stages
  <2>2. RoomsInv' /\ FreshInv' /\ LeavingInv'
    BY <1>1 DEF AddStaff, RoomsInv, FreshInv, LeavingInv, Reachable
  <2>3. NothingLeaks'
    BY <1>1 DEF AddStaff, NothingLeaks, Reachable, Sockets
  <2> QED
    BY <1>r, <2>1, <2>2, <2>3
<1>2. CASE RemoveStaff(s)
  <2>1. GwTypeOK'
    BY <1>2 DEF RemoveStaff, Stages
  <2>2. RoomsInv' /\ FreshInv' /\ LeavingInv'
    BY <1>2 DEF RemoveStaff, RoomsInv, FreshInv, LeavingInv, Reachable
  <2>3. NothingLeaks'
    BY <1>2 DEF RemoveStaff, NothingLeaks, Reachable, Sockets
  <2> QED
    BY <1>r, <2>1, <2>2, <2>3
<1>3. CASE GetOrAdd(s)
  <2> DEFINE r == RoomOf[s]
             d == IF byRoom[r] = NoSocket THEN s ELSE byRoom[r]
  <2>1. /\ s \in GuestSockets /\ conn[s] = "new" /\ r \in Rooms /\ d \in GuestSockets
        /\ byRoom' = [byRoom EXCEPT ![r] = d] /\ mine' = [mine EXCEPT ![s] = d]
        /\ conn' = [conn EXCEPT ![s] = "found"] /\ UNCHANGED <<staff, members>>
        /\ RoomOf[d] = r
    BY <1>3 DEF GetOrAdd, RoomsInv
  <2>2. byRoom[r] # NoSocket => d = byRoom[r]
    OBVIOUS
  <2>3. byRoom[r] = NoSocket => d = s /\ members[d] = {}
    BY <2>1 DEF FreshInv
  <2> HIDE DEF r, d
  <2>4. GwTypeOK'
    BY <1>0, <2>1 DEF Stages
  <2>5. RoomsInv'
    BY <2>1, <2>2 DEF RoomsInv, SameRoom, r
  <2>6. FreshInv'
    BY <2>1, <2>2, <2>3 DEF FreshInv
  <2>7. \A t \in GuestSockets : t # s => Reachable(t)' = Reachable(t)
    BY <2>1, <2>2, <2>3 DEF Reachable, r
  <2>8. ~Reachable(s)'
    BY <2>1, <2>6 DEF FreshInv, Reachable
  <2>9. LeavingInv'
    BY <2>1, <2>2, <2>3, <2>7, <2>8 DEF LeavingInv, Reachable, r
  <2>10. NothingLeaks'
    BY <2>1, <2>7, <2>8 DEF NothingLeaks, Reachable, Sockets
  <2> QED
    BY <1>r, <2>4, <2>5, <2>6, <2>9, <2>10
<1>4. CASE AddGuest(s)
  <2> DEFINE d == mine[s]
  <2>1. s \in GuestSockets /\ d \in GuestSockets /\ SameRoom(s, d) /\ conn[s] = "found"
    BY <1>4 DEF AddGuest, RoomsInv, Sockets
  <2>2. /\ members' = [members EXCEPT ![d] = @ \cup {s}]
        /\ mine' = [mine EXCEPT ![s] = NoSocket] /\ conn' = [conn EXCEPT ![s] = "open"]
        /\ UNCHANGED <<staff, byRoom>>
    BY <1>4 DEF AddGuest
  <2>3. conn[d] # "new"
    BY <2>1 DEF FreshInv
  <2> HIDE DEF d
  <2>4. GwTypeOK'
    BY <1>0, <2>1, <2>2 DEF Stages
  <2>5. RoomsInv'
    BY <2>1, <2>2 DEF RoomsInv, SameRoom
  <2>6. FreshInv'
    BY <2>1, <2>2, <2>3 DEF FreshInv
  <2>7. \A t \in GuestSockets : t # s => Reachable(t)' = Reachable(t)
    BY <2>1, <2>2 DEF Reachable
  <2>8. LeavingInv' /\ NothingLeaks'
    BY <2>1, <2>2, <2>7 DEF LeavingInv, NothingLeaks, Reachable, Sockets
  <2> QED
    BY <1>r, <2>4, <2>5, <2>6, <2>8
<1>5. CASE Close(s)
  <2>1. UNCHANGED <<mine, staff, byRoom, members>> /\ conn[s] = "open"
        /\ conn' = [conn EXCEPT ![s] = "closed"]
    BY <1>5 DEF Close, registry
  <2>2. GwTypeOK' /\ RoomsInv' /\ FreshInv'
    BY <1>0, <2>1 DEF Stages, RoomsInv, FreshInv
  <2>3. LeavingInv' /\ NothingLeaks'
    BY <2>1 DEF LeavingInv, NothingLeaks, Reachable
  <2> QED
    BY <1>r, <2>2, <2>3
<1>6. CASE LookUp(s)
  <2>1. /\ s \in GuestSockets /\ conn[s] = "closed" /\ UNCHANGED <<staff, byRoom, members>>
        /\ mine' = [mine EXCEPT ![s] = byRoom[RoomOf[s]]]
        /\ conn' = [conn EXCEPT ![s] = IF byRoom[RoomOf[s]] = NoSocket THEN "gone" ELSE "leaving"]
    BY <1>6 DEF LookUp, registry
  <2>2. GwTypeOK'
    BY <1>0, <2>1 DEF Stages
  <2>3. RoomsInv'
    BY <2>1 DEF RoomsInv, SameRoom
  <2>4. FreshInv'
    BY <2>1 DEF FreshInv
  <2>5. \A t \in Sockets : Reachable(t)' = Reachable(t)
    BY <2>1 DEF Reachable
  <2>6. LeavingInv' /\ NothingLeaks'
    BY <2>1, <2>5 DEF LeavingInv, NothingLeaks, Reachable
  <2> QED
    BY <1>r, <2>2, <2>3, <2>4, <2>6
<1>7. CASE RemoveGuest(s)
  <2> DEFINE d == mine[s]
  <2>1. s \in GuestSockets /\ d \in GuestSockets /\ conn[s] = "leaving"
    BY <1>7 DEF RemoveGuest, RoomsInv, Sockets
  <2>2. /\ members' = [members EXCEPT ![d] = @ \ {s}] /\ conn' = [conn EXCEPT ![s] = "left"]
        /\ UNCHANGED <<mine, staff, byRoom>>
    BY <1>7 DEF RemoveGuest
  <2>3. Reachable(s) => d = byRoom[RoomOf[s]]
    BY <2>1 DEF LeavingInv
  <2> HIDE DEF d
  <2>4. GwTypeOK'
    BY <1>0, <2>1, <2>2 DEF Stages
  <2>5. RoomsInv'
    BY <2>1, <2>2 DEF RoomsInv, SameRoom
  <2>6. FreshInv'
    BY <2>1, <2>2 DEF FreshInv
  <2>7. \A t \in Sockets : Reachable(t)' => Reachable(t) /\ t # s
    BY <2>1, <2>2, <2>3 DEF Reachable
  <2>8. LeavingInv' /\ NothingLeaks'
    BY <2>1, <2>2, <2>7 DEF LeavingInv, NothingLeaks, Sockets
  <2> QED
    BY <1>r, <2>4, <2>5, <2>6, <2>8
<1>8. CASE CheckEmpty(s)
  <2>1. /\ s \in GuestSockets /\ conn[s] = "left" /\ UNCHANGED <<staff, byRoom, members>>
        /\ mine' = [mine EXCEPT ![s] = NoSocket]
        /\ conn' = [conn EXCEPT ![s] = IF members[mine[s]] = {} THEN "empty" ELSE "gone"]
    BY <1>8 DEF CheckEmpty, RoomsInv, registry, Sockets
  <2>2. GwTypeOK' /\ RoomsInv' /\ FreshInv'
    BY <1>0, <2>1 DEF Stages, RoomsInv, FreshInv
  <2>3. LeavingInv' /\ NothingLeaks'
    BY <2>1 DEF LeavingInv, NothingLeaks, Reachable
  <2> QED
    BY <1>r, <2>2, <2>3
<1>9. CASE RemoveRoom(s)
  <2>1. /\ s \in GuestSockets /\ conn[s] = "empty" /\ UNCHANGED <<mine, staff, members>>
        /\ byRoom' = [byRoom EXCEPT ![RoomOf[s]] = NoSocket]
        /\ conn' = [conn EXCEPT ![s] = "gone"]
    BY <1>9 DEF RemoveRoom, RoomsInv, Sockets
  <2>2. GwTypeOK'
    BY <1>0, <2>1 DEF Stages
  <2>3. RoomsInv' /\ FreshInv'
    BY <2>1 DEF RoomsInv, FreshInv
  <2>4. \A t \in Sockets : Reachable(t)' => Reachable(t) /\ t # s
    BY <2>1 DEF Reachable, NothingLeaks
  <2>5. \A t \in GuestSockets : Reachable(t)' => byRoom'[RoomOf[t]] = byRoom[RoomOf[t]]
    BY <2>1 DEF Reachable
  <2>6. LeavingInv' /\ NothingLeaks'
    BY <2>1, <2>4, <2>5 DEF LeavingInv, NothingLeaks
  <2> QED
    BY <1>r, <2>2, <2>3, <2>6
<1> QED
  BY <1>1, <1>2, <1>3, <1>4, <1>5, <1>6, <1>7, <1>8, <1>9 DEF Handler

-----------------------------------------------------------------------------
(* A broadcast goes on: what it has in hand is of the room of the event.   *)
LEMMA BroadcastInv ==
  ASSUME GwInv, NEW m \in Relays, Broadcast(m)
  PROVE  GwInv'
<1> USE Names DEF GwInv, GwTypeOK
<1>0. UNCHANGED <<conn, mine, staff, byRoom, members, event>>
  BY DEF Broadcast, ToStaff, ToRoom, ToGuests, Send, registry
<1>r. RoomsInv' /\ FreshInv' /\ LeavingInv' /\ NothingLeaks'
  BY <1>0, RelayStep
<1>1. relay[m] # NoRelay /\ Event(m) # "unpublished" /\ m[1] \in Ids
  BY DEF Broadcast, ToStaff, ToRoom, ToGuests, Send, NoRelay, RelayInv, Relays
<1>2. ASSUME NEW b \in [at : {"idle", "begin", "staff", "room", "guests"},
                      dict : GuestSockets \cup {NoSocket}, left : SUBSET Sockets],
             relay' = [relay EXCEPT ![m] = b],
             \A s \in GuestSockets : s \in b.left => RoomOf[s] = Event(m),
             b.at = "room" => b.dict \in GuestSockets /\ RoomOf[b.dict] = Event(m)
      PROVE  RelayInv' /\ relay' \in [Relays -> [at : {"idle", "begin", "staff", "room", "guests"},
                           dict : GuestSockets \cup {NoSocket}, left : SUBSET Sockets]]
  BY <1>0, <1>1, <1>2 DEF RelayInv, Event
<1>3. CASE ToStaff(m)
  <2> DEFINE b == [relay[m] EXCEPT !.at = "staff", !.left = staff]
  <2>1. relay' = [relay EXCEPT ![m] = b] /\ UNCHANGED received
    BY <1>3 DEF ToStaff
  <2>2. /\ b \in [at : {"idle", "begin", "staff", "room", "guests"},
                  dict : GuestSockets \cup {NoSocket}, left : SUBSET Sockets]
        /\ b.at = "staff" /\ b.left = staff
    BY DEF Sockets
  <2> HIDE DEF b
  <2>3. RelayInv' /\ relay' \in [Relays -> [at : {"idle", "begin", "staff", "room", "guests"},
                           dict : GuestSockets \cup {NoSocket}, left : SUBSET Sockets]]
    BY <2>1, <2>2, <1>2
  <2>4. GuestIsolation'
    BY <1>0, <2>1 DEF GuestIsolation
  <2> QED
    BY <1>0, <1>r, <2>1, <2>3, <2>4
<1>4. CASE ToRoom(m)
  <2> DEFINE r == Event(m)
             b == IF r \in Rooms /\ byRoom[r] # NoSocket
                    THEN [at |-> "room", dict |-> byRoom[r], left |-> {}] ELSE Relayed
  <2>1. relay' = [relay EXCEPT ![m] = b] /\ UNCHANGED received
    BY <1>4 DEF ToRoom
  <2>2. b \in [at : {"idle", "begin", "staff", "room", "guests"},
               dict : GuestSockets \cup {NoSocket}, left : SUBSET Sockets]
    BY DEF Relayed, NoRelay
  <2>3. /\ b.left = {}
        /\ b.at = "room" => b.dict \in GuestSockets /\ RoomOf[b.dict] = r
    BY DEF Relayed, NoRelay, RoomsInv
  <2> HIDE DEF b
  <2>4. RelayInv' /\ relay' \in [Relays -> [at : {"idle", "begin", "staff", "room", "guests"},
                           dict : GuestSockets \cup {NoSocket}, left : SUBSET Sockets]]
    BY <2>1, <2>2, <2>3, <1>2
  <2>5. GuestIsolation'
    BY <1>0, <2>1 DEF GuestIsolation
  <2> QED
    BY <1>0, <1>r, <2>1, <2>4, <2>5
<1>5. CASE ToGuests(m)
  <2> DEFINE d == relay[m].dict
             b == [Relayed EXCEPT !.left = members[d]]
  <2>1. relay' = [relay EXCEPT ![m] = b] /\ UNCHANGED received
    BY <1>5 DEF ToGuests
  <2>2. d \in GuestSockets /\ RoomOf[d] = Event(m)
    BY <1>5 DEF ToGuests, RelayInv
  <2>3. members[d] \subseteq GuestSockets /\ \A s \in members[d] : RoomOf[s] = Event(m)
    BY <2>2 DEF RoomsInv, SameRoom
  <2> HIDE DEF d
  <2>4. /\ b \in [at : {"idle", "begin", "staff", "room", "guests"},
                  dict : GuestSockets \cup {NoSocket}, left : SUBSET Sockets]
        /\ b.at = "guests" /\ b.left = members[d]
    BY <2>3 DEF Relayed, NoRelay, Sockets
  <2> HIDE DEF b
  <2>5. RelayInv' /\ relay' \in [Relays -> [at : {"idle", "begin", "staff", "room", "guests"},
                           dict : GuestSockets \cup {NoSocket}, left : SUBSET Sockets]]
    BY <2>1, <2>3, <2>4, <1>2
  <2>6. GuestIsolation'
    BY <1>0, <2>1 DEF GuestIsolation
  <2> QED
    BY <1>0, <1>r, <2>1, <2>5, <2>6
<1>6. ASSUME NEW s \in Sockets, Send(m, s) PROVE GwInv'
  <2> DEFINE b == [relay[m] EXCEPT !.left = @ \ {s}]
  <2>1. /\ s \in relay[m].left /\ relay' = [relay EXCEPT ![m] = b]
        /\ received' \in {received, [received EXCEPT ![s][m[1]] = @ + 1]}
    BY <1>6 DEF Send
  <2>2. /\ b \in [at : {"idle", "begin", "staff", "room", "guests"},
                  dict : GuestSockets \cup {NoSocket}, left : SUBSET Sockets]
        /\ b.left = relay[m].left \ {s} /\ b.at = relay[m].at /\ b.dict = relay[m].dict
    <3> DEFINE R == [at : {"idle", "begin", "staff", "room", "guests"},
                     dict : GuestSockets \cup {NoSocket}, left : SUBSET Sockets]
    <3>1. relay[m] \in R
      OBVIOUS
    <3>2. relay[m].left \ {s} \in SUBSET Sockets
      BY <3>1
    <3> QED
      BY <3>1, <3>2
  <2>3. /\ \A g \in GuestSockets : g \in relay[m].left => RoomOf[g] = Event(m)
        /\ b.at = "room" => b.dict \in GuestSockets /\ RoomOf[b.dict] = Event(m)
    BY <2>2 DEF RelayInv
  <2> HIDE DEF b
  <2>4. RelayInv' /\ relay' \in [Relays -> [at : {"idle", "begin", "staff", "room", "guests"},
                           dict : GuestSockets \cup {NoSocket}, left : SUBSET Sockets]]
    BY <2>1, <2>2, <2>3, <1>2
  <2>5. received' \in [Sockets -> [Ids -> Nat]]
    <3>1. received[s] \in [Ids -> Nat] /\ received[s][m[1]] + 1 \in Nat
      BY <1>1
    <3>2. [received[s] EXCEPT ![m[1]] = @ + 1] \in [Ids -> Nat]
      BY <3>1
    <3> QED
      BY <2>1, <3>2
  <2>6. ASSUME NEW g \in GuestSockets, NEW e \in Ids, received'[g][e] > 0
        PROVE  event[e] = RoomOf[g]
    <3>1. CASE g = s /\ e = m[1]
      BY <2>1, <2>3, <3>1 DEF Event
    <3>2. CASE g # s \/ e # m[1]
      <4>1. received'[g][e] = received[g][e]
        BY <1>1, <2>1, <3>2
      <4> QED
        BY <2>6, <4>1 DEF GuestIsolation
    <3> QED
      BY <3>1, <3>2
  <2>7. GuestIsolation'
    BY <1>0, <2>6 DEF GuestIsolation
  <2> QED
    BY <1>0, <1>r, <2>4, <2>5, <2>7
<1> QED
  BY <1>3, <1>4, <1>5, <1>6 DEF Broadcast

(* An event comes in.                                                      *)
LEMMA PublishInv ==
  ASSUME GwInv, NEW e \in Ids, NEW r \in Rooms \cup {NoRoom}, PublishEvent(e, r)
  PROVE  GwInv'
<1> USE Names DEF GwInv, GwTypeOK
<1>1. /\ event[e] = "unpublished" /\ event' = [event EXCEPT ![e] = r] /\ r # "unpublished"
      /\ UNCHANGED <<conn, mine, staff, byRoom, members, received>>
  BY GatewayAssumption DEF PublishEvent, registry, NoRoom
<1>2. RoomsInv' /\ FreshInv' /\ LeavingInv' /\ NothingLeaks'
  BY <1>1, RelayStep
<1>3. PICK cs \in {{"own"}, Channels} :
        relay' = [m \in Relays |-> IF m[1] = e /\ m[2] \in cs
                                   THEN [NoRelay EXCEPT !.at = "begin"] ELSE relay[m]]
  BY DEF PublishEvent
<1>4. /\ [NoRelay EXCEPT !.at = "begin"].at = "begin"
      /\ [NoRelay EXCEPT !.at = "begin"].left = {} /\ NoRelay.left = {} /\ NoRelay.at = "idle"
  BY DEF NoRelay
<1>5. GwTypeOK'
  <2>1. event' \in [Ids -> Rooms \cup {NoRoom, "unpublished"}]
    BY <1>1
  <2>2. [NoRelay EXCEPT !.at = "begin"] \in
          [at : {"idle", "begin", "staff", "room", "guests"}, dict : GuestSockets \cup {NoSocket}, left : SUBSET Sockets]
    BY DEF NoRelay
  <2>3. relay' \in [Relays -> [at : {"idle", "begin", "staff", "room", "guests"},
                           dict : GuestSockets \cup {NoSocket}, left : SUBSET Sockets]]
    BY <1>3, <2>2
  <2> QED
    BY <1>1, <2>1, <2>3
<1>6. RelayInv'
  <2>1. \A m \in Relays : m[1] \in Ids /\ (m[1] = e => relay[m] = NoRelay)
    BY <1>1 DEF RelayInv, Relays, Event
  <2>2. \A m \in Relays : \/ relay'[m] = relay[m] /\ Event(m)' = Event(m)
                          \/ m[1] = e /\ Event(m)' = r /\ relay'[m].left = {} /\ relay'[m].at # "room"
    BY <1>1, <1>3, <1>4, <2>1 DEF Event
  <2> QED
    BY <1>1, <2>1, <2>2 DEF RelayInv
<1>7. GuestIsolation'
  BY <1>1 DEF GuestIsolation
<1> QED
  BY <1>2, <1>5, <1>6, <1>7

(* Every step of the gateway keeps the invariant.                          *)
LEMMA StepInv == GwInv /\ [GwNext]_gwVars => GwInv'
<1> SUFFICES ASSUME GwInv, [GwNext]_gwVars PROVE GwInv'
  OBVIOUS
<1>1. CASE UNCHANGED gwVars
  BY <1>1 DEF gwVars, GwInv, GwTypeOK, RoomsInv, RelayInv, GuestIsolation, FreshInv, LeavingInv,
              NothingLeaks, Reachable, Event
<1> QED
  BY <1>1, HandlerInv, BroadcastInv, PublishInv DEF GwNext

(* The invariant holds.                                                    *)
THEOREM GatewayInvariance == GwSpec => []GwInv
  BY InitInv, StepInv, PTL DEF GwSpec, GwSafe

(* The registry and the broadcasts stay within their types.                *)
THEOREM GatewayTypeCorrect == GwSpec => []GwTypeOK
  BY GatewayInvariance, PTL DEF GwInv

(* However many guests connect and leave, in however many rooms, and       *)
(* whatever is published meanwhile, none is sent an event of another room. *)
THEOREM GuestsIsolated == GwSpec => []GuestIsolation
  BY GatewayInvariance, PTL DEF GwInv

(* No broadcast finds a socket whose handler has removed it, whichever     *)
(* dictionaries the rooms have been given in between.                      *)
THEOREM RegistryDoesNotLeak == GwSpec => []NothingLeaks
  BY GatewayInvariance, PTL DEF GwInv

-----------------------------------------------------------------------------
Step == [do : {"save", "publish"}, tables : SUBSET (Tables \cup {"stay"}),
         event : Events \cup {"none"}]

(* A step changes the list followed, or makes the portal fetch.            *)
Touches(s) == s.do = "save" /\ (list \in s.tables \/ (portal = "guest" /\ "stay" \in s.tables))
IsHeard(s) == s.do = "publish" /\ ListensTo(portal, s.event)

(* Every change a script makes is announced after it is saved.             *)
Announced(t) == \A k \in DOMAIN t : Touches(t[k]) => \E m \in DOMAIN t : m > k /\ IsHeard(t[m])
Speaks(t)    == \E m \in DOMAIN t : IsHeard(t[m])

Covered == list \notin Unannounced(portal)
Listed  == portal \in Portals /\ list \in {Lists(portal)[k] : k \in DOMAIN Lists(portal)}

-----------------------------------------------------------------------------
(* Scripts one after the other.                                            *)
LEMMA Joined ==
  ASSUME NEW s \in Seq(Step), NEW t \in Seq(Step)
  PROVE  /\ s \o t \in Seq(Step)
         /\ Speaks(s) \/ Speaks(t) => Speaks(s \o t)
         /\ Announced(s) /\ Announced(t) => Announced(s \o t)
         /\ Speaks(t) /\ Announced(t) => Announced(s \o t)
<1>1. /\ s \o t \in Seq(Step) /\ Len(s \o t) = Len(s) + Len(t)
      /\ \A i \in 1..(Len(s) + Len(t)) : (s \o t)[i] = IF i <= Len(s) THEN s[i] ELSE t[i - Len(s)]
  BY ConcatProperties
<1>2. /\ Len(s) \in Nat /\ Len(t) \in Nat /\ DOMAIN s = 1..Len(s) /\ DOMAIN t = 1..Len(t)
      /\ DOMAIN (s \o t) = 1..(Len(s) + Len(t))
  BY <1>1, LenProperties
<1>3. \A i \in DOMAIN s : i \in DOMAIN (s \o t) /\ (s \o t)[i] = s[i]
  BY <1>1, <1>2
<1>4. \A i \in DOMAIN t : i + Len(s) \in DOMAIN (s \o t) /\ (s \o t)[i + Len(s)] = t[i]
  <2> TAKE i \in DOMAIN t
  <2>1. i + Len(s) \in 1..(Len(s) + Len(t)) /\ ~(i + Len(s) <= Len(s)) /\ (i + Len(s)) - Len(s) = i
    BY <1>2
  <2> QED
    BY <1>1, <1>2, <2>1
<1>5. \A i \in DOMAIN (s \o t) : i \in DOMAIN s \/ \E j \in DOMAIN t : i = j + Len(s)
  <2> TAKE i \in DOMAIN (s \o t)
  <2>1. i \in DOMAIN s \/ (i - Len(s) \in DOMAIN t /\ i = (i - Len(s)) + Len(s))
    BY <1>2
  <2> QED
    BY <2>1
<1>6. Speaks(s) \/ Speaks(t) => Speaks(s \o t)
  BY <1>3, <1>4 DEF Speaks
<1>7. ASSUME Announced(t), Announced(s) \/ Speaks(t) PROVE Announced(s \o t)
  <2> SUFFICES ASSUME NEW i \in DOMAIN (s \o t), Touches((s \o t)[i])
               PROVE  \E m \in DOMAIN (s \o t) : m > i /\ IsHeard((s \o t)[m])
    BY DEF Announced
  <2>1. CASE i \in DOMAIN s
    <3>1. CASE Speaks(t)
      <4>1. PICK m \in DOMAIN t : IsHeard(t[m])
        BY <3>1 DEF Speaks
      <4>2. m + Len(s) > i
        BY <1>2, <2>1
      <4> QED
        BY <1>4, <4>1, <4>2
    <3>2. CASE Announced(s)
      <4>1. PICK m \in DOMAIN s : m > i /\ IsHeard(s[m])
        BY <1>3, <2>1, <3>2 DEF Announced
      <4> QED
        BY <1>3, <4>1
    <3> QED
      BY <1>7, <3>1, <3>2
  <2>2. ASSUME NEW j \in DOMAIN t, i = j + Len(s)
        PROVE  \E m \in DOMAIN (s \o t) : m > i /\ IsHeard((s \o t)[m])
    <3>1. Touches(t[j])
      BY <1>4, <2>2
    <3>2. PICK m \in DOMAIN t : m > j /\ IsHeard(t[m])
      BY <1>7, <3>1 DEF Announced
    <3>3. m + Len(s) > i
      BY <1>2, <2>2, <3>2
    <3> QED
      BY <1>4, <3>2, <3>3
  <2> QED
    BY <1>5, <2>1, <2>2
<1> QED
  BY <1>1, <1>6, <1>7

(* What remains of a script when its first step is done.                   *)
LEMMA Remaining ==
  ASSUME NEW t \in Seq(Step), t # <<>>
  PROVE  /\ Tail(t) \in Seq(Step) /\ Head(t) \in Step
         /\ Announced(t) => Announced(Tail(t)) /\ (Touches(Head(t)) => Speaks(Tail(t)))
         /\ Speaks(t) => IsHeard(Head(t)) \/ Speaks(Tail(t))
<1>1. /\ Head(t) \in Step /\ Tail(t) \in Seq(Step) /\ Len(Tail(t)) = Len(t) - 1
      /\ \A i \in 1..Len(Tail(t)) : Tail(t)[i] = t[i + 1]
      /\ Head(t) = t[1]
  BY HeadTailProperties
<1>2. /\ Len(t) \in Nat /\ Len(t) # 0 /\ DOMAIN t = 1..Len(t) /\ DOMAIN Tail(t) = 1..(Len(t) - 1)
  BY <1>1, LenProperties, EmptySeq
<1>3. \A i \in DOMAIN Tail(t) : i + 1 \in DOMAIN t /\ Tail(t)[i] = t[i + 1]
  BY <1>1, <1>2
<1>4. \A i \in DOMAIN t : i = 1 \/ \E j \in DOMAIN Tail(t) : i = j + 1
  <2> TAKE i \in DOMAIN t
  <2>1. i = 1 \/ (i - 1 \in DOMAIN Tail(t) /\ i = (i - 1) + 1)
    BY <1>2
  <2> QED
    BY <2>1
<1>5. Speaks(t) => IsHeard(Head(t)) \/ Speaks(Tail(t))
  BY <1>1, <1>3, <1>4 DEF Speaks
<1>6. ASSUME Announced(t) PROVE Announced(Tail(t))
  <2> SUFFICES ASSUME NEW i \in DOMAIN Tail(t), Touches(Tail(t)[i])
               PROVE  \E m \in DOMAIN Tail(t) : m > i /\ IsHeard(Tail(t)[m])
    BY DEF Announced
  <2>1. PICK m \in DOMAIN t : m > i + 1 /\ IsHeard(t[m])
    BY <1>3, <1>6 DEF Announced
  <2>2. PICK j \in DOMAIN Tail(t) : m = j + 1
    BY <1>2, <1>4, <2>1
  <2>3. j > i
    BY <1>2, <2>1, <2>2
  <2> QED
    BY <1>3, <2>1, <2>2, <2>3
<1>7. ASSUME Announced(t), Touches(Head(t)) PROVE Speaks(Tail(t))
  <2>1. PICK m \in DOMAIN t : m > 1 /\ IsHeard(t[m])
    BY <1>1, <1>2, <1>7 DEF Announced
  <2>2. PICK j \in DOMAIN Tail(t) : m = j + 1
    BY <1>2, <1>4, <2>1
  <2> QED
    BY <1>3, <2>1, <2>2 DEF Speaks
<1> QED
  BY <1>1, <1>5, <1>6, <1>7

-----------------------------------------------------------------------------
(* What the portals listen to, by the list followed.                       *)
LEMMA Listens ==
  ASSUME Listed, Covered
  PROVE  /\ list \in Tables /\ list \notin {"tasks", "audit", "staff"}
         /\ ListensTo(portal, "room.status_changed")
         /\ list \in {"orders", "bill"} => ListensTo(portal, "room_service.created")
         /\ list = "orders" => ListensTo(portal, "room_service.updated")
         /\ list = "issues" => /\ ListensTo(portal, "maintenance.created")
                               /\ ListensTo(portal, "maintenance.assigned")
         /\ list \in {"rooms", "issues"} => ListensTo(portal, "maintenance.resolved")
         /\ portal = "guest" => \A e \in Events : ListensTo(portal, e)
<1> USE DEF Listed, Covered, Unannounced, Lists, ListensTo
<1>1. CASE portal = "kitchen"
  BY <1>1 DEF KitchenLists, KitchenEvents, Tables
<1>2. CASE portal = "housekeeper"
  BY <1>2 DEF HousekeeperLists, HousekeeperEvents, Tables
<1>3. CASE portal = "receptionist"
  BY <1>3 DEF ReceptionistLists, ReceptionistEvents, Tables
<1>4. CASE portal = "maintenance"
  BY <1>4 DEF MaintenanceLists, MaintenanceEvents, Tables
<1>5. CASE portal = "operations"
  BY <1>5 DEF OperationsLists, OperationsEvents, Events, Tables
<1>6. CASE portal = "guest"
  BY <1>6 DEF GuestLists, GuestEvents, Events, Tables
<1> QED
  BY <1>1, <1>2, <1>3, <1>4, <1>5, <1>6 DEF Portals

(* A script of one step.                                                   *)
LEMMA Single ==
  ASSUME NEW s \in Step
  PROVE  /\ <<s>> \in Seq(Step)
         /\ Speaks(<<s>>) <=> IsHeard(s)
         /\ ~Touches(s) => Announced(<<s>>)
<1>1. <<s>> \in Seq(Step) /\ Len(<<s>>) = 1 /\ DOMAIN <<s>> = {1} /\ <<s>>[1] = s
  OBVIOUS
<1> QED
  BY <1>1 DEF Speaks, Announced

(* A save of other lists needs no announcement.                            *)
LEMMA Saved ==
  ASSUME NEW ts \in SUBSET (Tables \cup {"stay"}), list \notin ts, "stay" \notin ts
  PROVE  Announced(<<Save(ts)>>)
<1>1. Save(ts) \in Step /\ ~Touches(Save(ts))
  BY DEF Save, Step, Touches
<1> QED
  BY <1>1, Single

(* A save alone is a script.                                               *)
LEMMA IsScript == ASSUME NEW ts \in SUBSET (Tables \cup {"stay"}) PROVE <<Save(ts)>> \in Seq(Step)
<1>1. Save(ts) \in Step
  BY DEF Save, Step
<1> QED
  BY <1>1, Single

(* An event and its audit row, with what else is saved then.               *)
LEMMA Published ==
  ASSUME Listed, Covered, NEW e \in Events, NEW u \in SUBSET Tables
  PROVE  /\ PublishEventAsync(e, u) \in Seq(Step)
         /\ ListensTo(portal, e) => Speaks(PublishEventAsync(e, u))
         /\ list \notin u => Announced(PublishEventAsync(e, u))
<1> DEFINE ts == {"audit"} \cup u
<1>1. PublishEventAsync(e, u) = <<Publish(e)>> \o <<Save(ts)>>
  BY DEF PublishEventAsync
<1>2. /\ Publish(e) \in Step /\ ~Touches(Publish(e))
      /\ ListensTo(portal, e) => IsHeard(Publish(e))
  BY DEF Publish, Step, Touches, IsHeard
<1>3. ts \in SUBSET (Tables \cup {"stay"}) /\ "stay" \notin ts /\ (list \notin u => list \notin ts)
  BY Listens DEF Tables
<1> HIDE DEF ts
<1>4. <<Publish(e)>> \in Seq(Step) /\ <<Save(ts)>> \in Seq(Step)
  BY <1>2, <1>3, Single, IsScript
<1>5. Announced(<<Publish(e)>>) /\ (ListensTo(portal, e) => Speaks(<<Publish(e)>>))
  BY <1>2, Single
<1>6. list \notin u => Announced(<<Save(ts)>>)
  BY <1>3, Saved
<1> QED
  BY <1>1, <1>4, <1>5, <1>6, Joined

(* A save before an event the portal listens to.                           *)
LEMMA SavedAndPublished ==
  ASSUME Listed, Covered, NEW ts \in SUBSET (Tables \cup {"stay"}), NEW e \in Events,
         ListensTo(portal, e) \/ (list \notin ts /\ "stay" \notin ts)
  PROVE  /\ <<Save(ts)>> \o PublishEventAsync(e, {}) \in Seq(Step)
         /\ Announced(<<Save(ts)>> \o PublishEventAsync(e, {}))
         /\ ListensTo(portal, e) => Speaks(<<Save(ts)>> \o PublishEventAsync(e, {}))
<1>1. /\ PublishEventAsync(e, {}) \in Seq(Step) /\ Announced(PublishEventAsync(e, {}))
      /\ ListensTo(portal, e) => Speaks(PublishEventAsync(e, {}))
  BY Published
<1>2. <<Save(ts)>> \in Seq(Step)
  BY IsScript
<1>3. CASE ListensTo(portal, e)
  BY <1>1, <1>2, <1>3, Joined
<1>4. CASE list \notin ts /\ "stay" \notin ts
  BY <1>1, <1>2, <1>4, Saved, Joined
<1> QED
  BY <1>3, <1>4

(* A script that ends with an event every portal listens to.               *)
LEMMA EndsWithStatus ==
  ASSUME Listed, Covered, NEW t \in Seq(Step)
  PROVE  /\ t \o PublishEventAsync("room.status_changed", {}) \in Seq(Step)
         /\ Announced(t \o PublishEventAsync("room.status_changed", {}))
<1>1. ListensTo(portal, "room.status_changed") /\ "room.status_changed" \in Events
  BY Listens DEF Events
<1>2. LET p == PublishEventAsync("room.status_changed", {})
      IN  p \in Seq(Step) /\ Announced(p) /\ Speaks(p)
  BY <1>1, Published
<1> QED
  BY <1>2, Joined

Sound(t) == t \in Seq(Step) /\ Announced(t)

(* The parts of what Maintenance does, for whoever follows the issues or   *)
(* the rooms, and for whoever does not.                                    *)
LEMMA ScheduledSound == ASSUME Listed, Covered, NEW s \in Scheduled PROVE Sound(s)
<1>1. CASE s = <<>>
  BY <1>1 DEF Sound, Announced
<1>2. ASSUME NEW critical \in BOOLEAN, s = Assign(critical) PROVE Sound(s)
  <2> DEFINE first  == <<Save({"issues"})>>
             second == IF critical THEN <<Save({"rooms"})>> \o PublishEventAsync("room.status_changed", {})
                                  ELSE <<>>
             third  == PublishEventAsync("maintenance.assigned", {})
  <2>1. first \in Seq(Step) /\ (list # "issues" => Announced(first))
    BY IsScript, Saved DEF Tables
  <2>2. second \in Seq(Step) /\ Announced(second)
    <3>1. <<Save({"rooms"})>> \in Seq(Step)
      BY IsScript DEF Tables
    <3>2. CASE critical
      BY <3>1, <3>2, EndsWithStatus
    <3>3. CASE ~critical
      BY <3>3 DEF Announced
    <3> QED
      BY <3>2, <3>3
  <2>3. third \in Seq(Step) /\ Announced(third) /\ (list = "issues" => Speaks(third))
    BY Published, Listens DEF Events
  <2>4. s = (first \o second) \o third
    BY <1>2 DEF Assign
  <2> HIDE DEF first, second, third
  <2>5. first \o second \in Seq(Step)
    BY <2>1, <2>2, Joined
  <2>6. CASE list = "issues"
    BY <2>3, <2>4, <2>5, <2>6, Joined DEF Sound
  <2>7. CASE list # "issues"
    <3>1. Announced(first \o second)
      BY <2>1, <2>2, <2>7, Joined
    <3> QED
      BY <2>3, <2>4, <2>5, <3>1, Joined DEF Sound
  <2> QED
    BY <2>6, <2>7
<1> QED
  BY <1>1, <1>2 DEF Scheduled

(* Reporting an issue.                                                     *)
LEMMA ReportSound == ASSUME Listed, Covered, NEW s \in Report PROVE Sound(s)
<1>1. PICK t \in Scheduled : s = (<<Save({"issues"})>> \o PublishEventAsync("maintenance.created", {})) \o t
  BY DEF Report
<1> DEFINE first == <<Save({"issues"})>> \o PublishEventAsync("maintenance.created", {})
<1>2. first \in Seq(Step) /\ Announced(first)
  BY SavedAndPublished, Listens DEF Tables, Events
<1>3. t \in Seq(Step) /\ Announced(t)
  BY ScheduledSound DEF Sound
<1> QED
  BY <1>1, <1>2, <1>3, Joined DEF Sound

(* Resolving one, which publishes before it saves when the room is locked. *)
LEMMA ResolveSound == ASSUME Listed, Covered, NEW s \in Resolve PROVE Sound(s)
<1>1. PICK locked \in BOOLEAN, t \in Scheduled :
        s = (Unlock(locked) \o PublishEventAsync("maintenance.resolved", {})) \o t
  BY DEF Resolve
<1>2. /\ Unlock(locked) \in Seq(Step)
      /\ list \notin {"issues", "rooms"} => Announced(Unlock(locked))
  <2>1. CASE locked
    <3>1. {"issues", "rooms"} \in SUBSET Tables /\ "room.status_changed" \in Events
      BY DEF Tables, Events
    <3> QED
      BY <2>1, <3>1, Published DEF Unlock
  <2>2. CASE ~locked
    BY <2>2, IsScript, Saved DEF Unlock, Tables
  <2> QED
    BY <2>1, <2>2
<1> DEFINE p == PublishEventAsync("maintenance.resolved", {})
<1>3. p \in Seq(Step) /\ Announced(p) /\ (list \in {"issues", "rooms"} => Speaks(p))
  BY Published, Listens DEF Events
<1> HIDE DEF p
<1>4. Unlock(locked) \o p \in Seq(Step) /\ Announced(Unlock(locked) \o p)
  BY <1>2, <1>3, Joined
<1>5. t \in Seq(Step) /\ Announced(t)
  BY ScheduledSound DEF Sound
<1> QED
  BY <1>1, <1>4, <1>5, Joined DEF Sound, p

(* Whatever the services do to the list is announced to its portal.        *)
LEMMA ScriptsSound ==
  ASSUME Listed, Covered, NEW op \in Operations, NEW s \in Script(op) PROVE Sound(s)
<1> USE DEF Script
<1>1. CASE op = "CheckIn"
  <2>1. <<Save({"rooms", "guests"})>> \o PublishEventAsync("guest.checked_in", {}) \in Seq(Step)
    BY IsScript, Published, Joined DEF Tables, Events
  <2> QED
    BY <1>1, <2>1, EndsWithStatus DEF CheckIn, Sound
<1>2. CASE op = "CheckOut"
  <2>1. /\ <<Save({"rooms", "guests", "stay"})>> \in Seq(Step)
        /\ PublishEventAsync("guest.checked_out", {}) \in Seq(Step)
        /\ PublishEventAsync("room.vacated", {}) \in Seq(Step)
    BY IsScript, Published DEF Tables, Events
  <2>2. (<<Save({"rooms", "guests", "stay"})>> \o PublishEventAsync("guest.checked_out", {}))
          \o PublishEventAsync("room.vacated", {}) \in Seq(Step)
    BY <2>1, Joined
  <2> QED
    BY <1>2, <2>2, EndsWithStatus DEF CheckOut, Sound
<1>3. CASE op = "NewTask"
  BY <1>3, IsScript, Saved, Listens DEF NewTask, Sound, Tables
<1>4. CASE op = "StartTask"
  <2>1. <<Save({"tasks", "rooms"})>> \o PublishEventAsync("room.cleaning_started", {}) \in Seq(Step)
    BY IsScript, Published, Joined DEF Tables, Events
  <2> QED
    BY <1>4, <2>1, EndsWithStatus DEF StartTask, Sound
<1>5. CASE op = "CompleteTask"
  <2>1. <<Save({"tasks", "rooms"})>> \o PublishEventAsync("room.cleaned", {}) \in Seq(Step)
    BY IsScript, Published, Joined DEF Tables, Events
  <2> QED
    BY <1>5, <2>1, EndsWithStatus DEF CompleteTask, Sound
<1>6. CASE op = "MarkDirty"
  <2>1. <<Save({"tasks", "rooms"})>> \in Seq(Step)
    BY IsScript DEF Tables
  <2> QED
    BY <1>6, <2>1, EndsWithStatus DEF MarkDirty, Sound
<1>7. CASE op = "PlaceOrder"
  BY <1>7, SavedAndPublished, Listens DEF PlaceOrder, Sound, Tables, Events
<1>8. CASE op = "UpdateOrder"
  BY <1>8, SavedAndPublished, Listens DEF UpdateOrder, Sound, Tables, Events
<1>9. CASE op = "Report"
  BY <1>9, ReportSound
<1>10. CASE op = "Resolve"
  BY <1>10, ResolveSound
<1>11. CASE op = "EditStaff"
  BY <1>11, IsScript, Saved, Listens DEF EditStaff, Sound, Tables
<1> QED
  BY <1>1, <1>2, <1>3, <1>4, <1>5, <1>6, <1>7, <1>8, <1>9, <1>10, <1>11 DEF Operations

-----------------------------------------------------------------------------
(* A fetch that has still to read the list, or has been refused it.        *)
Reads(f) == \/ FetchRuns(f) /\ fetch[f].at < Watched
            \/ fetch[f].at = Watched /\ fetch[f].answer \in {"none", "denied"}

FetchTypes ==
  /\ fetch \in [Fetches -> [at : Nat, answer : {"none", "new", "old", "denied"}]]
  /\ \A f \in Fetches : fetch[f].at = 0 => fetch[f].answer = "none"

Job == [op : Operations \cup {"none"}, todo : Seq(Step)]

JobsSound == /\ DOMAIN jobs = Jobs
             /\ Covered => \A j \in Jobs : jobs[j] \in Job /\ Announced(jobs[j].todo)

(* A change not yet read by a connected portal will be: a fetch is on its  *)
(* way to the list, an event on its way to the portal, or still to be      *)
(* published.                                                              *)
Noticed == Covered /\ link = "live" /\ unread =>
  \/ \E f \in Fetches : Reads(f)
  \/ wire # {}
  \/ \E j \in Jobs : Speaks(jobs[j].todo)

PoInv == Listed /\ FetchTypes /\ JobsSound /\ Noticed

(* The list followed is one of those its portal fetches, at its place.     *)
LEMMA WatchedIs ==
  ASSUME Listed
  PROVE  Watched \in DOMAIN Lists(portal) /\ Lists(portal)[Watched] = list
  BY DEF Watched, Listed

(* The place of the list among those of its portal.                        *)
LEMMA WatchedPlace ==
  ASSUME Listed
  PROVE  /\ Len(Lists(portal)) \in Nat /\ DOMAIN Lists(portal) = 1..Len(Lists(portal))
         /\ Watched \in 1..Len(Lists(portal))
<1>1. Len(Lists(portal)) \in Nat /\ DOMAIN Lists(portal) = 1..Len(Lists(portal))
  <2> USE DEF Lists
  <2>1. CASE portal = "kitchen"
    BY <2>1 DEF KitchenLists
  <2>2. CASE portal = "housekeeper"
    BY <2>2 DEF HousekeeperLists
  <2>3. CASE portal = "receptionist"
    BY <2>3 DEF ReceptionistLists
  <2>4. CASE portal = "maintenance"
    BY <2>4 DEF MaintenanceLists
  <2>5. CASE portal = "operations"
    BY <2>5 DEF OperationsLists
  <2>6. CASE portal = "guest"
    BY <2>6 DEF GuestLists
  <2> QED
    BY <2>1, <2>2, <2>3, <2>4, <2>5, <2>6 DEF Listed, Portals
<1> QED
  BY <1>1, WatchedIs

(* At first no socket is live.                                             *)
LEMMA PoInitInv == PoInit => PoInv
<1> SUFFICES ASSUME PoInit PROVE PoInv
  OBVIOUS
<1>1. Listed
  BY PortalsAssumption DEF PoInit, Listed
<1>2. FetchTypes
  BY DEF PoInit, FetchTypes, NoFetch
<1>3. JobsSound
  BY DEF PoInit, JobsSound, Job, NoJob, Announced
<1>4. Noticed
  BY DEF PoInit, Noticed
<1> QED
  BY <1>1, <1>2, <1>3, <1>4 DEF PoInv

(* The portal and the list followed do not change, nor what depends on     *)
(* them.                                                                   *)
LEMMA Same ==
  ASSUME Fixed
  PROVE  /\ Listed' = Listed /\ Covered' = Covered /\ Watched' = Watched
         /\ Lists(portal)' = Lists(portal)
         /\ \A t : (Announced(t)' <=> Announced(t)) /\ (Speaks(t)' <=> Speaks(t))
  BY DEF Fixed, Listed, Covered, Watched, Announced, Speaks, Touches, IsHeard

(* A fetch that starts reads the list in its turn; the others go on.       *)
LEMMA Started ==
  ASSUME PoInv, Fixed, NEW k \in Nat \ {0}, FetchFrom(k)
  PROVE  /\ FetchTypes'
         /\ \A f \in Fetches : Reads(f) => Reads(f)'
         /\ k = 1 => \E f \in Fetches : Reads(f)'
<1>1. PICK f \in Fetches : ~FetchRuns(f) /\ fetch' = [fetch EXCEPT ![f].at = k]
  BY DEF FetchFrom
<1>2. /\ fetch[f].at = 0 /\ fetch[f].answer = "none" /\ f \in DOMAIN fetch
      /\ fetch \in [Fetches -> [at : Nat, answer : {"none", "new", "old", "denied"}]]
  BY <1>1 DEF PoInv, FetchTypes, FetchRuns
<1>3. FetchTypes'
  BY <1>1, <1>2 DEF PoInv, FetchTypes
<1>4. fetch'[f].at = k /\ fetch'[f].answer = "none"
  BY <1>1, <1>2
<1>5. \A g \in Fetches : g # f => fetch'[g] = fetch[g]
  BY <1>1, <1>2
<1>6. Watched' = Watched /\ Watched \in Nat \ {0}
  BY Same, WatchedPlace DEF PoInv
<1>7. ~Reads(f)
  BY <1>1, <1>2, <1>6 DEF Reads
<1>8. \A g \in Fetches : Reads(g) => Reads(g)'
  BY <1>5, <1>6, <1>7 DEF Reads, FetchRuns
<1>9. k = 1 => Reads(f)'
  BY <1>4, <1>6 DEF Reads, FetchRuns
<1> QED
  BY <1>3, <1>8, <1>9

(* What follows when the requests are untouched.                           *)
LEMMA PortalMoves ==
  ASSUME PoInv, Fixed, UNCHANGED jobs, FetchTypes',
         Covered /\ link' = "live" /\ unread' =>
           \/ \E f \in Fetches : Reads(f)'
           \/ wire' # {}
           \/ \E j \in Jobs : Speaks(jobs[j].todo)
  PROVE  PoInv'
<1>1. Listed' /\ JobsSound' /\ (Covered' <=> Covered)
  BY Same DEF PoInv, JobsSound
<1>2. \A j \in Jobs : Speaks(jobs[j].todo) => Speaks(jobs[j].todo)'
  BY Same DEF Fixed, Speaks, IsHeard
<1>3. Noticed'
  BY <1>1, <1>2 DEF Noticed
<1> QED
  BY <1>1, <1>3 DEF PoInv

-----------------------------------------------------------------------------
(* The scripts of the requests move on, and one may begin.                 *)
LEMMA JobsMove ==
  ASSUME PoInv, Fixed, FetchTypes', NEW j \in Jobs, NEW new,
         jobs' = [jobs EXCEPT ![j] = new],
         Covered => new \in Job /\ Announced(new.todo),
         Covered /\ link' = "live" /\ unread' =>
           \/ \E f \in Fetches : Reads(f)'
           \/ wire' # {}
           \/ Speaks(new.todo)
           \/ \E i \in Jobs \ {j} : Speaks(jobs[i].todo)
  PROVE  PoInv'
<1>1. /\ Listed' /\ (Covered' <=> Covered)
      /\ \A t : (Announced(t)' <=> Announced(t)) /\ (Speaks(t)' <=> Speaks(t))
  BY Same DEF PoInv
<1>2. /\ DOMAIN jobs' = Jobs /\ jobs'[j] = new
      /\ \A i \in Jobs : i # j => jobs'[i] = jobs[i]
  BY DEF PoInv, JobsSound
<1>3. JobsSound'
  <2>1. ASSUME Covered, NEW i \in Jobs PROVE jobs'[i] \in Job /\ Announced(jobs[i].todo)'
    <3>1. CASE i = j
      BY <1>2, <2>1, <3>1 DEF Announced, Touches, IsHeard, Fixed
    <3>2. CASE i # j
      BY <1>2, <2>1, <3>2 DEF Announced, Touches, IsHeard, Fixed, PoInv, JobsSound
    <3> QED
      BY <3>1, <3>2
  <2> QED
    BY <1>1, <1>2, <2>1 DEF JobsSound, Job
<1>4. Noticed'
  <2>1. Speaks(new.todo) => Speaks(jobs[j].todo)'
    BY <1>2 DEF Speaks, IsHeard, Fixed
  <2>2. \A i \in Jobs \ {j} : Speaks(jobs[i].todo) => Speaks(jobs[i].todo)'
    BY <1>2 DEF Speaks, IsHeard, Fixed
  <2> QED
    BY <1>1, <2>1, <2>2 DEF Noticed
<1> QED
  BY <1>1, <1>3, <1>4 DEF PoInv

(* What reads the list goes on to if the fetches are untouched.            *)
LEMMA FetchesStay ==
  ASSUME PoInv, Fixed, UNCHANGED fetch
  PROVE  FetchTypes' /\ \A f \in Fetches : Reads(f) => Reads(f)'
<1>1. Watched' = Watched
  BY Same
<1> QED
  BY <1>1 DEF PoInv, FetchTypes, Reads, FetchRuns

(* A request begins: its script announces what it saves.                   *)
LEMMA BeginStep ==
  ASSUME PoInv, NEW j \in Jobs, NEW op \in Operations, Begin(j, op) PROVE PoInv'
<1>1. PICK s \in Script(op) : jobs' = [jobs EXCEPT ![j] = [op |-> op, todo |-> s]]
  BY DEF Begin
<1>2. /\ Fixed /\ UNCHANGED <<link, allowed, unread, stale, wire, fetch>>
      /\ jobs[j].todo = <<>>
  BY DEF Begin, NoJob
<1> DEFINE new == [op |-> op, todo |-> s]
<1>3. Covered => new \in Job /\ Announced(new.todo)
  BY ScriptsSound DEF PoInv, Sound, Job
<1>4. ~Speaks(jobs[j].todo)
  BY <1>2 DEF Speaks
<1>5. jobs' = [jobs EXCEPT ![j] = new]
  BY <1>1
<1> HIDE DEF new
<1>6. FetchTypes' /\ \A f \in Fetches : Reads(f) => Reads(f)'
  BY <1>2, FetchesStay
<1>7. Covered /\ link' = "live" /\ unread' =>
        \/ \E f \in Fetches : Reads(f)'
        \/ wire' # {}
        \/ \E i \in Jobs \ {j} : Speaks(jobs[i].todo)
  BY <1>2, <1>4, <1>6 DEF PoInv, Noticed
<1> QED
  BY <1>2, <1>3, <1>5, <1>6, <1>7, JobsMove

(* A save that commits leaves its announcement to be made.                 *)
LEMMA CommitStep ==
  ASSUME PoInv, NEW j \in Jobs, Commit(j) PROVE PoInv'
<1> DEFINE t == jobs[j].todo
           new == [jobs[j] EXCEPT !.todo = Tail(t)]
           saved  == Head(t).tables
           leaves == portal = "guest" /\ "stay" \in saved
<1>1. /\ t # <<>> /\ Head(t).do = "save" /\ jobs' = [jobs EXCEPT ![j] = new]
      /\ Fixed /\ UNCHANGED <<link, wire>>
      /\ IF list \in saved \/ leaves
           THEN fetch' = [f \in Fetches |-> IF fetch[f].at = Watched /\ fetch[f].answer = "new"
                                              THEN [fetch[f] EXCEPT !.answer = "old"] ELSE fetch[f]]
           ELSE UNCHANGED <<unread, fetch>>
  BY DEF Commit, Next, Done
<1>2. Touches(Head(t)) <=> list \in saved \/ leaves
  BY <1>1 DEF Touches
<1>3. /\ FetchTypes'
      /\ \A f \in Fetches : Reads(f) => Reads(f)'
  <2>1. CASE list \in saved \/ leaves
    <3>1. \A f \in Fetches : fetch'[f] = IF fetch[f].at = Watched /\ fetch[f].answer = "new"
                                              THEN [fetch[f] EXCEPT !.answer = "old"] ELSE fetch[f]
      BY <1>1, <2>1
    <3>2. \A f \in Fetches : fetch[f] \in [at : Nat, answer : {"none", "new", "old", "denied"}]
      BY DEF PoInv, FetchTypes
    <3>3. FetchTypes'
      <4>1. \A f \in Fetches :
              /\ fetch'[f] \in [at : Nat, answer : {"none", "new", "old", "denied"}]
              /\ fetch'[f].at = fetch[f].at
              /\ fetch'[f] = fetch[f] \/ fetch[f].at = Watched
        BY <3>1, <3>2
      <4>2. Watched \in Nat \ {0}
        BY WatchedPlace DEF PoInv
      <4>3. fetch' \in [Fetches -> [at : Nat, answer : {"none", "new", "old", "denied"}]]
        BY <1>1, <2>1, <4>1
      <4> QED
        BY <4>1, <4>2, <4>3 DEF PoInv, FetchTypes
    <3>4. Watched' = Watched
      BY <1>1, Same
    <3> QED
      BY <3>1, <3>2, <3>3, <3>4 DEF Reads, FetchRuns
  <2>2. CASE ~(list \in saved \/ leaves)
    BY <1>1, <2>2, FetchesStay
  <2> QED
    BY <2>1, <2>2
<1>4. ASSUME Covered
      PROVE  /\ new \in Job /\ Announced(new.todo)
             /\ list \in saved \/ leaves => Speaks(new.todo)
             /\ Speaks(t) => Speaks(new.todo)
  <2>1. jobs[j] \in Job /\ t \in Seq(Step) /\ Announced(t)
    BY <1>4 DEF PoInv, JobsSound, Job
  <2>2. new \in Job /\ new.todo = Tail(t)
    BY <1>1, <2>1, Remaining DEF Job
  <2>3. ~IsHeard(Head(t))
    BY <1>1 DEF IsHeard
  <2> HIDE DEF t, new, saved, leaves
  <2> QED
    BY <1>1, <1>2, <2>1, <2>2, <2>3, Remaining
<1>5. Covered /\ link' = "live" /\ unread' =>
           \/ \E f \in Fetches : Reads(f)'
           \/ wire' # {}
           \/ Speaks(new.todo)
           \/ \E i \in Jobs \ {j} : Speaks(jobs[i].todo)
  <2> HIDE DEF new, saved, leaves
  <2> QED
    BY <1>1, <1>3, <1>4 DEF PoInv, Noticed
<1> HIDE DEF new, t, saved, leaves
<1> QED
  BY <1>1, <1>3, <1>4, <1>5, JobsMove

(* A publication that reaches the portal is on the wire, or has failed.    *)
LEMMA AnnounceStep ==
  ASSUME PoInv, NEW j \in Jobs, Announce(j) PROVE PoInv'
<1> DEFINE t == jobs[j].todo
           new == [jobs[j] EXCEPT !.todo = Tail(t)]
           e == Head(t).event
<1>1. /\ t # <<>> /\ Head(t).do = "publish" /\ jobs' = [jobs EXCEPT ![j] = new]
      /\ Fixed /\ UNCHANGED <<link, allowed, stale, fetch>>
  BY DEF Announce, Next, Done
<1>2. PICK sent \in {{}, Copies} :
        /\ wire' = IF link = "live" /\ ListensTo(portal, e) THEN wire \cup {<<e, c>> : c \in sent}
                                                           ELSE wire
        /\ unread' = (unread /\ ~(sent = {} /\ ListensTo(portal, e)))
  BY DEF Announce
<1>3. /\ FetchTypes' /\ \A f \in Fetches : Reads(f) => Reads(f)'
  BY <1>1, FetchesStay
<1>4. ASSUME Covered
      PROVE  /\ new \in Job /\ Announced(new.todo)
             /\ Speaks(t) => ListensTo(portal, e) \/ Speaks(new.todo)
  <2>1. jobs[j] \in Job /\ t \in Seq(Step) /\ Announced(t)
    BY <1>4 DEF PoInv, JobsSound, Job
  <2>2. new \in Job /\ new.todo = Tail(t)
    BY <1>1, <2>1, Remaining DEF Job
  <2>3. IsHeard(Head(t)) => ListensTo(portal, e)
    BY DEF IsHeard
  <2> HIDE DEF t, new, e
  <2> QED
    BY <1>1, <2>1, <2>2, <2>3, Remaining
<1>5. wire \subseteq wire'
  BY <1>2
<1>6. link = "live" /\ unread' /\ ListensTo(portal, e) => wire' # {}
  <2>1. sent # {} => sent = Copies /\ "own" \in sent
    BY DEF Copies
  <2> QED
    BY <1>2, <2>1
<1>7. unread' => unread
  BY <1>2
<1>8. Covered /\ link' = "live" /\ unread' =>
           \/ \E f \in Fetches : Reads(f)'
           \/ wire' # {}
           \/ Speaks(new.todo)
           \/ \E i \in Jobs \ {j} : Speaks(jobs[i].todo)
  <2> HIDE DEF new, e
  <2> QED
    BY <1>1, <1>3, <1>4, <1>5, <1>6, <1>7 DEF PoInv, Noticed
<1> HIDE DEF new, t, e
<1> QED
  BY <1>1, <1>3, <1>4, <1>8, JobsMove

(* A request that is answered has published all it had to.                 *)
LEMMA AnswerStep ==
  ASSUME PoInv, NEW j \in Jobs, Answer(j) PROVE PoInv'
<1>1. /\ jobs[j].todo = <<>> /\ jobs' = [jobs EXCEPT ![j] = NoJob]
      /\ Fixed /\ UNCHANGED <<link, allowed, unread, stale, wire>>
      /\ \/ \E k \in {1, Len(Lists(portal))} : FetchFrom(k)
         \/ UNCHANGED fetch
  BY DEF Answer
<1>2. {1, Len(Lists(portal))} \subseteq Nat \ {0}
  BY WatchedPlace DEF PoInv
<1>3. FetchTypes' /\ \A f \in Fetches : Reads(f) => Reads(f)'
  BY <1>1, <1>2, Started, FetchesStay
<1>4. NoJob \in Job /\ Announced(NoJob.todo) /\ ~Speaks(jobs[j].todo)
  BY <1>1 DEF NoJob, Job, Announced, Speaks
<1>5. Covered /\ link' = "live" /\ unread' =>
        \/ \E f \in Fetches : Reads(f)'
        \/ wire' # {}
        \/ \E i \in Jobs \ {j} : Speaks(jobs[i].todo)
  BY <1>1, <1>3, <1>4 DEF PoInv, Noticed
<1> QED
  BY <1>1, <1>3, <1>4, <1>5, JobsMove

-----------------------------------------------------------------------------
(* The steps of the portal that leave it without a live socket.            *)
LEMMA SocketSteps ==
  ASSUME PoInv, Login \/ Reload \/ Logout \/ Disconnect \/ \E f \in Fetches : Denied(f)
  PROVE  PoInv'
<1>1. /\ Fixed /\ UNCHANGED jobs /\ link' # "live"
  BY DEF Login, Reload, Logout, Disconnect, Denied, NoSession
<1>2. FetchTypes'
  <2>1. CASE Login
    BY <2>1, Started DEF Login, FetchStarts
  <2>2. CASE Reload
    <3>1. PICK f \in Fetches : fetch' = [g \in Fetches |-> IF g = f THEN [NoFetch EXCEPT !.at = 1]
                                                              ELSE NoFetch]
      BY <2>2 DEF Reload
    <3> QED
      BY <3>1 DEF FetchTypes, NoFetch
  <2>3. CASE Logout \/ Disconnect
    BY <1>1, <2>3, FetchesStay DEF Logout, Disconnect
  <2>4. ASSUME NEW f \in Fetches, Denied(f) PROVE FetchTypes'
    BY <2>4 DEF Denied, PoInv, FetchTypes, NoFetch
  <2> QED
    BY <2>1, <2>2, <2>3, <2>4
<1> QED
  BY <1>1, <1>2, PortalMoves

(* The steps that leave the fetches and the wire alone: a socket that is   *)
(* registered has nothing unread yet.                                      *)
LEMMA QuietSteps ==
  ASSUME PoInv, Register \/ Expire PROVE PoInv'
<1>1. /\ Fixed /\ UNCHANGED jobs /\ UNCHANGED fetch /\ UNCHANGED wire
      /\ unread' => unread /\ UNCHANGED link
  BY DEF Register, Expire
<1>2. FetchTypes' /\ \A f \in Fetches : Reads(f) => Reads(f)'
  BY <1>1, FetchesStay
<1> QED
  BY <1>1, <1>2, PortalMoves DEF PoInv, Noticed

(* An event that arrives makes the portal fetch, or logs it out.           *)
LEMMA HearStep ==
  ASSUME PoInv, NEW m \in Events \X Copies, Hear(m) PROVE PoInv'
<1>1. Fixed /\ UNCHANGED jobs
  BY DEF Hear
<1>2. CASE LogsOut(m[1])
  <2>1. link' # "live" /\ UNCHANGED fetch
    BY <1>2 DEF Hear, NoSession
  <2> QED
    BY <1>1, <2>1, FetchesStay, PortalMoves
<1>3. CASE ~LogsOut(m[1])
  <2>1. FetchFrom(1)
    BY <1>3 DEF Hear, FetchStarts
  <2>2. FetchTypes' /\ \E f \in Fetches : Reads(f)'
    BY <1>1, <2>1, Started
  <2> QED
    BY <1>1, <2>2, PortalMoves
<1> QED
  BY <1>2, <1>3

(* A fetch that moves on, while every other stays as it is.                *)
LEMMA OneFetchMoves ==
  ASSUME PoInv, NEW f \in Fetches, NEW new, Fixed, UNCHANGED <<link, wire, jobs>>,
         fetch' = [fetch EXCEPT ![f] = new],
         new \in [at : Nat, answer : {"none", "new", "old", "denied"}],
         new.at = 0 => new.answer = "none",
         unread' => unread, unread' /\ Reads(f) => Reads(f)'
  PROVE  PoInv'
<1>1. FetchTypes'
  BY DEF PoInv, FetchTypes
<1>2. \A g \in Fetches : g # f => fetch'[g] = fetch[g]
  BY DEF PoInv, FetchTypes
<1>3. \A g \in Fetches : g # f /\ Reads(g) => Reads(g)'
  BY <1>2, Same DEF Reads, FetchRuns
<1> QED
  BY <1>1, <1>3, PortalMoves DEF PoInv, Noticed

(* The list is read by the fetch whose turn has come, unless it is denied. *)
LEMMA ReadStep ==
  ASSUME PoInv, NEW f \in Fetches, Read(f) PROVE PoInv'
<1> DEFINE asked  == Lists(portal)[fetch[f].at]
           denied == ~allowed /\ asked \in Guarded(portal)
           new    == [fetch[f] EXCEPT !.answer = IF denied THEN "denied" ELSE "new"]
<1>1. /\ Fixed /\ UNCHANGED <<link, allowed, stale, wire, jobs>>
      /\ FetchRuns(f) /\ fetch[f].answer = "none"
      /\ fetch' = [fetch EXCEPT ![f] = new]
      /\ unread' = (unread /\ (denied \/ asked # list))
  BY DEF Read
<1>2. /\ fetch[f] \in [at : Nat, answer : {"none", "new", "old", "denied"}]
      /\ fetch[f].at # 0 /\ f \in DOMAIN fetch
  BY <1>1 DEF PoInv, FetchTypes, FetchRuns
<1>3. /\ new \in [at : Nat, answer : {"none", "new", "old", "denied"}]
      /\ new.at = fetch[f].at /\ (denied => new.answer = "denied")
  BY <1>2
<1>4. fetch'[f] = new
  BY <1>1, <1>2
<1>5. unread' => denied \/ asked # list
  BY <1>1
<1> HIDE DEF new, denied
<1>6. unread' /\ Reads(f) => Reads(f)'
  <2>1. Watched' = Watched /\ Lists(portal)[Watched] = list
    BY <1>1, Same, WatchedIs DEF PoInv
  <2>2. CASE fetch[f].at = Watched
    BY <1>3, <1>4, <1>5, <2>1, <2>2 DEF Reads
  <2>3. CASE fetch[f].at # Watched
    BY <1>2, <1>3, <1>4, <2>1, <2>3 DEF Reads, FetchRuns
  <2> QED
    BY <2>2, <2>3
<1> QED
  BY <1>1, <1>2, <1>3, <1>6, OneFetchMoves

(* What is shown has been read; the next list is asked for.                *)
LEMMA ShowStep ==
  ASSUME PoInv, NEW f \in Fetches, Show(f) PROVE PoInv'
<1> DEFINE new == IF fetch[f].at = Len(Lists(portal)) THEN NoFetch
                  ELSE [at |-> fetch[f].at + 1, answer |-> "none"]
<1>1. /\ Fixed /\ UNCHANGED <<link, allowed, unread, wire, jobs>>
      /\ fetch[f].answer \in {"new", "old"}
      /\ fetch' = [fetch EXCEPT ![f] = new]
  BY DEF Show
<1>2. /\ fetch[f] \in [at : Nat, answer : {"none", "new", "old", "denied"}]
      /\ fetch[f].at # 0 /\ f \in DOMAIN fetch
  BY <1>1 DEF PoInv, FetchTypes
<1>3. new \in [at : Nat, answer : {"none", "new", "old", "denied"}] /\ new.answer = "none"
  BY <1>2 DEF NoFetch
<1>4. Reads(f) => Reads(f)'
  <2>1. Watched' = Watched /\ Watched \in 1..Len(Lists(portal)) /\ Len(Lists(portal)) \in Nat
    BY <1>1, Same, WatchedPlace DEF PoInv
  <2>2. Reads(f) => fetch[f].at < Watched
    BY <1>1 DEF Reads
  <2>3. fetch[f].at < Watched => fetch'[f] = [at |-> fetch[f].at + 1, answer |-> "none"]
    BY <1>1, <1>2, <2>1
  <2>4. fetch[f].at < Watched => /\ fetch'[f].at = fetch[f].at + 1 /\ fetch'[f].answer = "none"
                                 /\ fetch[f].at + 1 # 0
                                 /\ fetch[f].at + 1 < Watched \/ fetch[f].at + 1 = Watched
    BY <1>2, <2>1, <2>3
  <2> QED
    BY <2>1, <2>2, <2>4 DEF Reads, FetchRuns
<1> HIDE DEF new
<1> QED
  BY <1>1, <1>3, <1>4, OneFetchMoves

(* A fetch that fails before the list is read has been told about.         *)
LEMMA FailStep ==
  ASSUME PoInv, NEW f \in Fetches, FetchFails(f) PROVE PoInv'
<1>1. /\ Fixed /\ UNCHANGED <<link, allowed, stale, wire, jobs>>
      /\ fetch' = [fetch EXCEPT ![f] = NoFetch]
      /\ unread' = (unread /\ fetch[f].at > Watched)
  BY DEF FetchFails
<1>2. NoFetch \in [at : Nat, answer : {"none", "new", "old", "denied"}] /\ NoFetch.answer = "none"
  BY DEF NoFetch
<1>3. fetch[f].at \in Nat /\ Watched \in Nat
  BY WatchedPlace DEF PoInv, FetchTypes
<1>4. unread' => unread /\ fetch[f].at > Watched
  BY <1>1, Zenon
<1>5. fetch[f].at > Watched => ~Reads(f)
  BY <1>3 DEF Reads
<1> QED
  BY <1>1, <1>2, <1>4, <1>5, OneFetchMoves

(* Every step of the portal and the services keeps the invariant.          *)
LEMMA PoStepInv == PoInv /\ [PoNext]_poVars => PoInv'
<1> SUFFICES ASSUME PoInv, [PoNext]_poVars PROVE PoInv'
  OBVIOUS
<1>1. ASSUME NEW j \in Jobs, Work(j) PROVE PoInv'
  BY <1>1, CommitStep, AnnounceStep, AnswerStep DEF Work
<1>2. ASSUME NEW j \in Jobs, NEW op \in Operations, Begin(j, op) PROVE PoInv'
  BY <1>2, BeginStep
<1>3. ASSUME NEW f \in Fetches, FetchStep(f) \/ FetchFails(f) PROVE PoInv'
  BY <1>3, ReadStep, ShowStep, SocketSteps, FailStep DEF FetchStep
<1>4. CASE HearAny
  BY <1>4, HearStep DEF HearAny
<1>5. CASE Login \/ Reload \/ Logout \/ Disconnect
  BY <1>5, SocketSteps
<1>6. CASE Register \/ Expire
  BY <1>6, QuietSteps
<1>7. CASE UNCHANGED poVars
  <2>1. Fixed /\ UNCHANGED jobs /\ UNCHANGED <<link, unread, wire, fetch>>
    BY <1>7 DEF poVars, Fixed
  <2>2. FetchTypes' /\ \A f \in Fetches : Reads(f) => Reads(f)'
    BY <2>1, FetchesStay
  <2> QED
    BY <2>1, <2>2, PortalMoves DEF PoInv, Noticed
<1> QED
  BY <1>1, <1>2, <1>3, <1>4, <1>5, <1>6, <1>7 DEF PoNext

(* A change that a live portal has not read is always about to be: by a    *)
(* fetch under way, an event on the wire or one still to be published.     *)
THEOREM NoticedInvariance == PoSafe => []PoInv
<1> QED
  BY PoInitInv, PoStepInv, PTL DEF PoSafe

(* No change goes unnoticed: whichever portal and list are followed, a     *)
(* live portal that has not read a change has a fetch, an event or a       *)
(* publication on its way that will make it.                               *)
THEOREM EveryChangeNoticed == PoSafe => []ChangesNoticed
<1>1. PoInv => ChangesNoticed
  <2> SUFFICES ASSUME PoInv, Covered, link = "live", unread PROVE WillRead \/ WillHear
    BY DEF ChangesNoticed, Unnoticed, Covered
  <2>1. ASSUME NEW f \in Fetches, Reads(f) PROVE WillRead
    BY <2>1 DEF Reads, WillRead
  <2>2. ASSUME NEW j \in Jobs, Speaks(jobs[j].todo) PROVE WillHear
    BY <2>2 DEF Speaks, IsHeard, WillHear
  <2> QED
    BY <2>1, <2>2 DEF PoInv, Noticed, WillHear
<1> QED
  BY <1>1, NoticedInvariance, PTL
=============================================================================
