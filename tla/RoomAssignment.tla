--------------------------- MODULE RoomAssignment ---------------------------
(* How check-in selects one of the Clean rooms of the requested type: the  *)
(* sorts and filters of the handler, and what they amount to.              *)
EXTENDS Naturals, SequencesExt

CONSTANTS NumRooms,  \* Clean rooms of the type, in table order
          MaxSince   \* bound: different values of CleanSince

ASSUME AssignmentAssumption == NumRooms \in Nat \ {0} /\ MaxSince \in Nat

Candidates  == 1..NumRooms
Floors      == {1, 2}
Proximities == {"Near Elevator", "Near Stairs", "Away From Elevator", "None"}

RoomData == [floor : Floors, nearElevator : BOOLEAN, nearStairs : BOOLEAN,
             cleanSince : 0..MaxSince]
NoFloor  == 0

VARIABLES hotel,    \* the data of the candidate rooms
          request   \* the preferences of the check-in request

raVars == <<hotel, request>>

-----------------------------------------------------------------------------
(* The positions K of a list by their weight, ties in the order of the     *)
(* list: what the stable sorts and the filters of LINQ go through.         *)
Ahead(w, i, j) == w[i] < w[j] \/ (w[i] = w[j] /\ i < j)

InOrder(K, w) ==
  CHOOSE p \in SetToSeqs(K) : \A i, j \in DOMAIN p : i < j => Ahead(w, p[i], p[j])

(* Enumerable.OrderBy and Enumerable.Where.                                *)
OrderBy(s, key) ==
  LET p == InOrder(DOMAIN s, [i \in DOMAIN s |-> key[s[i]]])
  IN  [k \in DOMAIN p |-> s[p[k]]]

Where(s, P) ==
  LET K == {i \in DOMAIN s : s[i] \in P}
      p == InOrder(K, [i \in K |-> 0])
  IN  [k \in DOMAIN p |-> s[p[k]]]

(* The key of the second sort; a room that meets the preference has 0.     *)
ProximityKey(h, p) ==
  [r \in Candidates |->
     IF \/ p = "Near Elevator" /\ ~h[r].nearElevator
        \/ p = "Near Stairs" /\ ~h[r].nearStairs
        \/ p = "Away From Elevator" /\ h[r].nearElevator
       THEN 1 ELSE 0]

(* Rooms on the preferred floor, or every room if there is none there.     *)
OnFloor(h, s, f) ==
  LET there == Where(s, {r \in Candidates : h[r].floor = f})
  IN  IF f = NoFloor \/ there = <<>> THEN s ELSE there

(* Mutant: the longest clean is sorted for last.                           *)
Selected_SinceLast(h, q) ==
  LET byFloor == OnFloor(h, [i \in Candidates |-> i], q.floor)
      byNear  == OrderBy(byFloor, ProximityKey(h, q.near))
  IN  Head(OrderBy(byNear, [r \in Candidates |-> h[r].cleanSince]))

Selected(h, q) ==
  LET bySince == OrderBy([i \in Candidates |-> i],
                         [r \in Candidates |-> h[r].cleanSince])
      byFloor == OnFloor(h, bySince, q.floor)
      byNear  == OrderBy(byFloor, ProximityKey(h, q.near))
  IN  Head(byNear)

-----------------------------------------------------------------------------
Requests == [floor : Floors \cup {NoFloor}, near : Proximities]

RaInit == hotel \in [Candidates -> RoomData] /\ request \in Requests

(* The next request finds the same rooms.                                  *)
AskForRoom == request' \in Requests /\ UNCHANGED hotel

RaSpec == RaInit /\ [][AskForRoom]_raVars

-----------------------------------------------------------------------------
(* The rooms the floor preference leaves, and the order on them: first the *)
(* proximity preference, then the longest clean, then the table order.     *)
Pool(h, q) ==
  LET there == {r \in Candidates : h[r].floor = q.floor}
  IN  IF there = {} THEN Candidates ELSE there

Precedes(h, q, r, s) ==
  LET kr == ProximityKey(h, q.near)[r]
      ks == ProximityKey(h, q.near)[s]
  IN  \/ kr < ks
      \/ kr = ks /\ h[r].cleanSince < h[s].cleanSince
      \/ kr = ks /\ h[r].cleanSince = h[s].cleanSince /\ r <= s

(* The chain of sorts and filters selects the best room by that order, on  *)
(* the preferred floor whenever a room is free there.                      *)
SelectsBest ==
  LET r == Selected(hotel, request)
  IN  r \in Pool(hotel, request) /\ \A s \in Pool(hotel, request) : Precedes(hotel, request, r, s)

(* Longest clean first, proximity only breaking ties: no other room of the *)
(* pool has been clean for longer than the selected one.                   *)
LongestCleanFirst ==
  LET r == Selected(hotel, request)
  IN  \A s \in Pool(hotel, request) : hotel[r].cleanSince <= hotel[s].cleanSince
=============================================================================
