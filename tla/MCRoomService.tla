--------------------------- MODULE MCRoomService ----------------------------
(* A small RoomService: two requests and two orders, or requests that come *)
(* one after the other and three orders: table and list are updated in two *)
(* steps, and what holds of both together holds only then.                 *)
EXTENDS RoomService

CONSTANTS g1, g2, h1, h2,
          CrossOrders  \* bound: order rows when two requests may cross

MCNext == /\ RsNext
          /\ serial \/ \A o \in OrderIds : o > CrossOrders => orders'[o].status = "Absent"
MCSpec == RsInit /\ [][MCNext]_rsVars

MCSymmetry == Permutations(Callers)
=============================================================================
