----------------------------- MODULE MCGateway ------------------------------
(* A staff portal and two pages of the guest of one room, or one page that *)
(* is loaded again; the other room has nobody.                             *)
EXTENDS Gateway, TLC

CONSTANTS s1, g1, g2, r1, r2

MCRoomOf == (g1 :> r1) @@ (g2 :> r1)
=============================================================================
