---------------------------- MODULE MCReception -----------------------------
(* A small Reception: one suite, three guests, two clerks at work.          *)
EXTENDS Reception

CONSTANTS r1, c1, c2, none

MCRoomTypes == {"Double", "Suite"}
MCTypeOf    == [r \in Rooms |-> "Suite"]
=============================================================================
