------------------------------ MODULE MCHotel -------------------------------
(* A small Hotel: one room, and a request at a time, or two.               *)
EXTENDS Hotel

CONSTANTS r1, c1, h1, h2, m1, none
=============================================================================
