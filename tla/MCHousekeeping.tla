--------------------------- MODULE MCHousekeeping ---------------------------
(* A small Housekeeping: one room and one member of the staff.             *)
EXTENDS Housekeeping

CONSTANTS r1, h1, none
=============================================================================
