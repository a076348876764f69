--------------------------- MODULE MCMaintenance ----------------------------
(* A small Maintenance: up to two rooms, two requests and three issues.    *)
EXTENDS Maintenance

CONSTANTS r1, r2, h1, h2, none
=============================================================================
