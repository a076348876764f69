----------------------------- MODULE MCPortals ------------------------------
(* A small Portals: two fetches of the portal, one request at the services.*)
EXTENDS Portals, TLC

CONSTANTS f1, f2, j1

MCSymmetry == Permutations(Fetches)
=============================================================================
