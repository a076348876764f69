----------------------------- MODULE RoomLedger -----------------------------
(* What a hotel promises about its rooms, without requests, rows or locks: *)
(* a free room is let to a guest who never stayed before, and freed again. *)
CONSTANTS Rooms, Guests, Nobody

VARIABLES holder,  \* the guest of each room, or Nobody
          served   \* guests who have been given a room

ledgerVars == <<holder, served>>

LedgerInit == holder = [r \in Rooms |-> Nobody] /\ served = {}

Let(r, g) ==
  /\ holder[r] = Nobody
  /\ g \notin served
  /\ holder' = [holder EXCEPT ![r] = g]
  /\ served' = served \cup {g}

Free(r) ==
  /\ holder[r] # Nobody
  /\ holder' = [holder EXCEPT ![r] = Nobody]
  /\ UNCHANGED served

LedgerNext == \E r \in Rooms : Free(r) \/ \E g \in Guests : Let(r, g)

LedgerSpec == LedgerInit /\ [][LedgerNext]_ledgerVars
=============================================================================
