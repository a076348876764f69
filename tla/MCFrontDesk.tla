---------------------------- MODULE MCFrontDesk -----------------------------
(* What is done at the desks of the staff, in small: the choice of a room, *)
(* the bill, the forms of the front desk, the drawer of a technician, and  *)
(* the accounts.  The five share no state and are explored one by one;     *)
(* part says which, and the others stay in an initial state.               *)
EXTENDS RoomAssignment, Billing, FrontDesk, ResolveDrawer, Accounts

MCRates          == {100, 160}
MCAmounts        == {5, 35}
MCDiscountValues == {0, 15, 100, 120, 900}
MCSeeded         == <<[name |-> "admin", role |-> "super_admin"],
                      [name |-> "recep1", role |-> "receptionist"]>>

VARIABLE part

Rest(S) == CHOOSE x \in S : TRUE

MCInit ==
  /\ part \in {"assignment", "bill", "forms", "drawer", "accounts"}
  /\ IF part = "assignment" THEN RaInit
     ELSE hotel = Rest([Candidates -> RoomData]) /\ request = Rest(Requests)
  /\ BillInit /\ (part # "bill" => extras.type = "none" /\ extras.value = 0 /\ stay.rate = 100 /\ stay.nights = 1)
  /\ FdInit /\ (part # "forms" => desk = "operations" /\ quiet)
  /\ RdInit /\ (part # "drawer" => ~slow)
  /\ AcInit

MCNext ==
  /\ UNCHANGED part
  /\ part # "assignment" => UNCHANGED raVars
  /\ part # "bill" => UNCHANGED billVars
  /\ part # "forms" => UNCHANGED fdVars
  /\ part # "drawer" => UNCHANGED rdVars
  /\ part # "accounts" => UNCHANGED acVars
  /\ CASE part = "assignment" -> AskForRoom
       [] part = "bill" -> BillNext
       [] part = "forms" -> FdNext
       [] part = "drawer" -> RdNext
       [] part = "accounts" -> AcNext

MCSpec == MCInit /\ [][MCNext]_<<part, raVars, billVars, fdVars, rdVars, acVars>>
=============================================================================
