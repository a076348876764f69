------------------------------ MODULE MCPages -------------------------------
(* The pages that live on what they fetch, in small: a work queue at two   *)
(* desks, and the page of a room.  The two share no state and are explored *)
(* one after the other; followed says which, and the other stays in an     *)
(* initial state, where nothing that must happen is enabled.               *)
EXTENDS WorkQueues, GuestPage

VARIABLE followed

MCInit ==
  /\ followed \in {"queue", "room"}
  /\ WqInit /\ (followed # "queue" => kind = "orders" /\ net = "calm")
  /\ GpInit /\ (followed # "room" => quiet)

MCNext ==
  /\ UNCHANGED followed
  /\ \/ followed = "queue" /\ WqNext /\ UNCHANGED gpVars
     \/ followed = "room" /\ GpNext /\ UNCHANGED wqVars

MCSpec == MCInit /\ [][MCNext]_<<followed, wqVars, gpVars>> /\ WqFair /\ GpFair
=============================================================================
