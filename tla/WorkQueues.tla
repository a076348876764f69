----------------------------- MODULE WorkQueues -----------------------------
(* The work queues of the staff portals: orders, cleaning tasks and issues *)
(* as the desks show them, the buttons beside them, and the endpoints the  *)
(* buttons call.  One of the three tables is followed.  A desk acts on the *)
(* list it shows, which may be older than the table; the events that make  *)
(* it fetch are those of Portals, seen here as a fetch that is due.        *)
EXTENDS HotelDb, Sequences

CONSTANTS Rows,       \* bound: rows that may be inserted
          Presses,    \* bound: requests of the desks under way at a time
          Answers     \* bound: fetched lists under way at a time

ASSUME WorkQueuesAssumption ==
  Rows \subseteq Nat \ {0} /\ Presses \subseteq Nat /\ Answers \subseteq Nat

Kinds == {"orders", "tasks", "issues"}
(* The network and the services.  Calm: nothing fails, and a list arrives  *)
(* before the desk has the next one read.  Serial: lists overtake each     *)
(* other and requests fail, but a service handles one request of the table *)
(* at a time.  Rough: not even that.                                       *)
Nets  == {"calm", "serial", "rough"}
Cases == (Kinds \X {"calm"}) \cup {<<"tasks", "serial">>, <<"issues", "rough">>}

Stages(k) ==
  CASE k = "orders" -> <<"Received", "Preparing", "Out For Delivery", "Delivered">>
    [] k = "tasks"  -> <<"Pending", "In Progress", "Finished">>
    [] k = "issues" -> <<"Pending", "Assigned", "Resolved">>
Statuses(k) == {Stages(k)[i] : i \in DOMAIN Stages(k)} \cup {"Absent"}
Stage(k, s) == IF s = "Absent" THEN 0 ELSE CHOOSE i \in DOMAIN Stages(k) : Stages(k)[i] = s
Done(k, s)  == s = Stages(k)[Len(Stages(k))]

Desks(k) == CASE k = "orders" -> {"kitchen", "operations"}
              [] k = "tasks"  -> {"housekeeper", "operations"}
              [] k = "issues" -> {"maintenance", "operations"}

-----------------------------------------------------------------------------
(* The statuses the buttons beside a row ask for.                          *)
(* Mutant: an order is delivered without leaving the kitchen.              *)
KitchenNext_Skips(s) ==
  CASE s = "Received" -> {"Preparing"} [] s = "Preparing" -> {"Delivered"} [] OTHER -> {}

KitchenNext(s) ==
  CASE s = "Received" -> {"Preparing"} [] s = "Preparing" -> {"Out For Delivery"}
    [] s = "Out For Delivery" -> {"Delivered"} [] OTHER -> {}

KitchenQueue(s) == IF s = "Delivered" THEN {} ELSE KitchenNext(s)

HousekeeperQueue(s) ==
  CASE s = "Pending" -> {"In Progress"} [] s \in {"Absent", "Finished"} -> {}
    [] OTHER -> {"Finished"}

(* An assigned issue offers its drawer, whose form resolves it.            *)
MaintenanceQueue(s) == IF s = "Assigned" THEN {"Resolved"} ELSE {}

OperationsNext(s) == CASE s = "Received" -> "Preparing" [] s = "Preparing" -> "Out For Delivery"
                       [] OTHER -> "Delivered"
OperationsOrders(s) == IF s \in {"Absent", "Delivered"} THEN {} ELSE {OperationsNext(s)}
OperationsTasks(s)  == CASE s = "Pending" -> {"In Progress"} [] s = "In Progress" -> {"Finished"}
                         [] OTHER -> {}
OperationsIssues(s) == IF s = "Assigned" THEN {"Resolved"} ELSE {}

Offers(k, d, s) ==
  CASE d = "kitchen"     -> KitchenQueue(s)
    [] d = "housekeeper" -> HousekeeperQueue(s)
    [] d = "maintenance" -> MaintenanceQueue(s)
    [] d = "operations"  -> CASE k = "orders" -> OperationsOrders(s)
                              [] k = "tasks"  -> OperationsTasks(s)
                              [] k = "issues" -> OperationsIssues(s)

(* What the endpoints accept, given the status they read.                  *)
(* Mutant: a task is started or completed whatever its status.             *)
TaskAccepted_Any(s, to) == to \in {"In Progress", "Finished"}

TaskAccepted(s, to) ==
  <<s, to>> \in {<<"Pending", "In Progress">>, <<"In Progress", "Finished">>}

IssueAccepted(s, to) == s = "Assigned"

Accepted(k, s, to) == CASE k = "orders" -> TRUE
                        [] k = "tasks"  -> TaskAccepted(s, to)
                        [] k = "issues" -> IssueAccepted(s, to)

-----------------------------------------------------------------------------
VARIABLES kind, net,  \* the table followed, the network and the services
          table,      \* the status column
          shown,      \* the list each desk shows
          due,        \* desks an event or an answer will yet make fetch
          answers,    \* lists read by a service, on their way to a desk
          press       \* the requests under way; seen: the status shown, then the one read

wqVars == <<kind, net, table, shown, due, answers, press>>

NoAnswer == [desk |-> "none", list |-> <<>>]
NoPress == [pc |-> "idle", row |-> 0, to |-> "Absent", seen |-> "Absent"]
Mode    == <<kind, net>>

WqInit ==
  /\ kind \in Kinds /\ net \in Nets /\ <<kind, net>> \in Cases
  /\ table = [r \in Rows |-> "Absent"]
  /\ shown = [d \in Desks(kind) |-> table]
  /\ due = {}
  /\ answers = [f \in Answers |-> NoAnswer]
  /\ press = [p \in Presses |-> NoPress]

(* An order or issue is announced once saved; a cleaning task may be saved *)
(* after the event that the desks fetch on.                                *)
Insert(r) ==
  /\ IsFirst(r, {q \in Rows : table[q] = "Absent"})
  /\ table' = [table EXCEPT ![r] = Stages(kind)[1]]
  /\ \E D \in SUBSET Desks(kind) :
       (kind # "tasks" => D = Desks(kind)) /\ due' = due \cup D
  /\ UNCHANGED <<shown, answers, press>> /\ UNCHANGED Mode

(* The scheduler gives an issue to a technician.                           *)
Assign(r) ==
  /\ kind = "issues" /\ table[r] = "Pending"
  /\ table' = [table EXCEPT ![r] = "Assigned"]
  /\ due' = Desks(kind)
  /\ UNCHANGED <<shown, answers, press>> /\ UNCHANGED Mode

-----------------------------------------------------------------------------
(* A button is pressed.  None is disabled while a request is under way.    *)
Press(d, r) ==
  /\ \E p \in Presses, to \in Offers(kind, d, shown[d][r]) :
       /\ IsFirst(p, {q \in Presses : press[q] = NoPress})
       /\ press' = [press EXCEPT ![p] =
                      [pc |-> "sent", row |-> r, to |-> to, seen |-> shown[d][r]]]
  /\ UNCHANGED <<table, shown, due, answers>> /\ UNCHANGED Mode

(* The endpoint reads the row.  Refused, the portal shows a message and    *)
(* does not fetch.                                                         *)
Receive(p) ==
  LET a == press[p] IN
  /\ a.pc = "sent"
  /\ net = "serial" => \A q \in Presses : press[q].pc # "read"
  /\ press' = [press EXCEPT ![p] = IF Accepted(kind, table[a.row], a.to)
                 THEN [a EXCEPT !.pc = "read", !.seen = table[a.row]] ELSE NoPress]
  /\ UNCHANGED <<table, shown, due, answers>> /\ UNCHANGED Mode

(* It saves, announces it and answers.                                     *)
SaveStatus(p) ==
  LET a == press[p] IN
  /\ a.pc = "read"
  /\ table' = [table EXCEPT ![a.row] = Saved(a.seen, a.to, @)]
  /\ press' = [press EXCEPT ![p] = NoPress]
  /\ due' = Desks(kind)
  /\ UNCHANGED <<shown, answers>> /\ UNCHANGED Mode

PressFails(p) ==
  /\ net # "calm"
  /\ press[p].pc # "idle"
  /\ press' = [press EXCEPT ![p] = NoPress]
  /\ UNCHANGED <<table, shown, due, answers>> /\ UNCHANGED Mode

-----------------------------------------------------------------------------
(* A desk fetches: the service reads the table, and the list arrives.      *)
Fetch(d) ==
  /\ d \in due
  /\ net = "calm" => \A f \in Answers : answers[f].desk # d
  /\ \E f \in Answers : /\ IsFirst(f, {g \in Answers : answers[g] = NoAnswer})
                        /\ answers' = [answers EXCEPT ![f] = [desk |-> d, list |-> table]]
  /\ due' = due \ {d}
  /\ UNCHANGED <<table, shown, press>> /\ UNCHANGED Mode

(* Mutant: a list is not shown if another fetch is due.                    *)
Arrive_OnlyLast(f) ==
  /\ answers[f] # NoAnswer
  /\ shown' = IF answers[f].desk \in due THEN shown
              ELSE [shown EXCEPT ![answers[f].desk] = answers[f].list]
  /\ answers' = [answers EXCEPT ![f] = NoAnswer]
  /\ UNCHANGED <<table, due, press>> /\ UNCHANGED Mode

Arrive(f) ==
  /\ answers[f] # NoAnswer
  /\ shown' = [shown EXCEPT ![answers[f].desk] = answers[f].list]
  /\ answers' = [answers EXCEPT ![f] = NoAnswer]
  /\ UNCHANGED <<table, due, press>> /\ UNCHANGED Mode

-----------------------------------------------------------------------------
PressButton     == \E d \in Desks(kind), r \in Rows : Press(d, r)
Serve(p) == Receive(p) \/ SaveStatus(p)

WqNext == \/ \E r \in Rows : Insert(r) \/ Assign(r)
          \/ PressButton
          \/ \E p \in Presses : Serve(p) \/ PressFails(p)
          \/ \E d \in Desks(kind) : Fetch(d)
          \/ \E f \in Answers : Arrive(f)

(* The staff press what is offered, the services answer, the scheduler     *)
(* runs, fetches are made and their answers arrive.                        *)
AllDesks == UNION {Desks(k) : k \in Kinds}

WqFair ==
  /\ WF_wqVars(PressButton)
  /\ \A p \in Presses : WF_wqVars(Serve(p))
  /\ \A r \in Rows : WF_wqVars(Assign(r))
  /\ \A d \in AllDesks : WF_wqVars(d \in Desks(kind) /\ Fetch(d))
  /\ \A f \in Answers : WF_wqVars(Arrive(f))

WqSafe == WqInit /\ [][WqNext]_wqVars
WqSpec == WqSafe /\ WqFair

-----------------------------------------------------------------------------
WqTypeOK ==
  /\ kind \in Kinds /\ net \in Nets
  /\ table \in [Rows -> Statuses(kind)]
  /\ shown \in [Desks(kind) -> [Rows -> Statuses(kind)]]
  /\ due \subseteq Desks(kind)
  /\ answers \in [Answers -> {NoAnswer} \cup [desk : Desks(kind), list : [Rows -> Statuses(kind)]]]
  /\ press \in [Presses -> [pc : {"idle", "sent", "read"}, row : Rows \cup {0},
                           to : Statuses(kind), seen : Statuses(kind)]]

(* A button pressed beside a row that is as it was shown asks for the next *)
(* status and is accepted: the buttons of all the portals and the checks   *)
(* of the endpoints agree on the order of the statuses.                    *)
FreshPressFits ==
  \A p \in Presses :
    LET s == table[press[p].row] IN
    press[p].pc = "sent" /\ press[p].seen = s
      => Stage(kind, press[p].to) = Stage(kind, s) + 1 /\ Accepted(kind, s, press[p].to)

Forward == \A r \in Rows : Stage(kind, table[r]) <= Stage(kind, table'[r])

(* However old the lists of the desks are, they set no issue back, and no  *)
(* cleaning task unless two requests for it are handled at a time: a       *)
(* resolved issue or a finished cleaning stays so.                         *)
OldListsHarmless ==
  [][kind = "issues" \/ (kind = "tasks" /\ net = "serial") => Forward]_wqVars

(* Received, Preparing, Out For Delivery, Delivered: one after the other.  *)
OrdersForward == [][kind = "orders" => Forward]_wqVars

OpenAt(d, r) == shown[d][r] # "Absent" /\ ~Done(kind, shown[d][r])

(* What some desk shows as open is finished in the end, for good, and no   *)
(* desk goes on showing it: two desks with old lists set an order back and *)
(* are refused a task, but not for ever.                                   *)
FinishedForGood ==
  \A r \in Rows :
    [](net = "calm" /\ (\E d \in Desks(kind) : OpenAt(d, r))
         => <>[](Done(kind, table[r]) /\ \A d \in Desks(kind) : ~OpenAt(d, r)))
=============================================================================
