----------------------------- MODULE PagesProofs ----------------------------
(* The pages that live on what they fetch, for every value of the          *)
(* constants: a work queue at any number of desks, and the page of a room. *)
EXTENDS WorkQueues, GuestPage, SequenceTheorems, TLAPS

-----------------------------------------------------------------------------
(* A press asks for what some desk offers beside the status it shows; a    *)
(* request that has read its row was accepted, and its row has not gone    *)
(* back since: an issue cannot leave Assigned but for Resolved, and a task *)
(* is not written while another request for a task is between read and     *)
(* save.                                                                   *)
SentFits ==
  \A p \in Presses : press[p].pc = "sent" =>
    press[p].row \in Rows /\ \E d \in Desks(kind) : press[p].to \in Offers(kind, d, press[p].seen)

ReadFits ==
  \A p \in Presses : press[p].pc = "read" =>
    /\ press[p].row \in Rows
    /\ Accepted(kind, press[p].seen, press[p].to)
    /\ kind = "issues" => press[p].to = "Resolved" /\ table[press[p].row] \in {"Assigned", "Resolved"}
    /\ kind = "tasks" /\ net = "serial" => table[press[p].row] = press[p].seen

OneAtATime ==
  kind = "tasks" /\ net = "serial" =>
    \A p, q \in Presses : press[p].pc = "read" /\ press[q].pc = "read" => p = q

WqInv == WqTypeOK /\ SentFits /\ ReadFits /\ OneAtATime

-----------------------------------------------------------------------------
(* The statuses of each table and their order.                             *)
LEMMA ThreeStages ==
  ASSUME NEW k, NEW a, NEW b, NEW c, Stages(k) = <<a, b, c>>,
         a # b, a # c, b # c, "Absent" \notin {a, b, c}
  PROVE  /\ Statuses(k) = {a, b, c, "Absent"}
         /\ Stage(k, "Absent") = 0 /\ Stage(k, a) = 1 /\ Stage(k, b) = 2 /\ Stage(k, c) = 3
<1>1. \A i \in 1..3 : i = 1 \/ i = 2 \/ i = 3
  OBVIOUS
<1> QED
  BY <1>1 DEF Statuses, Stage

(* The same for a table with four statuses.                                *)
LEMMA FourStages ==
  ASSUME NEW k, NEW a, NEW b, NEW c, NEW d, Stages(k) = <<a, b, c, d>>,
         a # b, a # c, a # d, b # c, b # d, c # d, "Absent" \notin {a, b, c, d}
  PROVE  /\ Statuses(k) = {a, b, c, d, "Absent"}
         /\ Stage(k, "Absent") = 0 /\ Stage(k, a) = 1 /\ Stage(k, b) = 2
         /\ Stage(k, c) = 3 /\ Stage(k, d) = 4
<1>1. \A i \in 1..4 : i = 1 \/ i = 2 \/ i = 3 \/ i = 4
  OBVIOUS
<1> QED
  BY <1>1 DEF Statuses, Stage

(* Orders,                                                                 *)
LEMMA OrderStages ==
  /\ Statuses("orders") = {"Received", "Preparing", "Out For Delivery", "Delivered", "Absent"}
  /\ Stage("orders", "Absent") = 0 /\ Stage("orders", "Received") = 1
  /\ Stage("orders", "Preparing") = 2 /\ Stage("orders", "Out For Delivery") = 3
  /\ Stage("orders", "Delivered") = 4
<1> DEFINE x == "Out For Delivery"
<1>1. Stages("orders") = <<"Received", "Preparing", x, "Delivered">>
  BY DEF Stages
<1>2. x \notin {"Received", "Preparing", "Delivered", "Absent"}
  BY Zenon
<1>3. /\ Statuses("orders") = {"Received", "Preparing", x, "Delivered", "Absent"}
      /\ Stage("orders", "Absent") = 0 /\ Stage("orders", "Received") = 1
      /\ Stage("orders", "Preparing") = 2 /\ Stage("orders", x) = 3
      /\ Stage("orders", "Delivered") = 4
  <2> HIDE DEF x
  <2> QED
    BY <1>1, <1>2, FourStages
<1> QED
  BY Zenon, <1>3

(* tasks,                                                                  *)
LEMMA TaskStages ==
  /\ Statuses("tasks") = {"Pending", "In Progress", "Finished", "Absent"}
  /\ Stage("tasks", "Absent") = 0 /\ Stage("tasks", "Pending") = 1
  /\ Stage("tasks", "In Progress") = 2 /\ Stage("tasks", "Finished") = 3
<1> DEFINE x == "In Progress"
<1>1. Stages("tasks") = <<"Pending", x, "Finished">>
  BY DEF Stages
<1>2. x \notin {"Pending", "Finished", "Absent"}
  BY Zenon
<1>3. /\ Statuses("tasks") = {"Pending", x, "Finished", "Absent"}
      /\ Stage("tasks", "Absent") = 0 /\ Stage("tasks", "Pending") = 1
      /\ Stage("tasks", x) = 2 /\ Stage("tasks", "Finished") = 3
  <2> HIDE DEF x
  <2> QED
    BY <1>1, <1>2, ThreeStages
<1> QED
  BY Zenon, <1>3

(* and issues.                                                             *)
LEMMA IssueStages ==
  /\ Statuses("issues") = {"Pending", "Assigned", "Resolved", "Absent"}
  /\ Stage("issues", "Absent") = 0 /\ Stage("issues", "Pending") = 1
  /\ Stage("issues", "Assigned") = 2 /\ Stage("issues", "Resolved") = 3
<1>1. Stages("issues") = <<"Pending", "Assigned", "Resolved">>
  BY DEF Stages
<1> QED
  BY <1>1, ThreeStages

(* A row begins at the first stage.                                        *)
LEMMA FirstStage ==
  ASSUME NEW k \in Kinds
  PROVE  Stages(k)[1] \in Statuses(k) /\ Stage(k, Stages(k)[1]) = 1 /\ "Absent" \in Statuses(k)
  BY OrderStages, TaskStages, IssueStages DEF Kinds, Stages

(* The stages after one another.                                           *)
LEMMA Successors == 0 + 1 = 1 /\ 1 + 1 = 2 /\ 2 + 1 = 3 /\ 3 + 1 = 4
  OBVIOUS

(* Beside every status, each desk of a table offers the status after it,   *)
(* and the endpoint accepts that one.                                      *)
LEMMA OffersNext ==
  ASSUME NEW k \in Kinds, NEW d \in Desks(k), NEW s \in Statuses(k), NEW to \in Offers(k, d, s)
  PROVE  to \in Statuses(k) /\ Stage(k, to) = Stage(k, s) + 1 /\ Accepted(k, s, to)
<1> USE Successors
<1>1. CASE k = "orders"
  <2>1. d \in {"kitchen", "operations"} /\ s \in {"Received", "Preparing", "Out For Delivery", "Delivered", "Absent"}
    BY <1>1, OrderStages DEF Desks
  <2>2. CASE d = "kitchen"
    BY ZenonT(30), <1>1, <2>1, <2>2, OrderStages DEF Offers, KitchenQueue, KitchenNext, Accepted
  <2>3. CASE d = "operations"
    BY ZenonT(30), <1>1, <2>1, <2>3, OrderStages DEF Offers, OperationsOrders, OperationsNext, Accepted
  <2> QED
    BY <2>1, <2>2, <2>3
<1>2. CASE k = "tasks"
  <2>1. d \in {"housekeeper", "operations"} /\ s \in {"Pending", "In Progress", "Finished", "Absent"}
    BY <1>2, TaskStages DEF Desks
  <2>2. CASE d = "housekeeper"
    BY ZenonT(30), <1>2, <2>1, <2>2, TaskStages DEF Offers, HousekeeperQueue, Accepted, TaskAccepted
  <2>3. CASE d = "operations"
    BY ZenonT(30), <1>2, <2>1, <2>3, TaskStages DEF Offers, OperationsTasks, Accepted, TaskAccepted
  <2> QED
    BY <2>1, <2>2, <2>3
<1>3. CASE k = "issues"
  <2>1. d \in {"maintenance", "operations"} /\ s \in {"Pending", "Assigned", "Resolved", "Absent"}
    BY <1>3, IssueStages DEF Desks
  <2>2. CASE d = "maintenance"
    BY <1>3, <2>1, <2>2, IssueStages DEF Offers, MaintenanceQueue, Accepted, IssueAccepted
  <2>3. CASE d = "operations"
    BY <1>3, <2>1, <2>3, IssueStages DEF Offers, OperationsIssues, Accepted, IssueAccepted
  <2> QED
    BY <2>1, <2>2, <2>3
<1> QED
  BY <1>1, <1>2, <1>3 DEF Kinds

(* A stage is a number.                                                    *)
LEMMA StageNat ==
  ASSUME NEW k \in Kinds, NEW s \in Statuses(k)
  PROVE  Stage(k, s) \in Nat
<1>1. 0 \in Nat /\ 1 \in Nat /\ 2 \in Nat /\ 3 \in Nat /\ 4 \in Nat
  OBVIOUS
<1> QED
  BY ZenonT(30), <1>1, OrderStages, TaskStages, IssueStages DEF Kinds

(* What the endpoint for tasks accepts moves a task one stage on.          *)
LEMMA TaskMoves ==
  ASSUME NEW s, NEW to, TaskAccepted(s, to)
  PROVE  s # "Absent" /\ Stage("tasks", to) = Stage("tasks", s) + 1
  BY ZenonT(30), TaskStages, Successors DEF TaskAccepted

-----------------------------------------------------------------------------
(* At first nothing is under way.                                          *)
LEMMA WqInitInv == WqInit => WqInv
<1> SUFFICES ASSUME WqInit PROVE WqInv
  OBVIOUS
<1>1. kind \in Kinds /\ net \in Nets /\ "Absent" \in Statuses(kind)
  BY FirstStage DEF WqInit
<1>2. \A p \in Presses : press[p] = NoPress /\ press[p].pc = "idle"
  BY DEF WqInit, NoPress
<1>3. WqTypeOK
  BY <1>1 DEF WqInit, WqTypeOK, NoPress
<1> QED
  BY <1>2, <1>3 DEF WqInv, SentFits, ReadFits, OneAtATime

(* Every step at the desks and the services keeps the invariant.           *)
LEMMA WqStepInv == WqInv /\ [WqNext]_wqVars => WqInv'
<1> SUFFICES ASSUME WqInv, [WqNext]_wqVars PROVE WqInv'
  OBVIOUS
<1>1. /\ kind \in Kinds /\ net \in Nets
      /\ table \in [Rows -> Statuses(kind)]
      /\ shown \in [Desks(kind) -> [Rows -> Statuses(kind)]]
      /\ due \subseteq Desks(kind)
      /\ answers \in [Answers -> {NoAnswer} \cup [desk : Desks(kind), list : [Rows -> Statuses(kind)]]]
      /\ press \in [Presses -> [pc : {"idle", "sent", "read"}, row : Rows \cup {0},
                               to : Statuses(kind), seen : Statuses(kind)]]
  BY DEF WqInv, WqTypeOK
<1>2. /\ "Absent" \in Statuses(kind) /\ Stages(kind)[1] \in Statuses(kind)
  BY <1>1, FirstStage
<1>3. ReadFits /\ SentFits /\ OneAtATime
  BY DEF WqInv
(* The list side of the state: nothing that a request relies on.           *)
<1>4. ASSUME UNCHANGED <<kind, net, table, press>>,
             shown' \in [Desks(kind) -> [Rows -> Statuses(kind)]], due' \subseteq Desks(kind),
             answers' \in [Answers -> {NoAnswer} \cup [desk : Desks(kind), list : [Rows -> Statuses(kind)]]]
      PROVE  WqInv'
  BY <1>1, <1>3, <1>4 DEF WqInv, WqTypeOK, SentFits, ReadFits, OneAtATime
<1>5. CASE UNCHANGED wqVars
  BY <1>1, <1>4, <1>5 DEF wqVars
<1>6. ASSUME NEW r \in Rows, NEW s \in Statuses(kind), UNCHANGED <<kind, net, shown, answers, press>>,
             due' \subseteq Desks(kind), table' = [table EXCEPT ![r] = s],
             \/ table[r] = "Absent"
             \/ kind = "issues" /\ table[r] = "Pending"
      PROVE  WqInv'
  <2>1. WqTypeOK'
    BY <1>1, <1>6 DEF WqTypeOK
  <2>2. SentFits' /\ OneAtATime'
    BY <1>3, <1>6 DEF SentFits, OneAtATime
  <2>3. ASSUME NEW p \in Presses, press[p].pc = "read", kind = "issues" \/ (kind = "tasks" /\ net = "serial")
        PROVE  table'[press[p].row] = table[press[p].row]
    <3>1. CASE kind = "issues"
      <4>1. table[press[p].row] \in {"Assigned", "Resolved"} /\ press[p].row \in Rows
        BY <1>3, <2>3, <3>1 DEF ReadFits
      <4>2. table[r] \in {"Absent", "Pending"}
        BY <1>6
      <4> QED
        BY <1>1, <1>6, <4>1, <4>2
    <3>2. CASE kind = "tasks" /\ net = "serial"
      <4>1. table[press[p].row] = press[p].seen /\ press[p].row \in Rows
            /\ TaskAccepted(press[p].seen, press[p].to)
        BY <1>3, <2>3, <3>2 DEF ReadFits, Accepted
      <4>2. press[p].seen # "Absent"
        BY <4>1, TaskMoves
      <4>3. table[r] = "Absent"
        BY <1>6, <3>2
      <4> QED
        BY <1>1, <1>6, <4>1, <4>2, <4>3
    <3> QED
      BY <2>3, <3>1, <3>2
  <2>4. ReadFits'
    BY <1>3, <1>6, <2>3 DEF ReadFits
  <2> QED
    BY <2>1, <2>2, <2>4 DEF WqInv
<1>7. ASSUME NEW r \in Rows, Insert(r) PROVE WqInv'
  <2>1. table[r] = "Absent" /\ table' = [table EXCEPT ![r] = Stages(kind)[1]]
    BY <1>7 DEF Insert, IsFirst
  <2>2. UNCHANGED <<kind, net, shown, answers, press>> /\ due' \subseteq Desks(kind)
    BY <1>1, <1>7 DEF Insert, Mode
  <2> QED
    BY <1>2, <1>6, <2>1, <2>2
<1>8. ASSUME NEW r \in Rows, Assign(r) PROVE WqInv'
  <2>1. kind = "issues" /\ table[r] = "Pending" /\ table' = [table EXCEPT ![r] = "Assigned"]
    BY <1>8 DEF Assign
  <2>2. UNCHANGED <<kind, net, shown, answers, press>> /\ due' \subseteq Desks(kind)
    BY <1>8 DEF Assign, Mode
  <2>3. "Assigned" \in Statuses(kind)
    BY <2>1, IssueStages
  <2> QED
    BY <1>6, <2>1, <2>2, <2>3
<1>9. ASSUME NEW d \in Desks(kind), NEW r \in Rows, Press(d, r) PROVE WqInv'
  <2>1. PICK p \in Presses, to \in Offers(kind, d, shown[d][r]) :
          press' = [press EXCEPT ![p] = [pc |-> "sent", row |-> r, to |-> to, seen |-> shown[d][r]]]
    BY <1>9 DEF Press
  <2>2. UNCHANGED <<kind, net, table, shown, due, answers>>
    BY <1>9 DEF Press, Mode
  <2>3. shown[d][r] \in Statuses(kind)
    BY <1>1
  <2>4. to \in Statuses(kind)
    BY <1>1, <2>3, OffersNext
  <2>5. WqTypeOK'
    BY <1>1, <2>1, <2>2, <2>3, <2>4 DEF WqTypeOK
  <2>6. SentFits'
    BY <1>1, <1>3, <2>1, <2>2 DEF SentFits
  <2>7. ReadFits' /\ OneAtATime'
    BY <1>1, <1>3, <2>1, <2>2 DEF ReadFits, OneAtATime
  <2> QED
    BY <2>5, <2>6, <2>7 DEF WqInv
<1>10. ASSUME NEW p \in Presses, press' = [press EXCEPT ![p] = NoPress],
              UNCHANGED <<kind, net, table, shown, due, answers>>
       PROVE  WqInv'
  <2>1. WqTypeOK'
    BY <1>1, <1>2, <1>10 DEF WqTypeOK, NoPress
  <2>2. NoPress.pc = "idle"
    BY DEF NoPress
  <2> QED
    BY <1>1, <1>3, <1>10, <2>1, <2>2 DEF WqInv, SentFits, ReadFits, OneAtATime
<1>11. ASSUME NEW p \in Presses, Receive(p) PROVE WqInv'
  <2> DEFINE a == press[p]
             b == [a EXCEPT !.pc = "read", !.seen = table[a.row]]
  <2>1. a.pc = "sent" /\ UNCHANGED <<kind, net, table, shown, due, answers>>
        /\ (net = "serial" => \A q \in Presses : press[q].pc # "read")
    BY <1>11 DEF Receive, Mode
  <2>2. CASE ~Accepted(kind, table[a.row], a.to)
    BY <1>10, <1>11, <2>1, <2>2 DEF Receive
  <2>3. CASE Accepted(kind, table[a.row], a.to)
    <3>1. press' = [press EXCEPT ![p] = b]
      BY <1>11, <2>3 DEF Receive
    <3>2. PICK d \in Desks(kind) : a.row \in Rows /\ a.to \in Offers(kind, d, a.seen)
      BY <1>3, <2>1 DEF SentFits
    <3>3. a \in [pc : {"idle", "sent", "read"}, row : Rows \cup {0}, to : Statuses(kind), seen : Statuses(kind)]
          /\ table[a.row] \in Statuses(kind)
      BY <1>1, <3>2
    <3>4. b.pc = "read" /\ b.row = a.row /\ b.to = a.to /\ b.seen = table[a.row]
          /\ b \in [pc : {"idle", "sent", "read"}, row : Rows \cup {0}, to : Statuses(kind), seen : Statuses(kind)]
      BY <3>3
    <3>5. kind = "issues" => a.to = "Resolved" /\ table[a.row] = "Assigned"
      <4>1. SUFFICES ASSUME kind = "issues" PROVE a.to = "Resolved" /\ table[a.row] = "Assigned"
        OBVIOUS
      <4>2. table[a.row] = "Assigned"
        BY <2>3, <4>1 DEF Accepted, IssueAccepted
      <4>3. d \in {"maintenance", "operations"}
        BY <3>2, <4>1 DEF Desks
      <4>4. a.to = "Resolved"
        BY <3>2, <4>1, <4>3 DEF Offers, MaintenanceQueue, OperationsIssues
      <4> QED
        BY <4>2, <4>4
    <3> HIDE DEF a, b
    <3>6. \A q \in Presses : press'[q] = IF q = p THEN b ELSE press[q]
      BY <1>1, <3>1
    <3>7. WqTypeOK'
      BY <1>1, <2>1, <3>1, <3>4 DEF WqTypeOK
    <3>8. SentFits'
      BY <1>3, <2>1, <3>4, <3>6 DEF SentFits
    <3>9. ReadFits'
      BY <1>3, <2>1, <2>3, <3>2, <3>4, <3>5, <3>6 DEF ReadFits
    <3>10. OneAtATime'
      BY <1>3, <2>1, <3>4, <3>6 DEF OneAtATime
    <3> QED
      BY <3>7, <3>8, <3>9, <3>10 DEF WqInv
  <2> QED
    BY <2>2, <2>3
<1>12. ASSUME NEW p \in Presses, SaveStatus(p) PROVE WqInv'
  <2> DEFINE a == press[p]
             v == Saved(a.seen, a.to, table[a.row])
  <2>1. a.pc = "read" /\ table' = [table EXCEPT ![a.row] = v] /\ press' = [press EXCEPT ![p] = NoPress]
        /\ due' = Desks(kind) /\ UNCHANGED <<kind, net, shown, answers>>
    BY <1>12 DEF SaveStatus, Mode
  <2>2. a.row \in Rows /\ v \in {a.to, table[a.row]} /\ a.to \in Statuses(kind)
        /\ (kind = "issues" => a.to = "Resolved")
    BY <1>1, <1>3, <2>1 DEF ReadFits, Saved
  <2>3. v \in Statuses(kind)
    BY <1>1, <2>2
  <2> HIDE DEF a, v
  <2>4. NoPress.pc = "idle" /\ \A q \in Presses : press'[q] = IF q = p THEN NoPress ELSE press[q]
    BY <1>1, <2>1 DEF NoPress
  <2>5. WqTypeOK'
    BY <1>1, <1>2, <2>1, <2>3 DEF WqTypeOK, NoPress
  <2>6. SentFits' /\ OneAtATime'
    BY <1>3, <2>1, <2>4 DEF SentFits, OneAtATime
  <2>7. ASSUME NEW q \in Presses, press'[q].pc = "read"
        PROVE  /\ press[q].pc = "read" /\ press'[q] = press[q]
               /\ kind = "issues" => table'[press[q].row] \in {"Assigned", "Resolved"}
               /\ ~(kind = "tasks" /\ net = "serial")
    <3>1. press[q].pc = "read" /\ press'[q] = press[q] /\ q # p
      BY <2>4, <2>7
    <3>2. ~(kind = "tasks" /\ net = "serial")
      BY <1>3, <2>1, <3>1 DEF OneAtATime, a
    <3>3. ASSUME kind = "issues" PROVE table'[press[q].row] \in {"Assigned", "Resolved"}
      <4>1. table[press[q].row] \in {"Assigned", "Resolved"} /\ table[a.row] \in {"Assigned", "Resolved"}
        BY <1>3, <2>1, <3>1, <3>3 DEF ReadFits, a
      <4>2. v \in {"Assigned", "Resolved"}
        BY <2>2, <3>3, <4>1
      <4> QED
        BY <1>1, <2>1, <2>2, <4>1, <4>2
    <3> QED
      BY <3>1, <3>2, <3>3
  <2>8. ReadFits'
    BY <1>3, <2>1, <2>7 DEF ReadFits
  <2> QED
    BY <2>5, <2>6, <2>8 DEF WqInv
<1>13. ASSUME NEW p \in Presses, PressFails(p) PROVE WqInv'
  BY <1>10, <1>13 DEF PressFails, Mode
<1>14. ASSUME NEW d \in Desks(kind), Fetch(d) PROVE WqInv'
  <2>1. PICK f \in Answers : answers' = [answers EXCEPT ![f] = [desk |-> d, list |-> table]]
    BY <1>14 DEF Fetch
  <2>2. due' \subseteq Desks(kind) /\ UNCHANGED <<kind, net, table, press, shown>>
    BY <1>1, <1>14 DEF Fetch, Mode
  <2> QED
    BY <1>1, <1>4, <2>1, <2>2
<1>15. ASSUME NEW f \in Answers, Arrive(f) PROVE WqInv'
  <2>1. answers[f] \in [desk : Desks(kind), list : [Rows -> Statuses(kind)]]
    BY <1>1, <1>15 DEF Arrive
  <2>2. /\ shown' = [shown EXCEPT ![answers[f].desk] = answers[f].list]
        /\ answers' = [answers EXCEPT ![f] = NoAnswer]
        /\ UNCHANGED <<kind, net, table, press, due>>
    BY <1>15 DEF Arrive, Mode
  <2> QED
    BY <1>1, <1>4, <2>1, <2>2
<1> QED
  BY <1>5, <1>7, <1>8, <1>9, <1>11, <1>12, <1>13, <1>14, <1>15 DEF WqNext, PressButton, Serve

(* A request on its way asks for what a desk offered, and one that has     *)
(* read its row relies on a status that has not gone back since.           *)
THEOREM QueuesInvariance == WqSafe => []WqInv
  BY WqInitInv, WqStepInv, PTL DEF WqSafe

(* Type correctness of the queues.                                         *)
THEOREM QueuesTypeCorrect == WqSafe => []WqTypeOK
<1>1. WqInv => WqTypeOK
  BY DEF WqInv
<1> QED
  BY QueuesInvariance, <1>1, PTL

(* The buttons of every portal and the checks of every endpoint agree on   *)
(* the order of the statuses: a button pressed beside a row that is as     *)
(* shown is accepted and moves the row one stage on.                       *)
THEOREM FreshPressesFit == WqSafe => []FreshPressFits
<1>1. WqInv => FreshPressFits
  <2> SUFFICES ASSUME WqInv, NEW p \in Presses, press[p].pc = "sent", press[p].seen = table[press[p].row]
               PROVE  Stage(kind, press[p].to) = Stage(kind, press[p].seen) + 1
                      /\ Accepted(kind, press[p].seen, press[p].to)
    BY DEF FreshPressFits
  <2>1. PICK d \in Desks(kind) : press[p].to \in Offers(kind, d, press[p].seen)
    BY DEF WqInv, SentFits
  <2>2. kind \in Kinds /\ press[p].seen \in Statuses(kind)
    BY DEF WqInv, WqTypeOK
  <2> QED
    BY <2>1, <2>2, OffersNext
<1> QED
  BY QueuesInvariance, <1>1, PTL

(* However old the lists shown and however the requests of the desks       *)
(* cross, no issue goes back; nor does a task that is served one request   *)
(* at a time.                                                              *)
THEOREM OldListsDoNoHarm == WqSafe => OldListsHarmless
<1>1. WqInv /\ [WqNext]_wqVars =>
        [kind = "issues" \/ (kind = "tasks" /\ net = "serial") => Forward]_wqVars
  <2> SUFFICES ASSUME WqInv, WqNext, kind = "issues" \/ (kind = "tasks" /\ net = "serial"), NEW r \in Rows
               PROVE  Stage(kind, table[r]) <= Stage(kind, table'[r])
    BY DEF Forward
  <2>1. kind \in Kinds /\ table \in [Rows -> Statuses(kind)] /\ Stage(kind, table[r]) \in Nat
    BY StageNat DEF WqInv, WqTypeOK
  <2>2. CASE UNCHANGED table
    BY <2>1, <2>2
  <2>3. ASSUME NEW q \in Rows, Insert(q) PROVE Stage(kind, table[r]) <= Stage(kind, table'[r])
    <3>1. table[q] = "Absent" /\ table' = [table EXCEPT ![q] = Stages(kind)[1]]
      BY <2>3 DEF Insert, IsFirst
    <3>2. Stage(kind, "Absent") = 0 /\ Stage(kind, Stages(kind)[1]) = 1
      BY <2>1, FirstStage, TaskStages, IssueStages
    <3> QED
      BY <2>1, <3>1, <3>2
  <2>4. ASSUME NEW q \in Rows, Assign(q) PROVE Stage(kind, table[r]) <= Stage(kind, table'[r])
    <3>1. kind = "issues" /\ table[q] = "Pending" /\ table' = [table EXCEPT ![q] = "Assigned"]
      BY <2>4 DEF Assign
    <3> QED
      BY <2>1, <3>1, IssueStages
  <2>5. ASSUME NEW p \in Presses, SaveStatus(p) PROVE Stage(kind, table[r]) <= Stage(kind, table'[r])
    <3> DEFINE a == press[p]
    <3>1. a.pc = "read" /\ table' = [table EXCEPT ![a.row] = Saved(a.seen, a.to, @)]
      BY <2>5 DEF SaveStatus
    <3>2. /\ a.row \in Rows /\ Accepted(kind, a.seen, a.to)
          /\ kind = "issues" => a.to = "Resolved" /\ table[a.row] \in {"Assigned", "Resolved"}
          /\ kind = "tasks" /\ net = "serial" => table[a.row] = a.seen
      BY <3>1 DEF WqInv, ReadFits
    <3> DEFINE v == Saved(a.seen, a.to, table[a.row])
    <3>3. v = table[a.row] \/ v = a.to
      BY DEF Saved
    <3>4. Stage(kind, table[a.row]) <= Stage(kind, a.to)
      <4>1. CASE kind = "issues"
        BY <3>2, <4>1, IssueStages
      <4>2. CASE kind = "tasks" /\ net = "serial"
        <5>1. TaskAccepted(a.seen, a.to) /\ table[a.row] = a.seen
          BY <3>2, <4>2 DEF Accepted
        <5>2. Stage(kind, a.to) = Stage(kind, a.seen) + 1
          BY <4>2, <5>1, TaskMoves
        <5>3. Stage(kind, a.seen) \in Nat
          BY <2>1, <3>2, <5>1, StageNat
        <5> QED
          BY <5>1, <5>2, <5>3
      <4> QED
        BY <4>1, <4>2
    <3>5. Stage(kind, table[a.row]) \in Nat
      BY <2>1, <3>2, StageNat
    <3>6. table'[r] = IF r = a.row THEN v ELSE table[r]
      BY <2>1, <3>1, <3>2
    <3> HIDE DEF a, v
    <3> QED
      BY <2>1, <3>3, <3>4, <3>5, <3>6
  <2> QED
    BY <2>2, <2>3, <2>4, <2>5 DEF WqNext, PressButton, Press, Serve, Receive, PressFails, Fetch, Arrive
<1> QED
  BY QueuesInvariance, <1>1, PTL DEF WqSafe, OldListsHarmless

-----------------------------------------------------------------------------
(* The page of a room, for any number of guests, items, fetches and posts. *)
Post == [what : Drafts, of : Nat, n : Nat, answer : {"none", "done", "denied"}]

(* On a quiet day one post is under way at most, for all that the draft    *)
(* holds, which is not touched until the answer is there; a stored one is  *)
(* no longer counted in the draft.                                         *)
Waiting(k) == posts # <<>> /\ posts[1].what = k /\ posts[1].answer = "done"

Users == {tenant, arrived, session, login} \subseteq Nat

StoredInv ==
  quiet =>
    /\ Users /\ posts \in Seq(Post) /\ Len(posts) <= 1
    /\ draft \in [Drafts -> Nat] /\ put \in [Drafts -> Nat] /\ stored \in [Drafts -> Nat]
    /\ \A k \in Drafts : put[k] = stored[k] + (IF Waiting(k) THEN 0 ELSE draft[k])
    /\ posts # <<>> /\ posts[1].answer = "none" => posts[1].n = draft[posts[1].what]

(* Taking the only element out of a sequence leaves none.                  *)
LEMMA RemoveOnly ==
  ASSUME NEW S, NEW s \in Seq(S), Len(s) <= 1, NEW i \in DOMAIN s
  PROVE  i = 1 /\ RemoveAt(s, i) = <<>>
<1>1. i = 1 /\ Len(s) = 1
  <2>1. Len(s) \in Nat /\ DOMAIN s = 1..Len(s)
    BY LenProperties
  <2>2. i \in 1..Len(s)
    BY <2>1
  <2> QED
    BY <2>1, <2>2
<1>2. SubSeq(s, 1, 0) = <<>> /\ SubSeq(s, 2, 1) = <<>>
  <2>1. 0 \in Int /\ 1 \in Int /\ 2 \in Int /\ 0 < 1 /\ 1 < 2
    OBVIOUS
  <2> QED
    BY <2>1, SubSeqEmpty
<1>3. <<>> \o <<>> = <<>>
  OBVIOUS
<1> QED
  <2>1. RemoveAt(s, 1) = SubSeq(s, 1, 0) \o SubSeq(s, 2, 1)
    BY <1>1 DEF RemoveAt
  <2> QED
    BY <1>1, <1>2, <1>3, <2>1

(* At first nothing is in the cart.                                        *)
LEMMA StoredInitInv == GpInit => StoredInv
  BY DEF GpInit, StoredInv, Waiting, Users, Nobody

(* Every step of the guests and the services keeps the invariant.          *)
LEMMA StoredStepInv == StoredInv /\ [GpNext]_gpVars => StoredInv'
<1> SUFFICES ASSUME StoredInv, [GpNext]_gpVars, quiet' PROVE StoredInv'
  BY DEF StoredInv
<1>1. quiet
  BY DEF GpNext, gpVars, CheckInGuest, CheckOutGuest, GuestLogin, SaveSession, PressLogout, HearCheckOut,
     HearEvent, AnswerFetch, ReadStay, ShowStay, StayDenied, AddToDraft, RemoveFromDraft, Submit,
     AnswerPost, ServePost, PostDone, PostDenied, Lose
<1>2. /\ Users /\ posts \in Seq(Post) /\ Len(posts) <= 1
      /\ draft \in [Drafts -> Nat] /\ put \in [Drafts -> Nat] /\ stored \in [Drafts -> Nat]
      /\ \A k \in Drafts : put[k] = stored[k] + (IF Waiting(k) THEN 0 ELSE draft[k])
      /\ posts # <<>> /\ posts[1].answer = "none" => posts[1].n = draft[posts[1].what]
  BY <1>1 DEF StoredInv
<1>11. Users'
  <2>1. {tenant', arrived', session', login'} \subseteq {tenant, arrived, session, login, arrived + 1, 0}
    BY DEF GpNext, gpVars, Stay, CheckInGuest, CheckOutGuest, GuestLogin, SaveSession, PressLogout,
       HearCheckOut, HearEvent, AnswerFetch, ReadStay, ShowStay, StayDenied, AddToDraft, RemoveFromDraft,
       Submit, AnswerPost, ServePost, PostDone, PostDenied, Lose, LogOut, Nobody
  <2> QED
    BY <1>2, <2>1 DEF Users
<1>3. CASE UNCHANGED Work
  BY <1>2, <1>11, <1>3 DEF Work, StoredInv, Waiting
<1>4. CASE \/ CheckInGuest \/ CheckOutGuest \/ GuestLogin \/ SaveSession \/ PressLogout
           \/ HearCheckOut \/ HearEvent \/ UNCHANGED gpVars
  BY <1>3, <1>4 DEF CheckInGuest, CheckOutGuest, GuestLogin, SaveSession, PressLogout, HearCheckOut,
     HearEvent, gpVars, Work
<1>5. ASSUME NEW i \in 1..MaxFetches, AnswerFetch(i) PROVE StoredInv'
  BY <1>3, <1>5 DEF AnswerFetch, ReadStay, ShowStay, StayDenied
<1>6. ASSUME NEW k \in Drafts, AddToDraft(k) PROVE StoredInv'
  <2>1. /\ posts = <<>> /\ UNCHANGED <<posts, stored>>
        /\ draft' = [draft EXCEPT ![k] = @ + 1] /\ put' = [put EXCEPT ![k] = @ + 1]
    BY <1>1, <1>6 DEF AddToDraft, Idle
  <2> QED
    BY <1>2, <1>11, <2>1 DEF StoredInv, Waiting
<1>7. ASSUME NEW k \in Drafts, RemoveFromDraft(k) PROVE StoredInv'
  <2>1. /\ posts = <<>> /\ UNCHANGED <<posts, stored>> /\ draft[k] > 0 /\ put[k] > 0
        /\ draft' = [draft EXCEPT ![k] = @ - 1] /\ put' = [put EXCEPT ![k] = @ - 1]
    BY <1>1, <1>7 DEF RemoveFromDraft, Idle
  <2>2. draft' \in [Drafts -> Nat] /\ put' \in [Drafts -> Nat]
    BY <1>2, <1>11, <2>1
  <2> QED
    BY <1>2, <1>11, <2>1, <2>2 DEF StoredInv, Waiting
<1>8. ASSUME NEW k \in Drafts, Submit(k) PROVE StoredInv'
  <2> DEFINE m == [what |-> k, of |-> session, n |-> draft[k], answer |-> "none"]
  <2>1. posts = <<>> /\ posts' = Append(posts, m) /\ UNCHANGED <<draft, put, stored>>
    BY <1>1, <1>8 DEF Submit, Idle
  <2>2. m \in Post
    BY <1>2 DEF Post, Users
  <2>3. m.what = k /\ m.n = draft[k] /\ m.answer = "none"
    OBVIOUS
  <2> HIDE DEF m
  <2>4. posts' \in Seq(Post) /\ Len(posts') = 1 /\ posts'[1] = m
    BY <2>1, <2>2
  <2> QED
    BY <1>2, <1>11, <2>1, <2>3, <2>4 DEF StoredInv, Waiting
<1>9. ASSUME NEW i \in 1..MaxPosts, AnswerPost(i) PROVE StoredInv'
  <2>1. i \in DOMAIN posts
    BY <1>9 DEF AnswerPost, ServePost, PostDone, PostDenied
  <2>2. i = 1 /\ Len(posts) = 1 /\ posts # <<>> /\ posts[1] \in Post
    <3>1. DOMAIN posts = 1..Len(posts) /\ Len(posts) \in Nat
      BY <1>2
    <3>2. i = 1 /\ Len(posts) = 1
      BY <1>2, <2>1, <3>1
    <3>3. posts # <<>>
      <4>1. SUFFICES ASSUME posts = <<>> PROVE FALSE
        OBVIOUS
      <4>2. Len(<<>>) = 0
        BY EmptySeq
      <4>3. Len(posts) = 0
        BY <4>1, <4>2
      <4> QED
        BY <3>2, <4>3
    <3>4. posts[i] \in Post
      BY <1>2, <2>1, <3>1, <3>2, ElementOfSeq
    <3> QED
      BY <3>2, <3>3, <3>4
  <2>3. RemoveAt(posts, i) = <<>>
    BY <1>2, <1>11, <2>1, RemoveOnly
  <2> DEFINE k == posts[1].what
  <2>4. k \in Drafts /\ posts[1].n \in Nat
    BY <2>2 DEF Post
  <2>5. CASE ServePost(i)
    <3>1. PICK a \in {"done", "denied"} :
            /\ posts' = [posts EXCEPT ![1].answer = a]
            /\ a = "done" => stored' = [stored EXCEPT ![k] = @ + posts[1].n]
            /\ a = "denied" => UNCHANGED stored
      BY <2>2, <2>5 DEF ServePost
    <3>2. posts[1].answer = "none" /\ UNCHANGED <<draft, put>>
      BY <2>2, <2>5 DEF ServePost
    <3>3. /\ posts' \in Seq(Post) /\ Len(posts') = 1 /\ posts' # <<>>
          /\ posts'[1].what = k /\ posts'[1].answer = a
      <4>1. [posts[1] EXCEPT !.answer = a] \in Post
        BY <2>2 DEF Post
      <4>2. posts' = [posts EXCEPT ![1] = [posts[1] EXCEPT !.answer = a]]
        BY <3>1
      <4>3. /\ [posts[1] EXCEPT !.answer = a].what = k
            /\ [posts[1] EXCEPT !.answer = a].answer = a
        BY <2>2 DEF Post
      <4> QED
        BY <1>2, <2>2, <4>1, <4>2, <4>3
    <3>4. posts[1].n = draft[k]
      BY <1>2, <1>11, <2>2, <3>2
    <3> HIDE DEF k
    <3>5. stored' \in [Drafts -> Nat]
      <4>1. stored[k] + posts[1].n \in Nat
        BY <1>2, <2>4
      <4> QED
        BY <1>2, <2>4, <3>1, <4>1
    <3>6. \A j \in Drafts : put'[j] = stored'[j] + (IF Waiting(j)' THEN 0 ELSE draft'[j])
      BY <1>2, <1>11, <2>2, <2>4, <3>1, <3>2, <3>3, <3>4 DEF Waiting
    <3> QED
      BY <1>2, <1>11, <3>2, <3>3, <3>5, <3>6 DEF StoredInv
  <2>6. CASE PostDone(i)
    <3>1. /\ posts[1].answer = "done" /\ posts' = <<>>
          /\ draft' = [draft EXCEPT ![k] = 0] /\ UNCHANGED <<put, stored>>
      BY <2>2, <2>3, <2>6 DEF PostDone
    <3> QED
      BY <1>2, <1>11, <2>2, <2>4, <3>1 DEF StoredInv, Waiting
  <2>7. CASE PostDenied(i)
    <3>1. posts[1].answer = "denied" /\ posts' = <<>> /\ UNCHANGED <<draft, put, stored>>
      BY <2>2, <2>3, <2>7 DEF PostDenied
    <3> QED
      BY <1>2, <1>11, <2>2, <3>1 DEF StoredInv, Waiting
  <2> QED
    BY <1>9, <2>5, <2>6, <2>7 DEF AnswerPost
<1>10. ~Lose
  BY <1>1 DEF Lose
<1> QED
  BY <1>4, <1>5, <1>6, <1>7, <1>8, <1>9, <1>10 DEF GpNext

(* The invariant holds.                                                    *)
THEOREM StoredInvariance == GpSpec => []StoredInv
  BY StoredInitInv, StoredStepInv, PTL DEF GpSpec

(* Whoever logs in, out or is thrown out meanwhile, in whatever order the  *)
(* lists come: nothing a guest who waits put in the cart is ordered twice, *)
(* or lost with an answer or a refusal.                                    *)
THEOREM OrderedOnce == GpSpec => []StoredOnce
<1>1. StoredInv => StoredOnce
  BY DEF StoredInv, StoredOnce, Waiting
<1> QED
  BY <1>1, StoredInvariance, PTL

(* What is left of a sequence when an element is taken out of it.          *)
LEMMA Removed ==
  ASSUME NEW S, NEW s \in Seq(S), NEW i \in DOMAIN s
  PROVE  /\ RemoveAt(s, i) \in Seq(S)
         /\ Len(RemoveAt(s, i)) = Len(s) - 1
         /\ \A j \in 1..(Len(s) - 1) : RemoveAt(s, i)[j] = s[IF j < i THEN j ELSE j + 1]
<1>1. Len(s) \in Nat /\ i \in 1..Len(s) /\ \A j \in 1..Len(s) : s[j] \in S
  BY LenProperties, ElementOfSeq
<1> DEFINE front == SubSeq(s, 1, i - 1)
           back  == SubSeq(s, i + 1, Len(s))
<1>2. /\ front \in Seq(S) /\ Len(front) = i - 1
      /\ \A j \in 1..(i - 1) : front[j] = s[j]
  <2>1. \A j \in 1..(i - 1) : s[j] \in S
    BY <1>1
  <2>2. /\ front \in Seq(S)
        /\ Len(front) = IF 1 <= i - 1 THEN (i - 1) - 1 + 1 ELSE 0
        /\ \A j \in 1..((i - 1) - 1 + 1) : front[j] = s[1 + j - 1]
    BY <1>1, <2>1, SubSeqProperties
  <2> QED
    BY <1>1, <2>2
<1>3. /\ back \in Seq(S) /\ Len(back) = Len(s) - i
      /\ \A j \in 1..(Len(s) - i) : back[j] = s[i + j]
  <2>1. \A j \in (i + 1)..Len(s) : s[j] \in S
    BY <1>1
  <2>2. /\ back \in Seq(S)
        /\ Len(back) = IF i + 1 <= Len(s) THEN Len(s) - (i + 1) + 1 ELSE 0
        /\ \A j \in 1..(Len(s) - (i + 1) + 1) : back[j] = s[(i + 1) + j - 1]
    BY <1>1, <2>1, SubSeqProperties
  <2> QED
    BY <1>1, <2>2
<1> HIDE DEF front, back
<1>4. /\ front \o back \in Seq(S) /\ Len(front \o back) = Len(s) - 1
      /\ \A j \in 1..(Len(s) - 1) :
           (front \o back)[j] = IF j <= i - 1 THEN front[j] ELSE back[j - (i - 1)]
  BY <1>1, <1>2, <1>3, ConcatProperties
<1>5. ASSUME NEW j \in 1..(Len(s) - 1)
      PROVE  (front \o back)[j] = s[IF j < i THEN j ELSE j + 1]
  <2>1. CASE j < i
    BY <1>1, <1>2, <1>4, <2>1
  <2>2. CASE ~(j < i)
    <3>1. j - (i - 1) \in 1..(Len(s) - i) /\ i + (j - (i - 1)) = j + 1 /\ ~(j <= i - 1)
      BY <1>1, <2>2
    <3> QED
      BY <1>3, <1>4, <2>2, <3>1
  <2> QED
    BY <2>1, <2>2
<1> QED
  BY <1>4, <1>5 DEF RemoveAt, front, back


-----------------------------------------------------------------------------
(* On a quiet day everything under way is the last guest's: the next one   *)
(* comes when it has been answered.  A session that outlives its guest is  *)
(* about to end.                                                           *)
StayFetch == [of : Nat, answer : {"none", "data", "denied"}]

LastGuests ==
  /\ tenant \in {Nobody, arrived} /\ session \in {Nobody, arrived} /\ login \in {Nobody, arrived}
  /\ \A i \in DOMAIN fetches : fetches[i].of = arrived
  /\ \A i \in DOMAIN posts : posts[i].of = arrived

EndsSoon == bye \/ \E i \in DOMAIN fetches : fetches[i].answer \in {"none", "denied"}

ShownInv ==
  quiet =>
    /\ arrived \in Nat /\ fetches \in Seq(StayFetch)
    /\ LastGuests
    /\ session # Nobody => session = tenant \/ EndsSoon
    /\ session # Nobody => fetches # <<>> \/ showing = session

(* At first nobody uses the page.                                          *)
LEMMA ShownInitInv == GpInit => ShownInv
  BY DEF GpInit, ShownInv, LastGuests, Nobody

(* A fetch for the last guest keeps what is promised, and more.            *)
LEMMA FetchAdded ==
  ASSUME ShownInv, quiet, FetchFor(arrived)
  PROVE  /\ fetches' \in Seq(StayFetch) /\ fetches' # <<>>
         /\ \A i \in DOMAIN fetches' : fetches'[i].of = arrived
         /\ \E i \in DOMAIN fetches' : fetches'[i].answer = "none"
<1> DEFINE f == [of |-> arrived, answer |-> "none"]
<1>1. /\ fetches \in Seq(StayFetch) /\ f \in StayFetch /\ f.of = arrived /\ f.answer = "none"
      /\ \A i \in DOMAIN fetches : fetches[i].of = arrived
  BY DEF ShownInv, StayFetch, LastGuests
<1>2. fetches' = Append(fetches, f)
  BY DEF FetchFor
<1> HIDE DEF f
<1>3. /\ fetches' \in Seq(StayFetch) /\ fetches' # <<>>
      /\ Len(fetches') \in DOMAIN fetches' /\ fetches'[Len(fetches')] = f
      /\ \A i \in DOMAIN fetches' : (i \in DOMAIN fetches /\ fetches'[i] = fetches[i]) \/ fetches'[i] = f
  BY <1>1, <1>2
<1> QED
  BY <1>1, <1>3

(* An answer that is taken leaves the others.                              *)
LEMMA FetchTaken ==
  ASSUME ShownInv, quiet, NEW i, NEW a, Taken(i, a)
  PROVE  /\ fetches' \in Seq(StayFetch)
         /\ \A j \in DOMAIN fetches' : fetches'[j].of = arrived
         /\ \A j \in DOMAIN fetches : j # i => \E k \in DOMAIN fetches' : fetches'[k] = fetches[j]
         /\ fetches[i].of = arrived /\ fetches[i].answer = a
<1>1. /\ fetches \in Seq(StayFetch) /\ i \in DOMAIN fetches /\ fetches' = RemoveAt(fetches, i)
      /\ \A j \in DOMAIN fetches : fetches[j].of = arrived
      /\ fetches[i].answer = a
  BY DEF ShownInv, Taken, LastGuests
<1>2. /\ fetches' \in Seq(StayFetch) /\ Len(fetches') = Len(fetches) - 1
      /\ \A j \in 1..(Len(fetches) - 1) : fetches'[j] = fetches[IF j < i THEN j ELSE j + 1]
  BY <1>1, Removed
<1>3. /\ Len(fetches) \in Nat /\ DOMAIN fetches = 1..Len(fetches)
      /\ DOMAIN fetches' = 1..(Len(fetches) - 1)
  BY <1>1, <1>2, LenProperties
<1>4. \A j \in DOMAIN fetches' : fetches'[j].of = arrived
  <2> TAKE j \in DOMAIN fetches'
  <2>1. (IF j < i THEN j ELSE j + 1) \in DOMAIN fetches
    BY <1>3
  <2> QED
    BY <1>1, <1>2, <1>3, <2>1
<1>5. ASSUME NEW j \in DOMAIN fetches, j # i
      PROVE  \E k \in DOMAIN fetches' : fetches'[k] = fetches[j]
  <2> DEFINE k == IF j < i THEN j ELSE j - 1
  <2>1. k \in 1..(Len(fetches) - 1) /\ (IF k < i THEN k ELSE k + 1) = j
    BY <1>1, <1>3, <1>5
  <2> QED
    BY <1>2, <1>3, <2>1
<1> QED
  BY <1>1, <1>2, <1>4, <1>5

(* Every step of the guests, the page and the services keeps it.           *)
LEMMA ShownStepInv == StoredInv /\ ShownInv /\ [GpNext]_gpVars => ShownInv'
<1> SUFFICES ASSUME StoredInv, ShownInv, [GpNext]_gpVars, quiet' PROVE ShownInv'
  BY DEF ShownInv
<1>1. quiet
  BY DEF GpNext, gpVars, CheckInGuest, CheckOutGuest, GuestLogin, SaveSession, PressLogout, HearCheckOut,
     HearEvent, AnswerFetch, ReadStay, ShowStay, StayDenied, AddToDraft, RemoveFromDraft, Submit,
     AnswerPost, ServePost, PostDone, PostDenied, Lose
<1>2. /\ arrived \in Nat /\ fetches \in Seq(StayFetch) /\ LastGuests
      /\ session # Nobody => session = tenant \/ EndsSoon
      /\ session # Nobody => fetches # <<>> \/ showing = session
      /\ posts \in Seq(Post) /\ Len(posts) <= 1
  BY <1>1 DEF ShownInv, StoredInv
<1> USE DEF Nobody
<1>3. CASE UNCHANGED gpVars
  BY <1>2, <1>3 DEF gpVars, ShownInv, LastGuests, EndsSoon
<1>4. CASE CheckInGuest
  <2>1. /\ tenant = Nobody /\ fetches = <<>> /\ posts = <<>> /\ login = Nobody /\ ~bye
        /\ arrived' = arrived + 1 /\ tenant' = arrived'
        /\ UNCHANGED <<session, login, bye, showing, fetches, posts>>
    BY <1>1, <1>4 DEF CheckInGuest, Work
  <2>2. session = Nobody
    BY <1>2, <2>1 DEF EndsSoon
  <2> QED
    BY <1>2, <2>1, <2>2 DEF ShownInv, LastGuests
<1>5. CASE CheckOutGuest
  BY <1>2, <1>5 DEF CheckOutGuest, Work, ShownInv, LastGuests, EndsSoon
<1>6. CASE GuestLogin
  BY <1>2, <1>6 DEF GuestLogin, Stay, Work, ShownInv, LastGuests, EndsSoon
<1>7. CASE SaveSession
  <2>1. FetchFor(arrived)
    BY <1>2, <1>7 DEF SaveSession, LastGuests
  <2> QED
    BY <1>1, <1>2, <1>7, <2>1, FetchAdded DEF SaveSession, Stay, Work, ShownInv, LastGuests, EndsSoon
<1>8. CASE PressLogout \/ HearCheckOut
  BY <1>2, <1>8 DEF PressLogout, HearCheckOut, LogOut, Stay, Work, ShownInv, LastGuests
<1>9. CASE HearEvent
  <2>1. FetchFor(arrived)
    BY <1>2, <1>9 DEF HearEvent, LastGuests
  <2> QED
    BY <1>1, <1>2, <1>9, <2>1, FetchAdded DEF HearEvent, Stay, Work, ShownInv, LastGuests, EndsSoon
<1>10. ASSUME NEW i, ReadStay(i) PROVE ShownInv'
  <2> DEFINE a == IF fetches[i].of = tenant THEN "data" ELSE "denied"
             f == [fetches[i] EXCEPT !.answer = a]
  <2>1. /\ i \in 1..Len(fetches) /\ DOMAIN fetches = 1..Len(fetches) /\ fetches[i] \in StayFetch
        /\ fetches[i].of = arrived
    BY <1>2, <1>10, LenProperties, ElementOfSeq DEF ReadStay, LastGuests
  <2>2. f \in StayFetch /\ f.of = arrived /\ f.answer = a
    BY <2>1 DEF StayFetch
  <2>3. fetches' = [fetches EXCEPT ![i] = f]
    BY <1>10 DEF ReadStay
  <2>4. a = IF arrived = tenant THEN "data" ELSE "denied"
    BY <2>1
  <2> HIDE DEF a, f
  <2>5. /\ fetches' \in Seq(StayFetch) /\ DOMAIN fetches' = DOMAIN fetches /\ fetches' # <<>>
        /\ \A j \in DOMAIN fetches : fetches'[j] = IF j = i THEN f ELSE fetches[j]
    BY <1>2, <2>1, <2>2, <2>3
  <2>6. /\ UNCHANGED <<tenant, arrived, session, login, bye, showing, posts>>
    BY <1>10 DEF ReadStay, Stay, Work
  <2>7. LastGuests'
    BY <1>2, <2>2, <2>5, <2>6 DEF LastGuests
  <2>8. ASSUME session # Nobody, session # tenant PROVE EndsSoon'
    <3>1. f.answer = "denied"
      BY <1>2, <2>2, <2>4, <2>8 DEF LastGuests
    <3> QED
      BY <2>1, <2>5, <3>1 DEF EndsSoon
  <2> QED
    BY <1>2, <2>5, <2>6, <2>7, <2>8 DEF ShownInv
<1>11. ASSUME NEW i, ShowStay(i) PROVE ShownInv'
  <2>1. /\ fetches' \in Seq(StayFetch)
        /\ \A j \in DOMAIN fetches' : fetches'[j].of = arrived
        /\ \A j \in DOMAIN fetches : j # i => \E k \in DOMAIN fetches' : fetches'[k] = fetches[j]
        /\ fetches[i].of = arrived /\ fetches[i].answer = "data"
    BY <1>1, <1>11, FetchTaken DEF ShowStay
  <2>2. /\ UNCHANGED <<tenant, arrived, session, login, bye, posts>> /\ showing' = arrived
    BY <1>11, <2>1 DEF ShowStay, Stay, Work
  <2>3. LastGuests' /\ (session # Nobody => showing' = session)
    BY <1>2, <2>1, <2>2 DEF LastGuests
  <2>4. EndsSoon => EndsSoon'
    <3>1. ASSUME NEW j \in DOMAIN fetches, fetches[j].answer \in {"none", "denied"}
          PROVE  \E k \in DOMAIN fetches' : fetches'[k].answer \in {"none", "denied"}
      BY <2>1, <3>1
    <3> QED
      BY <2>2, <3>1 DEF EndsSoon
  <2> QED
    BY <1>2, <2>1, <2>2, <2>3, <2>4 DEF ShownInv
<1>12. ASSUME NEW i, StayDenied(i) PROVE ShownInv'
  <2>1. /\ fetches' \in Seq(StayFetch) /\ \A j \in DOMAIN fetches' : fetches'[j].of = arrived
    BY <1>1, <1>12, FetchTaken DEF StayDenied
  <2> QED
    BY <1>2, <1>12, <2>1 DEF StayDenied, LogOut, Stay, Work, ShownInv, LastGuests
<1>13. ASSUME NEW k \in Drafts, AddToDraft(k) \/ RemoveFromDraft(k) PROVE ShownInv'
  BY <1>2, <1>13 DEF AddToDraft, RemoveFromDraft, Stay, ShownInv, LastGuests, EndsSoon
<1>14. ASSUME NEW k \in Drafts, Submit(k) PROVE ShownInv'
  <2> DEFINE m == [what |-> k, of |-> session, n |-> draft[k], answer |-> "none"]
  <2>1. /\ posts = <<>> /\ posts' = Append(posts, m) /\ session # Nobody
        /\ UNCHANGED <<tenant, arrived, session, login, bye, showing, fetches>>
    BY <1>1, <1>14 DEF Submit, Idle, Stay
  <2>2. m.of = arrived
    BY <1>2, <2>1 DEF LastGuests
  <2> HIDE DEF m
  <2>3. \A i \in DOMAIN posts' : posts'[i].of = arrived
    BY <2>1, <2>2
  <2> QED
    BY <1>2, <2>1, <2>3 DEF ShownInv, LastGuests, EndsSoon
<1>15. ASSUME NEW i, ServePost(i) PROVE ShownInv'
  <2>1. /\ UNCHANGED <<tenant, arrived, session, login, bye, showing, fetches>>
        /\ \E a \in {"done", "denied"} : posts' = [posts EXCEPT ![i].answer = a]
    BY <1>15 DEF ServePost, Stay
  <2>2. \A j \in DOMAIN posts : posts[j] \in Post
    BY <1>2, LenProperties, ElementOfSeq
  <2>3. \A j \in DOMAIN posts' : j \in DOMAIN posts /\ posts'[j].of = posts[j].of
    BY <2>1, <2>2 DEF Post
  <2> QED
    BY <1>2, <2>1, <2>3 DEF ShownInv, LastGuests, EndsSoon
<1>16. ASSUME NEW i, PostDone(i) \/ PostDenied(i) PROVE ShownInv'
  <2>1. i \in DOMAIN posts /\ posts' = RemoveAt(posts, i) /\ UNCHANGED <<tenant, arrived, login>>
    BY <1>16 DEF PostDone, PostDenied, Stay
  <2>2. posts' = <<>> /\ posts[i].of = arrived
    BY <1>2, <2>1, RemoveOnly DEF LastGuests
  <2>3. CASE PostDone(i)
    <3>1. FetchFor(arrived) /\ UNCHANGED <<session, bye, showing>>
      BY <2>2, <2>3 DEF PostDone
    <3> QED
      BY <1>1, <1>2, <2>1, <2>2, <3>1, FetchAdded DEF ShownInv, LastGuests, EndsSoon
  <2>4. CASE PostDenied(i)
    BY <1>2, <2>1, <2>2, <2>4 DEF PostDenied, LogOut, ShownInv, LastGuests
  <2> QED
    BY <1>16, <2>3, <2>4
<1>17. ~Lose
  BY <1>1 DEF Lose
<1> QED
  BY <1>3, <1>4, <1>5, <1>6, <1>7, <1>8, <1>9, <1>10, <1>11, <1>12, <1>13, <1>14, <1>15, <1>16, <1>17
  DEF GpNext, AnswerFetch, AnswerPost

(* The guest of the room is shown what is his, once everything asked for   *)
(* has been answered, however the visits of the page, its events and the   *)
(* check-out of the last guest follow each other.                          *)
THEOREM ShownTheirOwn == GpSpec => []ShowsOwn
<1>1. ShownInv => ShowsOwn
  BY DEF ShownInv, ShowsOwn
<1> QED
  BY <1>1, ShownInitInv, ShownStepInv, StoredInvariance, PTL DEF GpSpec
=============================================================================
