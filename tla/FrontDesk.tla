----------------------------- MODULE FrontDesk -----------------------------
(* The check-in and check-out forms of a desk, the receptionist's or the   *)
(* operations portal's: what is typed, the bill previewed for it, and what *)
(* the requests made of it do by the time Reception serves them.           *)
EXTENDS Naturals, SequencesExt

CONSTANTS Rooms,
          MaxGuests,   \* bound: guests
          MaxUnderWay, \* bound: requests and previews under way on a quiet day
          MaxRush      \* bound: on any other day

ASSUME FrontDeskAssumption ==
  /\ Rooms \subseteq Nat \ {0}
  /\ {MaxGuests, MaxUnderWay, MaxRush} \subseteq Nat

Many    == 1..(MaxUnderWay + MaxRush)

NoRoom  == 0
NoGuest == 0
Guests  == 1..MaxGuests

(* What is typed beside the room: minibar and late hours, or a discount.   *)
Fields    == {"extras", "discount"}
EmptyForm == [room |-> NoRoom, typed |-> {}]
Forms     == [room : Rooms \cup {NoRoom}, typed : SUBSET Fields]

(* A bill names the guest and what was typed; there may be none.           *)
NoBill == [guest |-> NoGuest, form |-> EmptyForm]

VARIABLES desk,      \* "receptionist" or "operations"
          quiet,     \* whether no other desk is at work, answers come in order, none is lost
          tenant,    \* the guest checked in in each room
          guests,    \* how many have arrived so far
          dirty,     \* the rooms left and not yet cleaned
          offered,   \* the rooms the desk shows as Occupied
          form,      \* the check-out form
          fresh,     \* the fields typed since a check-out last succeeded
          preview,   \* the bill shown
          previews,  \* previews asked for: the form, and the bill once computed
          sent,      \* requests under way, oldest first
          answers    \* check-outs that have succeeded, being answered

fdVars == <<desk, quiet, tenant, guests, dirty, offered, form, fresh, preview, previews, sent, answers>>
Setting == <<desk, quiet>>

FdInit ==
  /\ desk \in {"receptionist", "operations"} /\ quiet \in BOOLEAN
  /\ tenant = [r \in Rooms |-> NoGuest] /\ guests = 0
  /\ dirty = {} /\ offered = {}
  /\ form = EmptyForm /\ fresh = {} /\ preview = NoBill
  /\ previews = <<>> /\ sent = <<>> /\ answers = 0

-----------------------------------------------------------------------------
MayAsk == Len(previews) + Len(sent) + answers < IF quiet THEN MaxUnderWay ELSE MaxRush

(* Any change of the check-out form asks for a preview, or clears it.      *)
FormBecomes(f) ==
  /\ form' = f
  /\ IF f.room = NoRoom
       THEN preview' = NoBill /\ UNCHANGED previews
       ELSE /\ MayAsk
            /\ previews' = Append(previews, [form |-> f, bill |-> NoBill, pc |-> "asked"])
            /\ UNCHANGED preview

(* A room is selected, in the list of the form or in the grid.             *)
SelectRoom(r) ==
  /\ r \in offered \cup {NoRoom} /\ r # form.room
  /\ FormBecomes([form EXCEPT !.room = r])
  /\ UNCHANGED <<tenant, guests, dirty, offered, fresh, sent, answers>> /\ UNCHANGED Setting

(* Mutant: the preview does not depend on the discount.                    *)
TypeField_NoPreview(k) ==
  /\ k \notin form.typed
  /\ IF k = "discount" THEN form' = [form EXCEPT !.typed = @ \cup {k}] /\ UNCHANGED <<preview, previews>>
                       ELSE FormBecomes([form EXCEPT !.typed = @ \cup {k}])
  /\ fresh' = fresh \cup {k}
  /\ UNCHANGED <<tenant, guests, dirty, offered, sent, answers>> /\ UNCHANGED Setting

TypeField(k) ==
  /\ k \notin form.typed
  /\ FormBecomes([form EXCEPT !.typed = @ \cup {k}])
  /\ fresh' = fresh \cup {k}
  /\ UNCHANGED <<tenant, guests, dirty, offered, sent, answers>> /\ UNCHANGED Setting

ClearField(k) ==
  /\ k \in form.typed
  /\ FormBecomes([form EXCEPT !.typed = @ \ {k}])
  /\ fresh' = fresh \ {k}
  /\ UNCHANGED <<tenant, guests, dirty, offered, sent, answers>> /\ UNCHANGED Setting

(* The bill as Reception computes it: 404 without a guest in the room.     *)
BillOf(f) == IF f.room = NoRoom \/ tenant[f.room] = NoGuest THEN NoBill
                                    ELSE [guest |-> tenant[f.room], form |-> f]

ComputePreview(i) ==
  /\ i \in DOMAIN previews /\ previews[i].pc = "asked"
  /\ quiet => \A j \in 1..(i - 1) : previews[j].pc # "asked"
  /\ previews' = [previews EXCEPT ![i].pc = "computed", ![i].bill = BillOf(previews[i].form)]
  /\ UNCHANGED <<tenant, guests, dirty, offered, form, fresh, preview, sent, answers>>
  /\ UNCHANGED Setting

ShowPreview(i) ==
  /\ i \in DOMAIN previews /\ previews[i].pc = "computed"
  /\ quiet => i = 1
  /\ preview' = previews[i].bill
  /\ previews' = RemoveAt(previews, i)
  /\ UNCHANGED <<tenant, guests, dirty, offered, form, fresh, sent, answers>> /\ UNCHANGED Setting

(* The operations portal goes on showing the bill it has.                  *)
PreviewFails(i) ==
  /\ ~quiet
  /\ i \in DOMAIN previews
  /\ previews' = RemoveAt(previews, i)
  /\ preview' = IF desk = "receptionist" THEN NoBill ELSE preview
  /\ UNCHANGED <<tenant, guests, dirty, offered, form, fresh, sent, answers>> /\ UNCHANGED Setting

-----------------------------------------------------------------------------
(* The forms are sent.  A press is not prevented by one under way; whose   *)
(* bill the clerk saw goes with it here, for the properties.               *)
Send(m) == MayAsk /\ sent' = Append(sent, m)

PressCheckIn ==
  /\ Send([op |-> "in", form |-> EmptyForm, saw |-> NoGuest])
  /\ UNCHANGED <<tenant, guests, dirty, offered, form, fresh, preview, previews, answers>>
  /\ UNCHANGED Setting

PressCheckOut ==
  /\ form.room # NoRoom
  /\ Send([op |-> "out", form |-> form,
           saw |-> IF previews = <<>> THEN preview.guest ELSE NoGuest])
  /\ UNCHANGED <<tenant, guests, dirty, offered, form, fresh, preview, previews, answers>>
  /\ UNCHANGED Setting

(* Reception serves a request: a guest into a clean room, or the one who   *)
(* is in the room out of it, with a bill.                                  *)
Vacant == {r \in Rooms : tenant[r] = NoGuest /\ r \notin dirty}

ServeCheckIn(i) ==
  /\ i \in DOMAIN sent /\ sent[i].op = "in" /\ (quiet => i = 1)
  /\ IF Vacant # {}
       THEN /\ guests < MaxGuests /\ guests' = guests + 1
            /\ \E r \in Vacant : tenant' = [tenant EXCEPT ![r] = guests + 1]
       ELSE UNCHANGED <<tenant, guests>>
  /\ sent' = RemoveAt(sent, i)
  /\ UNCHANGED <<dirty, offered, form, fresh, preview, previews, answers>> /\ UNCHANGED Setting

ServeCheckOut(i) ==
  /\ i \in DOMAIN sent /\ sent[i].op = "out" /\ (quiet => i = 1)
  /\ LET f == sent[i].form IN
       IF tenant[f.room] = NoGuest
         THEN UNCHANGED <<tenant, dirty, answers>>
         ELSE /\ tenant' = [tenant EXCEPT ![f.room] = NoGuest]
              /\ dirty' = dirty \cup {f.room}
              /\ answers' = answers + 1
  /\ sent' = RemoveAt(sent, i)
  /\ UNCHANGED <<guests, offered, form, fresh, preview, previews>> /\ UNCHANGED Setting

(* A room is cleaned, which takes longer than a request on a quiet day.    *)
Cleaned(r) ==
  /\ r \in dirty /\ (quiet => sent = <<>> /\ answers = 0)
  /\ dirty' = dirty \ {r}
  /\ UNCHANGED <<tenant, guests, offered, form, fresh, preview, previews, sent, answers>>
  /\ UNCHANGED Setting

(* What a successful check-out leaves in the form: the receptionist's      *)
(* keeps the discount.                                                     *)
(* Mutant: the form is left as it is.                                      *)
Emptied_Not(f) == f

(* Mutant: only the room is reset.                                         *)
Emptied_Room(f) == [f EXCEPT !.room = NoRoom]

Emptied(f) ==
  [room |-> NoRoom, typed |-> IF desk = "receptionist" THEN f.typed \cap {"discount"} ELSE {}]

(* The check-out has succeeded: the form is emptied, whatever has been     *)
(* typed in it since.                                                      *)
CheckedOut ==
  /\ answers > 0
  /\ answers' = answers - 1
  /\ form' = Emptied(form) /\ fresh' = {} /\ preview' = NoBill
  /\ UNCHANGED <<tenant, guests, dirty, offered, previews, sent>> /\ UNCHANGED Setting

RequestFails(i) ==
  /\ ~quiet
  /\ i \in DOMAIN sent
  /\ sent' = RemoveAt(sent, i)
  /\ UNCHANGED <<tenant, guests, dirty, offered, form, fresh, preview, previews, answers>>
  /\ UNCHANGED Setting

(* The rooms are fetched.  What is selected stays selected.                *)
Refresh ==
  /\ offered' = {r \in Rooms : tenant[r] # NoGuest}
  /\ UNCHANGED <<tenant, guests, dirty, form, fresh, preview, previews, sent, answers>>
  /\ UNCHANGED Setting

(* Another desk checks a guest out, or in.                                 *)
OtherDesk(r) ==
  /\ ~quiet
  /\ \/ /\ tenant[r] # NoGuest
        /\ tenant' = [tenant EXCEPT ![r] = NoGuest] /\ dirty' = dirty \cup {r}
        /\ UNCHANGED guests
     \/ /\ r \in Vacant /\ guests < MaxGuests
        /\ guests' = guests + 1 /\ tenant' = [tenant EXCEPT ![r] = guests + 1]
        /\ UNCHANGED dirty
  /\ UNCHANGED <<offered, form, fresh, preview, previews, sent, answers>> /\ UNCHANGED Setting

FdNext == \/ \E r \in Rooms \cup {NoRoom} : SelectRoom(r)
          \/ \E k \in Fields : TypeField(k) \/ ClearField(k)
          \/ \E i \in Many : ComputePreview(i) \/ ShowPreview(i) \/ PreviewFails(i)
          \/ PressCheckIn \/ PressCheckOut
          \/ \E i \in Many : ServeCheckIn(i) \/ ServeCheckOut(i) \/ RequestFails(i)
          \/ CheckedOut
          \/ Refresh
          \/ \E r \in Rooms : Cleaned(r) \/ OtherDesk(r)

FdSpec == FdInit /\ [][FdNext]_fdVars

-----------------------------------------------------------------------------
(* A clerk who waits for the preview sees the bill of the form as it is    *)
(* filled in, if answers come in the order of the questions.               *)
PreviewOfForm ==
  quiet /\ form.room # NoRoom /\ previews = <<>> /\ preview # NoBill => preview.form = form

(* At a desk that works alone, the guest billed is the one whose bill the  *)
(* clerk saw at the press: a second press before the answer, an old list   *)
(* of rooms and a form left filled in do not check the next guest of the   *)
(* room out.                                                               *)
RightGuestLeaves ==
  [][\A i \in Many :
       ServeCheckOut(i) /\ quiet /\ tenant' # tenant /\ sent[i].saw # NoGuest
         => sent[i].saw = tenant[sent[i].form.room]]_fdVars

(* The same with other desks at work, which does not hold.                 *)
RightGuestAlways ==
  [][\A i \in Many :
       ServeCheckOut(i) /\ tenant' # tenant /\ sent[i].saw # NoGuest
         => sent[i].saw = tenant[sent[i].form.room]]_fdVars

(* What the form holds, and the next guest would be charged or granted,    *)
(* was typed since the last check-out succeeded, except for the discount   *)
(* at the receptionist's.                                                  *)
NothingLeftOver ==
  form.typed \subseteq fresh \cup IF desk = "receptionist" THEN {"discount"} ELSE {}

(* Without that exception, which the code needs.                           *)
NoDiscountLeftOver == form.typed \subseteq fresh
=============================================================================
