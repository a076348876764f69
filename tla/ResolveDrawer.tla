--------------------------- MODULE ResolveDrawer ---------------------------
(* The drawer of the maintenance portal in which a technician chooses the  *)
(* photo of a repair and resolves the issue.  There is one drawer and one  *)
(* chosen photo for all issues; files are read, and resolves answered, in  *)
(* the background.                                                         *)
EXTENDS Naturals, FiniteSets

CONSTANTS Tickets,     \* the assigned issues
          MaxResolves  \* bound: requests under way

ASSUME TicketsAssumption == Tickets \subseteq Nat \ {0} /\ MaxResolves \in Nat

NoTicket == 0
NoPhoto  == [kind |-> "none", of |-> NoTicket]
Preset   == [kind |-> "preset", of |-> NoTicket]
File(t)  == [kind |-> "file", of |-> t]   \* chosen in the drawer of t
Photos   == {NoPhoto, Preset} \cup {File(t) : t \in Tickets}

VARIABLES slow,      \* whether reading a file takes time
          drawer,    \* resolvingIssueId
          photo,     \* afterPhoto
          reading,   \* tickets in whose drawer a file was chosen that is still being read
          resolves,  \* requests to resolve, sent or answered
          listed,    \* the tickets the portal shows as assigned
          after      \* AfterPhoto of each ticket; none while it is assigned

rdVars == <<slow, drawer, photo, reading, resolves, listed, after>>

RdInit ==
  /\ slow \in BOOLEAN
  /\ drawer = NoTicket /\ photo = NoPhoto
  /\ reading = {} /\ resolves = {}
  /\ listed = Tickets
  /\ after = [t \in Tickets |-> NoPhoto]

FormShown == drawer \in listed

-----------------------------------------------------------------------------
(* Mutant: a drawer opens with the photo of the last one in it.            *)
OpenDrawer_KeepsPhoto(t) ==
  /\ t \in listed /\ t # drawer
  /\ drawer' = t
  /\ UNCHANGED <<slow, photo, reading, resolves, listed, after>>

OpenDrawer(t) ==
  /\ t \in listed /\ t # drawer
  /\ drawer' = t /\ photo' = NoPhoto
  /\ UNCHANGED <<slow, reading, resolves, listed, after>>

CancelDrawer ==
  /\ FormShown
  /\ drawer' = NoTicket
  /\ UNCHANGED <<slow, photo, reading, resolves, listed, after>>

(* A file is chosen; a FileReader reads it.                                *)
ChooseFile ==
  /\ FormShown
  /\ IF slow THEN reading' = reading \cup {drawer} /\ UNCHANGED photo
             ELSE photo' = File(drawer) /\ UNCHANGED reading
  /\ UNCHANGED <<slow, drawer, resolves, listed, after>>

FileRead(t) ==
  /\ t \in reading
  /\ reading' = reading \ {t} /\ photo' = File(t)
  /\ UNCHANGED <<slow, drawer, resolves, listed, after>>

UsePreset ==
  /\ FormShown
  /\ photo' = Preset
  /\ UNCHANGED <<slow, drawer, reading, resolves, listed, after>>

(* Without a photo the preset is sent.                                     *)
Submit ==
  /\ FormShown
  /\ resolves' = resolves \cup {[of |-> drawer, pc |-> "sent",
                                 photo |-> IF photo = NoPhoto THEN Preset ELSE photo]}
  /\ Cardinality(resolves') <= MaxResolves
  /\ UNCHANGED <<slow, drawer, photo, reading, listed, after>>

(* The endpoint resolves an assigned issue, once, and refuses others.      *)
Resolve(m) ==
  /\ m \in resolves /\ m.pc = "sent"
  /\ IF after[m.of] = NoPhoto
       THEN /\ after' = [after EXCEPT ![m.of] = m.photo]
            /\ resolves' = (resolves \ {m}) \cup {[m EXCEPT !.pc = "done"]}
       ELSE /\ resolves' = resolves \ {m}
            /\ UNCHANGED after
  /\ UNCHANGED <<slow, drawer, photo, reading, listed>>

(* The answer closes the drawer, whichever is open by then, and fetches.   *)
Resolved(m) ==
  /\ m \in resolves /\ m.pc = "done"
  /\ resolves' = resolves \ {m}
  /\ drawer' = NoTicket /\ photo' = NoPhoto
  /\ UNCHANGED <<slow, reading, listed, after>>

(* A fetched list is shown.                                                *)
Listed ==
  /\ listed' = {t \in Tickets : after[t] = NoPhoto}
  /\ UNCHANGED <<slow, drawer, photo, reading, resolves, after>>

RdNext == \/ \E t \in Tickets : OpenDrawer(t) \/ FileRead(t)
          \/ CancelDrawer \/ ChooseFile \/ UsePreset \/ Submit
          \/ \E m \in resolves : Resolve(m) \/ Resolved(m)
          \/ Listed

RdSpec == RdInit /\ [][RdNext]_rdVars

-----------------------------------------------------------------------------
RdTypeOK ==
  /\ slow \in BOOLEAN /\ drawer \in Tickets \cup {NoTicket} /\ photo \in Photos
  /\ reading \subseteq Tickets /\ listed \subseteq Tickets
  /\ resolves \subseteq [of : Tickets, pc : {"sent", "done"}, photo : Photos \ {NoPhoto}]
  /\ after \in [Tickets -> Photos]

IsOwn(p, t) == p \in {NoPhoto, Preset, File(t)}

(* The proof of a repair is its own: with files that are read at once, no  *)
(* issue is stored with a photo chosen in the drawer of another, whatever  *)
(* order drawers are opened, cancelled and closed by late answers in.      *)
OwnPhoto == ~slow => \A t \in Tickets : IsOwn(after[t], t)

(* The same with files that take a moment, which does not hold.            *)
OwnPhotoAlways == \A t \in Tickets : IsOwn(after[t], t)

(* What makes OwnPhoto inductive.                                          *)
PhotosOwn ==
  ~slow => /\ drawer # NoTicket => IsOwn(photo, drawer)
           /\ \A m \in resolves : IsOwn(m.photo, m.of)
           /\ reading = {}
=============================================================================
