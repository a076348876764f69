------------------------------ MODULE Accounts ------------------------------
(* Staff accounts, the tokens handed out for them, the sessions of the     *)
(* staff portals, and the staff panel of the operations portal.  A token   *)
(* carries the role its member had; nothing looks the member up again.     *)
EXTENDS HotelDb, FiniteSets, Sequences

CONSTANTS Portals,    \* the staff portals followed
          Seeded,     \* the members of a new database, by id
          Names,      \* usernames typed into the form
          Roles,      \* roles chosen there
          MaxIds,     \* bound: staff rows ever inserted
          MaxTokens,  \* bound: logins
          MaxCalls    \* bound: requests under way

ASSUME AccountsAssumption ==
  /\ Portals \subseteq {"kitchen", "housekeeper", "receptionist", "maintenance", "operations"}
  /\ Seeded \in Seq([name : STRING, role : STRING]) /\ Len(Seeded) <= MaxIds
  /\ \A i \in DOMAIN Seeded : Seeded[i].name # "" /\ Seeded[i].role # ""
  /\ "" \notin Names \cup Roles
  /\ MaxIds \in Nat \ {0} /\ MaxTokens \in Nat /\ MaxCalls \in Nat

Ids      == 1..MaxIds
Members  == [name : Names, role : Roles] \cup {Seeded[i] : i \in DOMAIN Seeded}
NoMember == [name |-> "", role |-> ""]
EmptyList == [i \in Ids |-> NoMember]
NoToken  == 0
NoRole   == ""

-----------------------------------------------------------------------------
(* Whom the login screen of each portal admits.                            *)
KitchenAdmits(role)      == role \in {"kitchen_service", "super_admin"}
HousekeeperAdmits(role)  == role \in {"housekeeper", "super_admin"}
ReceptionistAdmits(role) == role \in {"receptionist", "super_admin"}
MaintenanceAdmits(role)  == role \in {"maintenance", "super_admin"}
(* Mutant: receptionists may use the operations portal.                    *)
OperationsAdmits_Reception(role) == role \in {"receptionist", "super_admin"}
OperationsAdmits(role)   == role = "super_admin"

Admits(p, role) ==
  CASE p = "kitchen" -> KitchenAdmits(role)           [] p = "housekeeper" -> HousekeeperAdmits(role)
    [] p = "receptionist" -> ReceptionistAdmits(role) [] p = "maintenance" -> MaintenanceAdmits(role)
    [] p = "operations" -> OperationsAdmits(role)

(* The lists of tasks, issues and orders need a token, whatever its role;  *)
(* the audit log and the staff list, a super admin's.                      *)
FetchesAsAdmin(p) == p = "operations"

VARIABLES staff,    \* the table StaffMembers
          lastId,   \* the highest id given so far
          tokens,   \* the role each token carries
          expired,  \* tokens whose eight hours have passed
          session,  \* the token each portal holds
          shown,    \* the staff list the operations portal shows
          calls     \* requests under way

acVars == <<staff, lastId, tokens, expired, session, shown, calls>>

Call(what, p) == [what |-> what, portal |-> p, token |-> session[p], id |-> 0,
                  member |-> NoMember, pc |-> "sent", list |-> EmptyList]

Present(list) == {i \in DOMAIN list : list[i] # NoMember}
Given         == {t \in DOMAIN tokens : tokens[t] # NoRole}

AcInit ==
  /\ staff = [i \in Ids |-> IF i \in DOMAIN Seeded THEN Seeded[i] ELSE NoMember]
  /\ lastId = Len(Seeded)
  /\ tokens = [t \in 1..MaxTokens |-> NoRole] /\ expired = {}
  /\ session = [p \in Portals |-> NoToken]
  /\ shown = EmptyList
  /\ calls = {}

-----------------------------------------------------------------------------
(* A member logs in.  A portal that does not admit the role says so and    *)
(* forgets the token.                                                      *)
StaffLogin(p, i) ==
  /\ session[p] = NoToken
  /\ staff[i] # NoMember /\ Admits(p, staff[i].role)
  /\ \E t \in DOMAIN tokens :
       /\ IsFirst(t, DOMAIN tokens \ Given)
       /\ tokens' = [tokens EXCEPT ![t] = staff[i].role]
       /\ session' = [session EXCEPT ![p] = t]
  /\ UNCHANGED <<staff, lastId, expired, shown, calls>>

StaffLogout(p) ==
  /\ session[p] # NoToken
  /\ session' = [session EXCEPT ![p] = NoToken]
  /\ UNCHANGED <<staff, lastId, tokens, expired, shown, calls>>

Expire(t) ==
  /\ t \in Given \ expired
  /\ expired' = expired \cup {t}
  /\ UNCHANGED <<staff, lastId, tokens, session, shown, calls>>

(* RequireAuthorization, and the check of the role where there is one.     *)
Allowed(t, asAdmin) == t \notin expired /\ (asAdmin => tokens[t] = "super_admin")

Ask(c)        == calls' = calls \cup {c} /\ Cardinality(calls') <= MaxCalls
Goes(c, next) == calls' = (calls \ {c}) \cup {next}
Ends(c)       == calls' = calls \ {c}
IsCall(c, what, pc) == c \in calls /\ c.what = what /\ c.pc = pc

-----------------------------------------------------------------------------
(* A portal fetches.                                                       *)
AskLists(p) ==
  /\ session[p] # NoToken
  /\ Ask(Call("lists", p))
  /\ UNCHANGED <<staff, lastId, tokens, expired, session, shown>>

ReadLists(c) ==
  /\ IsCall(c, "lists", "sent")
  /\ IF Allowed(c.token, FetchesAsAdmin(c.portal))
       THEN Goes(c, [c EXCEPT !.pc = "ok",
                       !.list = IF FetchesAsAdmin(c.portal) THEN staff ELSE @])
       ELSE Goes(c, [c EXCEPT !.pc = "denied"])
  /\ UNCHANGED <<staff, lastId, tokens, expired, session, shown>>

ShowLists(c) ==
  /\ IsCall(c, "lists", "ok")
  /\ shown' = IF FetchesAsAdmin(c.portal) THEN c.list ELSE shown
  /\ Ends(c)
  /\ UNCHANGED <<staff, lastId, tokens, expired, session>>

(* 401 or 403: handleLogout, whoever is logged in by then.                 *)
ListsDenied(c) ==
  /\ IsCall(c, "lists", "denied")
  /\ session' = [session EXCEPT ![c.portal] = NoToken]
  /\ Ends(c)
  /\ UNCHANGED <<staff, lastId, tokens, expired, shown>>

-----------------------------------------------------------------------------
(* The staff panel: register a member, or delete one of those listed.      *)
PressRegister(m) ==
  /\ "operations" \in Portals /\ session["operations"] # NoToken
  /\ Ask([Call("register", "operations") EXCEPT !.member = m])
  /\ UNCHANGED <<staff, lastId, tokens, expired, session, shown>>

PressDelete(i) ==
  /\ "operations" \in Portals /\ session["operations"] # NoToken
  /\ i \in Present(shown) /\ shown[i].name # "admin"
  /\ Ask([Call("delete", "operations") EXCEPT !.id = i, !.member = shown[i]])
  /\ UNCHANGED <<staff, lastId, tokens, expired, session, shown>>

(* The name is looked for, and the row inserted in a step of its own.      *)
RegisterCheck(c) ==
  /\ IsCall(c, "register", "sent")
  /\ IF /\ Allowed(c.token, TRUE)
        /\ \A i \in Present(staff) : staff[i].name # c.member.name
       THEN Goes(c, [c EXCEPT !.pc = "insert"])
       ELSE Ends(c)
  /\ UNCHANGED <<staff, lastId, tokens, expired, session, shown>>

(* Mutant: the id of a deleted member is given again.                      *)
RegisterInsert_ReusesId(c) ==
  /\ IsCall(c, "register", "insert")
  /\ \E i \in Ids : /\ IsFirst(i, Ids \ Present(staff))
                    /\ staff' = [staff EXCEPT ![i] = c.member]
                    /\ lastId' = IF i > lastId THEN i ELSE lastId
  /\ Ends(c)
  /\ UNCHANGED <<tokens, expired, session, shown>>

(* Ids are AUTOINCREMENT: one of a deleted row does not come back.         *)
RegisterInsert(c) ==
  /\ IsCall(c, "register", "insert") /\ lastId < MaxIds
  /\ lastId' = lastId + 1
  /\ staff' = [staff EXCEPT ![lastId + 1] = c.member]
  /\ Ends(c)
  /\ UNCHANGED <<tokens, expired, session, shown>>

(* Rows are never changed, so that finding and removing one is a step.     *)
ServeDelete(c) ==
  /\ IsCall(c, "delete", "sent")
  /\ IF Allowed(c.token, TRUE) /\ staff[c.id] # NoMember /\ staff[c.id].name # "admin"
       THEN staff' = [staff EXCEPT ![c.id] = NoMember]
       ELSE UNCHANGED staff
  /\ Ends(c)
  /\ UNCHANGED <<lastId, tokens, expired, session, shown>>

-----------------------------------------------------------------------------
AcNext ==
  \/ \E p \in Portals : \/ \E i \in Ids : StaffLogin(p, i)
                        \/ StaffLogout(p) \/ AskLists(p)
  \/ \E t \in 1..MaxTokens : Expire(t)
  \/ \E m \in [name : Names, role : Roles] : PressRegister(m)
  \/ \E i \in Ids : PressDelete(i)
  \/ \E c \in calls : \/ ReadLists(c) \/ ShowLists(c) \/ ListsDenied(c)
                      \/ RegisterCheck(c) \/ RegisterInsert(c) \/ ServeDelete(c)

AcSpec == AcInit /\ [][AcNext]_acVars

-----------------------------------------------------------------------------
StaffLists == [Ids -> Members \cup {NoMember}]

AcTypeOK ==
  /\ staff \in StaffLists /\ shown \in StaffLists
  /\ lastId \in 0..MaxIds
  /\ tokens \in [1..MaxTokens -> {m.role : m \in Members} \cup {NoRole}] /\ expired \subseteq Given
  /\ session \in [Portals -> Given \cup {NoToken}]
  /\ calls \subseteq [what : {"lists", "register", "delete"}, portal : Portals, token : Given,
                      id : 0..MaxIds, member : Members \cup {NoMember},
                      pc : {"sent", "insert", "ok", "denied"}, list : StaffLists]

(* The member deleted is the one named in the question the admin answered, *)
(* however old the list is and whoever has come and gone since.            *)
DeletesWhoItShows ==
  [][\A c \in calls, i \in Ids :
       ServeDelete(c) /\ staff[i] # NoMember /\ staff'[i] = NoMember
         => i = c.id /\ staff[i] = c.member]_acVars

(* Nobody is thrown out of a portal that has admitted him before his token *)
(* expires, the screens and the endpoints agreeing on the roles; but by a  *)
(* late refusal of a token the portal held before.                         *)
NobodyThrownOut ==
  [][\A c \in calls :
       ListsDenied(c) /\ session[c.portal] = c.token => c.token \in expired]_acVars

(* Without that exception, which does not hold.                            *)
NeverThrownOut ==
  [][\A p \in Portals : session[p] \notin expired \cup {NoToken} /\ session'[p] = NoToken
                          => StaffLogout(p)]_acVars

(* "Username already exists": no two members have one name.  Two requests  *)
(* at a time insert two.                                                   *)
UniqueNames ==
  \A i, j \in Present(staff) : staff[i].name = staff[j].name => i = j
=============================================================================
