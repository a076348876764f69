----------------------------- MODULE GuestPage -----------------------------
(* The page of a hotel room, used by its guests one after the other: their *)
(* session, the cart and the report they fill in, the requests made of     *)
(* them, and the data fetched.  Everything is answered later, to whoever   *)
(* uses the page by then.                                                  *)
EXTENDS Naturals, SequencesExt

CONSTANTS MaxGuests,   \* bound: guests of the room
          MaxPut,      \* bound: items and reports, thought of on a quiet day, or stored
          MaxFetches,  \* bound: fetches under way on a quiet day
          MaxPosts,    \* bound: orders and reports under way
          MaxRush      \* bound: items, reports and fetches on any other day

ASSUME GuestPageAssumption == {MaxGuests, MaxPut, MaxFetches, MaxPosts, MaxRush} \subseteq Nat

Nobody == 0
Guests == 1..MaxGuests
Drafts == {"order", "report"}

VARIABLES quiet,    \* whether nothing fails, answers come in order, and the guest waits for them
          tenant,   \* the guest checked in in the room
          arrived,  \* the guests there have been
          session,  \* whose token the page holds
          login,    \* the guest whose login has succeeded and is being answered
          bye,      \* guest.checked_out is on its way to the page
          showing,    \* whose orders, issues and bill the page has
          fetches,  \* fetches under way: whose token, and the answer
          draft,    \* items in the cart; reports written
          posts,    \* orders and reports under way
          put,      \* items put in the cart by hand and not taken out; reports written
          stored    \* items ordered; reports filed

gpVars == <<quiet, tenant, arrived, session, login, bye, showing, fetches, draft, posts, put, stored>>
Stay   == <<tenant, arrived>>
Work   == <<draft, posts, put, stored>>

GpInit ==
  /\ quiet \in BOOLEAN
  /\ tenant = Nobody /\ arrived = 0
  /\ session = Nobody /\ login = Nobody /\ bye = FALSE /\ showing = Nobody
  /\ fetches = <<>> /\ posts = <<>>
  /\ draft = [k \in Drafts |-> 0] /\ put = draft /\ stored = draft

FetchFor(g) == /\ Len(fetches) < IF quiet THEN MaxFetches ELSE MaxRush
               /\ fetches' = Append(fetches, [of |-> g, answer |-> "none"])

(* handleLogout: the token is forgotten and the socket closed.  The lists, *)
(* the cart and the report stay.                                           *)
LogOut == session' = Nobody /\ bye' = FALSE

-----------------------------------------------------------------------------
(* Reception.  The room is cleaned between two guests, which takes longer  *)
(* than a request on a quiet day.                                          *)
CheckInGuest ==
  /\ tenant = Nobody /\ arrived < MaxGuests
  /\ quiet => fetches = <<>> /\ posts = <<>> /\ login = Nobody /\ ~bye
  /\ arrived' = arrived + 1 /\ tenant' = arrived + 1
  /\ UNCHANGED <<quiet, session, login, bye, showing, fetches>> /\ UNCHANGED Work

CheckOutGuest ==
  /\ tenant # Nobody
  /\ tenant' = Nobody
  /\ bye' = (bye \/ session = tenant)
  /\ UNCHANGED <<quiet, arrived, session, login, showing, fetches>> /\ UNCHANGED Work

(* A login by room and name, or by code, finds the guest checked in.       *)
GuestLogin ==
  /\ session = Nobody /\ login = Nobody /\ tenant # Nobody
  /\ login' = tenant
  /\ UNCHANGED <<quiet, session, bye, showing, fetches>> /\ UNCHANGED Stay /\ UNCHANGED Work

(* Mutant: the page of the next guest does not fetch.                      *)
SaveSession_NoFetch ==
  /\ login # Nobody /\ session = Nobody
  /\ session' = login /\ login' = Nobody
  /\ IF showing = Nobody THEN FetchFor(login) ELSE UNCHANGED fetches
  /\ UNCHANGED <<quiet, bye, showing>> /\ UNCHANGED Stay /\ UNCHANGED Work

SaveSession ==
  /\ login # Nobody /\ session = Nobody
  /\ session' = login /\ login' = Nobody
  /\ FetchFor(login)
  /\ UNCHANGED <<quiet, bye, showing>> /\ UNCHANGED Stay /\ UNCHANGED Work

PressLogout ==
  /\ session # Nobody
  /\ LogOut
  /\ UNCHANGED <<quiet, login, showing, fetches>> /\ UNCHANGED Stay /\ UNCHANGED Work

HearCheckOut ==
  /\ bye
  /\ LogOut
  /\ UNCHANGED <<quiet, login, showing, fetches>> /\ UNCHANGED Stay /\ UNCHANGED Work

(* Any other event of the room makes the page fetch.                       *)
HearEvent ==
  /\ session # Nobody
  /\ FetchFor(session)
  /\ UNCHANGED <<quiet, session, login, bye, showing>> /\ UNCHANGED Stay /\ UNCHANGED Work

-----------------------------------------------------------------------------
(* The services answer with the data of the guest of the token, if he is   *)
(* checked in.                                                             *)
ReadStay(i) ==
  /\ i \in DOMAIN fetches /\ fetches[i].answer = "none"
  /\ quiet => \A j \in 1..(i - 1) : fetches[j].answer # "none"
  /\ fetches' = [fetches EXCEPT ![i].answer = IF fetches[i].of = tenant THEN "data" ELSE "denied"]
  /\ UNCHANGED <<quiet, session, login, bye, showing>> /\ UNCHANGED Stay /\ UNCHANGED Work

Taken(i, answer) == /\ i \in DOMAIN fetches /\ fetches[i].answer = answer
                    /\ quiet => i = 1
                    /\ fetches' = RemoveAt(fetches, i)

ShowStay(i) ==
  /\ Taken(i, "data")
  /\ showing' = fetches[i].of
  /\ UNCHANGED <<quiet, session, login, bye>> /\ UNCHANGED Stay /\ UNCHANGED Work

(* Mutant: a refusal is taken for a failure of the service.                *)
StayDenied_Ignored(i) ==
  /\ Taken(i, "denied")
  /\ UNCHANGED <<quiet, session, login, bye, showing>> /\ UNCHANGED Stay /\ UNCHANGED Work

StayDenied(i) ==
  /\ Taken(i, "denied")
  /\ LogOut
  /\ UNCHANGED <<quiet, login, showing>> /\ UNCHANGED Stay /\ UNCHANGED Work

-----------------------------------------------------------------------------
(* The menu and the report form.  On a quiet day the guest waits for the   *)
(* answer; the page does not ask for it.                                   *)
Idle == session # Nobody /\ (quiet => posts = <<>>)

AddToDraft(k) ==
  /\ Idle
  /\ put[k] < (IF quiet THEN MaxPut ELSE MaxRush) /\ (k = "report" => draft[k] = 0)
  /\ draft' = [draft EXCEPT ![k] = @ + 1] /\ put' = [put EXCEPT ![k] = @ + 1]
  /\ UNCHANGED <<quiet, session, login, bye, showing, fetches, posts, stored>> /\ UNCHANGED Stay

RemoveFromDraft(k) ==
  /\ Idle
  /\ draft[k] > 0 /\ put[k] > 0
  /\ draft' = [draft EXCEPT ![k] = @ - 1] /\ put' = [put EXCEPT ![k] = @ - 1]
  /\ UNCHANGED <<quiet, session, login, bye, showing, fetches, posts, stored>> /\ UNCHANGED Stay

Submit(k) ==
  /\ Idle
  /\ draft[k] > 0 /\ Len(posts) < MaxPosts
  /\ posts' = Append(posts, [what |-> k, of |-> session, n |-> draft[k], answer |-> "none"])
  /\ UNCHANGED <<quiet, session, login, bye, showing, fetches, draft, put, stored>> /\ UNCHANGED Stay

(* RoomService refuses an order of a guest who is gone; Maintenance asks   *)
(* for no token and takes every report.                                    *)
ServePost(i) ==
  LET m == posts[i] IN
  /\ i \in DOMAIN posts /\ m.answer = "none"
  /\ IF m.what = "order" /\ m.of # tenant
       THEN /\ posts' = [posts EXCEPT ![i].answer = "denied"]
            /\ UNCHANGED stored
       ELSE /\ posts' = [posts EXCEPT ![i].answer = "done"]
            /\ stored' = [stored EXCEPT ![m.what] = @ + m.n]
            /\ stored'[m.what] <= MaxPut
  /\ UNCHANGED <<quiet, session, login, bye, showing, fetches, draft, put>> /\ UNCHANGED Stay

(* Mutant: the cart is emptied only when the order is taken back.          *)
PostDone_KeepsDraft(i) ==
  /\ i \in DOMAIN posts /\ posts[i].answer = "done"
  /\ posts' = RemoveAt(posts, i)
  /\ FetchFor(posts[i].of)
  /\ UNCHANGED <<quiet, session, login, bye, showing, draft, put, stored>> /\ UNCHANGED Stay

(* Success empties the cart or the form, whatever is in it by then.        *)
PostDone(i) ==
  /\ i \in DOMAIN posts /\ posts[i].answer = "done"
  /\ posts' = RemoveAt(posts, i)
  /\ draft' = [draft EXCEPT ![posts[i].what] = 0]
  /\ FetchFor(posts[i].of)
  /\ UNCHANGED <<quiet, session, login, bye, showing, put, stored>> /\ UNCHANGED Stay

PostDenied(i) ==
  /\ i \in DOMAIN posts /\ posts[i].answer = "denied"
  /\ posts' = RemoveAt(posts, i)
  /\ LogOut
  /\ UNCHANGED <<quiet, login, showing, fetches, draft, put, stored>> /\ UNCHANGED Stay

(* A fetch, a request, an answer or an event is lost.                      *)
Lose ==
  /\ ~quiet
  /\ \/ \E i \in DOMAIN fetches : fetches' = RemoveAt(fetches, i) /\ UNCHANGED <<posts, bye>>
     \/ \E i \in DOMAIN posts : posts' = RemoveAt(posts, i) /\ UNCHANGED <<fetches, bye>>
     \/ bye /\ bye' = FALSE /\ UNCHANGED <<fetches, posts>>
  /\ UNCHANGED <<quiet, session, login, showing, draft, put, stored>> /\ UNCHANGED Stay

-----------------------------------------------------------------------------
AnswerFetch(i) == ReadStay(i) \/ ShowStay(i) \/ StayDenied(i)
AnswerPost(i)  == ServePost(i) \/ PostDone(i) \/ PostDenied(i)

GpNext == \/ CheckInGuest \/ CheckOutGuest
          \/ GuestLogin \/ SaveSession \/ PressLogout \/ HearCheckOut \/ HearEvent
          \/ \E i \in 1..MaxFetches : AnswerFetch(i)
          \/ \E k \in Drafts : AddToDraft(k) \/ RemoveFromDraft(k) \/ Submit(k)
          \/ \E i \in 1..MaxPosts : AnswerPost(i)
          \/ Lose

(* Services answer, answers and events arrive.                             *)
GpFair == /\ WF_gpVars(SaveSession) /\ WF_gpVars(HearCheckOut)
          /\ \A i \in 1..MaxFetches : WF_gpVars(AnswerFetch(i))
          /\ \A i \in 1..MaxPosts : WF_gpVars(AnswerPost(i))

GpSpec == GpInit /\ [][GpNext]_gpVars /\ GpFair

-----------------------------------------------------------------------------
(* A guest who has checked out does not stay logged in: the event reaches  *)
(* his page, or, when his login crossed the check-out and the page was not *)
(* connected in time, the fetch that follows is refused.                   *)
LoggedOutWhenGone ==
  \A g \in Guests : (quiet /\ session = g /\ tenant # g) ~> session # g

(* The next guest is not left with the orders, issues and bill of the last *)
(* one, which a logout leaves on the page.                                 *)
ShowsOwn == quiet /\ session # Nobody /\ fetches = <<>> => showing = session

(* Every item put in the cart is in it or has been ordered, once, and so   *)
(* is every report, for a guest who waits for the answer to each.          *)
StoredOnce ==
  quiet /\ posts = <<>> => \A k \in Drafts : put[k] = draft[k] + stored[k]

(* The same for a guest who does not wait, or whose answer is lost, which  *)
(* does not hold.                                                          *)
StoredOnceAlways == posts = <<>> => \A k \in Drafts : put[k] = draft[k] + stored[k]

(* Likewise with answers that overtake each other.                         *)
ShowsOwnAlways == session # Nobody /\ fetches = <<>> => showing = session

(* A session ends only at the guest's wish or once he is gone, which does  *)
(* not hold either: a late refusal of the last guest ends it.              *)
SessionKept ==
  [][session # Nobody /\ session' = Nobody /\ session = tenant => PressLogout]_gpVars
=============================================================================
