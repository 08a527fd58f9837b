------------------------------- MODULE Access -------------------------------
(***************************************************************************)
(* What the accounts promise, one change at a time: who exists, who is a   *)
(* member of which company, and for whom and for which company each        *)
(* session acts.                                                           *)
(*   - a session starts for one user, and for none but that user's own     *)
(*     companies, and whoever it started for never becomes somebody else;  *)
(*   - it goes over to another company that has a member.  That this is a  *)
(*     company of the session's own user is not promised: the program does *)
(*     not know who that is (models/user.go:174);                          *)
(*   - a company is entered together with its first member, and nobody     *)
(*     becomes a member later on;                                          *)
(*   - a session that ended is never taken up again.                       *)
(***************************************************************************)
CONSTANTS
    Users, Companies, Sessions,
    NULL,       \* no company
    Unused,     \* a session that nobody has started
    Closed      \* a session that has ended

VARIABLES
    accounts,   \* the users that exist
    members,    \* pairs of a user and a company
    companies,  \* the companies that exist
    session     \* Unused, Closed, or the user and company it acts for

vars == << accounts, members, companies, session >>

CompaniesOf(u) == {c \in Companies : << u, c >> \in members}

Open(k) == session[k] \notin {Unused, Closed}

-----------------------------------------------------------------------------
Init ==
    /\ accounts  = {}
    /\ members   = {}
    /\ companies = {}
    /\ session   = [k \in Sessions |-> Unused]

(* A user is registered and has a session. *)
SignUp(u, k) ==
    /\ u \notin accounts /\ session[k] = Unused
    /\ accounts' = accounts \cup {u}
    /\ session'  = [session EXCEPT ![k] = [user |-> u, company |-> NULL]]
    /\ UNCHANGED << members, companies >>

LogIn(u, k, c) ==
    /\ u \in accounts /\ session[k] = Unused
    /\ c \in CompaniesOf(u) \cup {NULL}
    /\ session' = [session EXCEPT ![k] = [user |-> u, company |-> c]]
    /\ UNCHANGED << accounts, members, companies >>

(* The session acts for another company. *)
Select(k, c) ==
    /\ Open(k) /\ \E u \in accounts : c \in CompaniesOf(u)
    /\ session' = [session EXCEPT ![k].company = c]
    /\ UNCHANGED << accounts, members, companies >>

LogOut(k) ==
    /\ Open(k)
    /\ session' = [session EXCEPT ![k] = Closed]
    /\ UNCHANGED << accounts, members, companies >>

(* A user founds a company. *)
Create(u, c) ==
    /\ u \in accounts /\ c \notin companies
    /\ companies' = companies \cup {c}
    /\ members'   = members \cup {<< u, c >>}
    /\ UNCHANGED << accounts, session >>

Next ==
    \/ \E u \in Users, k \in Sessions : SignUp(u, k)
    \/ \E u \in Users, k \in Sessions, c \in Companies \cup {NULL} : LogIn(u, k, c)
    \/ \E k \in Sessions, c \in Companies : Select(k, c)
    \/ \E k \in Sessions : LogOut(k)
    \/ \E u \in Users, c \in Companies : Create(u, c)

Spec == Init /\ [][Next]_vars

=============================================================================
