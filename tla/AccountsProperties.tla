------------------------- MODULE AccountsProperties -------------------------
(***************************************************************************)
(* What the program of Accounts.tla promises.                              *)
(***************************************************************************)
EXTENDS Accounts

Statements ==
    {"UserGet", "UserInsert", "CompanyList", "CompanyGet", "CompanyInsert",
     "CompanyUpdate", "AddUser", "SessionInsert", "SessionUpdate", "SessionRemove"}

(* Every variable holds a value of its type. *)
TypeOK ==
    /\ user         \in [Users -> Versions(UserRecord)]
    /\ company      \in [Companies -> Versions(Texts)]
    /\ company_user \in [Members -> Versions({"member"})]
    /\ session      \in [Sessions -> Versions(SessionRecord)]
    /\ form   \in [Requests -> Forms \cup {NULL}]
    /\ script \in [Requests -> Seq(Statements)]
    /\ status \in [Requests -> {StatusOK, StatusInternalServerError}]
    /\ me \in [Requests -> [id : Sessions \cup {NULL}, user : Users \cup {NULL},
                            company : Companies \cup {NULL}]]
    /\ who \in [Requests -> Users \cup {NULL}]
    /\ co  \in [Requests -> Companies \cup {NULL}]

(* A session appears only for a user whose password was given, be it one   *)
(* that was just registered (login.go:47-75).                              *)
SessionsEarned ==
    [][\A r \in Requests, k \in Sessions :
          session[k].by = r /\ ~Live(session[k].val) /\ Live(session'[k].val)
          => /\ form[r].op \in {"register", "login"}
             /\ user'[session'[k].val.user].val.password = form[r].password]_vars

(* Every page of invoices, customers and ROT/RUT requests trusts the       *)
(* company of the session (views/invoice/flag.go:31).  A session takes up  *)
(* a company, and the columns of a company change, only in a request whose *)
(* user is one of its members, whichever of login, selection and logout    *)
(* ran at the same time (company/select.go:25, company/view.go:60).        *)
OnlyMembersAct ==
    [][\A r \in Requests, c \in Companies :
          /\ ~Active(r)'
          /\ \/ company[c].by = r /\ Live(company[c].val) /\ company'[c].val # company[c].val
             \/ \E k \in Sessions : /\ session[k].by = r /\ session'[k].val # session[k].val
                                    /\ Live(session'[k].val)
                                    /\ session'[k].val.company = c
          => \E u \in {me[r].user, who[r]} \ {NULL} :
                Live(company_user'[<< u, c >>].val)]_vars

Stored(table) == {x \in DOMAIN table : Live(table[x].val)}

(* The committed users, sessions, companies and memberships change as      *)
(* Access.tla allows: however logins, selections, logouts and new          *)
(* companies overlap or fail, each commit does one of these things         *)
(* entirely (login.go:75, select.go:34, company/view.go:117-124).          *)
AccessView == INSTANCE Access WITH
    Unused <- Absent, Closed <- Gone,
    accounts  <- Stored(user),
    members   <- Stored(company_user),
    companies <- Stored(company),
    session   <- Committed(session)

ImplementsAccess == AccessView!Spec

-----------------------------------------------------------------------------
(* A login with a wrong name is refused like one with a wrong password     *)
(* (templates/login.html:32): whoever is let in is the user of that name.  *)
LoggedInByName ==
    [][\A r \in Requests, k \in Sessions :
          session[k].by = r /\ ~Live(session[k].val) /\ Live(session'[k].val)
          => user'[session'[k].val.user].val.name = form[r].name]_vars

=============================================================================
