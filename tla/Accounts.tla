------------------------------ MODULE Accounts ------------------------------
(***************************************************************************)
(* Who may act for which company: registration, login and logout, the      *)
(* sessions behind the cookies, and the companies of a user.  As in        *)
(* Faktura.tla, requests are transactions that run statement by statement  *)
(* over the tables of one database.  Users and companies are never         *)
(* removed, and nobody leaves a company: the program has no page for it.   *)
(***************************************************************************)
EXTENDS Integers, Sequences, FiniteSets, RowVersions

CONSTANTS
    Users, Companies, Sessions,     \* ids; a session's id is its cookie
    Names, NoName,                  \* user names; the empty one
    Passwords, Short,               \* passwords; those of less than 8 characters
    Texts,                          \* the columns of a company
    Forms,                          \* the requests that may arrive
    Faults                          \* TRUE: statements and COMMITs may fail

(* A company page posts no field at all when data is NULL; the page of a   *)
(* new company, and of no company in particular, has company NULL.         *)
CredentialForm ==
    [op : {"register", "login"}, cookie : Sessions \cup {NULL},
     name : Names, password : Passwords]
LogoutForm == [op : {"logout"}, cookie : Sessions \cup {NULL}]
SelectForm ==
    [op : {"select"}, cookie : Sessions \cup {NULL}, company : Companies \cup {NULL}]
CompanyForm ==
    [op : {"company"}, cookie : Sessions \cup {NULL},
     company : Companies \cup {NULL}, data : Texts \cup {NULL}]
Form == CredentialForm \cup LogoutForm \cup SelectForm \cup CompanyForm

UserRecord    == [name : Names, password : Passwords]
SessionRecord == [user : Users, company : Companies \cup {NULL}]
Members       == Users \X Companies

(* The marks of tables, and NULL, are nothing that can be stored. *)
ASSUME AccountsAssumption ==
    /\ Forms \subseteq Form /\ NULL \notin Forms
    /\ Short \subseteq Passwords
    /\ NULL \notin Requests \cup Users \cup Companies \cup Sessions \cup Texts
    /\ \A mark \in {Absent, Gone} :
          mark \notin UserRecord \cup SessionRecord \cup Texts \cup {"member"}

VARIABLES
    user, company, company_user, session,
    form,       \* the request that is served, NULL when there is none
    script,     \* the statements its handler still has to run
    status,     \* statusResponseWriter.statusCode
    me,         \* v.Session: id, user and company, each NULL while it is 0
    who,        \* the user in hand
    co          \* the company in hand

tables == << user, company, company_user, session >>
hand   == << me, who, co >>
vars   == << tables, form, script, status, hand >>

StatusOK == 200
StatusInternalServerError == 500

Anonymous == [id |-> NULL, user |-> NULL, company |-> NULL]

-----------------------------------------------------------------------------
Active(r) == form[r] # NULL

At(r, op) == script[r] # << >> /\ Head(script[r]) = op

ContinueWith(r, statements) ==
    /\ script' = [script EXCEPT ![r] = statements]
    /\ UNCHANGED << form, status >>

Continue(r) == ContinueWith(r, Tail(script[r]))

(* The handler renders its page or redirects, without an error. *)
Answer(r) == ContinueWith(r, << >>) /\ UNCHANGED << tables, hand >>

Fail(r) ==
    /\ script' = [script EXCEPT ![r] = << >>]
    /\ status' = [status EXCEPT ![r] = StatusInternalServerError]
    /\ UNCHANGED << tables, form, hand >>

(* The row that request r is about to write is locked by request s. *)
Waits(r, s) ==
    \/ At(r, "SessionUpdate") /\ Holds(session, s, me[r].id)
    \/ At(r, "SessionRemove") /\ Holds(session, s, me[r].id)
    \/ At(r, "CompanyUpdate") /\ Holds(company, s, co[r])

Runs(r, op) == At(r, op) /\ \A s \in Requests \ {r} : ~Waits(r, s)

-----------------------------------------------------------------------------
(* Before the handler: the middleware, and viewPreRender. *)

(* The rows that the query of models.UserGet returns: all of them. *)
UserRows(r) == {u \in Users : Live(Sees(user, r)[u])}

(* The session of the cookie, with the user that UserGet comes up with. *)
SessionGet(r, cookie) ==
    LET x == Sees(session, r) IN
    IF cookie # NULL /\ Live(x[cookie])
    THEN [id : {cookie}, user : UserRows(r), company : {x[cookie].company}]
    ELSE {Anonymous}

RequireLogin(f) == f.op \in {"select", "company"}

(* Mutant: a new company without its user. *)
NewCompanyAlone(f) == IF f.data = NULL THEN << >> ELSE << "CompanyInsert" >>

(* company.View.HandlePost for a new company. *)
NewCompany(f) == IF f.data = NULL THEN << "AddUser" >> ELSE << "CompanyInsert", "AddUser" >>

(* The statements of the handler that serves f, as far as it knows them.   *)
(* Without a session, pages that need a login redirect to it.              *)
Opening(f, s) ==
    CASE RequireLogin(f) /\ s.id = NULL -> << >>
      [] f.op \in {"register", "login"} -> << "UserGet" >>
      [] f.op = "logout" -> IF s.id = NULL THEN << >> ELSE << "SessionRemove" >>
      [] f.op = "select" /\ s.id # NULL -> << "CompanyGet", "SessionUpdate" >>
      [] f.op = "company" /\ s.id # NULL /\ f.company = NULL -> NewCompany(f)
      [] f.op = "company" /\ s.id # NULL /\ f.company # NULL ->
            IF f.data = NULL THEN << "CompanyGet" >>
            ELSE << "CompanyGet", "CompanyUpdate" >>

Begin(r, f) ==
    /\ ~Active(r)
    /\ \E s \in SessionGet(r, f.cookie) :
          /\ me'     = [me EXCEPT ![r] = s]
          /\ script' = [script EXCEPT ![r] = Opening(f, s)]
    /\ form' = [form EXCEPT ![r] = f]
    /\ UNCHANGED << tables, status, who, co >>

-----------------------------------------------------------------------------
(* models/user.go, for register.HandlePost and login.HandlePost *)

(* UserGet collects its filters but never appends them to the query.  Only *)
(* the empty name makes a difference: without filters there is no query.   *)
Found(r, name) == IF name = NoName THEN {} ELSE UserRows(r)

(* Mutant: any password will do. *)
AnyPassword(password, x) == TRUE

PasswordValid(password, x) == x.password = password

(* Of several rows UserGet returns the last, and they come in any order. *)
UserGet(r) ==
    /\ Runs(r, "UserGet")
    /\ LET f == form[r]
           found == Found(r, f.name) IN
       \/ /\ f.op = "register"
          /\ IF found # {} \/ f.password \in Short
             THEN Answer(r)
             ELSE ContinueWith(r, << "UserInsert", "SessionInsert" >>)
                  /\ UNCHANGED << tables, hand >>
       \/ f.op = "login" /\ found = {} /\ Answer(r)
       \/ /\ f.op = "login"
          /\ \E u \in found :
                IF PasswordValid(f.password, Sees(user, r)[u])
                THEN /\ who' = [who EXCEPT ![r] = u]
                     /\ ContinueWith(r, << "CompanyList", "SessionInsert" >>)
                     /\ UNCHANGED << tables, me, co >>
                ELSE Answer(r)

(* Mutant: the new id is dropped. *)
UserInsertDropsID(r) ==
    /\ Runs(r, "UserInsert")
    /\ IF FreshIds(user) = {} THEN Fail(r)
       ELSE \E u \in FreshIds(user) :
              /\ user' = Put(user, r, u, [name |-> form[r].name,
                                          password |-> form[r].password])
              /\ Continue(r)
              /\ UNCHANGED << company, company_user, session, hand >>

(* username is not UNIQUE. *)
UserInsert(r) ==
    /\ Runs(r, "UserInsert")
    /\ IF FreshIds(user) = {} THEN Fail(r)
       ELSE \E u \in FreshIds(user) :
              /\ user' = Put(user, r, u, [name |-> form[r].name,
                                          password |-> form[r].password])
              /\ who' = [who EXCEPT ![r] = u]
              /\ Continue(r)
              /\ UNCHANGED << company, company_user, session, me, co >>

-----------------------------------------------------------------------------
(* models/company.go *)

CompaniesOf(r, u) ==
    {c \in Companies : /\ Live(Sees(company, r)[c])
                       /\ Live(Sees(company_user, r)[<< u, c >>])}

(* login.HandlePost: the company of the new session, if there is but one. *)
CompanyList(r) ==
    /\ Runs(r, "CompanyList")
    /\ co' = [co EXCEPT ![r] = IF Cardinality(CompaniesOf(r, who[r])) = 1
                               THEN CHOOSE c \in CompaniesOf(r, who[r]) : TRUE
                               ELSE NULL]
    /\ Continue(r)
    /\ UNCHANGED << tables, me, who >>

(* Mutant: companies of others are found. *)
MatchesOfAnybody(r) ==
    {c \in Companies : Live(Sees(company, r)[c]) /\ form[r].company \in {c, NULL}}

(* The id of the address filters only if it is above 0. *)
CompanyMatches(r) ==
    {c \in CompaniesOf(r, me[r].user) : form[r].company \in {c, NULL}}

CompanyGet(r) ==
    /\ Runs(r, "CompanyGet")
    /\ IF Cardinality(CompanyMatches(r)) # 1 THEN Fail(r)
       ELSE \E c \in CompanyMatches(r) :
              /\ co' = [co EXCEPT ![r] = c]
              /\ Continue(r)
              /\ UNCHANGED << tables, me, who >>

CompanyInsert(r) ==
    /\ Runs(r, "CompanyInsert")
    /\ IF FreshIds(company) = {} THEN Fail(r)
       ELSE \E c \in FreshIds(company) :
              /\ company' = Put(company, r, c, form[r].data)
              /\ co' = [co EXCEPT ![r] = c]
              /\ Continue(r)
              /\ UNCHANGED << user, company_user, session, me, who >>

CompanyUpdate(r) ==
    /\ Runs(r, "CompanyUpdate")
    /\ company' = Put(company, r, co[r], form[r].data)
    /\ Continue(r)
    /\ UNCHANGED << user, company_user, session, hand >>

(* ON CONFLICT DO NOTHING.  The company in v.Session is not saved, and a   *)
(* new company of which nothing was posted has no id.                      *)
AddUser(r) ==
    /\ Runs(r, "AddUser")
    /\ IF co[r] = NULL THEN Fail(r)
       ELSE /\ company_user' =
                 IF Live(Sees(company_user, r)[<< me[r].user, co[r] >>])
                 THEN company_user
                 ELSE Put(company_user, r, << me[r].user, co[r] >>, "member")
            /\ me' = [me EXCEPT ![r].company = co[r]]
            /\ Continue(r)
            /\ UNCHANGED << user, company, session, who, co >>

-----------------------------------------------------------------------------
(* models/session.go *)

SessionInsert(r) ==
    /\ Runs(r, "SessionInsert")
    /\ IF FreshIds(session) = {} THEN Fail(r)
       ELSE \E k \in FreshIds(session) :
              /\ session' = Put(session, r, k, [user |-> who[r], company |-> co[r]])
              /\ Continue(r)
              /\ UNCHANGED << user, company, company_user, hand >>

(* company.Select: an UPDATE of the company alone, for user_id is not in    *)
(* it; after a logout it matches nothing.                                  *)
SessionUpdate(r) ==
    /\ Runs(r, "SessionUpdate")
    /\ session' = IF Live(Sees(session, r)[me[r].id])
                  THEN Put(session, r, me[r].id,
                           [Sees(session, r)[me[r].id] EXCEPT !.company = co[r]])
                  ELSE session
    /\ me' = [me EXCEPT ![r].company = co[r]]
    /\ Continue(r)
    /\ UNCHANGED << user, company, company_user, who, co >>

SessionRemove(r) ==
    /\ Runs(r, "SessionRemove")
    /\ session' = IF Live(Sees(session, r)[me[r].id])
                  THEN Put(session, r, me[r].id, Gone)
                  ELSE session
    /\ Continue(r)
    /\ UNCHANGED << user, company, company_user, hand >>

-----------------------------------------------------------------------------
(* After the handler: the middleware. *)

EndTransaction(r, commit) ==
    /\ user'         = Ended(user, r, commit)
    /\ company'      = Ended(company, r, commit)
    /\ company_user' = Ended(company_user, r, commit)
    /\ session'      = Ended(session, r, commit)
    /\ form'   = [form EXCEPT ![r] = NULL]
    /\ status' = [status EXCEPT ![r] = StatusOK]
    /\ me'     = [me EXCEPT ![r] = Anonymous]
    /\ who'    = [who EXCEPT ![r] = NULL]
    /\ co'     = [co EXCEPT ![r] = NULL]
    /\ UNCHANGED script

CommitOrRollback(r) ==
    /\ Active(r) /\ script[r] = << >>
    /\ EndTransaction(r, status[r] <= 400)

CommitFails(r) ==
    /\ Faults
    /\ Active(r) /\ script[r] = << >> /\ status[r] <= 400
    /\ EndTransaction(r, FALSE)

StatementFails(r) == Faults /\ script[r] # << >> /\ Fail(r)

-----------------------------------------------------------------------------
Init ==
    /\ user         = EmptyTable(Users)
    /\ company      = EmptyTable(Companies)
    /\ company_user = EmptyTable(Members)
    /\ session      = EmptyTable(Sessions)
    /\ form   = [r \in Requests |-> NULL]
    /\ script = [r \in Requests |-> << >>]
    /\ status = [r \in Requests |-> StatusOK]
    /\ me     = [r \in Requests |-> Anonymous]
    /\ who    = [r \in Requests |-> NULL]
    /\ co     = [r \in Requests |-> NULL]

Step(r) ==
    \/ UserGet(r) \/ UserInsert(r)
    \/ CompanyList(r) \/ CompanyGet(r) \/ CompanyInsert(r) \/ CompanyUpdate(r)
    \/ AddUser(r)
    \/ SessionInsert(r) \/ SessionUpdate(r) \/ SessionRemove(r)
    \/ CommitOrRollback(r)

Next ==
    \E r \in Requests :
        \/ \E f \in Forms : Begin(r, f)
        \/ Step(r) \/ CommitFails(r) \/ StatementFails(r)

Spec == Init /\ [][Next]_vars

=============================================================================
