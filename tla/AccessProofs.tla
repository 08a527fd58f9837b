---------------------------- MODULE AccessProofs ----------------------------
(***************************************************************************)
(* For any users, companies, sessions and requests: Accounts.tla           *)
(* implements Access.tla.                                                  *)
(***************************************************************************)
EXTENDS AccountsProofs

-----------------------------------------------------------------------------
(* The inductive invariant: what a request has written so far, by the      *)
(* statement it is at, is a part of one change of Access.tla, and all of   *)
(* it when the handler has ended.                                          *)

(* Row k is committed. *)
There(table, k) == k \in DOMAIN table /\ Live(table[k].val)

OwnsOnly(table, r, K) == \A k \in DOMAIN table : table[k].by = r <=> k \in K

(* The rows that request r has written. *)
Owns(r, U, C, M, K) ==
    /\ OwnsOnly(user, r, U)
    /\ OwnsOnly(company, r, C)
    /\ OwnsOnly(company_user, r, M)
    /\ OwnsOnly(session, r, K)

OwnsNothing(r) == Owns(r, {}, {}, {}, {})

SignsUp(r) ==
    \E u \in Users, k \in Sessions :
        /\ Owns(r, {u}, {}, {}, {k})
        /\ ~Live(user[u].val) /\ Live(user[u].new)
        /\ session[k].val = Absent /\ session[k].new = [user |-> u, company |-> NULL]

LogsIn(r) ==
    \E u \in Users, k \in Sessions, c \in Companies \cup {NULL} :
        /\ Owns(r, {}, {}, {}, {k})
        /\ session[k].val = Absent /\ session[k].new = [user |-> u, company |-> c]
        /\ There(user, u) /\ (c = NULL \/ There(company_user, << u, c >>))

Selects(r) ==
    \E u \in Users, k \in Sessions, c \in Companies :
        /\ Owns(r, {}, {}, {}, {k})
        /\ Live(session[k].val) /\ session[k].new = [session[k].val EXCEPT !.company = c]
        /\ There(user, u) /\ There(company_user, << u, c >>)

LogsOut(r) ==
    \E k \in Sessions :
        Owns(r, {}, {}, {}, {k}) /\ Live(session[k].val) /\ session[k].new = Gone

Creates(r) ==
    \E u \in Users, c \in Companies :
        /\ Owns(r, {}, {c}, {<< u, c >>}, {})
        /\ ~Live(company[c].val) /\ Live(company[c].new)
        /\ ~Live(company_user[<< u, c >>].val) /\ Live(company_user[<< u, c >>].new)
        /\ There(user, u)

Edits(r) ==
    \E c \in Companies :
        Owns(r, {}, {c}, {}, {}) /\ Live(company[c].val) /\ Live(company[c].new)

(* What the handler has done when it has ended without an error. *)
Done(r) ==
    \/ OwnsNothing(r) \/ SignsUp(r) \/ LogsIn(r) \/ Selects(r) \/ LogsOut(r)
    \/ Creates(r) \/ Edits(r)

(* What it has done before. *)
Doing(r) ==
    IF script[r] = << "SessionInsert" >> /\ form[r].op = "register"
    THEN /\ Owns(r, {who[r]}, {}, {}, {})
         /\ co[r] = NULL /\ who[r] \in Users /\ ~Live(user[who[r]].val)
    ELSE IF script[r] = << "AddUser" >> /\ co[r] # NULL
    THEN Owns(r, {}, {co[r]}, {}, {}) /\ ~Live(company[co[r]].val)
    ELSE OwnsNothing(r)

Work(r) ==
    /\ form[r] = NULL => OwnsNothing(r) /\ status[r] = StatusOK
    /\ script[r] # << >> => Doing(r) /\ status[r] = StatusOK
    /\ form[r] # NULL /\ script[r] = << >> /\ status[r] = StatusOK => Done(r)
    /\ me[r].user # NULL => There(user, me[r].user)

(* Whoever is a member of a company is a member of one that is there. *)
MembersOfCompanies ==
    \A m \in Members : Live(company_user[m].val) => Live(company[m[2]].val)

WInv == (\A r \in Requests : Work(r)) /\ MembersOfCompanies

-----------------------------------------------------------------------------
(* What a step of one request leaves of the rows of the others. *)

(* Only rows of r, or rows of nobody, differ between the tables t and u. *)
RowsOf(t, u, r) ==
    /\ DOMAIN u = DOMAIN t
    /\ \A k \in DOMAIN t :
          u[k] = t[k] \/ (t[k].by \in {NULL, r} /\ u[k].by \in {NULL, r})

(* What was there stays there. *)
Lasts(t, u) == \A k \in DOMAIN t : Live(t[k].val) => Live(u[k].val)

(* A step of r does so to every table. *)
RowsStep(r) ==
    /\ RowsOf(user, user', r) /\ RowsOf(company, company', r)
    /\ RowsOf(company_user, company_user', r) /\ RowsOf(session, session', r)
    /\ Lasts(user, user') /\ Lasts(company, company') /\ Lasts(company_user, company_user')

LEMMA RowsSame == ASSUME NEW t, NEW r PROVE RowsOf(t, t, r) /\ Lasts(t, t)
BY DEF RowsOf, Lasts

LEMMA RowsPut ==
    ASSUME NEW S, NEW I, NEW t \in [I -> Versions(S)], NEW r, NEW k \in I, NEW x,
           t[k].by \in {NULL, r}
    PROVE  RowsOf(t, Put(t, r, k, x), r) /\ Lasts(t, Put(t, r, k, x))
BY DEF RowsOf, Lasts, Put

LEMMA RowsEnded ==
    ASSUME NEW t, NEW r, NEW commit \in BOOLEAN
    PROVE  /\ RowsOf(t, Ended(t, r, commit), r)
           /\ (\A k \in DOMAIN t : t[k].by = r /\ Live(t[k].val) => Live(t[k].new))
                 => Lasts(t, Ended(t, r, commit))
<1>1. DOMAIN Ended(t, r, commit) = DOMAIN t
    BY DEF Ended
<1> QED BY <1>1, EndedRow DEF RowsOf, Lasts

LEMMA OwnsStays ==
    ASSUME NEW t, NEW u, NEW r \in Requests, RowsOf(t, u, r), NEW s \in Requests \ {r}
    PROVE  /\ \A K : OwnsOnly(t, s, K) => OwnsOnly(u, s, K)
           /\ \A k \in DOMAIN t : t[k].by = s => u[k] = t[k]
BY AccountsAssumption DEF RowsOf, OwnsOnly

LEMMA ThereStays ==
    ASSUME NEW t, NEW u, NEW r, RowsOf(t, u, r), Lasts(t, u), NEW k, There(t, k)
    PROVE  There(u, k)
BY DEF RowsOf, Lasts, There

LEMMA OthersWork ==
    ASSUME TypeOK, NEW r \in Requests, RowsStep(r), OnlyHandOf(r),
           NEW s \in Requests \ {r}, status'[s] = status[s], Work(s)
    PROVE  Work(s)'
<1>1. /\ form'[s] = form[s] /\ script'[s] = script[s]
      /\ me'[s] = me[s] /\ who'[s] = who[s] /\ co'[s] = co[s]
    BY DEF OnlyHandOf
<1>2. \A U, C, M, K : Owns(s, U, C, M, K) => Owns(s, U, C, M, K)'
    BY OwnsStays DEF RowsStep, Owns
<1>3. /\ \A k \in Users : user[k].by = s => user'[k] = user[k]
      /\ \A k \in Companies : company[k].by = s => company'[k] = company[k]
      /\ \A k \in Members : company_user[k].by = s => company_user'[k] = company_user[k]
      /\ \A k \in Sessions : session[k].by = s => session'[k] = session[k]
    BY OwnsStays DEF RowsStep, TypeOK
<1>4. /\ \A k : There(user, k) => There(user, k)'
      /\ \A k : There(company_user, k) => There(company_user, k)'
    BY ThereStays DEF RowsStep
<1>5. /\ DOMAIN user = Users /\ DOMAIN company = Companies
      /\ DOMAIN company_user = Members /\ DOMAIN session = Sessions
      /\ \A u \in Users, c \in Companies : << u, c >> \in Members
    BY DEF TypeOK, Members
<1>6. OwnsNothing(s) => OwnsNothing(s)'
    BY <1>2 DEF OwnsNothing
<1>7. SignsUp(s) => SignsUp(s)'
    <2> SUFFICES ASSUME SignsUp(s)
                 PROVE  SignsUp(s)'
        OBVIOUS
    <2>1. PICK u \in Users, k \in Sessions :
             /\ Owns(s, {u}, {}, {}, {k})
             /\ ~Live(user[u].val) /\ Live(user[u].new)
             /\ session[k].val = Absent /\ session[k].new = [user |-> u, company |-> NULL]
        BY DEF SignsUp
    <2>2. user'[u] = user[u] /\ session'[k] = session[k]
        BY <1>3, <1>5, <2>1 DEF Owns, OwnsOnly
    <2> QED BY <1>2, <2>1, <2>2 DEF SignsUp
<1>8. LogsIn(s) => LogsIn(s)'
    <2> SUFFICES ASSUME LogsIn(s)
                 PROVE  LogsIn(s)'
        OBVIOUS
    <2>1. PICK u \in Users, k \in Sessions, c \in Companies \cup {NULL} :
             /\ Owns(s, {}, {}, {}, {k})
             /\ session[k].val = Absent /\ session[k].new = [user |-> u, company |-> c]
             /\ There(user, u) /\ (c = NULL \/ There(company_user, << u, c >>))
        BY DEF LogsIn
    <2>2. session'[k] = session[k]
        BY <1>3, <1>5, <2>1 DEF Owns, OwnsOnly
    <2>3. There(user, u)' /\ (c = NULL \/ There(company_user, << u, c >>)')
        BY <1>4, <2>1
    <2> QED BY <1>2, <2>1, <2>2, <2>3 DEF LogsIn
<1>9. Selects(s) => Selects(s)'
    <2> SUFFICES ASSUME Selects(s)
                 PROVE  Selects(s)'
        OBVIOUS
    <2>1. PICK u \in Users, k \in Sessions, c \in Companies :
             /\ Owns(s, {}, {}, {}, {k})
             /\ Live(session[k].val) /\ session[k].new = [session[k].val EXCEPT !.company = c]
             /\ There(user, u) /\ There(company_user, << u, c >>)
        BY DEF Selects
    <2>2. session'[k] = session[k]
        BY <1>3, <1>5, <2>1 DEF Owns, OwnsOnly
    <2>3. There(user, u)' /\ There(company_user, << u, c >>)'
        BY <1>4, <2>1
    <2>4. session'[k].new = [session'[k].val EXCEPT !.company = c]
        BY <2>1, <2>2
    <2> QED BY <1>2, <2>1, <2>2, <2>3, <2>4 DEF Selects
<1>10. LogsOut(s) => LogsOut(s)'
    <2> SUFFICES ASSUME NEW k \in Sessions, Owns(s, {}, {}, {}, {k}),
                        Live(session[k].val), session[k].new = Gone
                 PROVE  LogsOut(s)'
        BY DEF LogsOut
    <2>1. session'[k] = session[k]
        BY <1>3, <1>5 DEF Owns, OwnsOnly
    <2> QED BY <1>2, <2>1 DEF LogsOut
<1>11. Creates(s) => Creates(s)'
    <2> SUFFICES ASSUME Creates(s)
                 PROVE  Creates(s)'
        OBVIOUS
    <2>1. PICK u \in Users, c \in Companies :
             /\ Owns(s, {}, {c}, {<< u, c >>}, {})
             /\ ~Live(company[c].val) /\ Live(company[c].new)
             /\ ~Live(company_user[<< u, c >>].val) /\ Live(company_user[<< u, c >>].new)
             /\ There(user, u)
        BY DEF Creates
    <2>2. company'[c] = company[c] /\ company_user'[<< u, c >>] = company_user[<< u, c >>]
        BY <1>3, <1>5, <2>1 DEF Owns, OwnsOnly
    <2> QED BY <1>2, <1>4, <2>1, <2>2 DEF Creates
<1>12. Edits(s) => Edits(s)'
    <2> SUFFICES ASSUME NEW c \in Companies, Owns(s, {}, {c}, {}, {}),
                        Live(company[c].val), Live(company[c].new)
                 PROVE  Edits(s)'
        BY DEF Edits
    <2>1. company'[c] = company[c]
        BY <1>3, <1>5 DEF Owns, OwnsOnly
    <2> QED BY <1>2, <2>1 DEF Edits
<1>13. Done(s) => Done(s)'
    BY <1>6, <1>7, <1>8, <1>9, <1>10, <1>11, <1>12 DEF Done
<1>14. Doing(s) => Doing(s)'
    <2>1. ASSUME Owns(s, {who[s]}, {}, {}, {}), ~Live(user[who[s]].val),
                 who[s] \in Users
          PROVE  Owns(s, {who[s]}, {}, {}, {})' /\ ~Live(user'[who[s]].val)
        <3>1. user'[who[s]] = user[who[s]]
            BY <1>3, <1>5, <2>1 DEF Owns, OwnsOnly
        <3>2. Owns(s, {who[s]}, {}, {}, {})'
            BY <1>1, <1>2, <2>1 DEF Owns
        <3> QED BY <2>1, <3>1, <3>2
    <2>2. ASSUME Owns(s, {}, {co[s]}, {}, {}), ~Live(company[co[s]].val),
                 co[s] \in Companies
          PROVE  Owns(s, {}, {co[s]}, {}, {})' /\ ~Live(company'[co[s]].val)
        <3>1. company'[co[s]] = company[co[s]]
            BY <1>3, <1>5, <2>2 DEF Owns, OwnsOnly
        <3>2. Owns(s, {}, {co[s]}, {}, {})'
            BY <1>1, <1>2, <2>2 DEF Owns
        <3> QED BY <2>2, <3>1, <3>2
    <2>3. who[s] \in Users \cup {NULL} /\ co[s] \in Companies \cup {NULL}
        BY DEF TypeOK
    <2> QED BY <1>1, <1>6, <2>1, <2>2, <2>3 DEF Doing
<1> QED BY <1>1, <1>4, <1>6, <1>13, <1>14 DEF Work

-----------------------------------------------------------------------------
(* A statement writes at most one row of a table, and none of another's.   *)

PutOrSame(t, u, r) ==
    \/ u = t
    \/ \E k \in DOMAIN t : \E x : t[k].by \in {NULL, r} /\ u = Put(t, r, k, x)

LEMMA PutOrSameRows ==
    ASSUME NEW S, NEW I, NEW t \in [I -> Versions(S)], NEW u, NEW r, PutOrSame(t, u, r)
    PROVE  /\ RowsOf(t, u, r) /\ Lasts(t, u)
           /\ \A k \in I : u[k].val = t[k].val
<1>1. CASE u = t
    BY <1>1, RowsSame
<1>2. ASSUME NEW k \in DOMAIN t, NEW x, t[k].by \in {NULL, r}, u = Put(t, r, k, x)
      PROVE  /\ RowsOf(t, u, r) /\ Lasts(t, u)
             /\ \A j \in I : u[j].val = t[j].val
    <2>1. k \in I
        OBVIOUS
    <2>2. RowsOf(t, u, r) /\ Lasts(t, u)
        BY <1>2, <2>1, RowsPut
    <2>3. \A j \in I : u[j].val = t[j].val
        BY <1>2 DEF Put
    <2> QED BY <2>2, <2>3
<1> QED BY <1>1, <1>2 DEF PutOrSame

(* The rows of a request after its first write into a table. *)
LEMMA OwnsPut ==
    ASSUME NEW t, NEW r, NEW k \in DOMAIN t, NEW x, OwnsOnly(t, r, {})
    PROVE  /\ OwnsOnly(Put(t, r, k, x), r, {k})
           /\ Put(t, r, k, x)[k] = [val |-> t[k].val, by |-> r, new |-> x]
           /\ t[k].by # r
BY DEF OwnsOnly, Put

LEMMA StatementWork ==
    ASSUME IInv, WInv, NEW r \in Requests, OnlyHandOf(r),
           \A s \in Requests \ {r} : status'[s] = status[s],
           PutOrSame(user, user', r), PutOrSame(company, company', r),
           PutOrSame(company_user, company_user', r), PutOrSame(session, session', r),
           Work(r)'
    PROVE  WInv'
<1>1. /\ TypeOK
      /\ user \in [Users -> Versions(UserRecord)]
      /\ company \in [Companies -> Versions(Texts)]
      /\ company_user \in [Members -> Versions({"member"})]
      /\ session \in [Sessions -> Versions(SessionRecord)]
    BY DEF IInv, TypeOK
<1>2. RowsOf(user, user', r) /\ Lasts(user, user')
    BY <1>1, PutOrSameRows
<1>3. /\ RowsOf(company, company', r) /\ Lasts(company, company')
      /\ \A c \in Companies : company'[c].val = company[c].val
    BY <1>1, PutOrSameRows
<1>4. /\ RowsOf(company_user, company_user', r) /\ Lasts(company_user, company_user')
      /\ \A m \in Members : company_user'[m].val = company_user[m].val
    BY <1>1, PutOrSameRows
<1>5. RowsOf(session, session', r)
    BY <1>1, PutOrSameRows
<1>6. \A s \in Requests \ {r} : Work(s)'
    BY <1>1, <1>2, <1>3, <1>4, <1>5, OthersWork DEF RowsStep, WInv
<1>7. MembersOfCompanies'
    BY <1>3, <1>4 DEF WInv, MembersOfCompanies, Members
<1> QED BY <1>6, <1>7 DEF WInv

(* A statement that writes nothing. *)
LEMMA ReadWork ==
    ASSUME IInv, WInv, NEW r \in Requests, OnlyHandOf(r), UNCHANGED tables,
           \A s \in Requests \ {r} : status'[s] = status[s], Work(r)'
    PROVE  WInv'
BY StatementWork DEF PutOrSame, tables

(* What is known of r at a statement. *)
LEMMA WorkAt ==
    ASSUME IInv, WInv, NEW r \in Requests, NEW op, At(r, op)
    PROVE  /\ script[r] # << >> /\ form[r] # NULL /\ Work(r)
           /\ Doing(r) /\ status[r] = StatusOK
           /\ op \notin {"SessionInsert", "AddUser"} => OwnsNothing(r)
           /\ form[r].op # "register" /\ op # "AddUser" => OwnsNothing(r)
<1>1. /\ script[r] # << >> /\ form[r] # NULL /\ Head(script[r]) = op
      /\ Work(r)
    BY AtStatement DEF WInv
<1>2. Doing(r) /\ status[r] = StatusOK
    BY <1>1 DEF Work
<1>3. /\ script[r] = << "SessionInsert" >> => op = "SessionInsert"
      /\ script[r] = << "AddUser" >> => op = "AddUser"
    BY <1>1, Tuples
<1> QED BY <1>1, <1>2, <1>3 DEF Doing

(* A step of the handler keeps the form, and the status unless it fails. *)
LEMMA ContinueFrame ==
    ASSUME IInv, NEW r \in Requests, NEW q, ContinueWith(r, q)
    PROVE  script'[r] = q /\ form'[r] = form[r] /\ UNCHANGED status
BY DEF ContinueWith, IInv, TypeOK

LEMMA FailWork ==
    ASSUME IInv, WInv, NEW r \in Requests, script[r] # << >>, Fail(r)
    PROVE  WInv'
<1>1. /\ OnlyHandOf(r) /\ script'[r] = << >> /\ form'[r] = form[r] /\ form[r] # NULL
      /\ UNCHANGED << tables, me >> /\ status'[r] = StatusInternalServerError
      /\ \A s \in Requests \ {r} : status'[s] = status[s]
    BY DEF Fail, OnlyHandOf, IInv, TypeOK, ScriptOf, hand
<1>2. me'[r].user # NULL => There(user, me[r].user)'
    BY <1>1 DEF WInv, Work, There, tables
<1>3. Work(r)'
    BY <1>1, <1>2 DEF Work, StatusOK, StatusInternalServerError
<1> QED BY <1>1, <1>3, ReadWork

LEMMA UserGetWork ==
    ASSUME IInv, WInv, NEW r \in Requests, UserGet(r)
    PROVE  WInv'
<1>1. At(r, "UserGet")
    BY DEF UserGet, Runs
<1>2. OwnsNothing(r) /\ form[r] # NULL /\ Work(r) /\ status[r] = StatusOK
    BY <1>1, WorkAt
<1>3. PICK q \in {<< >>, << "UserInsert", "SessionInsert" >>,
                 << "CompanyList", "SessionInsert" >>} : ContinueWith(r, q)
    BY DEF UserGet, Answer
<1>4. /\ UNCHANGED << tables, me, co >>
      /\ \A s \in Requests \ {r} : who'[s] = who[s]
    BY DEF UserGet, Answer, hand, IInv, TypeOK
<1>5. /\ OnlyHandOf(r) /\ script'[r] = q /\ form'[r] = form[r] /\ UNCHANGED status
    BY <1>3, <1>4, ContinueFrame DEF ContinueWith, OnlyHandOf, IInv, TypeOK
<1>6. OwnsNothing(r)'
    BY <1>2, <1>4 DEF OwnsNothing, Owns, OwnsOnly, tables
<1>7. q \notin {<< "SessionInsert" >>, << "AddUser" >>}
    BY Tuples
<1>8. me'[r].user # NULL => There(user, me[r].user)'
    BY <1>2, <1>4 DEF Work, There, tables
<1>9. Work(r)'
    BY <1>2, <1>5, <1>6, <1>7, <1>8 DEF Work, Doing, Done
<1> QED BY <1>4, <1>5, <1>9, ReadWork

LEMMA UserInsertWork ==
    ASSUME IInv, MInv, WInv, NEW r \in Requests, UserInsert(r)
    PROVE  WInv'
<1>1. At(r, "UserInsert")
    BY DEF UserInsert, Runs
<1>2. /\ OwnsNothing(r) /\ form[r] # NULL /\ Work(r) /\ status[r] = StatusOK
      /\ script[r] # << >>
    BY <1>1, WorkAt
<1>3. form[r].op = "register" /\ script[r] = << "UserInsert", "SessionInsert" >>
    BY <1>1, AtStatement, ScriptsAt
<1>4. co[r] = NULL /\ Tail(script[r]) = << "SessionInsert" >>
    BY <1>3, Tuples DEF MInv, CompanyInHand
<1>5. CASE Fail(r)
    BY <1>2, <1>5, FailWork
<1>6. ASSUME NEW u \in FreshIds(user), NEW x, user' = Put(user, r, u, x),
             who' = [who EXCEPT ![r] = u], Continue(r),
             UNCHANGED << company, company_user, session, me, co >>
      PROVE  WInv'
    <2>1. /\ OnlyHandOf(r) /\ script'[r] = << "SessionInsert" >> /\ form'[r] = form[r]
          /\ UNCHANGED status /\ who'[r] = u /\ co'[r] = NULL
        BY <1>4, <1>6 DEF Continue, ContinueWith, OnlyHandOf, IInv, TypeOK
    <2>2. /\ u \in Users /\ user[u].by = NULL /\ user[u].val = Absent
          /\ user \in [Users -> Versions(UserRecord)]
        BY FreshUnseen DEF IInv, TypeOK
    <2>3. OwnsOnly(user', r, {u}) /\ user'[u].val = Absent
        <3>1. OwnsOnly(user, r, {}) /\ u \in DOMAIN user
            BY <1>2, <2>2 DEF OwnsNothing, Owns
        <3>2. /\ OwnsOnly(Put(user, r, u, x), r, {u})
              /\ Put(user, r, u, x)[u] = [val |-> user[u].val, by |-> r, new |-> x]
            BY <3>1, OwnsPut
        <3> QED BY <1>6, <2>2, <3>2
    <2>4. Owns(r, {who[r]}, {}, {}, {})'
        BY <1>2, <1>6, <2>1, <2>3 DEF OwnsNothing, Owns, OwnsOnly
    <2>5. PutOrSame(user, user', r)
        BY <1>6, <2>2 DEF PutOrSame
    <2>6. me'[r].user # NULL => There(user, me[r].user)'
        BY <1>2, <1>6, <2>2, <2>5, PutOrSameRows, ThereStays DEF Work
    <2>7. Work(r)'
        BY <1>2, <1>3, <2>1, <2>2, <2>3, <2>4, <2>6, Tuples DEF Work, Doing, Live
    <2> QED BY <1>6, <2>1, <2>5, <2>7, StatementWork DEF PutOrSame
<1> QED BY <1>5, <1>6 DEF UserInsert

LEMMA CompanyListWork ==
    ASSUME IInv, WInv, NEW r \in Requests, CompanyList(r)
    PROVE  WInv'
<1>1. At(r, "CompanyList")
    BY DEF CompanyList, Runs
<1>2. OwnsNothing(r) /\ form[r] # NULL /\ Work(r) /\ status[r] = StatusOK
    BY <1>1, WorkAt
<1>3. form[r].op = "login" /\ script[r] = << "CompanyList", "SessionInsert" >>
    BY <1>1, AtStatement, ScriptsAt
<1>4. Tail(script[r]) = << "SessionInsert" >>
    BY <1>3, Tuples
<1>5. /\ OnlyHandOf(r) /\ script'[r] = << "SessionInsert" >> /\ form'[r] = form[r]
      /\ UNCHANGED << tables, status, me >>
    BY <1>4 DEF CompanyList, Continue, ContinueWith, OnlyHandOf, IInv, TypeOK
<1>6. OwnsNothing(r)'
    BY <1>2, <1>5 DEF OwnsNothing, Owns, OwnsOnly, tables
<1>7. << "SessionInsert" >> # << "AddUser" >> /\ << "SessionInsert" >> # << >>
    BY Tuples
<1>8. me'[r].user # NULL => There(user, me[r].user)'
    BY <1>2, <1>5 DEF Work, There, tables
<1>9. Work(r)'
    BY <1>2, <1>3, <1>5, <1>6, <1>7, <1>8 DEF Work, Doing
<1> QED BY <1>5, <1>9, ReadWork

LEMMA CompanyGetWork ==
    ASSUME IInv, WInv, NEW r \in Requests, CompanyGet(r)
    PROVE  WInv'
<1>1. At(r, "CompanyGet")
    BY DEF CompanyGet, Runs
<1>2. /\ OwnsNothing(r) /\ form[r] # NULL /\ Work(r) /\ status[r] = StatusOK
      /\ script[r] # << >>
    BY <1>1, WorkAt
<1>3. Tail(script[r]) \in {<< >>, << "SessionUpdate" >>, << "CompanyUpdate" >>}
    BY <1>1, AtStatement, ScriptsAt
<1>4. CASE Fail(r)
    BY <1>2, <1>4, FailWork
<1>5. ASSUME NEW c, co' = [co EXCEPT ![r] = c], Continue(r), UNCHANGED << tables, me, who >>
      PROVE  WInv'
    <2>1. /\ OnlyHandOf(r) /\ script'[r] = Tail(script[r]) /\ form'[r] = form[r]
          /\ UNCHANGED status
        BY <1>5 DEF Continue, ContinueWith, OnlyHandOf, IInv, TypeOK
    <2>2. OwnsNothing(r)'
        BY <1>2, <1>5 DEF OwnsNothing, Owns, OwnsOnly, tables
    <2>3. script'[r] \notin {<< "SessionInsert" >>, << "AddUser" >>}
        <3>1. /\ << "SessionUpdate" >> # << >> /\ Head(<< "SessionUpdate" >>) = "SessionUpdate"
              /\ << "CompanyUpdate" >> # << >> /\ Head(<< "CompanyUpdate" >>) = "CompanyUpdate"
              /\ << "SessionInsert" >> # << >> /\ Head(<< "SessionInsert" >>) = "SessionInsert"
              /\ << "AddUser" >> # << >> /\ Head(<< "AddUser" >>) = "AddUser"
            BY Tuples
        <3> QED BY <1>3, <2>1, <3>1
    <2>4. me'[r].user # NULL => There(user, me[r].user)'
        BY <1>2, <1>5 DEF Work, There, tables
    <2>5. Work(r)'
        BY <1>2, <2>1, <2>2, <2>3, <2>4 DEF Work, Doing, Done
    <2> QED BY <1>5, <2>1, <2>5, ReadWork
<1> QED BY <1>4, <1>5 DEF CompanyGet

LEMMA CompanyInsertWork ==
    ASSUME IInv, WInv, NEW r \in Requests, CompanyInsert(r)
    PROVE  WInv'
<1>1. At(r, "CompanyInsert")
    BY DEF CompanyInsert, Runs
<1>2. /\ OwnsNothing(r) /\ form[r] # NULL /\ Work(r) /\ status[r] = StatusOK
      /\ script[r] # << >>
    BY <1>1, WorkAt
<1>3. script[r] = << "CompanyInsert", "AddUser" >>
    BY <1>1, AtStatement, ScriptsAt
<1>4. Tail(script[r]) = << "AddUser" >>
    BY <1>3, Tuples
<1>5. CASE Fail(r)
    BY <1>2, <1>5, FailWork
<1>6. ASSUME NEW c \in FreshIds(company), NEW x, company' = Put(company, r, c, x),
             co' = [co EXCEPT ![r] = c], Continue(r),
             UNCHANGED << user, company_user, session, me, who >>
      PROVE  WInv'
    <2>1. /\ c \in Companies /\ company[c].by = NULL /\ company[c].val = Absent
          /\ company \in [Companies -> Versions(Texts)] /\ c # NULL
        BY FreshUnseen, AccountsAssumption DEF IInv, TypeOK
    <2>2. /\ OnlyHandOf(r) /\ script'[r] = << "AddUser" >> /\ form'[r] = form[r]
          /\ UNCHANGED status /\ co'[r] = c
        BY <1>4, <1>6 DEF Continue, ContinueWith, OnlyHandOf, IInv, TypeOK
    <2>3. OwnsOnly(company', r, {c}) /\ company'[c].val = Absent
        <3>1. OwnsOnly(company, r, {}) /\ c \in DOMAIN company
            BY <1>2, <2>1 DEF OwnsNothing, Owns
        <3>2. /\ OwnsOnly(Put(company, r, c, x), r, {c})
              /\ Put(company, r, c, x)[c] = [val |-> company[c].val, by |-> r, new |-> x]
            BY <3>1, OwnsPut
        <3> QED BY <1>6, <2>1, <3>2
    <2>4. Owns(r, {}, {co[r]}, {}, {})'
        BY <1>2, <1>6, <2>2, <2>3 DEF OwnsNothing, Owns, OwnsOnly
    <2>5. << "AddUser" >> # << "SessionInsert" >> /\ << "AddUser" >> # << >>
        BY Tuples
    <2>6. me'[r].user # NULL => There(user, me[r].user)'
        BY <1>2, <1>6 DEF Work, There
    <2>7. Work(r)'
        BY <1>2, <2>1, <2>2, <2>3, <2>4, <2>5, <2>6 DEF Work, Doing, Live
    <2>8. PutOrSame(company, company', r)
        BY <1>6, <2>1 DEF PutOrSame
    <2> QED BY <1>6, <2>2, <2>7, <2>8, StatementWork DEF PutOrSame
<1> QED BY <1>5, <1>6 DEF CompanyInsert

LEMMA CompanyUpdateWork ==
    ASSUME IInv, MInv, WInv, NEW r \in Requests, CompanyUpdate(r)
    PROVE  WInv'
<1>1. At(r, "CompanyUpdate")
    BY DEF CompanyUpdate, Runs
<1>2. OwnsNothing(r) /\ form[r] # NULL /\ Work(r) /\ status[r] = StatusOK
    BY <1>1, WorkAt
<1>3. form[r].data \in Texts /\ script[r] = << "CompanyUpdate" >>
    BY <1>1, AtStatement, ScriptsAt, FormType
<1>4. Tail(script[r]) = << >> /\ Finds(r, co[r])
    BY <1>3, Tuples DEF MInv, CompanyInHand
<1>5. co[r] \in Companies /\ company \in [Companies -> Versions(Texts)]
    BY <1>4 DEF Finds, IInv, TypeOK
<1>6. company[co[r]].by # r /\ Live(company[co[r]].val)
    BY <1>2, <1>4, <1>5 DEF OwnsNothing, Owns, OwnsOnly, Finds, Sees
<1>7. company[co[r]].by = NULL
    <2> SUFFICES ASSUME NEW s \in Requests \ {r}, company[co[r]].by = s
                 PROVE  FALSE
        BY <1>5, <1>6 DEF Versions
    <2> QED BY <1>1, <1>5, <1>6 DEF CompanyUpdate, Runs, Waits, Holds
<1>8. company' = Put(company, r, co[r], form[r].data)
    BY DEF CompanyUpdate
<1>9. /\ OnlyHandOf(r) /\ script'[r] = << >> /\ form'[r] = form[r]
      /\ UNCHANGED << user, company_user, session, status, me, co >>
    BY <1>4 DEF CompanyUpdate, Continue, ContinueWith, OnlyHandOf, IInv, TypeOK, hand
<1>10. /\ OwnsOnly(company', r, {co[r]})
       /\ company'[co[r]].val = company[co[r]].val /\ company'[co[r]].new = form[r].data
    <2> DEFINE c == co[r]
               x == form[r].data
    <2>1. OwnsOnly(company, r, {}) /\ c \in DOMAIN company
        BY <1>2, <1>5 DEF OwnsNothing, Owns
    <2>2. /\ OwnsOnly(Put(company, r, c, x), r, {c})
          /\ Put(company, r, c, x)[c] = [val |-> company[c].val, by |-> r, new |-> x]
        BY <2>1, OwnsPut
    <2> QED BY <1>8, <2>2
<1>11. Edits(r)'
    <2>1. Owns(r, {}, {co[r]}, {}, {})'
        BY <1>2, <1>9, <1>10 DEF OwnsNothing, Owns, OwnsOnly
    <2> QED BY <1>3, <1>5, <1>6, <1>9, <1>10, <2>1, TextsLive DEF Edits, Owns
<1>12. me'[r].user # NULL => There(user, me[r].user)'
    BY <1>2, <1>9 DEF Work, There
<1>13. Work(r)'
    BY <1>2, <1>9, <1>11, <1>12 DEF Work, Done
<1>14. PutOrSame(company, company', r)
    BY <1>5, <1>7, <1>8 DEF PutOrSame
<1> QED BY <1>9, <1>13, <1>14, StatementWork DEF PutOrSame

(* What a request that owns nothing sees is what is committed. *)
LEMMA NothingOwned ==
    ASSUME IInv, NEW r \in Requests, OwnsNothing(r)
    PROVE  /\ \A k \in Sessions : session[k].by # r /\ Sees(session, r)[k] = session[k].val
           /\ \A u, c : Member(r, u, c) => There(company_user, << u, c >>)
           /\ \A u \in Users : Live(Sees(user, r)[u]) => There(user, u)
<1>1. /\ DOMAIN user = Users /\ DOMAIN session = Sessions
      /\ DOMAIN company_user = Members
    BY DEF IInv, TypeOK
<1>2. /\ \A k \in Users : user[k].by # r
      /\ \A k \in Sessions : session[k].by # r
      /\ \A k \in Members : company_user[k].by # r
    BY <1>1 DEF OwnsNothing, Owns, OwnsOnly
<1>3. /\ \A k \in Users : Sees(user, r)[k] = user[k].val
      /\ \A k \in Sessions : Sees(session, r)[k] = session[k].val
      /\ \A k \in Members : Sees(company_user, r)[k] = company_user[k].val
    BY <1>1, <1>2 DEF Sees
<1>4. \A u \in Users, c \in Companies : << u, c >> \in Members
    BY DEF Members
<1> QED BY <1>1, <1>2, <1>3, <1>4 DEF Member, There

LEMMA AddUserWork ==
    ASSUME IInv, MInv, WInv, NEW r \in Requests, AddUser(r)
    PROVE  WInv'
<1>1. At(r, "AddUser")
    BY DEF AddUser, Runs
<1>2. form[r] # NULL /\ Work(r) /\ Doing(r) /\ status[r] = StatusOK /\ script[r] # << >>
    BY <1>1, WorkAt
<1>3. form[r].op = "company" /\ script[r] = << "AddUser" >>
    BY <1>1, AtStatement, ScriptsAt
<1>4. ~LetsIn(form[r]) /\ Tail(script[r]) = << >>
    BY <1>3, Tuples DEF LetsIn
<1>5. CASE Fail(r)
    BY <1>2, <1>5, FailWork
<1>6. CASE /\ co[r] # NULL
           /\ company_user' = IF Live(Sees(company_user, r)[<< me[r].user, co[r] >>])
                              THEN company_user
                              ELSE Put(company_user, r, << me[r].user, co[r] >>, "member")
           /\ me' = [me EXCEPT ![r].company = co[r]]
           /\ Continue(r)
           /\ UNCHANGED << user, company, session, who, co >>
    <2>0. PICK u \in Users, c \in Companies : u = me[r].user /\ c = co[r]
        BY <1>2, <1>4, <1>6 DEF IInv, HandOf, TypeOK
    <2> DEFINE m == << u, c >>
    <2>1. /\ m \in Members /\ m[2] = c
          /\ company_user \in [Members -> Versions({"member"})]
        BY DEF IInv, TypeOK, Members
    <2>2. Owns(r, {}, {c}, {}, {}) /\ ~Live(company[c].val)
        BY <1>2, <1>3, <1>6, <2>0, Tuples DEF Doing
    <2>3. There(user, u)
        BY <1>2, <2>0, AccountsAssumption DEF Work
    <2>4. company[c].by = r /\ Live(company[c].new)
        <3>1. c \in DOMAIN company
            BY <2>1 DEF IInv, TypeOK
        <3>2. company[c].by = r
            BY <2>2, <3>1 DEF Owns, OwnsOnly
        <3> QED BY <2>1, <3>2 DEF MInv, CompaniesWritten
    <2>5. OwnsOnly(company_user, r, {}) /\ m \in DOMAIN company_user
        BY <2>1, <2>2 DEF Owns
    <2>6. company_user[m].by = NULL
        <3>1. company_user[m].by # r
            BY <2>5 DEF OwnsOnly
        <3> QED BY <2>1, <2>4, <3>1 DEF MInv, MembersJoin
    <2>7. ~Live(company_user[m].val)
        BY <2>1, <2>2 DEF WInv, MembersOfCompanies
    <2>8. company_user' = Put(company_user, r, m, "member")
        <3>1. Sees(company_user, r)[m] = company_user[m].val
            BY <2>5 DEF Sees, OwnsOnly
        <3> QED BY <1>6, <2>0, <2>7, <3>1
    <2>9. /\ OwnsOnly(company_user', r, {m})
          /\ company_user'[m] = [val |-> company_user[m].val, by |-> r, new |-> "member"]
        <3>1. /\ OwnsOnly(Put(company_user, r, m, "member"), r, {m})
              /\ Put(company_user, r, m, "member")[m]
                    = [val |-> company_user[m].val, by |-> r, new |-> "member"]
            BY <2>5, OwnsPut
        <3> QED BY <2>8, <3>1
    <2>10. Owns(r, {}, {c}, {m}, {})'
        BY <1>6, <2>2, <2>9 DEF Owns, OwnsOnly
    <2>11. ~Live(company_user'[m].val) /\ Live(company_user'[m].new)
        BY <2>7, <2>9, TextsLive
    <2>12. There(user, u)'
        BY <1>6, <2>3 DEF There
    <2>13. Creates(r)'
        BY <1>6, <2>2, <2>4, <2>10, <2>11, <2>12 DEF Creates
    <2>14. /\ OnlyHandOf(r) /\ script'[r] = << >> /\ form'[r] = form[r] /\ UNCHANGED status
           /\ me'[r].user = u
        BY <1>4, <1>6, <2>0 DEF Continue, ContinueWith, OnlyHandOf, IInv, TypeOK
    <2>15. me'[r].user # NULL => There(user, me[r].user)'
        BY <1>6, <2>3, <2>14 DEF There
    <2>16. Work(r)'
        BY <1>2, <2>13, <2>14, <2>15 DEF Work, Done
    <2>17. PutOrSame(company_user, company_user', r)
        BY <2>5, <2>6, <2>8 DEF PutOrSame
    <2> QED BY <1>6, <2>14, <2>16, <2>17, StatementWork DEF PutOrSame
<1> QED BY <1>5, <1>6 DEF AddUser

LEMMA SessionInsertWork ==
    ASSUME IInv, MInv, WInv, NEW r \in Requests, SessionInsert(r)
    PROVE  WInv'
<1>1. At(r, "SessionInsert")
    BY DEF SessionInsert, Runs
<1>2. form[r] # NULL /\ Work(r) /\ Doing(r) /\ status[r] = StatusOK /\ script[r] # << >>
    BY <1>1, WorkAt
<1>3. LetsIn(form[r]) /\ script[r] = << "SessionInsert" >>
    BY <1>1, AtStatement, ScriptsAt
<1>4. /\ Tail(script[r]) = << >> /\ Knows(r, who[r])
      /\ co[r] = NULL \/ Member(r, who[r], co[r])
    <2>1. << "SessionInsert" >> \notin {<< "SessionUpdate" >>, << "CompanyUpdate" >>}
        BY Tuples
    <2> QED BY <1>3, Tuples DEF IInv, HandOf, MInv, CompanyInHand
<1>5. CASE Fail(r)
    BY <1>2, <1>5, FailWork
<1>6. ASSUME NEW k \in FreshIds(session),
             session' = Put(session, r, k, [user |-> who[r], company |-> co[r]]),
             Continue(r), UNCHANGED << user, company, company_user, hand >>
      PROVE  WInv'
    <2>0. PICK u \in Users, c \in Companies \cup {NULL} : u = who[r] /\ c = co[r]
        BY <1>4 DEF Knows, IInv, TypeOK
    <2> DEFINE x == [user |-> u, company |-> c]
    <2>1. /\ k \in Sessions /\ k \in DOMAIN session
          /\ session[k].by = NULL /\ session[k].val = Absent
        BY FreshUnseen DEF IInv, TypeOK
    <2>3. /\ OnlyHandOf(r) /\ script'[r] = << >> /\ form'[r] = form[r]
          /\ UNCHANGED << user, company, company_user, status, me >>
        BY <1>4, <1>6 DEF Continue, ContinueWith, OnlyHandOf, IInv, TypeOK, hand
    <2>4. OwnsOnly(session, r, {})
        BY <1>2 DEF Doing, OwnsNothing, Owns
    <2>5. /\ OwnsOnly(session', r, {k})
          /\ session'[k] = [val |-> session[k].val, by |-> r, new |-> x]
        <3>1. /\ OwnsOnly(Put(session, r, k, x), r, {k})
              /\ Put(session, r, k, x)[k] = [val |-> session[k].val, by |-> r, new |-> x]
            BY <2>1, <2>4, OwnsPut
        <3> QED BY <1>6, <2>0, <3>1
    <2>6. session'[k].val = Absent /\ session'[k].new = x
        BY <2>1, <2>5
    <2>7. ASSUME form[r].op = "register"
          PROVE  SignsUp(r)'
        <3>1. Owns(r, {u}, {}, {}, {}) /\ c = NULL /\ ~Live(user[u].val)
            BY <1>2, <1>3, <2>0, <2>7 DEF Doing
        <3>2. Live(user[u].new)
            BY <1>4, <2>0, <3>1 DEF Knows, Sees, Owns, OwnsOnly, IInv, TypeOK
        <3>3. Owns(r, {u}, {}, {}, {k})'
            BY <2>3, <2>5, <3>1 DEF Owns, OwnsOnly
        <3> QED BY <2>1, <2>3, <2>6, <3>1, <3>2, <3>3 DEF SignsUp
    <2>8. ASSUME form[r].op # "register"
          PROVE  LogsIn(r)'
        <3>1. OwnsNothing(r)
            BY <1>1, <2>8, WorkAt
        <3>2. There(user, u) /\ (c = NULL \/ There(company_user, << u, c >>))
            BY <1>4, <2>0, <3>1, NothingOwned DEF Knows
        <3>3. Owns(r, {}, {}, {}, {k})'
            BY <2>3, <2>5, <3>1 DEF OwnsNothing, Owns, OwnsOnly
        <3>4. There(user, u)' /\ (c = NULL \/ There(company_user, << u, c >>)')
            BY <2>3, <3>2 DEF There
        <3> QED BY <2>1, <2>6, <3>3, <3>4 DEF LogsIn
    <2>9. me'[r].user # NULL => There(user, me[r].user)'
        BY <1>2, <2>3 DEF Work, There
    <2>10. Work(r)'
        BY <1>2, <2>3, <2>7, <2>8, <2>9 DEF Work, Done
    <2>11. PutOrSame(session, session', r)
        BY <1>6, <2>1 DEF PutOrSame
    <2> QED BY <2>3, <2>10, <2>11, StatementWork DEF PutOrSame
<1> QED BY <1>5, <1>6 DEF SessionInsert

(* A session that is not free to be written is waited for. *)
LEMMA SessionFree ==
    ASSUME IInv, NEW r \in Requests, OwnsNothing(r),
           Runs(r, "SessionUpdate") \/ Runs(r, "SessionRemove"),
           NEW k \in Sessions, k = me[r].id, Live(Sees(session, r)[k])
    PROVE  Live(session[k].val) /\ session[k].by = NULL
<1>1. session \in [Sessions -> Versions(SessionRecord)]
    BY DEF IInv, TypeOK
<1>2. session[k].by # r /\ Live(session[k].val)
    BY NothingOwned
<1>3. ASSUME NEW s \in Requests \ {r}
      PROVE  session[k].by # s
    BY <1>1, <1>2 DEF Runs, Waits, Holds
<1>4. session[k].by \in Requests \cup {NULL}
    BY <1>1 DEF Versions
<1> QED BY <1>2, <1>3, <1>4

(* A session that is written first by r. *)
LEMMA SessionOwned ==
    ASSUME IInv, NEW r \in Requests, OwnsNothing(r), NEW k \in Sessions, NEW x,
           session' = Put(session, r, k, x), UNCHANGED << user, company, company_user >>
    PROVE  /\ Owns(r, {}, {}, {}, {k})'
           /\ session'[k].val = session[k].val /\ session'[k].new = x
<1>1. OwnsOnly(session, r, {}) /\ k \in DOMAIN session
    BY DEF OwnsNothing, Owns, IInv, TypeOK
<1>2. /\ OwnsOnly(Put(session, r, k, x), r, {k})
      /\ Put(session, r, k, x)[k] = [val |-> session[k].val, by |-> r, new |-> x]
    BY <1>1, OwnsPut
<1>3. OwnsOnly(session', r, {k})
    BY <1>2
<1> QED BY <1>2, <1>3 DEF OwnsNothing, Owns, OwnsOnly

LEMMA SessionUpdateWork ==
    ASSUME IInv, MInv, WInv, NEW r \in Requests, SessionUpdate(r)
    PROVE  WInv'
<1>1. At(r, "SessionUpdate") /\ Runs(r, "SessionUpdate")
    BY DEF SessionUpdate, Runs
<1>2. /\ OwnsNothing(r) /\ form[r] # NULL /\ Work(r) /\ status[r] = StatusOK
      /\ script[r] # << >>
    BY <1>1, WorkAt
<1>3. ~LetsIn(form[r]) /\ script[r] = << "SessionUpdate" >>
    BY <1>1, AtStatement, ScriptsAt
<1>4. /\ Tail(script[r]) = << >> /\ Member(r, me[r].user, co[r])
      /\ me[r].id \in Sessions
      /\ session \in [Sessions -> Versions(SessionRecord)]
    BY <1>2, <1>3, Tuples DEF MInv, CompanyInHand, IInv, HandOf, TypeOK
<1>5. PICK u \in Users, c \in Companies, k \in Sessions :
         u = me[r].user /\ c = co[r] /\ k = me[r].id
    BY <1>4 DEF Member
<1>6. /\ OnlyHandOf(r) /\ script'[r] = << >> /\ form'[r] = form[r] /\ me'[r].user = u
      /\ UNCHANGED << user, company, company_user, status >>
    BY <1>4, <1>5 DEF SessionUpdate, Continue, ContinueWith, OnlyHandOf, IInv, TypeOK
<1>7. There(user, u) /\ There(company_user, << u, c >>)
    <2>1. There(user, u)
        BY <1>2, <1>5, AccountsAssumption DEF Work
    <2> QED BY <1>2, <1>4, <1>5, <2>1, NothingOwned
<1>8. There(user, u)' /\ There(company_user, << u, c >>)'
    BY <1>6, <1>7 DEF There
<1>9. me'[r].user # NULL => There(user, me[r].user)'
    BY <1>6, <1>7 DEF There
<1>10. PutOrSame(session, session', r) /\ Done(r)'
    <2>1. CASE ~Live(Sees(session, r)[k])
        <3>1. UNCHANGED session
            BY <1>5, <2>1 DEF SessionUpdate
        <3>2. OwnsNothing(r)'
            BY <1>2, <1>6, <3>1 DEF OwnsNothing, Owns, OwnsOnly
        <3> QED BY <3>1, <3>2 DEF PutOrSame, Done
    <2>2. CASE Live(Sees(session, r)[k])
        <3> DEFINE x == [session[k].val EXCEPT !.company = c]
        <3>1. Live(session[k].val) /\ session[k].by = NULL
              /\ Sees(session, r)[k] = session[k].val
            BY <1>1, <1>2, <1>5, <2>2, SessionFree, NothingOwned
        <3>2. session' = Put(session, r, k, x)
            BY <1>5, <2>2, <3>1 DEF SessionUpdate
        <3> HIDE DEF x
        <3>3. /\ Owns(r, {}, {}, {}, {k})'
              /\ session'[k].val = session[k].val /\ session'[k].new = x
            BY <1>2, <1>6, <3>2, SessionOwned
        <3>4. session'[k].new = [session'[k].val EXCEPT !.company = c]
            BY <3>3 DEF x
        <3>5. Selects(r)'
            BY <1>8, <3>1, <3>3, <3>4 DEF Selects
        <3>6. PutOrSame(session, session', r)
            BY <1>4, <3>1, <3>2 DEF PutOrSame
        <3> QED BY <3>5, <3>6 DEF Done
    <2> QED BY <2>1, <2>2
<1>11. Work(r)'
    BY <1>2, <1>6, <1>9, <1>10 DEF Work
<1> QED BY <1>6, <1>10, <1>11, StatementWork DEF PutOrSame

LEMMA SessionRemoveWork ==
    ASSUME IInv, WInv, NEW r \in Requests, SessionRemove(r)
    PROVE  WInv'
<1>1. At(r, "SessionRemove") /\ Runs(r, "SessionRemove")
    BY DEF SessionRemove, Runs
<1>2. /\ OwnsNothing(r) /\ form[r] # NULL /\ Work(r) /\ status[r] = StatusOK
      /\ script[r] # << >>
    BY <1>1, WorkAt
<1>3. ~LetsIn(form[r]) /\ script[r] = << "SessionRemove" >>
    BY <1>1, AtStatement, ScriptsAt
<1>4. /\ Tail(script[r]) = << >> /\ me[r].id \in Sessions
      /\ session \in [Sessions -> Versions(SessionRecord)]
    BY <1>2, <1>3, Tuples DEF IInv, HandOf, TypeOK
<1>5. PICK k \in Sessions : k = me[r].id
    BY <1>4
<1>6. /\ OnlyHandOf(r) /\ script'[r] = << >> /\ form'[r] = form[r]
      /\ UNCHANGED << user, company, company_user, status, me >>
    BY <1>4 DEF SessionRemove, Continue, ContinueWith, OnlyHandOf, IInv, TypeOK, hand
<1>7. me'[r].user # NULL => There(user, me[r].user)'
    BY <1>2, <1>6 DEF Work, There
<1>8. PutOrSame(session, session', r) /\ Done(r)'
    <2>1. CASE ~Live(Sees(session, r)[k])
        <3>1. UNCHANGED session
            BY <1>5, <2>1 DEF SessionRemove
        <3>2. OwnsNothing(r)'
            BY <1>2, <1>6, <3>1 DEF OwnsNothing, Owns, OwnsOnly
        <3> QED BY <3>1, <3>2 DEF PutOrSame, Done
    <2>2. CASE Live(Sees(session, r)[k])
        <3>1. Live(session[k].val) /\ session[k].by = NULL
            BY <1>1, <1>2, <1>5, <2>2, SessionFree
        <3>2. session' = Put(session, r, k, Gone)
            BY <1>5, <2>2 DEF SessionRemove
        <3>3. /\ Owns(r, {}, {}, {}, {k})'
              /\ session'[k].val = session[k].val /\ session'[k].new = Gone
            BY <1>2, <1>6, <3>2, SessionOwned
        <3>4. LogsOut(r)'
            BY <3>1, <3>3 DEF LogsOut
        <3>5. PutOrSame(session, session', r)
            BY <1>4, <3>1, <3>2 DEF PutOrSame
        <3> QED BY <3>4, <3>5 DEF Done
    <2> QED BY <2>1, <2>2
<1>9. Work(r)'
    BY <1>2, <1>6, <1>7, <1>8 DEF Work
<1> QED BY <1>6, <1>8, <1>9, StatementWork DEF PutOrSame

-----------------------------------------------------------------------------
(* The middleware. *)

LEMMA BeginWork ==
    ASSUME IInv, MInv, WInv, NEW r \in Requests, NEW f \in Forms, Begin(r, f)
    PROVE  WInv'
<1>1. PICK s \in SessionGet(r, f.cookie) :
         me' = [me EXCEPT ![r] = s] /\ script' = [script EXCEPT ![r] = Opening(f, s)]
    BY DEF Begin
<1>2. /\ OnlyHandOf(r) /\ form[r] = NULL /\ form'[r] = f /\ f # NULL
      /\ me'[r] = s /\ script'[r] = Opening(f, s) /\ co'[r] = NULL
      /\ UNCHANGED << tables, status >>
    BY <1>1, FormType
       DEF Begin, Active, tables, OnlyHandOf, IInv, TypeOK, MInv, CompanyInHand
<1>3. OwnsNothing(r) /\ status[r] = StatusOK
    BY <1>2 DEF WInv, Work
<1>4. OwnsNothing(r)'
    BY <1>2, <1>3 DEF OwnsNothing, Owns, OwnsOnly, tables
<1>5. Opening(f, s) # << "SessionInsert" >>
    <2>1. << "SessionInsert" >> \notin {<< "UserGet" >>, << "SessionRemove" >>, << "AddUser" >>,
             << "CompanyGet" >>, << "CompanyGet", "SessionUpdate" >>,
             << "CompanyInsert", "AddUser" >>, << "CompanyGet", "CompanyUpdate" >>}
        BY Tuples
    <2>2. << "SessionInsert" >> # << >>
        BY Tuples
    <2> QED BY <2>1, <2>2, OpeningScript
<1>6. s.user # NULL => There(user, s.user)
    <2>1. CASE s = Anonymous
        BY <2>1 DEF Anonymous
    <2>2. CASE s.user \in UserRows(r)
        BY <1>3, <2>2, NothingOwned DEF UserRows
    <2> QED BY <2>1, <2>2 DEF SessionGet
<1>7. me'[r].user # NULL => There(user, me[r].user)'
    BY <1>2, <1>6 DEF There, tables
<1>8. Work(r)'
    BY <1>2, <1>3, <1>4, <1>5, <1>7 DEF Work, Doing, Done
<1> QED BY <1>2, <1>8, ReadWork

(* What a commit or a rollback leaves of each row. *)
LEMMA EndRows ==
    ASSUME IInv, NEW r \in Requests, NEW commit \in BOOLEAN, EndTransaction(r, commit)
    PROVE  /\ \A c \in Companies :
                 company'[c].val = IF commit /\ company[c].by = r
                                   THEN company[c].new ELSE company[c].val
           /\ \A m \in Members :
                 company_user'[m].val = IF commit /\ company_user[m].by = r
                                        THEN company_user[m].new ELSE company_user[m].val
           /\ \A u \in Users :
                 user'[u].val = IF commit /\ user[u].by = r
                                THEN user[u].new ELSE user[u].val
           /\ \A k \in Sessions :
                 session'[k].val = IF commit /\ session[k].by = r
                                   THEN session[k].new ELSE session[k].val
<1>1. /\ DOMAIN user = Users /\ DOMAIN company = Companies
      /\ DOMAIN company_user = Members /\ DOMAIN session = Sessions
    BY DEF IInv, TypeOK
<1>2. \A t, k : k \in DOMAIN t =>
         Ended(t, r, commit)[k].val = IF commit /\ t[k].by = r THEN t[k].new ELSE t[k].val
    BY EndedRow
<1> QED BY <1>1, <1>2 DEF EndTransaction

LEMMA EndWork ==
    ASSUME IInv, MInv, WInv, NEW r \in Requests, NEW commit \in BOOLEAN,
           EndTransaction(r, commit), script[r] = << >>
    PROVE  WInv'
<1>1. /\ OnlyHandOf(r) /\ form'[r] = NULL /\ script'[r] = << >>
      /\ status'[r] = StatusOK /\ me'[r].user = NULL
      /\ \A s \in Requests \ {r} : status'[s] = status[s]
    BY DEF EndTransaction, OnlyHandOf, IInv, TypeOK, Anonymous
<1>2. /\ DOMAIN user = Users /\ DOMAIN company = Companies
      /\ DOMAIN company_user = Members /\ DOMAIN session = Sessions
      /\ r # NULL
    BY AccountsAssumption DEF IInv, TypeOK
<1>3. /\ RowsOf(user, user', r) /\ RowsOf(company, company', r)
      /\ RowsOf(company_user, company_user', r) /\ RowsOf(session, session', r)
    BY RowsEnded DEF EndTransaction
<1>4. Lasts(user, user')
    <2>1. \A u \in Users : user[u].by = r => ~Live(user[u].val)
        BY <1>2 DEF IInv, UsersInserted
    <2> QED BY <1>2, <2>1, EndRows DEF Lasts
<1>5. Lasts(company, company')
    <2>1. \A c \in Companies : company[c].by = r => Live(company[c].new)
        BY DEF MInv, CompaniesWritten
    <2> QED BY <1>2, <2>1, EndRows DEF Lasts
<1>6. Lasts(company_user, company_user')
    <2>1. \A m \in Members : company_user[m].by = r => Live(company_user[m].new)
        BY <1>2, TextsLive DEF MInv, MembersJoin
    <2> QED BY <1>2, <2>1, EndRows DEF Lasts
<1>7. \A s \in Requests \ {r} : Work(s)'
    BY <1>1, <1>3, <1>4, <1>5, <1>6, OthersWork DEF RowsStep, WInv, IInv
<1>8. Work(r)'
    <2>1. \A t, u : u = Ended(t, r, commit) => OwnsOnly(u, r, {})
        <3> SUFFICES ASSUME NEW t
                     PROVE  OwnsOnly(Ended(t, r, commit), r, {})
            OBVIOUS
        <3>1. DOMAIN Ended(t, r, commit) = DOMAIN t
            BY DEF Ended
        <3>2. \A k \in DOMAIN t : Ended(t, r, commit)[k].by # r
            BY <1>2, EndedRow
        <3> QED BY <3>1, <3>2 DEF OwnsOnly
    <2>2. /\ OwnsOnly(user', r, {}) /\ OwnsOnly(company', r, {})
          /\ OwnsOnly(company_user', r, {}) /\ OwnsOnly(session', r, {})
        BY <2>1 DEF EndTransaction
    <2>3. OwnsNothing(r)'
        BY <2>2 DEF OwnsNothing, Owns
    <2> QED BY <1>1, <2>3 DEF Work
<1>9. MembersOfCompanies'
    <2> SUFFICES ASSUME NEW m \in Members, Live(company_user'[m].val)
                 PROVE  Live(company'[m[2]].val)
        BY DEF MembersOfCompanies
    <2>1. m[2] \in Companies
        BY DEF Members
    <2>2. CASE commit /\ company_user[m].by = r
        <3>1. company[m[2]].by = r
            BY <1>2, <2>2 DEF MInv, MembersJoin
        <3>2. Live(company[m[2]].new)
            BY <2>1, <3>1 DEF MInv, CompaniesWritten
        <3> QED BY <2>1, <2>2, <3>1, <3>2, EndRows
    <2>3. CASE ~(commit /\ company_user[m].by = r)
        <3>1. Live(company_user[m].val)
            BY <2>3, EndRows
        <3>2. Live(company[m[2]].val)
            BY <3>1 DEF WInv, MembersOfCompanies
        <3> QED BY <1>2, <1>5, <2>1, <3>2 DEF Lasts
    <2> QED BY <2>2, <2>3
<1> QED BY <1>7, <1>8, <1>9 DEF WInv

LEMMA InitWork == Init => WInv
<1> SUFFICES ASSUME Init
             PROVE  WInv
    OBVIOUS
<1>1. \A I : \A r \in Requests : OwnsOnly(EmptyTable(I), r, {})
    BY AccountsAssumption DEF OwnsOnly, EmptyTable, Settled
<1>2. \A r \in Requests : OwnsNothing(r)
    BY <1>1 DEF Init, OwnsNothing, Owns
<1>3. \A r \in Requests : Work(r)
    BY <1>2 DEF Init, Work, Anonymous
<1>4. MembersOfCompanies
    BY DEF Init, EmptyTable, Settled, MembersOfCompanies, Live
<1> QED BY <1>3, <1>4 DEF WInv

LEMMA StepWork == IInv /\ MInv /\ WInv /\ [Next]_vars => WInv'
<1> SUFFICES ASSUME IInv, MInv, WInv, [Next]_vars
             PROVE  WInv'
    OBVIOUS
<1>1. ASSUME NEW r \in Requests, NEW f \in Forms, Begin(r, f)
      PROVE  WInv'
    BY <1>1, BeginWork
<1>2. ASSUME NEW r \in Requests, Step(r)
      PROVE  WInv'
    <2>1. CASE CommitOrRollback(r)
        <3>1. (status[r] <= 400) \in BOOLEAN
            OBVIOUS
        <3> QED BY <2>1, <3>1, EndWork DEF CommitOrRollback
    <2> QED BY <1>2, <2>1, UserGetWork, UserInsertWork, CompanyListWork, CompanyGetWork,
               CompanyInsertWork, CompanyUpdateWork, AddUserWork, SessionInsertWork,
               SessionUpdateWork, SessionRemoveWork
            DEF Step
<1>3. ASSUME NEW r \in Requests, CommitFails(r)
      PROVE  WInv'
    BY <1>3, EndWork DEF CommitFails
<1>4. ASSUME NEW r \in Requests, StatementFails(r)
      PROVE  WInv'
    BY <1>4, FailWork DEF StatementFails
<1>5. CASE UNCHANGED vars
    <2>1. UNCHANGED << user, company, company_user, session, form, script, status,
                       me, who, co >>
        BY <1>5 DEF vars, tables, hand
    <2>2. ASSUME NEW r \in Requests
          PROVE  Work(r)'
        <3>1. Work(r)
            BY DEF WInv
        <3>2. \A U, C, M, K : Owns(r, U, C, M, K) => Owns(r, U, C, M, K)'
            BY <2>1 DEF Owns, OwnsOnly
        <3>3. Done(r) => Done(r)'
            <4>1. OwnsNothing(r) => OwnsNothing(r)'
                BY <3>2 DEF OwnsNothing
            <4>2. SignsUp(r) => SignsUp(r)'
                BY <2>1, <3>2 DEF SignsUp
            <4>3. LogsIn(r) => LogsIn(r)'
                BY <2>1, <3>2 DEF LogsIn, There
            <4>4. Selects(r) => Selects(r)'
                BY <2>1, <3>2 DEF Selects, There
            <4>5. LogsOut(r) => LogsOut(r)'
                BY <2>1, <3>2 DEF LogsOut
            <4>6. Creates(r) => Creates(r)'
                BY <2>1, <3>2 DEF Creates, There
            <4>7. Edits(r) => Edits(r)'
                BY <2>1, <3>2 DEF Edits
            <4> QED BY <4>1, <4>2, <4>3, <4>4, <4>5, <4>6, <4>7 DEF Done
        <3>4. Doing(r) => Doing(r)'
            BY <2>1 DEF Doing, OwnsNothing, Owns, OwnsOnly
        <3>5. OwnsNothing(r) => OwnsNothing(r)'
            BY <2>1 DEF OwnsNothing, Owns, OwnsOnly
        <3> QED BY <2>1, <3>1, <3>3, <3>4, <3>5 DEF Work, There
    <2>3. MembersOfCompanies'
        BY <2>1 DEF WInv, MembersOfCompanies
    <2> QED BY <2>2, <2>3 DEF WInv
<1> QED BY <1>1, <1>2, <1>3, <1>4, <1>5 DEF Next

-----------------------------------------------------------------------------
(* What is committed. *)

(* The committed part of the tables, row by row. *)
SameRows ==
    /\ \A u \in Users : user'[u].val = user[u].val
    /\ \A c \in Companies : company'[c].val = company[c].val
    /\ \A m \in Members : company_user'[m].val = company_user[m].val
    /\ \A k \in Sessions : session'[k].val = session[k].val

LEMMA Views ==
    ASSUME TypeOK
    PROVE  /\ Stored(user) = {u \in Users : Live(user[u].val)}
           /\ Stored(company) = {c \in Companies : Live(company[c].val)}
           /\ Stored(company_user) = {m \in Members : Live(company_user[m].val)}
           /\ Committed(session) = [k \in Sessions |-> session[k].val]
BY DEF TypeOK, Stored, Committed

LEMMA ViewsAfter ==
    ASSUME TypeOK'
    PROVE  /\ Stored(user)' = {u \in Users : Live(user'[u].val)}
           /\ Stored(company)' = {c \in Companies : Live(company'[c].val)}
           /\ Stored(company_user)' = {m \in Members : Live(company_user'[m].val)}
           /\ Committed(session)' = [k \in Sessions |-> session'[k].val]
BY DEF TypeOK, Stored, Committed

LEMMA UsersSame ==
    ASSUME TypeOK, TypeOK', \A u \in Users : user'[u].val = user[u].val
    PROVE  Stored(user)' = Stored(user)
<1>1. {u \in Users : Live(user'[u].val)} = {u \in Users : Live(user[u].val)}
    OBVIOUS
<1> QED BY <1>1, Views, ViewsAfter

LEMMA CompaniesSame ==
    ASSUME TypeOK, TypeOK', \A c \in Companies : Live(company'[c].val) = Live(company[c].val)
    PROVE  Stored(company)' = Stored(company)
<1>1. {c \in Companies : Live(company'[c].val)} = {c \in Companies : Live(company[c].val)}
    OBVIOUS
<1> QED BY <1>1, Views, ViewsAfter

LEMMA MembersSame ==
    ASSUME TypeOK, TypeOK', \A m \in Members : company_user'[m].val = company_user[m].val
    PROVE  Stored(company_user)' = Stored(company_user)
<1>1. {m \in Members : Live(company_user'[m].val)} = {m \in Members : Live(company_user[m].val)}
    OBVIOUS
<1> QED BY <1>1, Views, ViewsAfter

LEMMA SessionsSame ==
    ASSUME TypeOK, TypeOK', \A k \in Sessions : session'[k].val = session[k].val
    PROVE  Committed(session)' = Committed(session)
<1>1. [k \in Sessions |-> session'[k].val] = [k \in Sessions |-> session[k].val]
    OBVIOUS
<1> QED BY <1>1, Views, ViewsAfter

LEMMA SameViews ==
    ASSUME TypeOK, TypeOK', SameRows
    PROVE  UNCHANGED AccessView!vars
<1>1. /\ Stored(user)' = Stored(user) /\ Stored(company)' = Stored(company)
      /\ Stored(company_user)' = Stored(company_user)
      /\ Committed(session)' = Committed(session)
    BY UsersSame, CompaniesSame, MembersSame, SessionsSame DEF SameRows
<1> QED BY <1>1 DEF AccessView!vars

(* What becomes of the sessions when one of them is committed. *)
LEMMA OneSession ==
    ASSUME TypeOK, TypeOK', NEW k \in Sessions,
           \A j \in Sessions \ {k} : session'[j].val = session[j].val
    PROVE  /\ Committed(session)' = [Committed(session) EXCEPT ![k] = session'[k].val]
           /\ Committed(session)[k] = session[k].val
<1>1. [j \in Sessions |-> session'[j].val]
         = [[j \in Sessions |-> session[j].val] EXCEPT ![k] = session'[k].val]
    OBVIOUS
<1> QED BY <1>1, Views, ViewsAfter

(* Only the end of a transaction changes what is committed. *)
LEMMA TablesCommitted ==
    ASSUME IInv, [Next]_vars
    PROVE  \/ SameRows
           \/ \E r \in Requests : EndTransaction(r, FALSE)
           \/ \E r \in Requests : /\ EndTransaction(r, TRUE) /\ Active(r)
                                  /\ script[r] = << >> /\ status[r] = StatusOK
<1>1. /\ user \in [Users -> Versions(UserRecord)]
      /\ company \in [Companies -> Versions(Texts)]
      /\ company_user \in [Members -> Versions({"member"})]
      /\ session \in [Sessions -> Versions(SessionRecord)]
    BY DEF IInv, TypeOK
<1>2. \A t, r, k, x : \A j \in DOMAIN t : Put(t, r, k, x)[j].val = t[j].val
    BY DEF Put
<1>3. UNCHANGED tables => SameRows
    BY DEF SameRows, tables
<1>4. ASSUME NEW r \in Requests, Step(r), ~CommitOrRollback(r)
      PROVE  SameRows
    <2>1. CASE UserGet(r)
        BY <1>3, <2>1 DEF UserGet, Answer, tables
    <2>2. CASE UserInsert(r)
        <3>1. UNCHANGED tables \/ /\ \E u, x : user' = Put(user, r, u, x)
                                  /\ UNCHANGED << company, company_user, session >>
            BY <2>2 DEF UserInsert, Fail
        <3> QED BY <1>1, <1>2, <1>3, <3>1 DEF SameRows
    <2>3. CASE CompanyList(r) \/ CompanyGet(r)
        BY <1>3, <2>3 DEF CompanyList, CompanyGet, Fail
    <2>4. CASE CompanyInsert(r) \/ CompanyUpdate(r)
        <3>1. UNCHANGED tables \/ /\ \E c, x : company' = Put(company, r, c, x)
                                  /\ UNCHANGED << user, company_user, session >>
            BY <2>4 DEF CompanyInsert, CompanyUpdate, Fail
        <3> QED BY <1>1, <1>2, <1>3, <3>1 DEF SameRows
    <2>5. CASE AddUser(r)
        <3>1. UNCHANGED tables \/ /\ \E m, x : company_user' = Put(company_user, r, m, x)
                                  /\ UNCHANGED << user, company, session >>
            BY <2>5 DEF AddUser, Fail, tables
        <3> QED BY <1>1, <1>2, <1>3, <3>1 DEF SameRows
    <2>6. CASE SessionInsert(r) \/ SessionUpdate(r) \/ SessionRemove(r)
        <3>1. UNCHANGED tables \/ /\ \E k, x : session' = Put(session, r, k, x)
                                  /\ UNCHANGED << user, company, company_user >>
            BY <2>6 DEF SessionInsert, SessionUpdate, SessionRemove, Fail, tables
        <3> QED BY <1>1, <1>2, <1>3, <3>1 DEF SameRows
    <2> QED BY <1>4, <2>1, <2>2, <2>3, <2>4, <2>5, <2>6 DEF Step
<1>5. ASSUME NEW r \in Requests, CommitOrRollback(r)
      PROVE  \/ EndTransaction(r, FALSE)
             \/ /\ EndTransaction(r, TRUE) /\ Active(r)
                /\ script[r] = << >> /\ status[r] = StatusOK
    <2>1. status[r] \in {StatusOK, StatusInternalServerError}
        BY DEF IInv, TypeOK
    <2>2. (StatusOK <= 400) = TRUE /\ (StatusInternalServerError <= 400) = FALSE
        BY DEF StatusOK, StatusInternalServerError
    <2>3. CASE status[r] = StatusOK
        BY <1>5, <2>2, <2>3 DEF CommitOrRollback
    <2>4. CASE status[r] = StatusInternalServerError
        BY <1>5, <2>2, <2>4 DEF CommitOrRollback
    <2> QED BY <2>1, <2>3, <2>4
<1>6. ASSUME NEW r \in Requests, NEW f \in Forms, Begin(r, f)
      PROVE  SameRows
    BY <1>3, <1>6 DEF Begin
<1>7. ASSUME NEW r \in Requests, CommitFails(r)
      PROVE  EndTransaction(r, FALSE)
    BY <1>7 DEF CommitFails
<1>8. ASSUME NEW r \in Requests, StatementFails(r)
      PROVE  SameRows
    BY <1>3, <1>8 DEF StatementFails, Fail
<1>9. CASE UNCHANGED vars
    BY <1>3, <1>9 DEF vars
<1> QED BY <1>4, <1>5, <1>6, <1>7, <1>8, <1>9 DEF Next

-----------------------------------------------------------------------------
(* Each commit is one change of Access.tla. *)

(* The rows of these keys are committed, and no other row. *)
Commits(U, C, M, K) ==
    /\ \A u \in Users : user'[u].val = IF u \in U THEN user[u].new ELSE user[u].val
    /\ \A c \in Companies : company'[c].val = IF c \in C THEN company[c].new ELSE company[c].val
    /\ \A m \in Members :
          company_user'[m].val = IF m \in M THEN company_user[m].new ELSE company_user[m].val
    /\ \A k \in Sessions : session'[k].val = IF k \in K THEN session[k].new ELSE session[k].val

LEMMA CommitRows ==
    ASSUME IInv, NEW r \in Requests, EndTransaction(r, TRUE),
           NEW U, NEW C, NEW M, NEW K, Owns(r, U, C, M, K)
    PROVE  Commits(U, C, M, K)
<1>1. /\ DOMAIN user = Users /\ DOMAIN company = Companies
      /\ DOMAIN company_user = Members /\ DOMAIN session = Sessions
    BY DEF IInv, TypeOK
<1>2. /\ \A u \in Users : user[u].by = r <=> u \in U
      /\ \A c \in Companies : company[c].by = r <=> c \in C
      /\ \A m \in Members : company_user[m].by = r <=> m \in M
      /\ \A k \in Sessions : session[k].by = r <=> k \in K
    BY <1>1 DEF Owns, OwnsOnly
<1> QED BY <1>2, EndRows DEF Commits

LEMMA SignUpStep ==
    ASSUME IInv, IInv', NEW r \in Requests, EndTransaction(r, TRUE), SignsUp(r)
    PROVE  AccessView!Next
<1>1. PICK u \in Users, k \in Sessions :
         /\ Owns(r, {u}, {}, {}, {k})
         /\ ~Live(user[u].val) /\ Live(user[u].new)
         /\ session[k].val = Absent /\ session[k].new = [user |-> u, company |-> NULL]
    BY DEF SignsUp
<1>2. TypeOK /\ TypeOK'
    BY DEF IInv
<1>3. Commits({u}, {}, {}, {k})
    BY <1>1, CommitRows
<1>4. Stored(user)' = Stored(user) \cup {u} /\ u \notin Stored(user)
    <2>1. Live(user'[u].val) /\ \A v \in Users \ {u} : user'[v].val = user[v].val
        BY <1>1, <1>3 DEF Commits
    <2>2. {v \in Users : Live(user'[v].val)} = {v \in Users : Live(user[v].val)} \cup {u}
        BY <2>1
    <2> QED BY <1>1, <1>2, <2>2, Views, ViewsAfter
<1>5. /\ Committed(session)[k] = Absent
      /\ Committed(session)' =
            [Committed(session) EXCEPT ![k] = [user |-> u, company |-> NULL]]
    <2>1. /\ session'[k].val = [user |-> u, company |-> NULL]
          /\ \A j \in Sessions \ {k} : session'[j].val = session[j].val
        BY <1>1, <1>3 DEF Commits
    <2> QED BY <1>1, <1>2, <2>1, OneSession
<1>6. Stored(company)' = Stored(company) /\ Stored(company_user)' = Stored(company_user)
    BY <1>2, <1>3, CompaniesSame, MembersSame DEF Commits
<1>7. AccessView!SignUp(u, k)
    BY <1>4, <1>5, <1>6 DEF AccessView!SignUp
<1> QED BY <1>7 DEF AccessView!Next

LEMMA LogInStep ==
    ASSUME IInv, IInv', NEW r \in Requests, EndTransaction(r, TRUE), LogsIn(r)
    PROVE  AccessView!Next
<1>1. PICK u \in Users, k \in Sessions, c \in Companies \cup {NULL} :
         /\ Owns(r, {}, {}, {}, {k})
         /\ session[k].val = Absent /\ session[k].new = [user |-> u, company |-> c]
         /\ There(user, u) /\ (c = NULL \/ There(company_user, << u, c >>))
    BY DEF LogsIn
<1>2. TypeOK /\ TypeOK'
    BY DEF IInv
<1>3. Commits({}, {}, {}, {k})
    BY <1>1, CommitRows
<1>4. /\ Committed(session)[k] = Absent
      /\ Committed(session)' = [Committed(session) EXCEPT ![k] = [user |-> u, company |-> c]]
    <2>1. /\ session'[k].val = [user |-> u, company |-> c]
          /\ \A j \in Sessions \ {k} : session'[j].val = session[j].val
        BY <1>1, <1>3 DEF Commits
    <2> QED BY <1>1, <1>2, <2>1, OneSession
<1>5. /\ Stored(user)' = Stored(user)
      /\ Stored(company)' = Stored(company) /\ Stored(company_user)' = Stored(company_user)
    BY <1>2, <1>3, UsersSame, CompaniesSame, MembersSame DEF Commits
<1>6. u \in Stored(user) /\ c \in AccessView!CompaniesOf(u) \cup {NULL}
    BY <1>1 DEF There, Stored, AccessView!CompaniesOf
<1>7. AccessView!LogIn(u, k, c)
    BY <1>4, <1>5, <1>6 DEF AccessView!LogIn
<1> QED BY <1>7 DEF AccessView!Next

LEMMA SelectStep ==
    ASSUME IInv, IInv', NEW r \in Requests, EndTransaction(r, TRUE), Selects(r)
    PROVE  AccessView!Next
<1>1. PICK u \in Users, k \in Sessions, c \in Companies :
         /\ Owns(r, {}, {}, {}, {k})
         /\ Live(session[k].val) /\ session[k].new = [session[k].val EXCEPT !.company = c]
         /\ There(user, u) /\ There(company_user, << u, c >>)
    BY DEF Selects
<1>2. TypeOK /\ TypeOK'
    BY DEF IInv
<1>3. Commits({}, {}, {}, {k})
    BY <1>1, CommitRows
<1>4. /\ AccessView!Open(k)
      /\ Committed(session)' = [Committed(session) EXCEPT ![k].company = c]
    <2>1. /\ session'[k].val = [session[k].val EXCEPT !.company = c]
          /\ \A j \in Sessions \ {k} : session'[j].val = session[j].val
        BY <1>1, <1>3 DEF Commits
    <2>2. /\ Committed(session)' = [Committed(session) EXCEPT ![k] = session'[k].val]
          /\ Committed(session)[k] = session[k].val
        BY <1>2, <2>1, OneSession
    <2>3. Committed(session)' =
             [Committed(session) EXCEPT ![k] = [Committed(session)[k] EXCEPT !.company = c]]
        BY <2>1, <2>2
    <2> QED BY <1>1, <2>2, <2>3 DEF AccessView!Open, Live
<1>5. /\ Stored(user)' = Stored(user)
      /\ Stored(company)' = Stored(company) /\ Stored(company_user)' = Stored(company_user)
    BY <1>2, <1>3, UsersSame, CompaniesSame, MembersSame DEF Commits
<1>6. u \in Stored(user) /\ c \in AccessView!CompaniesOf(u)
    BY <1>1 DEF There, Stored, AccessView!CompaniesOf
<1>7. AccessView!Select(k, c)
    BY <1>4, <1>5, <1>6 DEF AccessView!Select
<1> QED BY <1>7 DEF AccessView!Next

LEMMA LogOutStep ==
    ASSUME IInv, IInv', NEW r \in Requests, EndTransaction(r, TRUE), LogsOut(r)
    PROVE  AccessView!Next
<1>1. PICK k \in Sessions :
         Owns(r, {}, {}, {}, {k}) /\ Live(session[k].val) /\ session[k].new = Gone
    BY DEF LogsOut
<1>2. TypeOK /\ TypeOK'
    BY DEF IInv
<1>3. Commits({}, {}, {}, {k})
    BY <1>1, CommitRows
<1>4. /\ AccessView!Open(k)
      /\ Committed(session)' = [Committed(session) EXCEPT ![k] = Gone]
    <2>1. /\ session'[k].val = Gone
          /\ \A j \in Sessions \ {k} : session'[j].val = session[j].val
        BY <1>1, <1>3 DEF Commits
    <2>2. /\ Committed(session)' = [Committed(session) EXCEPT ![k] = session'[k].val]
          /\ Committed(session)[k] = session[k].val
        BY <1>2, <2>1, OneSession
    <2> QED BY <1>1, <2>1, <2>2 DEF AccessView!Open, Live
<1>5. /\ Stored(user)' = Stored(user)
      /\ Stored(company)' = Stored(company) /\ Stored(company_user)' = Stored(company_user)
    BY <1>2, <1>3, UsersSame, CompaniesSame, MembersSame DEF Commits
<1>6. AccessView!LogOut(k)
    BY <1>4, <1>5 DEF AccessView!LogOut
<1> QED BY <1>6 DEF AccessView!Next

LEMMA CreateStep ==
    ASSUME IInv, IInv', NEW r \in Requests, EndTransaction(r, TRUE), Creates(r)
    PROVE  AccessView!Next
<1>1. PICK u \in Users, c \in Companies :
         /\ Owns(r, {}, {c}, {<< u, c >>}, {})
         /\ ~Live(company[c].val) /\ Live(company[c].new)
         /\ ~Live(company_user[<< u, c >>].val) /\ Live(company_user[<< u, c >>].new)
         /\ There(user, u)
    BY DEF Creates
<1> DEFINE m == << u, c >>
<1>2. TypeOK /\ TypeOK' /\ m \in Members
    BY DEF IInv, Members
<1>3. Commits({}, {c}, {m}, {})
    BY <1>1, CommitRows
<1>4. Stored(company)' = Stored(company) \cup {c} /\ c \notin Stored(company)
    <2>1. Live(company'[c].val) /\ \A d \in Companies \ {c} : company'[d].val = company[d].val
        BY <1>1, <1>3 DEF Commits
    <2>2. {d \in Companies : Live(company'[d].val)}
             = {d \in Companies : Live(company[d].val)} \cup {c}
        BY <2>1
    <2> QED BY <1>1, <1>2, <2>2, Views, ViewsAfter
<1>5. Stored(company_user)' = Stored(company_user) \cup {m}
    <2>1. /\ Live(company_user'[m].val)
          /\ \A n \in Members \ {m} : company_user'[n].val = company_user[n].val
        BY <1>1, <1>2, <1>3 DEF Commits
    <2> HIDE DEF m
    <2>2. {n \in Members : Live(company_user'[n].val)}
             = {n \in Members : Live(company_user[n].val)} \cup {m}
        BY <1>2, <2>1
    <2> QED BY <1>2, <2>2, Views, ViewsAfter
<1>6. Stored(user)' = Stored(user) /\ Committed(session)' = Committed(session)
    BY <1>2, <1>3, UsersSame, SessionsSame DEF Commits
<1>7. u \in Stored(user)
    BY <1>1 DEF There, Stored
<1>8. AccessView!Create(u, c)
    BY <1>4, <1>5, <1>6, <1>7 DEF AccessView!Create
<1> QED BY <1>8 DEF AccessView!Next

(* The columns of a company are not in the view. *)
LEMMA EditStep ==
    ASSUME IInv, IInv', NEW r \in Requests, EndTransaction(r, TRUE),
           Edits(r) \/ OwnsNothing(r)
    PROVE  UNCHANGED AccessView!vars
<1>1. TypeOK /\ TypeOK'
    BY DEF IInv
<1>2. CASE OwnsNothing(r)
    <2>1. Commits({}, {}, {}, {})
        BY <1>2, CommitRows DEF OwnsNothing
    <2>2. SameRows
        BY <2>1 DEF Commits, SameRows
    <2> QED BY <1>1, <2>2, SameViews
<1>3. CASE Edits(r)
    <2>1. PICK c \in Companies :
             Owns(r, {}, {c}, {}, {}) /\ Live(company[c].val) /\ Live(company[c].new)
        BY <1>3 DEF Edits
    <2>2. Commits({}, {c}, {}, {})
        BY <2>1, CommitRows
    <2>3. \A d \in Companies : Live(company'[d].val) = Live(company[d].val)
        BY <2>1, <2>2 DEF Commits, Live
    <2>4. /\ Stored(user)' = Stored(user) /\ Stored(company)' = Stored(company)
          /\ Stored(company_user)' = Stored(company_user)
          /\ Committed(session)' = Committed(session)
        BY <1>1, <2>2, <2>3, UsersSame, CompaniesSame, MembersSame, SessionsSame DEF Commits
    <2> QED BY <2>4 DEF AccessView!vars
<1> QED BY <1>2, <1>3

LEMMA ViewStep ==
    ASSUME IInv, IInv', WInv, [Next]_vars
    PROVE  [AccessView!Next]_(AccessView!vars)
<1>1. TypeOK /\ TypeOK'
    BY DEF IInv
<1>2. CASE SameRows
    BY <1>1, <1>2, SameViews
<1>3. ASSUME NEW r \in Requests, EndTransaction(r, FALSE)
      PROVE  UNCHANGED AccessView!vars
    <2>1. \A t : \A k \in DOMAIN t : Ended(t, r, FALSE)[k].val = t[k].val
        BY DEF Ended, Settled
    <2>2. SameRows
        BY <1>1, <1>3, <2>1 DEF SameRows, EndTransaction, TypeOK
    <2> QED BY <1>1, <2>2, SameViews
<1>4. ASSUME NEW r \in Requests, EndTransaction(r, TRUE), Active(r),
             script[r] = << >>, status[r] = StatusOK
      PROVE  [AccessView!Next]_(AccessView!vars)
    <2>1. Done(r)
        BY <1>4 DEF WInv, Work, Active
    <2> QED BY <1>4, <2>1, SignUpStep, LogInStep, SelectStep, LogOutStep, CreateStep, EditStep
            DEF Done
<1> QED BY <1>2, <1>3, <1>4, TablesCommitted

LEMMA ViewInit == Init => AccessView!Init
<1> SUFFICES ASSUME Init
             PROVE  AccessView!Init
    OBVIOUS
<1>1. \A I : Stored(EmptyTable(I)) = {} /\ Committed(EmptyTable(I)) = [k \in I |-> Absent]
    BY DEF Stored, Committed, EmptyTable, Settled, Live
<1> QED BY <1>1 DEF Init, AccessView!Init

(* The program keeps the promises of Access.tla: whatever requests overlap *)
(* and whatever fails, each commit is entirely one of its changes, and     *)
(* nothing else is ever committed (login.go:75, select.go:34,              *)
(* company/view.go:117-124).                                               *)
THEOREM AccountsImplementAccess == Spec => ImplementsAccess
<1>1. IInv /\ IInv' /\ WInv /\ [Next]_vars => [AccessView!Next]_(AccessView!vars)
    BY ViewStep
<1> QED BY <1>1, ViewInit, InitInvariant, StepInvariant, InitKeeps, StepKeeps,
           InitWork, StepWork, PTL
        DEF Spec, ImplementsAccess, AccessView!Spec

=============================================================================
