--------------------------- MODULE AccountsProofs ---------------------------
(***************************************************************************)
(* For any users, companies, sessions and requests: the types of           *)
(* Accounts.tla, that a session starts for a password only, and that only  *)
(* members act for a company.                                              *)
(***************************************************************************)
EXTENDS AccountsProperties, FiniteSetTheorems, TLAPS

-----------------------------------------------------------------------------
(* The inductive invariant. *)

(* What is left to run of the handler of a form. *)
ScriptsOf(f) ==
    CASE f.op = "register" ->
            {<< "UserGet" >>, << "UserInsert", "SessionInsert" >>, << "SessionInsert" >>}
      [] f.op = "login" ->
            {<< "UserGet" >>, << "CompanyList", "SessionInsert" >>, << "SessionInsert" >>}
      [] f.op = "logout" -> {<< "SessionRemove" >>}
      [] f.op = "select" -> {<< "CompanyGet", "SessionUpdate" >>, << "SessionUpdate" >>}
      [] f.op = "company" /\ f.data = NULL -> {<< "AddUser" >>, << "CompanyGet" >>}
      [] f.op = "company" /\ f.data # NULL ->
            {<< "CompanyInsert", "AddUser" >>, << "AddUser" >>,
             << "CompanyGet", "CompanyUpdate" >>, << "CompanyUpdate" >>}

(* The handlers that let somebody in. *)
LetsIn(f) == f # NULL /\ f.op \in {"register", "login"}

(* User u, as request r sees it, has the password that was given to r. *)
Knows(r, u) ==
    /\ u \in Users
    /\ Live(Sees(user, r)[u])
    /\ Sees(user, r)[u].password = form[r].password

ScriptOf(r) == script[r] # << >> => form[r] # NULL /\ script[r] \in ScriptsOf(form[r])

(* A handler has in hand what its next statements need. *)
HandOf(r) ==
    /\ script[r] # << >> /\ ~LetsIn(form[r]) => me[r].id # NULL /\ me[r].user # NULL
    /\ script[r] \in {<< "SessionUpdate" >>, << "CompanyUpdate" >>} => co[r] # NULL
    /\ script[r] \in {<< "CompanyList", "SessionInsert" >>, << "SessionInsert" >>}
           => Knows(r, who[r])

(* Users are inserted and never updated. *)
UsersInserted ==
    \A u \in Users :
        user[u].by # NULL => ~Live(user[u].val) /\ form[user[u].by] # NULL

(* The new sessions of a request are those of a user it knows. *)
NewSessions ==
    \A r \in Requests, k \in Sessions :
        session[k].by = r /\ ~Live(session[k].val) /\ Live(session[k].new)
        => LetsIn(form[r]) /\ Knows(r, session[k].new.user)

IInv ==
    /\ TypeOK
    /\ \A r \in Requests : ScriptOf(r) /\ HandOf(r)
    /\ UsersInserted
    /\ NewSessions


-----------------------------------------------------------------------------
(* Tables. *)

LEMMA PutType ==
    ASSUME NEW S, NEW I, NEW t \in [I -> Versions(S)],
           NEW r \in Requests, NEW k, NEW x \in S \cup {Gone}
    PROVE  Put(t, r, k, x) \in [I -> Versions(S)]
BY DEF Put, Versions

LEMMA EndedType ==
    ASSUME NEW S, NEW I, NEW t \in [I -> Versions(S)], NEW r, NEW commit \in BOOLEAN
    PROVE  Ended(t, r, commit) \in [I -> Versions(S)]
BY DEF Ended, Versions, Settled

(* What a statement finds in a row, when it finds one, is a record. *)
LEMMA SeesType ==
    ASSUME NEW S, NEW I, NEW t \in [I -> Versions(S)], NEW r, NEW k \in I,
           Live(Sees(t, r)[k])
    PROVE  Sees(t, r)[k] \in S
BY DEF Sees, Versions, Live

(* A fresh id is a row that nobody sees. *)
LEMMA FreshUnseen ==
    ASSUME NEW t, NEW k \in FreshIds(t), NEW r \in Requests
    PROVE  /\ k \in DOMAIN t
           /\ t[k].by = NULL /\ t[k].val = Absent
           /\ ~Live(Sees(t, r)[k])
BY DEF FreshIds, Settled, Sees, Live

-----------------------------------------------------------------------------
(* Forms and scripts. *)

LEMMA FormType ==
    ASSUME NEW f \in Forms
    PROVE  /\ f # NULL
           /\ f.op \in {"register", "login", "logout", "select", "company"}
           /\ f.cookie \in Sessions \cup {NULL}
           /\ LetsIn(f) => f.name \in Names /\ f.password \in Passwords
           /\ f.op = "company" => f.data \in Texts \cup {NULL}
BY AccountsAssumption
   DEF Form, CredentialForm, LogoutForm, SelectForm, CompanyForm, LetsIn

(* Each script of a form is a sequence of statements, and so is its rest. *)
LEMMA ScriptsType ==
    ASSUME NEW f \in Forms
    PROVE  ScriptsOf(f) \subseteq Seq(Statements)
<1>1. f.op \in {"register", "login", "logout", "select", "company"}
    BY FormType
<1>2. \A a \in Statements : << a >> \in Seq(Statements)
    OBVIOUS
<1>3. \A a, b \in Statements : << a, b >> \in Seq(Statements)
    OBVIOUS
<1>4. /\ << "UserGet" >> \in Seq(Statements)
      /\ << "SessionInsert" >> \in Seq(Statements)
      /\ << "SessionRemove" >> \in Seq(Statements)
      /\ << "SessionUpdate" >> \in Seq(Statements)
      /\ << "AddUser" >> \in Seq(Statements)
      /\ << "CompanyGet" >> \in Seq(Statements)
      /\ << "CompanyUpdate" >> \in Seq(Statements)
    BY <1>2 DEF Statements
<1>5. /\ << "UserInsert", "SessionInsert" >> \in Seq(Statements)
      /\ << "CompanyList", "SessionInsert" >> \in Seq(Statements)
      /\ << "CompanyGet", "SessionUpdate" >> \in Seq(Statements)
      /\ << "CompanyInsert", "AddUser" >> \in Seq(Statements)
      /\ << "CompanyGet", "CompanyUpdate" >> \in Seq(Statements)
    BY <1>3 DEF Statements
<1>6. \A q \in ScriptsOf(f) :
         \/ q \in {<< "UserGet" >>, << "SessionInsert" >>, << "SessionRemove" >>,
                   << "SessionUpdate" >>, << "AddUser" >>, << "CompanyGet" >>,
                   << "CompanyUpdate" >>}
         \/ q \in {<< "UserInsert", "SessionInsert" >>, << "CompanyList", "SessionInsert" >>,
                   << "CompanyGet", "SessionUpdate" >>, << "CompanyInsert", "AddUser" >>,
                   << "CompanyGet", "CompanyUpdate" >>}
    BY <1>1, Zenon DEF ScriptsOf
<1> QED BY <1>4, <1>5, <1>6

LEMMA Tuples ==
    /\ \A a : << a >> # << >> /\ Head(<< a >>) = a /\ Tail(<< a >>) = << >>
    /\ \A a, b : << a, b >> # << >> /\ Head(<< a, b >>) = a /\ Tail(<< a, b >>) = << b >>
OBVIOUS

(* What is left after the statement that is first. *)
LEMMA ScriptsAt ==
    ASSUME NEW f \in Forms, NEW q \in ScriptsOf(f)
    PROVE  /\ q # << >>
           /\ Tail(q) # << >> => Tail(q) \in ScriptsOf(f)
           /\ Head(q) = "UserGet" => LetsIn(f) /\ q = << "UserGet" >>
           /\ Head(q) = "UserInsert" =>
                 f.op = "register" /\ q = << "UserInsert", "SessionInsert" >>
           /\ Head(q) = "CompanyList" =>
                 f.op = "login" /\ q = << "CompanyList", "SessionInsert" >>
           /\ Head(q) = "SessionInsert" => LetsIn(f) /\ q = << "SessionInsert" >>
           /\ Head(q) = "SessionRemove" => ~LetsIn(f) /\ q = << "SessionRemove" >>
           /\ Head(q) = "SessionUpdate" => ~LetsIn(f) /\ q = << "SessionUpdate" >>
           /\ Head(q) = "CompanyGet" =>
                 ~LetsIn(f) /\ Tail(q) \in {<< >>, << "SessionUpdate" >>, << "CompanyUpdate" >>}
           /\ Head(q) = "CompanyInsert" =>
                 /\ f.op = "company" /\ f.data # NULL
                 /\ q = << "CompanyInsert", "AddUser" >>
           /\ Head(q) = "CompanyUpdate" =>
                 f.op = "company" /\ f.data # NULL /\ q = << "CompanyUpdate" >>
           /\ Head(q) = "AddUser" => f.op = "company" /\ q = << "AddUser" >>
<1>1. f.op \in {"register", "login", "logout", "select", "company"}
    BY FormType
<1>2. \/ /\ LetsIn(f)
         /\ q \in {<< "UserGet" >>, << "SessionInsert" >>}
      \/ /\ f.op = "register" /\ q = << "UserInsert", "SessionInsert" >>
         /\ << "SessionInsert" >> \in ScriptsOf(f)
      \/ /\ f.op = "login" /\ q = << "CompanyList", "SessionInsert" >>
         /\ << "SessionInsert" >> \in ScriptsOf(f)
      \/ f.op = "logout" /\ q = << "SessionRemove" >>
      \/ /\ f.op = "select" /\ q = << "CompanyGet", "SessionUpdate" >>
         /\ << "SessionUpdate" >> \in ScriptsOf(f)
      \/ f.op = "select" /\ q = << "SessionUpdate" >>
      \/ f.op = "company" /\ q \in {<< "AddUser" >>, << "CompanyGet" >>}
      \/ /\ f.op = "company" /\ f.data # NULL
         /\ \/ /\ q = << "CompanyInsert", "AddUser" >>
               /\ << "AddUser" >> \in ScriptsOf(f)
            \/ /\ q = << "CompanyGet", "CompanyUpdate" >>
               /\ << "CompanyUpdate" >> \in ScriptsOf(f)
            \/ q = << "CompanyUpdate" >>
    <2>1. CASE f.op = "register"
        BY <2>1, FormType, Zenon DEF ScriptsOf, LetsIn
    <2>2. CASE f.op = "login"
        BY <2>2, FormType, Zenon DEF ScriptsOf, LetsIn
    <2>3. CASE f.op = "logout"
        BY <2>3, Zenon DEF ScriptsOf
    <2>4. CASE f.op = "select"
        BY <2>4, Zenon DEF ScriptsOf
    <2>5. CASE f.op = "company" /\ f.data = NULL
        BY <2>5, Zenon DEF ScriptsOf
    <2>6. CASE f.op = "company" /\ f.data # NULL
        BY <2>6, Zenon DEF ScriptsOf
    <2> QED BY <1>1, <2>1, <2>2, <2>3, <2>4, <2>5, <2>6
<1>3. f.op \notin {"register", "login"} => ~LetsIn(f)
    BY DEF LetsIn
<1>4. /\ q # << >>
      /\ Tail(q) # << >> => Tail(q) \in ScriptsOf(f)
    BY Tuples, <1>2
<1>5. Head(q) = "CompanyGet" =>
         ~LetsIn(f) /\ Tail(q) \in {<< >>, << "SessionUpdate" >>, << "CompanyUpdate" >>}
    <2>1. Head(q) = "CompanyGet" =>
             /\ f.op \in {"select", "company"}
             /\ q \in {<< "CompanyGet" >>, << "CompanyGet", "SessionUpdate" >>,
                       << "CompanyGet", "CompanyUpdate" >>}
        BY Tuples, <1>2 DEF LetsIn
    <2>2. /\ Tail(<< "CompanyGet" >>) = << >>
          /\ Tail(<< "CompanyGet", "SessionUpdate" >>) = << "SessionUpdate" >>
          /\ Tail(<< "CompanyGet", "CompanyUpdate" >>) = << "CompanyUpdate" >>
        BY Tuples
    <2>3. Head(q) = "CompanyGet" => f.op \notin {"register", "login"}
        BY <2>1
    <2> QED BY <1>3, <2>1, <2>2, <2>3
<1>6. /\ Head(q) = "UserGet" => LetsIn(f) /\ q = << "UserGet" >>
      /\ Head(q) = "UserInsert" =>
            f.op = "register" /\ q = << "UserInsert", "SessionInsert" >>
      /\ Head(q) = "CompanyList" =>
            f.op = "login" /\ q = << "CompanyList", "SessionInsert" >>
      /\ Head(q) = "SessionInsert" => LetsIn(f) /\ q = << "SessionInsert" >>
    BY Tuples, <1>2, <1>3
<1>7. /\ Head(q) = "SessionRemove" => ~LetsIn(f) /\ q = << "SessionRemove" >>
      /\ Head(q) = "SessionUpdate" => ~LetsIn(f) /\ q = << "SessionUpdate" >>
      /\ Head(q) = "CompanyInsert" =>
            /\ f.op = "company" /\ f.data # NULL
            /\ q = << "CompanyInsert", "AddUser" >>
      /\ Head(q) = "CompanyUpdate" =>
            f.op = "company" /\ f.data # NULL /\ q = << "CompanyUpdate" >>
      /\ Head(q) = "AddUser" => f.op = "company" /\ q = << "AddUser" >>
    BY Tuples, <1>2, <1>3
<1> QED BY <1>4, <1>5, <1>6, <1>7

(* A new request gets the whole script of its form, or none. *)
LEMMA OpeningScript ==
    ASSUME NEW f \in Forms, NEW s, Opening(f, s) # << >>
    PROVE  /\ Opening(f, s) \in ScriptsOf(f)
           /\ Opening(f, s) \in {<< "UserGet" >>, << "SessionRemove" >>, << "AddUser" >>,
                << "CompanyGet" >>, << "CompanyGet", "SessionUpdate" >>,
                << "CompanyInsert", "AddUser" >>, << "CompanyGet", "CompanyUpdate" >>}
           /\ ~LetsIn(f) => s.id # NULL
<1>1. f # NULL /\ f.op \in {"register", "login", "logout", "select", "company"}
    BY FormType
<1>2. CASE f.op \in {"register", "login"}
    BY <1>1, <1>2, Zenon DEF Opening, RequireLogin, ScriptsOf, LetsIn
<1>3. CASE f.op = "logout"
    BY <1>3, Zenon DEF Opening, RequireLogin, ScriptsOf
<1>4. CASE f.op = "select"
    BY <1>4, Zenon DEF Opening, RequireLogin, ScriptsOf
<1>5. CASE f.op = "company"
    BY <1>5, Zenon DEF Opening, RequireLogin, ScriptsOf, NewCompany
<1> QED BY <1>1, <1>2, <1>3, <1>4, <1>5

-----------------------------------------------------------------------------
(* What a step of one request leaves to the others. *)

(* The form of a request whose handler still has something to run. *)
LEMMA RunningType ==
    ASSUME TypeOK, NEW r \in Requests, ScriptOf(r), script[r] # << >>
    PROVE  /\ form[r] \in Forms /\ form[r] # NULL
           /\ script[r] \in ScriptsOf(form[r])
           /\ Tail(script[r]) \in Seq(Statements)
BY DEF TypeOK, ScriptOf

(* A step of r within its transaction inserts a user or none. *)
InsertsUser(r) ==
    /\ UNCHANGED form /\ form[r] # NULL
    /\ \E u \in FreshIds(user), x \in UserRecord : user' = Put(user, r, u, x)
KeepsUsers(r) == UNCHANGED user /\ (UNCHANGED form \/ form[r] = NULL)

(* A step of r either is one of those or ends the transaction. *)
UserStep(r) ==
    \/ InsertsUser(r)
    \/ KeepsUsers(r)
    \/ \E commit \in BOOLEAN : user' = Ended(user, r, commit)

LEMMA KnowsStays ==
    ASSUME TypeOK, UsersInserted, NEW r \in Requests, UserStep(r),
           NEW s \in Requests, form'[s] = form[s],
           s = r => InsertsUser(r) \/ KeepsUsers(r),
           NEW u, Knows(s, u)
    PROVE  Knows(s, u)'
<1>1. u \in Users /\ user \in [Users -> Versions(UserRecord)]
    BY DEF TypeOK, Knows
<1>2. CASE UNCHANGED user
    BY <1>1, <1>2 DEF Knows, Sees
<1>3. ASSUME NEW k \in FreshIds(user), NEW x \in UserRecord, user' = Put(user, r, k, x)
      PROVE  Knows(s, u)'
    <2>1. u # k
        BY FreshUnseen DEF Knows
    <2>2. user'[u] = user[u] /\ DOMAIN user' = DOMAIN user
        BY <1>1, <1>3, <2>1 DEF Put
    <2> QED BY <1>1, <2>2 DEF Knows, Sees
<1>4. ASSUME NEW commit \in BOOLEAN, user' = Ended(user, r, commit), s # r
      PROVE  Knows(s, u)'
    <2>1. user[u].by # r
        BY <1>1, <1>4, AccountsAssumption DEF UsersInserted, Knows, Sees
    <2>2. user'[u] = user[u] /\ DOMAIN user' = DOMAIN user
        BY <1>1, <1>4, <2>1 DEF Ended
    <2> QED BY <1>1, <2>2 DEF Knows, Sees
<1> QED BY <1>2, <1>3, <1>4 DEF UserStep, InsertsUser, KeepsUsers

LEMMA UsersInsertedStays ==
    ASSUME TypeOK, UsersInserted, NEW r \in Requests, UserStep(r),
           \A s \in Requests \ {r} : form'[s] = form[s]
    PROVE  UsersInserted'
<1> SUFFICES ASSUME NEW u \in Users, user'[u].by # NULL
             PROVE  ~Live(user'[u].val) /\ form'[user'[u].by] # NULL
    BY DEF UsersInserted
<1>1. user \in [Users -> Versions(UserRecord)] /\ user[u].by \in Requests \cup {NULL}
    BY DEF TypeOK, Versions
<1>2. user[u].by # NULL => ~Live(user[u].val) /\ form[user[u].by] # NULL
    BY DEF UsersInserted
<1>3. CASE UNCHANGED user /\ (UNCHANGED form \/ form[r] = NULL)
    BY <1>1, <1>2, <1>3
<1>4. ASSUME NEW k \in FreshIds(user), NEW x \in UserRecord, user' = Put(user, r, k, x),
             UNCHANGED form, form[r] # NULL
      PROVE  ~Live(user'[u].val) /\ form'[user'[u].by] # NULL
    <2>1. CASE u = k
        BY <1>1, <1>4, <2>1, FreshUnseen DEF Put, Live
    <2>2. CASE u # k
        BY <1>1, <1>2, <1>4, <2>2 DEF Put
    <2> QED BY <2>1, <2>2
<1>5. ASSUME NEW commit \in BOOLEAN, user' = Ended(user, r, commit)
      PROVE  ~Live(user'[u].val) /\ form'[user'[u].by] # NULL
    <2>1. user[u].by # r /\ user'[u] = user[u]
        BY <1>1, <1>5 DEF Ended, Settled
    <2> QED BY <1>1, <1>2, <2>1
<1> QED BY <1>3, <1>4, <1>5 DEF UserStep, InsertsUser, KeepsUsers

(* The other requests keep what they have in hand. *)
LEMMA OthersStay ==
    ASSUME IInv, NEW r \in Requests, UserStep(r),
           \A s \in Requests \ {r} :
              /\ form'[s] = form[s] /\ script'[s] = script[s]
              /\ me'[s] = me[s] /\ who'[s] = who[s] /\ co'[s] = co[s]
    PROVE  \A s \in Requests \ {r} : ScriptOf(s)' /\ HandOf(s)'
<1> SUFFICES ASSUME NEW s \in Requests \ {r}
             PROVE  ScriptOf(s)' /\ HandOf(s)'
    OBVIOUS
<1>1. TypeOK /\ UsersInserted /\ ScriptOf(s) /\ HandOf(s)
    BY DEF IInv
<1>2. Knows(s, who[s]) => Knows(s, who[s])'
    BY <1>1, KnowsStays
<1> QED BY <1>1, <1>2 DEF ScriptOf, HandOf

(* Each session is as before, or settled, or a row that r has written. *)
SessionStep(r) ==
    \A k \in Sessions :
        \/ session'[k].by = NULL
        \/ session'[k] = session[k] /\ session[k].by # r
        \/ /\ session'[k] = session[k]
           /\ (form'[r] = form[r] /\ (InsertsUser(r) \/ KeepsUsers(r))) \/ form[r] = NULL
        \/ /\ session'[k].by = r
           /\ ~Live(session'[k].val) /\ Live(session'[k].new)
              => LetsIn(form'[r]) /\ Knows(r, session[k].new.user)'

LEMMA NewSessionsStay ==
    ASSUME IInv, NEW r \in Requests, UserStep(r), SessionStep(r),
           \A s \in Requests \ {r} : form'[s] = form[s]
    PROVE  NewSessions'
<1> SUFFICES ASSUME NEW s \in Requests, NEW k \in Sessions,
                    session'[k].by = s, ~Live(session'[k].val), Live(session'[k].new)
             PROVE  LetsIn(form'[s]) /\ Knows(s, session[k].new.user)'
    BY DEF NewSessions
<1>1. s # NULL
    BY AccountsAssumption
<1>2. CASE /\ session'[k] = session[k]
           /\ \/ s # r \/ form[r] = NULL
              \/ form'[r] = form[r] /\ (InsertsUser(r) \/ KeepsUsers(r))
    <2>1. LetsIn(form[s]) /\ Knows(s, session[k].new.user)
        BY <1>2 DEF IInv, NewSessions
    <2>2. form'[s] = form[s] /\ (s = r => InsertsUser(r) \/ KeepsUsers(r))
        BY <1>2, <2>1 DEF LetsIn
    <2>3. \A u : Knows(s, u) => Knows(s, u)'
        BY <2>2, KnowsStays DEF IInv
    <2> QED BY <1>2, <2>1, <2>2, <2>3 DEF Knows
<1> QED BY <1>1, <1>2 DEF SessionStep

-----------------------------------------------------------------------------
(* The inductive invariant, one lemma for each action. *)

OnlyHandOf(r) ==
    \A s \in Requests \ {r} :
        /\ form'[s] = form[s] /\ script'[s] = script[s]
        /\ me'[s] = me[s] /\ who'[s] = who[s] /\ co'[s] = co[s]

LEMMA Preserved ==
    ASSUME IInv, NEW r \in Requests, UserStep(r), SessionStep(r), OnlyHandOf(r),
           TypeOK', ScriptOf(r)', HandOf(r)'
    PROVE  IInv'
<1>1. \A s \in Requests \ {r} : ScriptOf(s)' /\ HandOf(s)'
    BY OthersStay DEF OnlyHandOf
<1>2. UsersInserted' /\ NewSessions'
    BY UsersInsertedStays, NewSessionsStay DEF OnlyHandOf, IInv
<1> QED BY <1>1, <1>2 DEF IInv

(* A statement on other tables, within a transaction. *)
LEMMA QuietStep ==
    ASSUME NEW r, UNCHANGED << user, session, form >>
    PROVE  UserStep(r) /\ SessionStep(r)
BY DEF UserStep, KeepsUsers, SessionStep

LEMMA FailStep ==
    ASSUME IInv, NEW r \in Requests, Fail(r)
    PROVE  IInv'
<1>1. TypeOK'
    BY DEF Fail, IInv, TypeOK, tables, hand
<1>2. OnlyHandOf(r) /\ script'[r] = << >>
    BY DEF Fail, OnlyHandOf, IInv, TypeOK, hand
<1>3. ScriptOf(r)' /\ HandOf(r)'
    BY <1>2, Tuples DEF ScriptOf, HandOf
<1>4. UserStep(r) /\ SessionStep(r)
    BY QuietStep DEF Fail, tables
<1> QED BY <1>1, <1>2, <1>3, <1>4, Preserved

LEMMA AnswerStep ==
    ASSUME IInv, NEW r \in Requests, Answer(r)
    PROVE  IInv'
<1>1. TypeOK'
    BY DEF Answer, ContinueWith, IInv, TypeOK, tables, hand
<1>2. OnlyHandOf(r) /\ script'[r] = << >>
    BY DEF Answer, ContinueWith, OnlyHandOf, IInv, TypeOK, hand
<1>3. ScriptOf(r)' /\ HandOf(r)'
    BY <1>2, Tuples DEF ScriptOf, HandOf
<1>4. UserStep(r) /\ SessionStep(r)
    BY QuietStep DEF Answer, ContinueWith, tables
<1> QED BY <1>1, <1>2, <1>3, <1>4, Preserved

LEMMA EndStep ==
    ASSUME IInv, NEW r \in Requests, NEW commit \in BOOLEAN,
           EndTransaction(r, commit), script[r] = << >>
    PROVE  IInv'
<1>1. TypeOK'
    <2>1. /\ user' \in [Users -> Versions(UserRecord)]
          /\ company' \in [Companies -> Versions(Texts)]
          /\ company_user' \in [Members -> Versions({"member"})]
          /\ session' \in [Sessions -> Versions(SessionRecord)]
        BY EndedType DEF EndTransaction, IInv, TypeOK
    <2>2. /\ form' \in [Requests -> Forms \cup {NULL}]
          /\ status' \in [Requests -> {StatusOK, StatusInternalServerError}]
          /\ who' \in [Requests -> Users \cup {NULL}]
          /\ co'  \in [Requests -> Companies \cup {NULL}]
          /\ script' \in [Requests -> Seq(Statements)]
        BY DEF EndTransaction, IInv, TypeOK
    <2>3. me' \in [Requests -> [id : Sessions \cup {NULL}, user : Users \cup {NULL},
                                company : Companies \cup {NULL}]]
        BY DEF EndTransaction, Anonymous, IInv, TypeOK
    <2> QED BY <2>1, <2>2, <2>3 DEF TypeOK
<1>2. OnlyHandOf(r) /\ script'[r] = << >>
    BY DEF EndTransaction, OnlyHandOf, IInv, TypeOK
<1>3. ScriptOf(r)' /\ HandOf(r)'
    BY <1>2, Tuples DEF ScriptOf, HandOf
<1>4. UserStep(r)
    BY DEF UserStep, EndTransaction
<1>5. SessionStep(r)
    BY DEF SessionStep, EndTransaction, Ended, Settled, IInv, TypeOK
<1> QED BY <1>1, <1>2, <1>3, <1>4, <1>5, Preserved

LEMMA BeginStep ==
    ASSUME IInv, NEW r \in Requests, NEW f \in Forms, Begin(r, f)
    PROVE  IInv'
<1>1. PICK s \in SessionGet(r, f.cookie) :
         /\ me'     = [me EXCEPT ![r] = s]
         /\ script' = [script EXCEPT ![r] = Opening(f, s)]
    BY DEF Begin
<1>2. /\ s \in [id : Sessions \cup {NULL}, user : Users \cup {NULL},
                 company : Companies \cup {NULL}]
      /\ s.id # NULL => s.user # NULL
    <2>1. CASE s = Anonymous
        BY <2>1 DEF Anonymous
    <2>2. CASE s # Anonymous
        <3>1. /\ f.cookie \in Sessions /\ Live(Sees(session, r)[f.cookie])
              /\ s \in [id : {f.cookie}, user : UserRows(r),
                        company : {Sees(session, r)[f.cookie].company}]
            BY <2>2, FormType DEF SessionGet
        <3>2. Sees(session, r)[f.cookie] \in SessionRecord
            BY <3>1, SeesType DEF IInv, TypeOK
        <3>3. UserRows(r) \subseteq Users
            BY DEF UserRows
        <3> QED BY <3>1, <3>2, <3>3, AccountsAssumption DEF SessionRecord
    <2> QED BY <2>1, <2>2
<1>3. Opening(f, s) \in Seq(Statements)
    <2>1. CASE Opening(f, s) = << >>
        BY <2>1
    <2>2. CASE Opening(f, s) # << >>
        BY <2>2, OpeningScript, ScriptsType
    <2> QED BY <2>1, <2>2
<1>4. TypeOK'
    BY <1>1, <1>2, <1>3 DEF Begin, tables, IInv, TypeOK
<1>5. /\ OnlyHandOf(r) /\ form[r] = NULL /\ form'[r] = f
      /\ script'[r] = Opening(f, s) /\ me'[r] = s
    BY <1>1 DEF Begin, Active, OnlyHandOf, IInv, TypeOK
<1>6. ScriptOf(r)' /\ HandOf(r)'
    <2>1. f # NULL
        BY FormType
    <2>2. Opening(f, s) \notin {<< "SessionUpdate" >>, << "CompanyUpdate" >>,
                << "CompanyList", "SessionInsert" >>, << "SessionInsert" >>}
        BY OpeningScript, Tuples
    <2> QED BY <1>2, <1>5, <2>1, <2>2, OpeningScript DEF ScriptOf, HandOf
<1>7. UserStep(r) /\ SessionStep(r)
    BY <1>5 DEF Begin, tables, UserStep, KeepsUsers, SessionStep
<1> QED BY <1>4, <1>5, <1>6, <1>7, Preserved

(* What is known of a request that is at a statement. *)
LEMMA AtStatement ==
    ASSUME IInv, NEW r \in Requests, NEW op, At(r, op)
    PROVE  /\ TypeOK
           /\ form[r] \in Forms /\ form[r] # NULL
           /\ script[r] # << >> /\ Head(script[r]) = op
           /\ script[r] \in ScriptsOf(form[r])
           /\ Tail(script[r]) \in Seq(Statements)
           /\ Tail(script[r]) # << >> => Tail(script[r]) \in ScriptsOf(form[r])
<1>1. TypeOK /\ ScriptOf(r) /\ script[r] # << >> /\ Head(script[r]) = op
    BY DEF IInv, At
<1> QED BY <1>1, RunningType, ScriptsAt

LEMMA UserGetStep ==
    ASSUME IInv, NEW r \in Requests, UserGet(r)
    PROVE  IInv'
<1>1. At(r, "UserGet")
    BY DEF UserGet, Runs
<1>2. LetsIn(form[r])
    BY <1>1, AtStatement, ScriptsAt
<1>3. CASE Answer(r)
    BY <1>3, AnswerStep
<1>4. CASE /\ form[r].op = "register"
           /\ ContinueWith(r, << "UserInsert", "SessionInsert" >>)
           /\ UNCHANGED << tables, hand >>
    <2>1. << "UserInsert", "SessionInsert" >> \in ScriptsOf(form[r])
        BY <1>4, Zenon DEF ScriptsOf
    <2>2. << "UserInsert", "SessionInsert" >> \in Seq(Statements)
        BY <1>1, <2>1, AtStatement, ScriptsType
    <2>3. TypeOK'
        BY <1>1, <1>4, <2>2, AtStatement DEF ContinueWith, tables, hand, TypeOK
    <2>4. /\ OnlyHandOf(r) /\ form'[r] = form[r]
          /\ script'[r] = << "UserInsert", "SessionInsert" >>
        BY <1>4 DEF ContinueWith, hand, OnlyHandOf, IInv, TypeOK
    <2>5. ScriptOf(r)' /\ HandOf(r)'
        <3>1. << "UserInsert", "SessionInsert" >> \notin
                 {<< "SessionUpdate" >>, << "CompanyUpdate" >>,
                  << "CompanyList", "SessionInsert" >>, << "SessionInsert" >>}
            BY Tuples
        <3> QED BY <1>1, <1>2, <2>1, <2>4, <3>1, AtStatement DEF ScriptOf, HandOf
    <2>6. UserStep(r) /\ SessionStep(r)
        BY <1>4, QuietStep DEF ContinueWith, tables
    <2> QED BY <2>3, <2>4, <2>5, <2>6, Preserved
<1>5. ASSUME form[r].op = "login", NEW u \in Found(r, form[r].name),
             PasswordValid(form[r].password, Sees(user, r)[u]),
             who' = [who EXCEPT ![r] = u],
             ContinueWith(r, << "CompanyList", "SessionInsert" >>),
             UNCHANGED << tables, me, co >>
      PROVE  IInv'
    <2>1. << "CompanyList", "SessionInsert" >> \in ScriptsOf(form[r])
        BY <1>5, Zenon DEF ScriptsOf
    <2>2. << "CompanyList", "SessionInsert" >> \in Seq(Statements)
        BY <1>1, <2>1, AtStatement, ScriptsType
    <2>3. u \in UserRows(r) /\ u \in Users
        BY <1>5 DEF Found, UserRows
    <2>4. TypeOK'
        BY <1>1, <1>5, <2>2, <2>3, AtStatement DEF ContinueWith, tables, TypeOK
    <2>5. /\ OnlyHandOf(r) /\ form'[r] = form[r] /\ who'[r] = u
          /\ script'[r] = << "CompanyList", "SessionInsert" >>
        BY <1>5 DEF ContinueWith, OnlyHandOf, IInv, TypeOK
    <2>6. Knows(r, who[r])'
        BY <1>5, <2>3, <2>5 DEF Knows, UserRows, PasswordValid, tables
    <2>7. ScriptOf(r)' /\ HandOf(r)'
        <3>1. << "CompanyList", "SessionInsert" >> \notin
                 {<< "SessionUpdate" >>, << "CompanyUpdate" >>}
            BY Tuples
        <3> QED BY <1>1, <1>2, <2>1, <2>5, <2>6, <3>1, AtStatement DEF ScriptOf, HandOf
    <2>8. UserStep(r) /\ SessionStep(r)
        BY <1>5, QuietStep DEF ContinueWith, tables
    <2> QED BY <2>4, <2>5, <2>7, <2>8, Preserved
<1> QED BY <1>3, <1>4, <1>5 DEF UserGet

LEMMA UserInsertStep ==
    ASSUME IInv, NEW r \in Requests, UserInsert(r)
    PROVE  IInv'
<1>1. At(r, "UserInsert")
    BY DEF UserInsert, Runs
<1>2. /\ form[r].op = "register" /\ LetsIn(form[r])
      /\ script[r] = << "UserInsert", "SessionInsert" >>
      /\ Tail(script[r]) = << "SessionInsert" >>
    <2>1. form[r].op = "register" /\ script[r] = << "UserInsert", "SessionInsert" >>
        BY <1>1, AtStatement, ScriptsAt
    <2> QED BY <1>1, <2>1, AtStatement, Tuples DEF LetsIn
<1>3. CASE Fail(r)
    BY <1>3, FailStep
<1> DEFINE x == [name |-> form[r].name, password |-> form[r].password]
<1>4. ASSUME NEW u \in FreshIds(user), user' = Put(user, r, u, x),
             who' = [who EXCEPT ![r] = u], Continue(r),
             UNCHANGED << company, company_user, session, me, co >>
      PROVE  IInv'
    <2>1. x \in UserRecord /\ Live(x)
        BY <1>1, <1>2, AtStatement, FormType, AccountsAssumption DEF UserRecord, Live
    <2>2. u \in Users /\ user \in [Users -> Versions(UserRecord)]
        BY FreshUnseen DEF IInv, TypeOK
    <2>3. user' \in [Users -> Versions(UserRecord)]
        BY <1>4, <2>1, <2>2, PutType
    <2>4. TypeOK'
        BY <1>1, <1>4, <2>2, <2>3, AtStatement DEF Continue, ContinueWith, TypeOK
    <2>5. /\ OnlyHandOf(r) /\ form'[r] = form[r] /\ who'[r] = u
          /\ script'[r] = << "SessionInsert" >>
        BY <1>2, <1>4 DEF Continue, ContinueWith, OnlyHandOf, IInv, TypeOK
    <2>6. Knows(r, who[r])'
        <3>1. Sees(user', r)[u] = x
            BY <1>4, <2>2 DEF Sees, Put
        <3> QED BY <2>1, <2>2, <2>5, <3>1 DEF Knows
    <2>7. ScriptOf(r)' /\ HandOf(r)'
        <3>1. << "SessionInsert" >> \notin {<< "SessionUpdate" >>, << "CompanyUpdate" >>}
            BY Tuples
        <3> QED BY <1>1, <1>2, <2>5, <2>6, <3>1, AtStatement, Tuples DEF ScriptOf, HandOf
    <2>8. InsertsUser(r)
        BY <1>1, <1>4, <2>1, AtStatement DEF InsertsUser, Continue, ContinueWith
    <2>9. UserStep(r) /\ SessionStep(r)
        BY <1>4, <2>5, <2>8 DEF UserStep, SessionStep
    <2> QED BY <2>4, <2>5, <2>7, <2>9, Preserved
<1> QED BY <1>3, <1>4 DEF UserInsert

LEMMA CompanyListStep ==
    ASSUME IInv, NEW r \in Requests, CompanyList(r)
    PROVE  IInv'
<1>1. At(r, "CompanyList")
    BY DEF CompanyList, Runs
<1>2. /\ form[r].op = "login" /\ LetsIn(form[r])
      /\ script[r] = << "CompanyList", "SessionInsert" >>
      /\ Tail(script[r]) = << "SessionInsert" >>
    <2>1. form[r].op = "login" /\ script[r] = << "CompanyList", "SessionInsert" >>
        BY <1>1, AtStatement, ScriptsAt
    <2> QED BY <1>1, <2>1, AtStatement, Tuples DEF LetsIn
<1>3. PICK c \in Companies \cup {NULL} : co' = [co EXCEPT ![r] = c]
    <2>1. CASE Cardinality(CompaniesOf(r, who[r])) = 1
        <3>1. CompaniesOf(r, who[r]) # {}
            BY <2>1, FS_EmptySet
        <3>2. CompaniesOf(r, who[r]) \subseteq Companies
            BY DEF CompaniesOf
        <3>3. (CHOOSE c \in CompaniesOf(r, who[r]) : TRUE) \in CompaniesOf(r, who[r])
            BY <3>1
        <3> QED BY <2>1, <3>2, <3>3 DEF CompanyList
    <2>2. CASE Cardinality(CompaniesOf(r, who[r])) # 1
        BY <2>2 DEF CompanyList
    <2> QED BY <2>1, <2>2
<1>4. TypeOK'
    BY <1>1, <1>3, AtStatement DEF CompanyList, Continue, ContinueWith, tables, TypeOK
<1>5. /\ OnlyHandOf(r) /\ form'[r] = form[r] /\ who'[r] = who[r]
      /\ script'[r] = << "SessionInsert" >>
    BY <1>2, <1>3 DEF CompanyList, Continue, ContinueWith, OnlyHandOf, IInv, TypeOK
<1>6. Knows(r, who[r])'
    <2>1. Knows(r, who[r])
        BY <1>2 DEF IInv, HandOf
    <2> QED BY <1>5, <2>1 DEF CompanyList, tables, Knows
<1>7. ScriptOf(r)' /\ HandOf(r)'
    <2>1. << "SessionInsert" >> \notin {<< "SessionUpdate" >>, << "CompanyUpdate" >>}
        BY Tuples
    <2> QED BY <1>1, <1>2, <1>5, <1>6, <2>1, AtStatement, Tuples DEF ScriptOf, HandOf
<1>8. UserStep(r) /\ SessionStep(r)
    BY QuietStep DEF CompanyList, Continue, ContinueWith, tables
<1> QED BY <1>4, <1>5, <1>7, <1>8, Preserved

(* A statement of a page that is for those who are logged in, which leaves *)
(* users and sessions alone and may find a company.                        *)
LEMMA MemberStep ==
    ASSUME IInv, NEW r \in Requests, ~LetsIn(form[r]), script[r] # << >>,
           form[r] \in Forms, Tail(script[r]) # << >> => Tail(script[r]) \in ScriptsOf(form[r]),
           Continue(r), UNCHANGED << user, session, who >>,
           NEW c \in Companies \cup {NULL}, co' = [co EXCEPT ![r] = c],
           UNCHANGED me \/ me' = [me EXCEPT ![r].company = c],
           Tail(script[r]) \in {<< "SessionUpdate" >>, << "CompanyUpdate" >>} => c # NULL,
           TypeOK'
    PROVE  IInv'
<1>1. /\ OnlyHandOf(r) /\ form'[r] = form[r] /\ co'[r] = c
      /\ script'[r] = Tail(script[r])
      /\ me'[r].id = me[r].id /\ me'[r].user = me[r].user
    BY DEF Continue, ContinueWith, OnlyHandOf, IInv, TypeOK
<1>2. form[r] # NULL
    BY FormType
<1>3. \A q \in ScriptsOf(form[r]) :
         q \notin {<< "CompanyList", "SessionInsert" >>, << "SessionInsert" >>}
    <2>1. \A q \in ScriptsOf(form[r]) : Head(q) \notin {"CompanyList", "SessionInsert"}
        BY <1>2, ScriptsAt DEF LetsIn
    <2>2. /\ Head(<< "CompanyList", "SessionInsert" >>) = "CompanyList"
          /\ Head(<< "SessionInsert" >>) = "SessionInsert"
        BY Tuples
    <2> QED BY <2>1, <2>2
<1>4. ScriptOf(r)'
    BY <1>1, <1>2 DEF ScriptOf
<1>5. HandOf(r)'
    <2>1. me[r].id # NULL /\ me[r].user # NULL
        BY DEF IInv, HandOf
    <2> QED BY <1>1, <1>2, <1>3, <2>1, Tuples DEF HandOf
<1>6. UserStep(r) /\ SessionStep(r)
    BY QuietStep DEF Continue, ContinueWith
<1> QED BY <1>1, <1>4, <1>5, <1>6, Preserved

LEMMA CompanyGetStep ==
    ASSUME IInv, NEW r \in Requests, CompanyGet(r)
    PROVE  IInv'
<1>1. At(r, "CompanyGet")
    BY DEF CompanyGet, Runs
<1>2. ~LetsIn(form[r])
    BY <1>1, AtStatement, ScriptsAt
<1>3. CASE Fail(r)
    BY <1>3, FailStep
<1>4. ASSUME NEW c \in CompanyMatches(r), co' = [co EXCEPT ![r] = c], Continue(r),
             UNCHANGED << tables, me, who >>
      PROVE  IInv'
    <2>1. c \in Companies /\ c # NULL
        BY <1>4, AccountsAssumption DEF CompanyMatches, CompaniesOf
    <2>2. TypeOK'
        BY <1>1, <1>4, <2>1, AtStatement DEF Continue, ContinueWith, tables, TypeOK
    <2> QED BY <1>1, <1>2, <1>4, <2>1, <2>2, AtStatement, MemberStep DEF tables
<1> QED BY <1>3, <1>4 DEF CompanyGet

LEMMA CompanyInsertStep ==
    ASSUME IInv, NEW r \in Requests, CompanyInsert(r)
    PROVE  IInv'
<1>1. At(r, "CompanyInsert")
    BY DEF CompanyInsert, Runs
<1>2. form[r].op = "company" /\ form[r].data # NULL /\ ~LetsIn(form[r])
    BY <1>1, AtStatement, ScriptsAt DEF LetsIn
<1>3. CASE Fail(r)
    BY <1>3, FailStep
<1>4. ASSUME NEW c \in FreshIds(company), company' = Put(company, r, c, form[r].data),
             co' = [co EXCEPT ![r] = c], Continue(r),
             UNCHANGED << user, company_user, session, me, who >>
      PROVE  IInv'
    <2>1. c \in Companies /\ c # NULL
        BY FreshUnseen, AccountsAssumption DEF IInv, TypeOK
    <2>2. form[r].data \in Texts
        BY <1>1, <1>2, AtStatement, FormType
    <2>3. company' \in [Companies -> Versions(Texts)]
        BY <1>4, <2>1, <2>2, PutType DEF IInv, TypeOK
    <2>4. TypeOK'
        BY <1>1, <1>4, <2>1, <2>3, AtStatement DEF Continue, ContinueWith, TypeOK
    <2> QED BY <1>1, <1>2, <1>4, <2>1, <2>4, AtStatement, MemberStep
<1> QED BY <1>3, <1>4 DEF CompanyInsert

LEMMA CompanyUpdateStep ==
    ASSUME IInv, NEW r \in Requests, CompanyUpdate(r)
    PROVE  IInv'
<1>1. At(r, "CompanyUpdate")
    BY DEF CompanyUpdate, Runs
<1>2. /\ form[r].op = "company" /\ form[r].data # NULL /\ ~LetsIn(form[r])
      /\ script[r] = << "CompanyUpdate" >>
    BY <1>1, AtStatement, ScriptsAt DEF LetsIn
<1>3. co[r] \in Companies /\ co[r] # NULL /\ co' = [co EXCEPT ![r] = co[r]]
    BY <1>1, <1>2, AtStatement DEF IInv, HandOf, CompanyUpdate, hand, TypeOK
<1>4. form[r].data \in Texts
    BY <1>1, <1>2, AtStatement, FormType
<1>5. company' \in [Companies -> Versions(Texts)]
    BY <1>3, <1>4, PutType DEF CompanyUpdate, IInv, TypeOK
<1>6. TypeOK'
    BY <1>1, <1>5, AtStatement DEF CompanyUpdate, Continue, ContinueWith, hand, TypeOK
<1>7. Tail(script[r]) = << >>
    BY <1>2, Tuples
<1> QED BY <1>1, <1>2, <1>3, <1>6, <1>7, AtStatement, MemberStep DEF CompanyUpdate, hand

(* The session in hand with another company. *)
LEMMA ActsType ==
    ASSUME NEW I, NEW U, NEW C, NEW c \in C, NEW R, NEW r \in R,
           NEW m \in [R -> [id : I, user : U, company : C]]
    PROVE  [m EXCEPT ![r].company = c] \in [R -> [id : I, user : U, company : C]]
<1>1. m[r] \in [id : I, user : U, company : C]
    OBVIOUS
<1>2. [m[r] EXCEPT !.company = c] \in [id : I, user : U, company : C]
    BY <1>1
<1> QED BY <1>2

LEMMA AddUserStep ==
    ASSUME IInv, NEW r \in Requests, AddUser(r)
    PROVE  IInv'
<1>1. At(r, "AddUser")
    BY DEF AddUser, Runs
<1>2. form[r].op = "company" /\ ~LetsIn(form[r])
    BY <1>1, AtStatement, ScriptsAt DEF LetsIn
<1>3. CASE Fail(r)
    BY <1>3, FailStep
<1>4. CASE /\ co[r] # NULL
           /\ company_user' = IF Live(Sees(company_user, r)[<< me[r].user, co[r] >>])
                              THEN company_user
                              ELSE Put(company_user, r, << me[r].user, co[r] >>, "member")
           /\ me' = [me EXCEPT ![r].company = co[r]]
           /\ Continue(r)
           /\ UNCHANGED << user, company, session, who, co >>
    <2>1. co[r] \in Companies /\ co' = [co EXCEPT ![r] = co[r]]
        BY <1>4 DEF IInv, TypeOK
    <2>2. company_user' \in [Members -> Versions({"member"})]
        <3>1. company_user \in [Members -> Versions({"member"})]
            BY DEF IInv, TypeOK
        <3>2. Put(company_user, r, << me[r].user, co[r] >>, "member")
                 \in [Members -> Versions({"member"})]
            BY <3>1, PutType
        <3> QED BY <1>4, <3>1, <3>2
    <2>3. me' \in [Requests -> [id : Sessions \cup {NULL}, user : Users \cup {NULL},
                                company : Companies \cup {NULL}]]
        BY <1>4, <2>1, ActsType DEF IInv, TypeOK
    <2>4. TypeOK'
        BY <1>1, <1>4, <2>2, <2>3, AtStatement DEF Continue, ContinueWith, TypeOK
    <2> QED BY <1>1, <1>2, <1>4, <2>1, <2>4, AtStatement, MemberStep
<1> QED BY <1>3, <1>4 DEF AddUser

LEMMA SessionInsertStep ==
    ASSUME IInv, NEW r \in Requests, SessionInsert(r)
    PROVE  IInv'
<1>1. At(r, "SessionInsert")
    BY DEF SessionInsert, Runs
<1>2. LetsIn(form[r]) /\ script[r] = << "SessionInsert" >>
    BY <1>1, AtStatement, ScriptsAt
<1>3. Tail(script[r]) = << >> /\ Knows(r, who[r])
    BY <1>2, Tuples DEF IInv, HandOf
<1>4. CASE Fail(r)
    BY <1>4, FailStep
<1> DEFINE x == [user |-> who[r], company |-> co[r]]
<1>5. ASSUME NEW k \in FreshIds(session), session' = Put(session, r, k, x),
             Continue(r), UNCHANGED << user, company, company_user, hand >>
      PROVE  IInv'
    <2>1. x \in SessionRecord
        BY <1>3 DEF Knows, SessionRecord, IInv, TypeOK
    <2>2. k \in Sessions /\ session \in [Sessions -> Versions(SessionRecord)]
        BY FreshUnseen DEF IInv, TypeOK
    <2>3. session' \in [Sessions -> Versions(SessionRecord)]
        BY <1>5, <2>1, <2>2, PutType
    <2>4. TypeOK'
        BY <1>1, <1>5, <2>3, AtStatement DEF Continue, ContinueWith, hand, TypeOK
    <2>5. OnlyHandOf(r) /\ form'[r] = form[r] /\ script'[r] = << >>
        BY <1>3, <1>5 DEF Continue, ContinueWith, hand, OnlyHandOf, IInv, TypeOK
    <2>6. ScriptOf(r)' /\ HandOf(r)'
        BY <2>5, Tuples DEF ScriptOf, HandOf
    <2>7. UserStep(r) /\ (InsertsUser(r) \/ KeepsUsers(r))
        BY <1>5 DEF Continue, ContinueWith, UserStep, KeepsUsers
    <2>8. session'[k].by = r /\ session'[k].new.user = who[r]
        BY <1>5, <2>2 DEF Put
    <2>9. Knows(r, session[k].new.user)'
        BY <1>3, <1>5, <2>5, <2>8 DEF Knows
    <2>10. \A j \in Sessions \ {k} : session'[j] = session[j]
        BY <1>5, <2>2 DEF Put
    <2>11. SessionStep(r)
        BY <1>2, <2>5, <2>7, <2>8, <2>9, <2>10 DEF SessionStep
    <2> QED BY <2>4, <2>5, <2>6, <2>7, <2>11, Preserved
<1> QED BY <1>4, <1>5 DEF SessionInsert

(* A request that does not let anybody in writes no session that is new.   *)
LEMMA SessionPut ==
    ASSUME IInv, NEW r \in Requests, ~LetsIn(form[r]), UNCHANGED << user, form >>,
           NEW k \in Sessions, Live(Sees(session, r)[k]), NEW x,
           session' = Put(session, r, k, x)
    PROVE  SessionStep(r)
<1>1. session \in [Sessions -> Versions(SessionRecord)]
    BY DEF IInv, TypeOK
<1>2. session'[k].by = r /\ session'[k].val = session[k].val
    BY <1>1 DEF Put
<1>3. Live(session[k].val)
    BY <1>1 DEF IInv, NewSessions, Sees
<1>4. \A j \in Sessions \ {k} : session'[j] = session[j]
    BY <1>1 DEF Put
<1>5. KeepsUsers(r)
    BY DEF KeepsUsers
<1> QED BY <1>2, <1>3, <1>4, <1>5 DEF SessionStep

LEMMA SessionUpdateStep ==
    ASSUME IInv, NEW r \in Requests, SessionUpdate(r)
    PROVE  IInv'
<1>1. At(r, "SessionUpdate")
    BY DEF SessionUpdate, Runs
<1>2. ~LetsIn(form[r]) /\ script[r] = << "SessionUpdate" >>
    BY <1>1, AtStatement, ScriptsAt
<1>3. /\ Tail(script[r]) = << >>
      /\ me[r].id \in Sessions /\ co[r] \in Companies
      /\ session \in [Sessions -> Versions(SessionRecord)]
    BY <1>1, <1>2, Tuples, AtStatement DEF IInv, HandOf, TypeOK
<1> DEFINE k == me[r].id
           x == [Sees(session, r)[k] EXCEPT !.company = co[r]]
<1>4. /\ session' \in [Sessions -> Versions(SessionRecord)]
      /\ SessionStep(r)
    <2>1. CASE Live(Sees(session, r)[k])
        <3>1. session' = Put(session, r, k, x)
            BY <2>1 DEF SessionUpdate
        <3>2. x \in SessionRecord
            <4>1. Sees(session, r)[k] \in SessionRecord
                BY <1>3, <2>1, SeesType
            <4> QED BY <1>3, <4>1 DEF SessionRecord
        <3>3. session' \in [Sessions -> Versions(SessionRecord)]
            BY <1>3, <3>1, <3>2, PutType
        <3>4. SessionStep(r)
            BY <1>2, <1>3, <2>1, <3>1, SessionPut DEF SessionUpdate, Continue, ContinueWith
        <3> QED BY <3>3, <3>4
    <2>2. CASE ~Live(Sees(session, r)[k])
        <3>1. UNCHANGED << user, session, form >>
            BY <2>2 DEF SessionUpdate, Continue, ContinueWith
        <3> QED BY <1>3, <3>1, QuietStep
    <2> QED BY <2>1, <2>2
<1>5. me' \in [Requests -> [id : Sessions \cup {NULL}, user : Users \cup {NULL},
                            company : Companies \cup {NULL}]]
    BY <1>3, ActsType DEF SessionUpdate, IInv, TypeOK
<1>6. TypeOK'
    BY <1>1, <1>4, <1>5, AtStatement DEF SessionUpdate, Continue, ContinueWith, TypeOK
<1>7. OnlyHandOf(r) /\ script'[r] = << >>
    BY <1>3 DEF SessionUpdate, Continue, ContinueWith, OnlyHandOf, IInv, TypeOK
<1>8. ScriptOf(r)' /\ HandOf(r)'
    BY <1>7, Tuples DEF ScriptOf, HandOf
<1>9. UserStep(r)
    BY DEF SessionUpdate, Continue, ContinueWith, UserStep, KeepsUsers
<1> QED BY <1>4, <1>6, <1>7, <1>8, <1>9, Preserved

LEMMA SessionRemoveStep ==
    ASSUME IInv, NEW r \in Requests, SessionRemove(r)
    PROVE  IInv'
<1>1. At(r, "SessionRemove")
    BY DEF SessionRemove, Runs
<1>2. ~LetsIn(form[r]) /\ script[r] = << "SessionRemove" >>
    BY <1>1, AtStatement, ScriptsAt
<1>3. /\ Tail(script[r]) = << >>
      /\ me[r].id \in Sessions
      /\ session \in [Sessions -> Versions(SessionRecord)]
    BY <1>1, <1>2, Tuples, AtStatement DEF IInv, HandOf, TypeOK
<1>4. /\ session' \in [Sessions -> Versions(SessionRecord)]
      /\ SessionStep(r)
    <2>1. CASE Live(Sees(session, r)[me[r].id])
        <3>1. session' = Put(session, r, me[r].id, Gone)
            BY <2>1 DEF SessionRemove
        <3>2. session' \in [Sessions -> Versions(SessionRecord)]
            BY <1>3, <3>1, PutType
        <3>3. SessionStep(r)
            BY <1>2, <1>3, <2>1, <3>1, SessionPut DEF SessionRemove, Continue, ContinueWith
        <3> QED BY <3>2, <3>3
    <2>2. CASE ~Live(Sees(session, r)[me[r].id])
        <3>1. UNCHANGED << user, session, form >>
            BY <2>2 DEF SessionRemove, Continue, ContinueWith
        <3> QED BY <1>3, <3>1, QuietStep
    <2> QED BY <2>1, <2>2
<1>5. TypeOK'
    BY <1>1, <1>4, AtStatement DEF SessionRemove, Continue, ContinueWith, hand, TypeOK
<1>6. OnlyHandOf(r) /\ script'[r] = << >>
    BY <1>3 DEF SessionRemove, Continue, ContinueWith, hand, OnlyHandOf, IInv, TypeOK
<1>7. ScriptOf(r)' /\ HandOf(r)'
    BY <1>6, Tuples DEF ScriptOf, HandOf
<1>8. UserStep(r)
    BY DEF SessionRemove, Continue, ContinueWith, UserStep, KeepsUsers
<1> QED BY <1>4, <1>5, <1>6, <1>7, <1>8, Preserved

LEMMA InitInvariant == Init => IInv
<1> SUFFICES ASSUME Init
             PROVE  IInv
    OBVIOUS
<1>1. \A S, I : EmptyTable(I) \in [I -> Versions(S)]
    BY DEF EmptyTable, Settled, Versions
<1>2. << >> \in Seq(Statements)
    OBVIOUS
<1>3. TypeOK
    BY <1>1, <1>2 DEF Init, TypeOK, Anonymous
<1>4. \A r \in Requests : ScriptOf(r) /\ HandOf(r)
    BY Tuples DEF Init, ScriptOf, HandOf
<1>5. UsersInserted
    BY DEF Init, EmptyTable, Settled, UsersInserted
<1>6. NewSessions
    BY AccountsAssumption DEF Init, EmptyTable, Settled, NewSessions
<1> QED BY <1>3, <1>4, <1>5, <1>6 DEF IInv

LEMMA StepInvariant == IInv /\ [Next]_vars => IInv'
<1> SUFFICES ASSUME IInv, [Next]_vars
             PROVE  IInv'
    OBVIOUS
<1>1. ASSUME NEW r \in Requests, NEW f \in Forms, Begin(r, f)
      PROVE  IInv'
    BY <1>1, BeginStep
<1>2. ASSUME NEW r \in Requests, Step(r)
      PROVE  IInv'
    <2>1. CASE CommitOrRollback(r)
        <3>1. (status[r] <= 400) \in BOOLEAN
            OBVIOUS
        <3> QED BY <2>1, <3>1, EndStep DEF CommitOrRollback
    <2> QED BY <1>2, <2>1, UserGetStep, UserInsertStep, CompanyListStep, CompanyGetStep,
               CompanyInsertStep, CompanyUpdateStep, AddUserStep, SessionInsertStep,
               SessionUpdateStep, SessionRemoveStep
            DEF Step
<1>3. ASSUME NEW r \in Requests, CommitFails(r)
      PROVE  IInv'
    BY <1>3, EndStep DEF CommitFails
<1>4. ASSUME NEW r \in Requests, StatementFails(r)
      PROVE  IInv'
    BY <1>4, FailStep DEF StatementFails
<1>5. CASE UNCHANGED vars
    BY <1>5 DEF vars, tables, hand, IInv, TypeOK, ScriptOf, HandOf, UsersInserted,
                NewSessions, Knows
<1> QED BY <1>1, <1>2, <1>3, <1>4, <1>5 DEF Next

(* Users, companies, memberships, sessions and what requests have in hand  *)
(* have their types in every state, for any forms that arrive.             *)
THEOREM TypeCorrect == Spec => []TypeOK
<1>1. IInv => TypeOK
    BY DEF IInv
<1> QED BY <1>1, InitInvariant, StepInvariant, PTL DEF Spec

-----------------------------------------------------------------------------
(* Only the end of a transaction changes what is committed of a session.   *)
LEMMA SessionsCommitted ==
    ASSUME IInv, [Next]_vars, NEW k \in Sessions
    PROVE  \/ session'[k].val = session[k].val
           \/ \E r \in Requests, commit \in BOOLEAN : EndTransaction(r, commit)
<1>1. session \in [Sessions -> Versions(SessionRecord)]
    BY DEF IInv, TypeOK
<1>2. \A j, r, x : session' = Put(session, r, j, x) => session'[k].val = session[k].val
    BY <1>1 DEF Put
<1>3. ASSUME NEW r \in Requests, Step(r)
      PROVE  \/ session'[k].val = session[k].val
             \/ \E commit \in BOOLEAN : EndTransaction(r, commit)
    <2>1. CASE UserGet(r) \/ UserInsert(r)
        BY <2>1 DEF UserGet, UserInsert, Answer, ContinueWith, Fail, tables
    <2>2. CASE CompanyList(r) \/ CompanyGet(r) \/ CompanyInsert(r) \/ CompanyUpdate(r)
        BY <2>2 DEF CompanyList, CompanyGet, CompanyInsert, CompanyUpdate, Fail, tables
    <2>3. CASE AddUser(r)
        BY <2>3 DEF AddUser, Fail, tables
    <2>4. CASE SessionInsert(r)
        BY <1>2, <2>4 DEF SessionInsert, Fail, tables
    <2>5. CASE SessionUpdate(r)
        BY <1>2, <2>5 DEF SessionUpdate
    <2>6. CASE SessionRemove(r)
        BY <1>2, <2>6 DEF SessionRemove
    <2>7. CASE CommitOrRollback(r)
        <3>1. (status[r] <= 400) \in BOOLEAN
            OBVIOUS
        <3> QED BY <2>7, <3>1 DEF CommitOrRollback
    <2> QED BY <1>3, <2>1, <2>2, <2>3, <2>4, <2>5, <2>6, <2>7 DEF Step
<1>4. ASSUME NEW r \in Requests, NEW f \in Forms, Begin(r, f)
      PROVE  session'[k].val = session[k].val
    BY <1>4 DEF Begin, tables
<1>5. ASSUME NEW r \in Requests, CommitFails(r)
      PROVE  \E commit \in BOOLEAN : EndTransaction(r, commit)
    BY <1>5 DEF CommitFails
<1>6. ASSUME NEW r \in Requests, StatementFails(r)
      PROVE  session'[k].val = session[k].val
    BY <1>6 DEF StatementFails, Fail, tables
<1>7. CASE UNCHANGED vars
    BY <1>7 DEF vars, tables
<1> QED BY <1>3, <1>4, <1>5, <1>6, <1>7 DEF Next

(* However many log in, register and log out at the same time, and         *)
(* whatever fails: nobody is given a session but for the password of the   *)
(* user whose session it is (login.go:47-75, register.go:32-62).           *)
THEOREM SessionsAreEarned == Spec => SessionsEarned
<1>1. ASSUME IInv, [Next]_vars, NEW r \in Requests, NEW k \in Sessions,
             session[k].by = r, ~Live(session[k].val), Live(session'[k].val)
      PROVE  /\ form[r].op \in {"register", "login"}
             /\ user'[session'[k].val.user].val.password = form[r].password
    <2>1. PICK s \in Requests, commit \in BOOLEAN : EndTransaction(s, commit)
        BY <1>1, SessionsCommitted
    <2>2. /\ session \in [Sessions -> Versions(SessionRecord)]
          /\ user \in [Users -> Versions(UserRecord)]
        BY <1>1 DEF IInv, TypeOK
    <2>3. s = r /\ commit = TRUE /\ session'[k].val = session[k].new
        BY <1>1, <2>1, <2>2 DEF EndTransaction, Ended, Settled
    <2>4. LetsIn(form[r]) /\ Knows(r, session[k].new.user)
        BY <1>1, <2>3 DEF IInv, NewSessions
    <2>5. \A u \in Users : user'[u].val = Sees(user, r)[u]
        BY <2>1, <2>2, <2>3 DEF EndTransaction, Ended, Settled, Sees
    <2> QED BY <2>3, <2>4, <2>5 DEF LetsIn, Knows
<1>2. IInv /\ [Next]_vars =>
         [\A r \in Requests, k \in Sessions :
            session[k].by = r /\ ~Live(session[k].val) /\ Live(session'[k].val)
            => /\ form[r].op \in {"register", "login"}
               /\ user'[session'[k].val.user].val.password = form[r].password]_vars
    BY <1>1
<1> QED BY <1>2, InitInvariant, StepInvariant, PTL DEF Spec, SessionsEarned

-----------------------------------------------------------------------------
(* Members.  The inductive invariant: nobody leaves a company and no       *)
(* company goes, so what a handler has once found out stays true until its *)
(* transaction has ended.  What has to be shown is that it found it out,   *)
(* and that what it writes afterwards is about the same company.           *)

(* User u is a member of company c, as request r sees it. *)
Member(r, u, c) ==
    /\ u \in Users /\ c \in Companies
    /\ Live(Sees(company_user, r)[<< u, c >>])

Finds(r, c) == c \in Companies /\ Live(Sees(company, r)[c])

(* The company in hand is one of the user whom the handler serves. *)
CompanyInHand(r) ==
    /\ form[r] = NULL => co[r] = NULL
    /\ script[r] \in {<< "UserGet" >>, << "UserInsert", "SessionInsert" >>} => co[r] = NULL
    /\ script[r] = << "SessionInsert" >> => co[r] = NULL \/ Member(r, who[r], co[r])
    /\ script[r] \in {<< "SessionUpdate" >>, << "CompanyUpdate" >>}
           => Member(r, me[r].user, co[r]) /\ Finds(r, co[r])
    /\ script[r] = << "AddUser" >> /\ co[r] # NULL => company[co[r]].by = r

(* Members join a company in the request that inserts it. *)
MembersJoin ==
    \A m \in Members :
        company_user[m].by # NULL =>
            company_user[m].new = "member" /\ company[m[2]].by = company_user[m].by

(* Companies are updated by members. *)
CompaniesWritten ==
    \A c \in Companies, r \in Requests :
        company[c].by = r =>
            /\ form[r] # NULL /\ Live(company[c].new)
            /\ Live(company[c].val) => Member(r, me[r].user, c)

(* Sessions are written last, for companies of their users. *)
SessionFor(r, k) ==
    Live(session[k].new) /\ session[k].new.company # NULL =>
        \E u \in {me[r].user, who[r]} : Member(r, u, session[k].new.company)

SessionsWritten ==
    \A k \in Sessions, r \in Requests :
        session[k].by = r => form[r] # NULL /\ script[r] = << >> /\ SessionFor(r, k)

MInv ==
    /\ \A r \in Requests : CompanyInHand(r)
    /\ MembersJoin
    /\ CompaniesWritten
    /\ SessionsWritten

-----------------------------------------------------------------------------
(* What a statement of r does to memberships and companies. *)

Joins(r) ==
    \/ UNCHANGED company_user
    \/ \E u \in Users, c \in Companies :
          /\ company_user' = Put(company_user, r, << u, c >>, "member")
          /\ company[c].by = r /\ UNCHANGED company

Writes(r) ==
    \/ UNCHANGED company
    \/ \E c \in Companies, x \in Texts :
          company' = Put(company, r, c, x) /\ company[c].by \in {NULL, r}

Ends(r) ==
    \E commit \in BOOLEAN :
        /\ company' = Ended(company, r, commit)
        /\ company_user' = Ended(company_user, r, commit)

LEMMA TextsLive == Live("member") /\ \A x \in Texts : Live(x)
BY AccountsAssumption DEF Live

(* Memberships that somebody has seen stay. *)
LEMMA MemberStays ==
    ASSUME TypeOK, MembersJoin, NEW r \in Requests, Joins(r),
           NEW s \in Requests, NEW u, NEW c, Member(s, u, c)
    PROVE  Member(s, u, c)'
<1>1. /\ << u, c >> \in Members
      /\ company_user \in [Members -> Versions({"member"})]
    BY DEF TypeOK, Members, Member
<1>2. CASE UNCHANGED company_user
    BY <1>2 DEF Member, Sees
<1>3. ASSUME NEW v \in Users, NEW d \in Companies,
             company_user' = Put(company_user, r, << v, d >>, "member"), company[d].by = r
      PROVE  Member(s, u, c)'
    <2> DEFINE m == << v, d >>
    <2>1. m \in Members /\ m[2] = d
        BY DEF Members
    <2>2. CASE << u, c >> # m
        <3>1. company_user'[<< u, c >>] = company_user[<< u, c >>]
            BY <1>1, <1>3, <2>2 DEF Put
        <3>2. DOMAIN company_user' = Members
            BY <1>1, <1>3 DEF Put
        <3> QED BY <1>1, <3>1, <3>2 DEF Member, Sees
    <2>3. CASE << u, c >> = m
        <3>1. company_user'[m] = [val |-> company_user[m].val, by |-> r, new |-> "member"]
            BY <1>1, <1>3, <2>1 DEF Put
        <3>2. DOMAIN company_user' = Members
            BY <1>1, <1>3 DEF Put
        <3>3. s # r => company_user[m].by # s
            BY <1>3, <2>1, AccountsAssumption DEF MembersJoin
        <3>4. Sees(company_user, s)[m] =
                 IF company_user[m].by = s THEN company_user[m].new ELSE company_user[m].val
            BY <1>1, <2>1 DEF Sees
        <3>5. Sees(company_user', s)[m] =
                 IF company_user'[m].by = s THEN company_user'[m].new ELSE company_user'[m].val
            BY <2>1, <3>2 DEF Sees
        <3>6. Live(Sees(company_user', s)[m])
            BY <2>3, <3>1, <3>3, <3>4, <3>5, TextsLive DEF Member
        <3> QED BY <2>3, <3>6 DEF Member
    <2> QED BY <2>2, <2>3
<1> QED BY <1>2, <1>3 DEF Joins

LEMMA FindsStays ==
    ASSUME TypeOK, NEW r \in Requests, Writes(r), NEW s \in Requests, NEW c, Finds(s, c)
    PROVE  Finds(s, c)'
<1>1. c \in Companies /\ company \in [Companies -> Versions(Texts)]
    BY DEF TypeOK, Finds
<1>2. CASE UNCHANGED company
    BY <1>2 DEF Finds, Sees
<1>3. ASSUME NEW d \in Companies, NEW x \in Texts, company' = Put(company, r, d, x),
             company[d].by \in {NULL, r}
      PROVE  Finds(s, c)'
    <2>1. CASE c # d
        BY <1>1, <1>3, <2>1 DEF Finds, Sees, Put
    <2>2. CASE c = d
        <3>1. company'[c] = [val |-> company[c].val, by |-> r, new |-> x]
            BY <1>1, <1>3, <2>2 DEF Put
        <3>2. c \in DOMAIN company' /\ Live(x)
            BY <1>1, <1>3, TextsLive DEF Put
        <3>3. s # r => company[c].by # s
            BY <1>3, <2>2, AccountsAssumption
        <3> QED BY <1>1, <3>1, <3>2, <3>3 DEF Finds, Sees
    <2> QED BY <2>1, <2>2
<1> QED BY <1>2, <1>3 DEF Writes

LEMMA MembersJoinStays ==
    ASSUME TypeOK, MembersJoin, NEW r \in Requests, Joins(r), Writes(r)
    PROVE  MembersJoin'
<1> SUFFICES ASSUME NEW m \in Members, company_user'[m].by # NULL
             PROVE  /\ company_user'[m].new = "member"
                    /\ company'[m[2]].by = company_user'[m].by
    BY DEF MembersJoin
<1>1. /\ m[2] \in Companies
      /\ company_user \in [Members -> Versions({"member"})]
      /\ company \in [Companies -> Versions(Texts)]
    BY DEF TypeOK, Members
<1>2. CASE UNCHANGED << company_user, company >>
    BY <1>2 DEF MembersJoin
<1>3. ASSUME UNCHANGED company_user, NEW d \in Companies, NEW x \in Texts,
             company' = Put(company, r, d, x), company[d].by \in {NULL, r}
      PROVE  company_user'[m].new = "member" /\ company'[m[2]].by = company_user'[m].by
    BY <1>1, <1>3 DEF MembersJoin, Put
<1>4. ASSUME NEW v \in Users, NEW d \in Companies, UNCHANGED company,
             company_user' = Put(company_user, r, << v, d >>, "member"), company[d].by = r
      PROVE  company_user'[m].new = "member" /\ company'[m[2]].by = company_user'[m].by
    <2>1. CASE m = << v, d >>
        BY <1>1, <1>4, <2>1 DEF Put
    <2>2. CASE m # << v, d >>
        BY <1>1, <1>4, <2>2 DEF Put, MembersJoin
    <2> QED BY <2>1, <2>2
<1> QED BY <1>2, <1>3, <1>4 DEF Joins, Writes

-----------------------------------------------------------------------------
(* The steps of a request, seen from the invariant. *)

(* The other requests keep the company in hand. *)
LEMMA OthersKeepCompany ==
    ASSUME MInv, NEW r \in Requests, OnlyHandOf(r), NEW s \in Requests \ {r},
           \A u, c : Member(s, u, c) => Member(s, u, c)',
           \A c : Finds(s, c) => Finds(s, c)',
           co[s] # NULL /\ company[co[s]].by = s => company'[co[s]].by = s
    PROVE  CompanyInHand(s)'
<1>1. /\ form'[s] = form[s] /\ script'[s] = script[s]
      /\ me'[s] = me[s] /\ who'[s] = who[s] /\ co'[s] = co[s]
    BY DEF OnlyHandOf
<1>2. CompanyInHand(s)
    BY DEF MInv
<1>3. Member(s, who[s], co[s]) => Member(s, who[s], co[s])'
    BY <1>1 DEF Member
<1>4. /\ Member(s, me[s].user, co[s]) => Member(s, me[s].user, co[s])'
      /\ Finds(s, co[s]) => Finds(s, co[s])'
    BY <1>1 DEF Member, Finds
<1> QED BY <1>1, <1>2, <1>3, <1>4 DEF CompanyInHand

(* The sessions that another request has written stay right. *)
LEMMA OthersKeepSessions ==
    ASSUME MInv, NEW r \in Requests, OnlyHandOf(r), NEW s \in Requests \ {r},
           \A u, c : Member(s, u, c) => Member(s, u, c)',
           NEW k \in Sessions, session'[k] = session[k], session[k].by = s
    PROVE  form'[s] # NULL /\ script'[s] = << >> /\ SessionFor(s, k)'
<1>1. /\ form'[s] = form[s] /\ script'[s] = script[s]
      /\ me'[s] = me[s] /\ who'[s] = who[s]
    BY DEF OnlyHandOf
<1>2. form[s] # NULL /\ script[s] = << >> /\ SessionFor(s, k)
    BY DEF MInv, SessionsWritten
<1>3. ASSUME Live(session'[k].new), session'[k].new.company # NULL
      PROVE  \E u \in {me'[s].user, who'[s]} : Member(s, u, session[k].new.company)'
    <2>1. PICK u \in {me[s].user, who[s]} : Member(s, u, session[k].new.company)
        BY <1>2, <1>3 DEF SessionFor
    <2> QED BY <1>1, <2>1 DEF Member
<1> QED BY <1>1, <1>2, <1>3 DEF SessionFor

LEMMA WithinStep ==
    ASSUME IInv, MInv, NEW r \in Requests, OnlyHandOf(r),
           script[r] # << >>, form[r] # NULL, UNCHANGED form, me'[r].user = me[r].user,
           Joins(r), Writes(r),
           \A c \in Companies :
              \/ company'[c] = company[c]
              \/ Live(company[c].val) => Member(r, me[r].user, c),
           \A k \in Sessions :
              \/ session'[k] = session[k]
              \/ session'[k].by = r /\ script'[r] = << >> /\ SessionFor(r, k)',
           CompanyInHand(r)'
    PROVE  MInv'
<1>1. TypeOK /\ MembersJoin
    BY DEF IInv, MInv
<1>2. \A s \in Requests : \A u, c : Member(s, u, c) => Member(s, u, c)'
    BY <1>1, MemberStays
<1>3. \A s \in Requests : \A c : Finds(s, c) => Finds(s, c)'
    BY <1>1, FindsStays
<1>4. \A c \in Companies :
         \/ company'[c] = company[c]
         \/ /\ company[c].by \in {NULL, r} /\ company'[c].by = r
            /\ company'[c].val = company[c].val /\ Live(company'[c].new)
    BY <1>1, TextsLive DEF Writes, Put, TypeOK
<1>5. \A s \in Requests \ {r} : CompanyInHand(s)'
    <2> SUFFICES ASSUME NEW s \in Requests \ {r}
                 PROVE  CompanyInHand(s)'
        OBVIOUS
    <2>1. co[s] # NULL /\ company[co[s]].by = s => company'[co[s]].by = s
        BY <1>1, <1>4, AccountsAssumption DEF TypeOK
    <2> QED BY <1>2, <1>3, <2>1, OthersKeepCompany
<1>6. CompaniesWritten'
    <2> SUFFICES ASSUME NEW c \in Companies, NEW s \in Requests, company'[c].by = s
                 PROVE  /\ form'[s] # NULL /\ Live(company'[c].new)
                        /\ Live(company'[c].val) => Member(s, me[s].user, c)'
        BY DEF CompaniesWritten
    <2>1. me'[s].user = me[s].user
        BY DEF OnlyHandOf
    <2>2. CASE company'[c] = company[c]
        <3>1. /\ form[s] # NULL /\ Live(company[c].new)
              /\ Live(company[c].val) => Member(s, me[s].user, c)
            BY <2>2 DEF MInv, CompaniesWritten
        <3>2. Member(s, me[s].user, c) => Member(s, me[s].user, c)'
            BY <1>2, <2>1 DEF Member
        <3> QED BY <2>2, <3>1, <3>2
    <2>3. CASE company'[c] # company[c]
        <3>1. /\ s = r /\ Live(company'[c].new)
              /\ Live(company'[c].val) => Member(s, me[s].user, c)
            BY <1>4, <2>3
        <3>2. Member(s, me[s].user, c) => Member(s, me[s].user, c)'
            BY <1>2, <2>1 DEF Member
        <3> QED BY <3>1, <3>2
    <2> QED BY <2>2, <2>3
<1>7. SessionsWritten'
    <2> SUFFICES ASSUME NEW k \in Sessions, NEW s \in Requests, session'[k].by = s
                 PROVE  form'[s] # NULL /\ script'[s] = << >> /\ SessionFor(s, k)'
        BY DEF SessionsWritten
    <2>1. CASE session'[k] = session[k]
        <3>1. s # r
            BY <2>1 DEF MInv, SessionsWritten
        <3> QED BY <1>2, <2>1, <3>1, OthersKeepSessions
    <2>2. CASE session'[k] # session[k]
        BY <2>2
    <2> QED BY <2>1, <2>2
<1>8. MembersJoin'
    BY <1>1, MembersJoinStays
<1> QED BY <1>5, <1>6, <1>7, <1>8 DEF MInv

-----------------------------------------------------------------------------
(* The middleware. *)

LEMMA BeginKeeps ==
    ASSUME IInv, MInv, NEW r \in Requests, NEW f \in Forms, Begin(r, f)
    PROVE  MInv'
<1>1. PICK s \in SessionGet(r, f.cookie) : script' = [script EXCEPT ![r] = Opening(f, s)]
    BY DEF Begin
<1>2. /\ OnlyHandOf(r) /\ form[r] = NULL /\ form'[r] = f /\ f # NULL
      /\ script'[r] = Opening(f, s) /\ co'[r] = NULL
      /\ UNCHANGED << company, company_user, session >>
    BY <1>1, FormType
       DEF Begin, Active, tables, OnlyHandOf, IInv, TypeOK, MInv, CompanyInHand
<1>3. \A q, u, c : /\ Member(q, u, c) => Member(q, u, c)'
                   /\ Finds(q, c) => Finds(q, c)'
    BY <1>2 DEF Member, Finds
<1>4. \A q \in Requests \ {r} : CompanyInHand(q)'
    BY <1>2, <1>3, OthersKeepCompany
<1>5. CompanyInHand(r)'
    <2>1. Opening(f, s) \notin {<< "SessionInsert" >>, << "SessionUpdate" >>,
                                << "CompanyUpdate" >>}
        BY OpeningScript, Tuples
    <2> QED BY <1>2, <2>1 DEF CompanyInHand
<1>6. CompaniesWritten'
    <2> SUFFICES ASSUME NEW c \in Companies, NEW q \in Requests, company'[c].by = q
                 PROVE  /\ form'[q] # NULL /\ Live(company'[c].new)
                        /\ Live(company'[c].val) => Member(q, me[q].user, c)'
        BY DEF CompaniesWritten
    <2>1. /\ form[q] # NULL /\ Live(company[c].new)
          /\ Live(company[c].val) => Member(q, me[q].user, c)
        BY <1>2 DEF MInv, CompaniesWritten
    <2>2. form'[q] = form[q] /\ me'[q] = me[q]
        BY <1>2, <2>1 DEF OnlyHandOf
    <2> QED BY <1>2, <2>1, <2>2 DEF Member
<1>7. SessionsWritten'
    <2> SUFFICES ASSUME NEW k \in Sessions, NEW q \in Requests, session'[k].by = q
                 PROVE  form'[q] # NULL /\ script'[q] = << >> /\ SessionFor(q, k)'
        BY DEF SessionsWritten
    <2>1. q # r
        BY <1>2 DEF MInv, SessionsWritten
    <2> QED BY <1>2, <1>3, <2>1, OthersKeepSessions
<1>8. MembersJoin'
    BY <1>2 DEF MInv, MembersJoin
<1> QED BY <1>4, <1>5, <1>6, <1>7, <1>8 DEF MInv

(* A row after the end of transaction r. *)
LEMMA EndedRow ==
    ASSUME NEW t, NEW r, NEW commit \in BOOLEAN, NEW k \in DOMAIN t
    PROVE  /\ t[k].by # r => Ended(t, r, commit)[k] = t[k]
           /\ t[k].by = r => /\ Ended(t, r, commit)[k].by = NULL
                             /\ Ended(t, r, commit)[k].val =
                                   IF commit THEN t[k].new ELSE t[k].val
BY DEF Ended, Settled

LEMMA EndKeeps ==
    ASSUME IInv, MInv, NEW r \in Requests, NEW commit \in BOOLEAN,
           EndTransaction(r, commit), script[r] = << >>
    PROVE  MInv'
<1>1. /\ company \in [Companies -> Versions(Texts)]
      /\ company_user \in [Members -> Versions({"member"})]
      /\ session \in [Sessions -> Versions(SessionRecord)]
    BY DEF IInv, TypeOK
<1>2. OnlyHandOf(r) /\ script'[r] = << >> /\ co'[r] = NULL
    BY DEF EndTransaction, OnlyHandOf, IInv, TypeOK
<1>3. /\ \A c \in Companies :
            /\ company[c].by # r => company'[c] = company[c]
            /\ company[c].by = r => /\ company'[c].by = NULL
                                   /\ company'[c].val \in {company[c].new, company[c].val}
      /\ \A m \in Members :
            /\ company_user[m].by # r => company_user'[m] = company_user[m]
            /\ company_user[m].by = r =>
                  /\ company_user'[m].by = NULL
                  /\ company_user'[m].val \in {company_user[m].new, company_user[m].val}
      /\ \A k \in Sessions :
            /\ session[k].by # r => session'[k] = session[k]
            /\ session[k].by = r => session'[k].by = NULL
    BY <1>1, EndedRow DEF EndTransaction
<1>4. /\ DOMAIN company' = Companies
      /\ DOMAIN company_user' = Members
    BY <1>1 DEF EndTransaction, Ended
<1>5. r # NULL
    BY AccountsAssumption
<1>6. ASSUME NEW q \in Requests \ {r}, NEW u, NEW c, Member(q, u, c)
      PROVE  Member(q, u, c)'
    <2> DEFINE m == << u, c >>
    <2>1. m \in Members
        BY <1>6 DEF Member, Members
    <2>2. company_user[m].by # NULL => company_user[m].new = "member"
        BY <2>1 DEF MInv, MembersJoin
    <2>3. Live(Sees(company_user, q)[m])
        BY <1>6 DEF Member
    <2>4. /\ Sees(company_user, q)[m] =
                IF company_user[m].by = q THEN company_user[m].new ELSE company_user[m].val
          /\ Sees(company_user', q)[m] =
                IF company_user'[m].by = q THEN company_user'[m].new ELSE company_user'[m].val
        BY <1>1, <1>4, <2>1 DEF Sees
    <2>5. CASE company_user[m].by = r
        <3>1. company_user[m].new = "member" /\ Live(company_user[m].val)
            BY <1>5, <1>6, <2>2, <2>3, <2>4, <2>5
        <3>2. company_user'[m].by # q /\ Live(company_user'[m].val)
            BY <1>3, <2>1, <2>5, <3>1, TextsLive, AccountsAssumption
        <3> QED BY <1>6, <2>4, <3>2 DEF Member
    <2>6. CASE company_user[m].by # r
        <3>1. company_user'[m] = company_user[m]
            BY <1>3, <2>1, <2>6
        <3> QED BY <1>6, <2>3, <2>4, <3>1 DEF Member
    <2> QED BY <2>5, <2>6
<1>7. ASSUME NEW q \in Requests \ {r}, NEW c, Finds(q, c)
      PROVE  Finds(q, c)'
    <2>1. c \in Companies /\ Live(Sees(company, q)[c])
        BY <1>7 DEF Finds
    <2>2. /\ Sees(company, q)[c] = IF company[c].by = q THEN company[c].new ELSE company[c].val
          /\ Sees(company', q)[c] =
                IF company'[c].by = q THEN company'[c].new ELSE company'[c].val
        BY <1>1, <1>4, <2>1 DEF Sees
    <2>3. CASE company[c].by = r
        <3>1. Live(company[c].new) /\ Live(company[c].val)
            BY <1>7, <2>1, <2>2, <2>3 DEF MInv, CompaniesWritten
        <3>2. company'[c].by # q /\ Live(company'[c].val)
            BY <1>3, <2>1, <2>3, <3>1, AccountsAssumption
        <3> QED BY <2>1, <2>2, <3>2 DEF Finds
    <2>4. CASE company[c].by # r
        <3>1. company'[c] = company[c]
            BY <1>3, <2>1, <2>4
        <3> QED BY <2>1, <2>2, <3>1 DEF Finds
    <2> QED BY <2>3, <2>4
<1>8. \A q \in Requests \ {r} : CompanyInHand(q)'
    <2> SUFFICES ASSUME NEW q \in Requests \ {r}
                 PROVE  CompanyInHand(q)'
        OBVIOUS
    <2>1. co[q] # NULL /\ company[co[q]].by = q => company'[co[q]].by = q
        BY <1>3 DEF IInv, TypeOK
    <2> QED BY <1>2, <1>6, <1>7, <2>1, OthersKeepCompany
<1>9. CompanyInHand(r)'
    BY <1>2, Tuples DEF CompanyInHand
<1>10. CompaniesWritten'
    <2> SUFFICES ASSUME NEW c \in Companies, NEW q \in Requests, company'[c].by = q
                 PROVE  /\ form'[q] # NULL /\ Live(company'[c].new)
                        /\ Live(company'[c].val) => Member(q, me[q].user, c)'
        BY DEF CompaniesWritten
    <2>1. q # r /\ company'[c] = company[c]
        BY <1>3, AccountsAssumption
    <2>2. form'[q] = form[q] /\ me'[q] = me[q]
        BY <1>2, <2>1 DEF OnlyHandOf
    <2>3. Member(q, me[q].user, c) => Member(q, me[q].user, c)'
        BY <1>6, <2>1, <2>2 DEF Member
    <2> QED BY <2>1, <2>2, <2>3 DEF MInv, CompaniesWritten
<1>11. SessionsWritten'
    <2> SUFFICES ASSUME NEW k \in Sessions, NEW q \in Requests, session'[k].by = q
                 PROVE  form'[q] # NULL /\ script'[q] = << >> /\ SessionFor(q, k)'
        BY DEF SessionsWritten
    <2>1. q # r /\ session'[k] = session[k]
        BY <1>3, AccountsAssumption
    <2> QED BY <1>2, <1>6, <2>1, OthersKeepSessions
<1>12. MembersJoin'
    <2> SUFFICES ASSUME NEW m \in Members, company_user'[m].by # NULL
                 PROVE  /\ company_user'[m].new = "member"
                        /\ company'[m[2]].by = company_user'[m].by
        BY DEF MembersJoin
    <2>1. m[2] \in Companies
        BY DEF Members
    <2>2. company_user[m].by # r /\ company_user'[m] = company_user[m]
        BY <1>3
    <2>3. company_user[m].new = "member" /\ company[m[2]].by = company_user[m].by
        BY <2>2 DEF MInv, MembersJoin
    <2> QED BY <1>3, <2>1, <2>2, <2>3
<1> QED BY <1>8, <1>9, <1>10, <1>11, <1>12 DEF MInv

-----------------------------------------------------------------------------
(* The statements. *)

(* A statement on users and sessions alone. *)
LEMMA OtherTables ==
    ASSUME NEW r, UNCHANGED << company, company_user >>
    PROVE  /\ Joins(r) /\ Writes(r)
           /\ \A c \in Companies :
                 \/ company'[c] = company[c]
                 \/ Live(company[c].val) => Member(r, me[r].user, c)
BY DEF Joins, Writes

LEMMA HandlerEnds ==
    ASSUME IInv, MInv, NEW r \in Requests, script[r] # << >>, Fail(r) \/ Answer(r)
    PROVE  MInv'
<1>1. /\ OnlyHandOf(r) /\ script'[r] = << >>
      /\ UNCHANGED << company, company_user, session, form, me, co, who >>
    BY DEF Fail, Answer, ContinueWith, OnlyHandOf, IInv, TypeOK, tables, hand
<1>2. form[r] # NULL
    BY DEF IInv, ScriptOf
<1>3. CompanyInHand(r)'
    BY <1>1, <1>2, Tuples DEF CompanyInHand
<1> QED BY <1>1, <1>2, <1>3, OtherTables, WithinStep

LEMMA UserGetKeeps ==
    ASSUME IInv, MInv, NEW r \in Requests, UserGet(r)
    PROVE  MInv'
<1>1. At(r, "UserGet") /\ form[r] # NULL /\ script[r] # << >>
    BY AtStatement DEF UserGet, Runs
<1>2. co[r] = NULL
    <2>1. script[r] = << "UserGet" >>
        BY <1>1, AtStatement, ScriptsAt
    <2> QED BY <2>1 DEF MInv, CompanyInHand
<1>3. CASE Answer(r)
    BY <1>1, <1>3, HandlerEnds
<1>4. CASE ~Answer(r)
    <2>1. PICK q \in {<< "UserInsert", "SessionInsert" >>, << "CompanyList", "SessionInsert" >>} :
             ContinueWith(r, q)
        BY <1>4 DEF UserGet
    <2>2. UNCHANGED << tables, me, co >> /\ \A s \in Requests \ {r} : who'[s] = who[s]
        BY <1>4 DEF UserGet, hand, IInv, TypeOK
    <2>3. /\ OnlyHandOf(r) /\ script'[r] = q /\ co'[r] = NULL
          /\ UNCHANGED << company, company_user, session, form, me >>
        BY <1>2, <2>1, <2>2 DEF ContinueWith, OnlyHandOf, IInv, TypeOK, tables
    <2>4. q \notin {<< "SessionUpdate" >>, << "CompanyUpdate" >>, << "SessionInsert" >>}
        BY Tuples
    <2>5. CompanyInHand(r)'
        BY <2>3, <2>4 DEF CompanyInHand
    <2> QED BY <1>1, <2>3, <2>5, OtherTables, WithinStep
<1> QED BY <1>3, <1>4

LEMMA UserInsertKeeps ==
    ASSUME IInv, MInv, NEW r \in Requests, UserInsert(r)
    PROVE  MInv'
<1>1. At(r, "UserInsert") /\ form[r] # NULL /\ script[r] # << >>
    BY AtStatement DEF UserInsert, Runs
<1>2. script[r] = << "UserInsert", "SessionInsert" >>
    BY <1>1, AtStatement, ScriptsAt
<1>3. co[r] = NULL /\ Tail(script[r]) = << "SessionInsert" >>
    BY <1>2, Tuples DEF MInv, CompanyInHand
<1>4. CASE Fail(r)
    BY <1>1, <1>4, HandlerEnds
<1>5. CASE ~Fail(r)
    <2>1. Continue(r) /\ UNCHANGED << company, company_user, session, me, co >>
        BY <1>5 DEF UserInsert
    <2>2. \A s \in Requests \ {r} : who'[s] = who[s]
        BY <1>5 DEF UserInsert, IInv, TypeOK
    <2>3. OnlyHandOf(r) /\ script'[r] = << "SessionInsert" >> /\ UNCHANGED form
        BY <1>3, <2>1, <2>2 DEF Continue, ContinueWith, OnlyHandOf, IInv, TypeOK
    <2>4. CompanyInHand(r)'
        <3>1. << "SessionInsert" >> \notin {<< "SessionUpdate" >>, << "CompanyUpdate" >>}
            BY Tuples
        <3> QED BY <1>3, <2>1, <2>3, <3>1 DEF CompanyInHand
    <2> QED BY <1>1, <2>1, <2>3, <2>4, OtherTables, WithinStep
<1> QED BY <1>4, <1>5

LEMMA CompanyListKeeps ==
    ASSUME IInv, MInv, NEW r \in Requests, CompanyList(r)
    PROVE  MInv'
<1>1. At(r, "CompanyList") /\ form[r] # NULL /\ script[r] # << >>
    BY AtStatement DEF CompanyList, Runs
<1>2. script[r] = << "CompanyList", "SessionInsert" >>
    BY <1>1, AtStatement, ScriptsAt
<1>3. Tail(script[r]) = << "SessionInsert" >> /\ who[r] \in Users
    BY <1>2, Tuples DEF IInv, HandOf, Knows
<1>4. /\ OnlyHandOf(r) /\ script'[r] = << "SessionInsert" >>
      /\ UNCHANGED << company, company_user, session, form, me, who >>
    BY <1>3 DEF CompanyList, Continue, ContinueWith, OnlyHandOf, IInv, TypeOK, tables
<1>5. co'[r] = NULL \/ Member(r, who[r], co'[r])
    <2>1. CASE Cardinality(CompaniesOf(r, who[r])) = 1
        <3>1. CompaniesOf(r, who[r]) # {}
            BY <2>1, FS_EmptySet
        <3>2. (CHOOSE c \in CompaniesOf(r, who[r]) : TRUE) \in CompaniesOf(r, who[r])
            BY <3>1
        <3>3. co'[r] \in CompaniesOf(r, who[r])
            BY <2>1, <3>2 DEF CompanyList, IInv, TypeOK
        <3> QED BY <1>3, <3>3 DEF CompaniesOf, Member
    <2>2. CASE Cardinality(CompaniesOf(r, who[r])) # 1
        BY <2>2 DEF CompanyList, IInv, TypeOK
    <2> QED BY <2>1, <2>2
<1>6. CompanyInHand(r)'
    <2>1. << "SessionInsert" >> \notin
             {<< "SessionUpdate" >>, << "CompanyUpdate" >>, << "AddUser" >>, << "UserGet" >>,
              << "UserInsert", "SessionInsert" >>}
        BY Tuples
    <2>2. co'[r] = NULL \/ Member(r, who[r], co[r])'
        BY <1>4, <1>5 DEF Member
    <2> QED BY <1>1, <1>4, <2>1, <2>2 DEF CompanyInHand
<1> QED BY <1>1, <1>4, <1>6, OtherTables, WithinStep

LEMMA CompanyGetKeeps ==
    ASSUME IInv, MInv, NEW r \in Requests, CompanyGet(r)
    PROVE  MInv'
<1>1. At(r, "CompanyGet") /\ form[r] # NULL /\ script[r] # << >>
    BY AtStatement DEF CompanyGet, Runs
<1>2. ~LetsIn(form[r]) /\ Tail(script[r]) \in {<< >>, << "SessionUpdate" >>, << "CompanyUpdate" >>}
    BY <1>1, AtStatement, ScriptsAt
<1>3. CASE Fail(r)
    BY <1>1, <1>3, HandlerEnds
<1>4. ASSUME NEW c \in CompanyMatches(r), co' = [co EXCEPT ![r] = c], Continue(r),
             UNCHANGED << tables, me, who >>
      PROVE  MInv'
    <2>1. me[r].user \in Users
        BY <1>1, <1>2 DEF IInv, HandOf, TypeOK
    <2>2. Member(r, me[r].user, c) /\ Finds(r, c)
        BY <1>4, <2>1 DEF CompanyMatches, CompaniesOf, Member, Finds
    <2>3. /\ OnlyHandOf(r) /\ script'[r] = Tail(script[r]) /\ co'[r] = c
          /\ UNCHANGED << company, company_user, session, form, me >>
        BY <1>4 DEF Continue, ContinueWith, OnlyHandOf, IInv, TypeOK, tables
    <2>4. script'[r] \notin {<< "UserGet" >>, << "UserInsert", "SessionInsert" >>,
                            << "SessionInsert" >>, << "AddUser" >>}
        BY <1>2, <2>3, Tuples
    <2>5. CompanyInHand(r)'
        BY <1>1, <2>2, <2>3, <2>4 DEF CompanyInHand, Member, Finds
    <2> QED BY <1>1, <2>3, <2>5, OtherTables, WithinStep
<1> QED BY <1>3, <1>4 DEF CompanyGet

LEMMA CompanyInsertKeeps ==
    ASSUME IInv, MInv, NEW r \in Requests, CompanyInsert(r)
    PROVE  MInv'
<1>1. At(r, "CompanyInsert") /\ form[r] # NULL /\ script[r] # << >>
    BY AtStatement DEF CompanyInsert, Runs
<1>2. form[r].data \in Texts /\ script[r] = << "CompanyInsert", "AddUser" >>
    BY <1>1, AtStatement, ScriptsAt, FormType
<1>3. Tail(script[r]) = << "AddUser" >>
    BY <1>2, Tuples
<1>4. CASE Fail(r)
    BY <1>1, <1>4, HandlerEnds
<1>5. ASSUME NEW c \in FreshIds(company), company' = Put(company, r, c, form[r].data),
             co' = [co EXCEPT ![r] = c], Continue(r),
             UNCHANGED << user, company_user, session, me, who >>
      PROVE  MInv'
    <2>1. /\ c \in Companies /\ company[c].by = NULL /\ ~Live(company[c].val)
          /\ company \in [Companies -> Versions(Texts)]
        BY FreshUnseen DEF IInv, TypeOK, Live
    <2>2. /\ company'[c].by = r
          /\ \A d \in Companies \ {c} : company'[d] = company[d]
        BY <1>5, <2>1 DEF Put
    <2>3. OnlyHandOf(r) /\ script'[r] = << "AddUser" >> /\ co'[r] = c /\ UNCHANGED form
        BY <1>3, <1>5 DEF Continue, ContinueWith, OnlyHandOf, IInv, TypeOK
    <2>4. Joins(r) /\ Writes(r)
        BY <1>2, <1>5, <2>1 DEF Joins, Writes
    <2>5. << "AddUser" >> \notin
             {<< "UserGet" >>, << "UserInsert", "SessionInsert" >>, << "SessionInsert" >>,
              << "SessionUpdate" >>, << "CompanyUpdate" >>}
        BY Tuples
    <2>6. CompanyInHand(r)'
        BY <1>1, <2>2, <2>3, <2>5 DEF CompanyInHand
    <2> QED BY <1>1, <1>5, <2>1, <2>2, <2>3, <2>4, <2>6, WithinStep
<1> QED BY <1>4, <1>5 DEF CompanyInsert

(* The row is not another's: a committed one would be locked, and a new    *)
(* one was not to be found.                                                *)
LEMMA CompanyUpdateKeeps ==
    ASSUME IInv, MInv, NEW r \in Requests, CompanyUpdate(r)
    PROVE  MInv'
<1>1. At(r, "CompanyUpdate") /\ form[r] # NULL /\ script[r] # << >>
    BY AtStatement DEF CompanyUpdate, Runs
<1>2. /\ form[r].op = "company" /\ form[r].data # NULL
      /\ script[r] = << "CompanyUpdate" >>
    BY <1>1, AtStatement, ScriptsAt
<1>3. form[r].data \in Texts /\ Tail(script[r]) = << >>
    BY <1>1, <1>2, AtStatement, FormType, Tuples
<1>4. Member(r, me[r].user, co[r]) /\ Finds(r, co[r])
    BY <1>2 DEF MInv, CompanyInHand
<1>5. co[r] \in Companies /\ company \in [Companies -> Versions(Texts)]
    BY <1>4 DEF Finds, IInv, TypeOK
<1>6. company[co[r]].by \in {NULL, r}
    <2> SUFFICES ASSUME NEW s \in Requests \ {r}, company[co[r]].by = s
                 PROVE  FALSE
        BY <1>5 DEF Versions
    <2>1. Live(company[co[r]].val)
        BY <1>4, <1>5 DEF Finds, Sees
    <2> QED BY <1>1, <1>5, <2>1 DEF CompanyUpdate, Runs, Waits, Holds
<1>7. /\ OnlyHandOf(r) /\ script'[r] = << >>
      /\ UNCHANGED << company_user, session, form, me, who, co >>
    BY <1>3 DEF CompanyUpdate, Continue, ContinueWith, OnlyHandOf, IInv, TypeOK, hand
<1>8. company' = Put(company, r, co[r], form[r].data)
    BY DEF CompanyUpdate
<1>9. Joins(r) /\ Writes(r)
    BY <1>3, <1>5, <1>6, <1>7, <1>8 DEF Joins, Writes
<1>10. \A c \in Companies : company'[c] = company[c] \/ Member(r, me[r].user, c)
    BY <1>4, <1>5, <1>8 DEF Put
<1>11. CompanyInHand(r)'
    BY <1>1, <1>7, Tuples DEF CompanyInHand
<1> QED BY <1>1, <1>7, <1>9, <1>10, <1>11, WithinStep

LEMMA AddUserKeeps ==
    ASSUME IInv, MInv, NEW r \in Requests, AddUser(r)
    PROVE  MInv'
<1>1. At(r, "AddUser") /\ form[r] # NULL /\ script[r] # << >>
    BY AtStatement DEF AddUser, Runs
<1>2. /\ form[r].op = "company" /\ script[r] = << "AddUser" >>
    BY <1>1, AtStatement, ScriptsAt
<1>3. ~LetsIn(form[r]) /\ Tail(script[r]) = << >>
    BY <1>2, Tuples DEF LetsIn
<1>4. CASE Fail(r)
    BY <1>1, <1>4, HandlerEnds
<1>5. CASE /\ co[r] # NULL
           /\ company_user' = IF Live(Sees(company_user, r)[<< me[r].user, co[r] >>])
                              THEN company_user
                              ELSE Put(company_user, r, << me[r].user, co[r] >>, "member")
           /\ me' = [me EXCEPT ![r].company = co[r]]
           /\ Continue(r)
           /\ UNCHANGED << user, company, session, who, co >>
    <2>1. /\ me[r].user \in Users /\ co[r] \in Companies
          /\ company[co[r]].by = r
        BY <1>1, <1>2, <1>3, <1>5 DEF IInv, HandOf, TypeOK, MInv, CompanyInHand
    <2>2. OnlyHandOf(r) /\ script'[r] = << >> /\ UNCHANGED form /\ me'[r].user = me[r].user
        BY <1>3, <1>5 DEF Continue, ContinueWith, OnlyHandOf, IInv, TypeOK
    <2>3. Joins(r) /\ Writes(r)
        BY <1>5, <2>1 DEF Joins, Writes
    <2>4. CompanyInHand(r)'
        BY <1>1, <2>2, Tuples DEF CompanyInHand
    <2> QED BY <1>1, <1>5, <2>2, <2>3, <2>4, WithinStep
<1> QED BY <1>4, <1>5 DEF AddUser

LEMMA SessionInsertKeeps ==
    ASSUME IInv, MInv, NEW r \in Requests, SessionInsert(r)
    PROVE  MInv'
<1>1. At(r, "SessionInsert") /\ form[r] # NULL /\ script[r] # << >>
    BY AtStatement DEF SessionInsert, Runs
<1>2. script[r] = << "SessionInsert" >>
    BY <1>1, AtStatement, ScriptsAt
<1>3. /\ Tail(script[r]) = << >>
      /\ co[r] = NULL \/ Member(r, who[r], co[r])
    BY <1>2, Tuples DEF MInv, CompanyInHand
<1>4. CASE Fail(r)
    BY <1>1, <1>4, HandlerEnds
<1>5. ASSUME NEW k \in FreshIds(session),
             session' = Put(session, r, k, [user |-> who[r], company |-> co[r]]),
             Continue(r), UNCHANGED << user, company, company_user, hand >>
      PROVE  MInv'
    <2>1. /\ OnlyHandOf(r) /\ script'[r] = << >>
          /\ UNCHANGED << company, company_user, form, me, who, co >>
        BY <1>3, <1>5 DEF Continue, ContinueWith, OnlyHandOf, IInv, TypeOK, hand
    <2>2. k \in Sessions /\ session \in [Sessions -> Versions(SessionRecord)]
        BY FreshUnseen DEF IInv, TypeOK
    <2>3. /\ session'[k].by = r /\ session'[k].new.company = co[r]
          /\ \A j \in Sessions \ {k} : session'[j] = session[j]
        BY <1>5, <2>2 DEF Put
    <2>4. SessionFor(r, k)'
        BY <1>3, <2>1, <2>3 DEF SessionFor, Member
    <2>5. CompanyInHand(r)'
        BY <1>1, <2>1, Tuples DEF CompanyInHand
    <2> QED BY <1>1, <2>1, <2>3, <2>4, <2>5, OtherTables, WithinStep
<1> QED BY <1>4, <1>5 DEF SessionInsert

LEMMA SessionUpdateKeeps ==
    ASSUME IInv, MInv, NEW r \in Requests, SessionUpdate(r)
    PROVE  MInv'
<1>1. At(r, "SessionUpdate") /\ form[r] # NULL /\ script[r] # << >>
    BY AtStatement DEF SessionUpdate, Runs
<1>2. ~LetsIn(form[r]) /\ script[r] = << "SessionUpdate" >>
    BY <1>1, AtStatement, ScriptsAt
<1>3. /\ Tail(script[r]) = << >>
      /\ Member(r, me[r].user, co[r])
      /\ me[r].id \in Sessions
      /\ session \in [Sessions -> Versions(SessionRecord)]
    BY <1>1, <1>2, Tuples DEF MInv, CompanyInHand, IInv, HandOf, TypeOK
<1>4. /\ OnlyHandOf(r) /\ script'[r] = << >> /\ me'[r].user = me[r].user
      /\ UNCHANGED << company, company_user, form, who, co >>
    BY <1>3 DEF SessionUpdate, Continue, ContinueWith, OnlyHandOf, IInv, TypeOK
<1> DEFINE k == me[r].id
<1>5. \A j \in Sessions :
         \/ session'[j] = session[j]
         \/ session'[j].by = r /\ SessionFor(r, j)'
    <2>1. CASE ~Live(Sees(session, r)[k])
        BY <2>1 DEF SessionUpdate
    <2>2. CASE Live(Sees(session, r)[k])
        <3>1. Sees(session, r)[k] \in SessionRecord
            BY <1>3, <2>2, SeesType
        <3>2. [Sees(session, r)[k] EXCEPT !.company = co[r]].company = co[r]
            BY <3>1 DEF SessionRecord
        <3>3. /\ session'[k].by = r /\ session'[k].new.company = co[r]
              /\ \A j \in Sessions \ {k} : session'[j] = session[j]
            BY <1>3, <2>2, <3>2 DEF SessionUpdate, Put
        <3>4. Member(r, me[r].user, co[r])'
            BY <1>3, <1>4 DEF Member
        <3>5. ASSUME NEW j \in Sessions, j = k
              PROVE  session'[j].by = r /\ SessionFor(r, j)'
            BY <1>4, <3>3, <3>4, <3>5 DEF SessionFor, Member
        <3> QED BY <3>3, <3>5
    <2> QED BY <2>1, <2>2
<1>6. CompanyInHand(r)'
    BY <1>1, <1>4, Tuples DEF CompanyInHand
<1> QED BY <1>1, <1>4, <1>5, <1>6, OtherTables, WithinStep

LEMMA SessionRemoveKeeps ==
    ASSUME IInv, MInv, NEW r \in Requests, SessionRemove(r)
    PROVE  MInv'
<1>1. At(r, "SessionRemove") /\ form[r] # NULL /\ script[r] # << >>
    BY AtStatement DEF SessionRemove, Runs
<1>2. ~LetsIn(form[r]) /\ script[r] = << "SessionRemove" >>
    BY <1>1, AtStatement, ScriptsAt
<1>3. /\ Tail(script[r]) = << >>
      /\ me[r].id \in Sessions
      /\ session \in [Sessions -> Versions(SessionRecord)]
    BY <1>1, <1>2, Tuples DEF IInv, HandOf, TypeOK
<1>4. /\ OnlyHandOf(r) /\ script'[r] = << >>
      /\ UNCHANGED << company, company_user, form, me, who, co >>
    BY <1>3 DEF SessionRemove, Continue, ContinueWith, OnlyHandOf, IInv, TypeOK, hand
<1>5. \A j \in Sessions :
         \/ session'[j] = session[j]
         \/ session'[j].by = r /\ ~Live(session'[j].new)
    BY <1>3 DEF SessionRemove, Put, Live
<1>6. \A j \in Sessions : ~Live(session'[j].new) => SessionFor(r, j)'
    BY DEF SessionFor
<1>7. CompanyInHand(r)'
    BY <1>1, <1>4, Tuples DEF CompanyInHand
<1> QED BY <1>1, <1>4, <1>5, <1>6, <1>7, OtherTables, WithinStep

LEMMA InitKeeps == Init => MInv
<1> SUFFICES ASSUME Init
             PROVE  MInv
    OBVIOUS
<1>1. NULL \notin Requests
    BY AccountsAssumption
<1>2. \A r \in Requests : CompanyInHand(r)
    BY Tuples DEF Init, CompanyInHand
<1>3. MembersJoin
    BY DEF Init, EmptyTable, Settled, MembersJoin
<1>4. CompaniesWritten /\ SessionsWritten
    BY <1>1 DEF Init, EmptyTable, Settled, CompaniesWritten, SessionsWritten
<1> QED BY <1>2, <1>3, <1>4 DEF MInv

LEMMA StepKeeps == IInv /\ MInv /\ [Next]_vars => MInv'
<1> SUFFICES ASSUME IInv, MInv, [Next]_vars
             PROVE  MInv'
    OBVIOUS
<1>1. ASSUME NEW r \in Requests, NEW f \in Forms, Begin(r, f)
      PROVE  MInv'
    BY <1>1, BeginKeeps
<1>2. ASSUME NEW r \in Requests, Step(r)
      PROVE  MInv'
    <2>1. CASE CommitOrRollback(r)
        <3>1. (status[r] <= 400) \in BOOLEAN
            OBVIOUS
        <3> QED BY <2>1, <3>1, EndKeeps DEF CommitOrRollback
    <2> QED BY <1>2, <2>1, UserGetKeeps, UserInsertKeeps, CompanyListKeeps, CompanyGetKeeps,
               CompanyInsertKeeps, CompanyUpdateKeeps, AddUserKeeps, SessionInsertKeeps,
               SessionUpdateKeeps, SessionRemoveKeeps
            DEF Step
<1>3. ASSUME NEW r \in Requests, CommitFails(r)
      PROVE  MInv'
    BY <1>3, EndKeeps DEF CommitFails
<1>4. ASSUME NEW r \in Requests, StatementFails(r)
      PROVE  MInv'
    BY <1>4, HandlerEnds DEF StatementFails
<1>5. CASE UNCHANGED vars
    <2>1. UNCHANGED << company, company_user, session, form, script, me, who, co >>
        BY <1>5 DEF vars, tables, hand
    <2>2. \A r \in Requests : CompanyInHand(r)'
        BY <2>1 DEF MInv, CompanyInHand, Member, Finds
    <2>3. MembersJoin'
        BY <2>1 DEF MInv, MembersJoin
    <2>4. CompaniesWritten'
        BY <2>1 DEF MInv, CompaniesWritten, Member
    <2>5. SessionsWritten'
        BY <2>1 DEF MInv, SessionsWritten, SessionFor, Member
    <2> QED BY <2>2, <2>3, <2>4, <2>5 DEF MInv
<1> QED BY <1>1, <1>2, <1>3, <1>4, <1>5 DEF Next

-----------------------------------------------------------------------------
(* Only the end of a transaction changes what is committed of a company.   *)
LEMMA CompaniesCommitted ==
    ASSUME IInv, [Next]_vars, NEW c \in Companies
    PROVE  \/ company'[c].val = company[c].val
           \/ \E r \in Requests, commit \in BOOLEAN : EndTransaction(r, commit)
<1>1. company \in [Companies -> Versions(Texts)]
    BY DEF IInv, TypeOK
<1>2. \A d, r, x : company' = Put(company, r, d, x) => company'[c].val = company[c].val
    BY <1>1 DEF Put
<1>3. ASSUME NEW r \in Requests, Step(r)
      PROVE  \/ company'[c].val = company[c].val
             \/ \E commit \in BOOLEAN : EndTransaction(r, commit)
    <2>1. CASE UserGet(r) \/ UserInsert(r)
        BY <2>1 DEF UserGet, UserInsert, Answer, ContinueWith, Fail, tables
    <2>2. CASE CompanyList(r) \/ CompanyGet(r) \/ AddUser(r)
        BY <2>2 DEF CompanyList, CompanyGet, AddUser, Fail, tables
    <2>3. CASE CompanyInsert(r)
        BY <1>2, <2>3 DEF CompanyInsert, Fail, tables
    <2>4. CASE CompanyUpdate(r)
        BY <1>2, <2>4 DEF CompanyUpdate
    <2>5. CASE SessionInsert(r) \/ SessionUpdate(r) \/ SessionRemove(r)
        BY <2>5 DEF SessionInsert, SessionUpdate, SessionRemove, Fail, tables
    <2>6. CASE CommitOrRollback(r)
        <3>1. (status[r] <= 400) \in BOOLEAN
            OBVIOUS
        <3> QED BY <2>6, <3>1 DEF CommitOrRollback
    <2> QED BY <1>3, <2>1, <2>2, <2>3, <2>4, <2>5, <2>6 DEF Step
<1>4. ASSUME NEW r \in Requests, NEW f \in Forms, Begin(r, f)
      PROVE  company'[c].val = company[c].val
    BY <1>4 DEF Begin, tables
<1>5. ASSUME NEW r \in Requests, CommitFails(r)
      PROVE  \E commit \in BOOLEAN : EndTransaction(r, commit)
    BY <1>5 DEF CommitFails
<1>6. ASSUME NEW r \in Requests, StatementFails(r)
      PROVE  company'[c].val = company[c].val
    BY <1>6 DEF StatementFails, Fail, tables
<1>7. CASE UNCHANGED vars
    BY <1>7 DEF vars, tables
<1> QED BY <1>3, <1>4, <1>5, <1>6, <1>7 DEF Next

(* A membership that a request has seen is there once it has committed.    *)
LEMMA MemberCommitted ==
    ASSUME IInv, NEW r \in Requests, EndTransaction(r, TRUE), NEW u, NEW c, Member(r, u, c)
    PROVE  u # NULL /\ Live(company_user'[<< u, c >>].val)
<1> DEFINE m == << u, c >>
<1>1. m \in Members /\ company_user \in [Members -> Versions({"member"})] /\ u # NULL
    BY AccountsAssumption DEF Member, Members, IInv, TypeOK
<1>2. Sees(company_user, r)[m] =
         IF company_user[m].by = r THEN company_user[m].new ELSE company_user[m].val
    BY <1>1 DEF Sees
<1>3. company_user'[m].val = Sees(company_user, r)[m]
    <2>1. m \in DOMAIN company_user /\ company_user' = Ended(company_user, r, TRUE)
        BY <1>1 DEF EndTransaction
    <2>2. Ended(company_user, r, TRUE)[m].val =
             IF company_user[m].by = r THEN company_user[m].new ELSE company_user[m].val
        BY <2>1 DEF Ended, Settled
    <2> QED BY <1>2, <2>1, <2>2
<1> QED BY <1>1, <1>3 DEF Member

(* Nobody acts for a company who is not a member of it, whatever logins,   *)
(* selections, logouts and new companies run at the same time and whatever *)
(* fails (company/select.go:25, company/view.go:60, login.go:64).          *)
THEOREM MembersAct == Spec => OnlyMembersAct
<1>1. ASSUME IInv, MInv, [Next]_vars, NEW r \in Requests, NEW c \in Companies,
             company[c].by = r, Live(company[c].val), company'[c].val # company[c].val
      PROVE  \E u \in {me[r].user, who[r]} \ {NULL} : Live(company_user'[<< u, c >>].val)
    <2>1. PICK s \in Requests, commit \in BOOLEAN : EndTransaction(s, commit)
        BY <1>1, CompaniesCommitted
    <2>2. c \in DOMAIN company
        BY <1>1 DEF IInv, TypeOK
    <2>3. s = r /\ commit = TRUE
        BY <1>1, <2>1, <2>2, EndedRow DEF EndTransaction
    <2>4. Member(r, me[r].user, c)
        BY <1>1 DEF MInv, CompaniesWritten
    <2> QED BY <1>1, <2>1, <2>3, <2>4, MemberCommitted
<1>2. ASSUME IInv, MInv, [Next]_vars, NEW r \in Requests, NEW c \in Companies,
             NEW k \in Sessions, session[k].by = r, session'[k].val # session[k].val,
             Live(session'[k].val), session'[k].val.company = c
      PROVE  \E u \in {me[r].user, who[r]} \ {NULL} : Live(company_user'[<< u, c >>].val)
    <2>1. PICK s \in Requests, commit \in BOOLEAN : EndTransaction(s, commit)
        BY <1>2, SessionsCommitted
    <2>2. k \in DOMAIN session
        BY <1>2 DEF IInv, TypeOK
    <2>3. s = r /\ commit = TRUE /\ session'[k].val = session[k].new
        BY <1>2, <2>1, <2>2, EndedRow DEF EndTransaction
    <2>4. c # NULL /\ SessionFor(r, k)
        BY <1>2, AccountsAssumption DEF MInv, SessionsWritten
    <2>5. PICK u \in {me[r].user, who[r]} : Member(r, u, c)
        BY <1>2, <2>3, <2>4 DEF SessionFor
    <2> QED BY <1>2, <2>1, <2>3, <2>5, MemberCommitted
<1>3. IInv /\ MInv /\ [Next]_vars =>
         [\A r \in Requests, c \in Companies :
            /\ ~Active(r)'
            /\ \/ company[c].by = r /\ Live(company[c].val) /\ company'[c].val # company[c].val
               \/ \E k \in Sessions : /\ session[k].by = r /\ session'[k].val # session[k].val
                                      /\ Live(session'[k].val)
                                      /\ session'[k].val.company = c
            => \E u \in {me[r].user, who[r]} \ {NULL} :
                  Live(company_user'[<< u, c >>].val)]_vars
    BY <1>1, <1>2
<1> QED BY <1>3, InitInvariant, StepInvariant, InitKeeps, StepKeeps, PTL
        DEF Spec, OnlyMembersAct

=============================================================================
