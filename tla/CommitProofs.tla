---------------------------- MODULE CommitProofs ----------------------------
(***************************************************************************)
(* For any number of concurrent requests and any set of forms: what a      *)
(* commit shows.  Nothing is kept of a request that fails, a request to    *)
(* the tax agency comes into being together with its payment, with none    *)
(* forgotten of the types of work that the payment asks for, an invoice    *)
(* with the acceptance of its offer, and the commits keep the books of     *)
(* Register.tla: numbers without gaps, one request of each type.  At the   *)
(* end: what only a request that was overtaken can break (Overtaken.tla).  *)
(***************************************************************************)
EXTENDS InvoicesProofs, Overtaken

-----------------------------------------------------------------------------
(* Nothing but a commit changes what pages show. *)

LEMMA PutIsHidden ==
    ASSUME NEW t, NEW r, NEW k, NEW x
    PROVE  Committed(Put(t, r, k, x)) = Committed(t)
BY DEF Committed, Put

LEMMA RollbackIsHidden ==
    ASSUME NEW t, NEW r
    PROVE  Committed(Ended(t, r, FALSE)) = Committed(t)
BY DEF Committed, Ended, Settled

LEMMA StatementIsHidden ==
    ASSUME NEW r \in Requests, Step(r), ~CommitOrRollback(r)
    PROVE  Store' = Store
<1>1. CASE Fail(r)
    BY <1>1 DEF Fail, tables, Store
<1>2. ASSUME ~Fail(r),
             InvoiceList(r) \/ InvoiceRows(r) \/ GetNextInvoiceNumber(r) \/ CustomerList(r)
      PROVE  Store' = Store
    BY <1>2 DEF InvoiceList, InvoiceRows, GetNextInvoiceNumber, CustomerList, tables, Store
<1>3. ASSUME ~Fail(r),
             InvoiceUpdate(r) \/ InvoiceInsert(r) \/ CustomerUpdate(r) \/ CustomerInsert(r)
      PROVE  Store' = Store
    <2>1. Committed(invoice)' = Committed(invoice)
        BY <1>3, PutIsHidden DEF InvoiceUpdate, InvoiceInsert, CustomerUpdate, CustomerInsert
    <2>2. Committed(customer)' = Committed(customer)
        BY <1>3, PutIsHidden DEF InvoiceUpdate, InvoiceInsert, CustomerUpdate, CustomerInsert
    <2>3. UNCHANGED << invoice_row, rut_requests, file, invoice_attachments >>
        BY <1>3 DEF InvoiceUpdate, InvoiceInsert, CustomerUpdate, CustomerInsert
    <2> QED BY <2>1, <2>2, <2>3 DEF Store
<1>4. ASSUME ~Fail(r), InvoiceRowAdd(r) \/ InvoiceRowRemove(r) \/ InvoiceRowUpdate(r)
      PROVE  Store' = Store
    <2>1. Committed(invoice_row)' = Committed(invoice_row)
        BY <1>4, PutIsHidden DEF InvoiceRowAdd, InvoiceRowRemove, InvoiceRowUpdate, WriteRow,
            MatchesNothing, tables
    <2>2. UNCHANGED << customer, invoice, rut_requests, file, invoice_attachments >>
        BY <1>4 DEF InvoiceRowAdd, InvoiceRowRemove, InvoiceRowUpdate, WriteRow,
            MatchesNothing, tables
    <2> QED BY <2>1, <2>2 DEF Store
<1>5. ASSUME ~Fail(r), FileAdd(r) \/ AttachmentAdd(r) \/ AttachmentRemove(r) \/ FileRemove(r)
      PROVE  Store' = Store
    <2>1. file' = file \/ \E k, x : file' = Put(file, r, k, x)
        BY <1>5 DEF FileAdd, AttachmentAdd, AttachmentRemove, FileRemove
    <2>2. \/ invoice_attachments' = invoice_attachments
          \/ \E k, x : invoice_attachments' = Put(invoice_attachments, r, k, x)
        BY <1>5 DEF FileAdd, AttachmentAdd, AttachmentRemove, FileRemove
    <2>3. UNCHANGED << customer, invoice, invoice_row, rut_requests >>
        BY <1>5 DEF FileAdd, AttachmentAdd, AttachmentRemove, FileRemove
    <2>4. Committed(file') = Committed(file)
        BY <2>1, PutIsHidden
    <2>5. Committed(invoice_attachments') = Committed(invoice_attachments)
        BY <2>2, PutIsHidden
    <2> QED BY <2>3, <2>4, <2>5 DEF Store
<1>6. ASSUME ~Fail(r), RUTGet(r) \/ RUTList(r) \/ RUTCreate(r) \/ RUTSave(r)
      PROVE  Store' = Store
    <2>1. Committed(rut_requests)' = Committed(rut_requests)
        BY <1>6, PutIsHidden DEF RUTGet, RUTList, RUTCreate, RUTSave, WriteRequest,
            MatchesNothing, tables
    <2>2. UNCHANGED << customer, invoice, invoice_row, file, invoice_attachments >>
        BY <1>6 DEF RUTGet, RUTList, RUTCreate, RUTSave, WriteRequest, MatchesNothing, tables
    <2> QED BY <2>1, <2>2 DEF Store
<1> QED BY <1>1, <1>2, <1>3, <1>4, <1>5, <1>6, StatementCases DEF Side

(* A step that changes the store commits a request without an error. *)
LEMMA OnlyCommitsShow ==
    ASSUME TypeOK, [Next]_vars, Store' # Store
    PROVE  \E r \in Requests :
              /\ Active(r) /\ script[r] = << >> /\ status[r] < 400 /\ EndTransaction(r, TRUE)
<1>1. ASSUME UNCHANGED tables PROVE FALSE
    BY <1>1 DEF tables, Store
<1>2. PICK r \in Requests : StepOf(r)
    BY <1>1, StepCases DEF vars
<1>3. ASSUME NEW f \in Forms, Begin(r, f) PROVE FALSE
    BY <1>1, <1>3 DEF Begin
<1>4. ASSUME Fail(r) PROVE FALSE
    BY <1>1, <1>4 DEF Fail
<1>5. ASSUME EndTransaction(r, FALSE) PROVE FALSE
    BY <1>5, RollbackIsHidden DEF EndTransaction, Store
<1>6. Active(r)
    BY <1>2, <1>3, <1>4, StatementIsHidden DEF StepOf
<1>7. PICK commit \in BOOLEAN :
          script[r] = << >> /\ EndTransaction(r, commit) /\ (commit => status[r] <= 400)
    BY <1>2, <1>3, <1>4, StatementIsHidden DEF StepOf
<1>8. commit = TRUE
    BY <1>5, <1>7
<1>9. status[r] \in {200, 500}
    BY DEF TypeOK, ServingOK, StatusOK, StatusInternalServerError
<1>10. EndTransaction(r, TRUE)
    BY <1>7, <1>8, Zenon
<1>11. script[r] = << >> /\ status[r] <= 400
    BY <1>7, <1>8
<1>12. status[r] < 400
    BY <1>9, <1>11
<1> QED BY <1>6, <1>10, <1>11, <1>12

(* Whatever fails and whenever, and however many requests run: what pages  *)
(* show changes only when a request ends that was answered without an      *)
(* error (models/transaction.go:171-196).                                  *)
THEOREM FailuresLeaveNothing == Spec => NothingKeptOfAFailure
<1> DEFINE Kept == Store' # Store =>
                     \E r \in Requests : /\ Active(r) /\ script[r] = << >> /\ status[r] < 400
                                         /\ ~Active(r)'
<1>1. TypeOK /\ [Next]_vars => [Kept]_vars
    <2> SUFFICES ASSUME TypeOK, [Next]_vars, Store' # Store
                 PROVE  \E r \in Requests : /\ Active(r) /\ script[r] = << >> /\ status[r] < 400
                                            /\ ~Active(r)'
        OBVIOUS
    <2>1. PICK r \in Requests :
              Active(r) /\ script[r] = << >> /\ status[r] < 400 /\ EndTransaction(r, TRUE)
        BY OnlyCommitsShow
    <2>2. form'[r] = NULL
        BY <2>1 DEF EndTransaction, TypeOK, ServingOK
    <2> QED BY <2>1, <2>2 DEF Active
<1> QED BY <1>1, TypeCorrect, PTL DEF Spec, NothingKeptOfAFailure

-----------------------------------------------------------------------------
(* Requests and payments. *)

Backed(x) == x.is_paid /\ x.date_paid /\ x.rut_applicable

(* Request r does nothing more but ask. *)
AsksOnly(r) == \A n \in DOMAIN script[r] : n \in AsksAt(r)

(* A handler that asks has flagged the invoice as paid: it is about to     *)
(* save it so, or has done that and only asks from now on.                 *)
PaidFor(r) ==
    AsksAt(r) # {}
    => IF At(r, "InvoiceSave")
       THEN /\ \A n \in DOMAIN script[r] : n = 1 \/ n \in AsksAt(r)
            /\ Backed(inv[r])
       ELSE AsksOnly(r) /\ Backed(invoice[id[r]].new)

(* A request to the tax agency that is not committed. *)
IsNew(k) == rut_requests[k].by # NULL /\ ~Live(rut_requests[k].val)

(* It is committed with the payment, by a handler that only asks. *)
BackedWhenNew(k) ==
    IsNew(k) => /\ Active(rut_requests[k].by) /\ AsksOnly(rut_requests[k].by)
                /\ Backed(invoice[rut_requests[k].new.invoice].new)

PaymentsBacked ==
    /\ \A k \in RutIds : BackedWhenNew(k)
    /\ \A r \in Requests : PaidFor(r)

(* The rows that only r may write. *)
SparesInvoices(r) ==
    \A i \in Invoices : invoice[i].by \notin {NULL, r} => invoice'[i] = invoice[i]

LEMMA WritesSpare ==
    ASSUME TypeOK, NEW r \in Requests,
           \/ WritesInvoice(r)
           \/ \E commit \in BOOLEAN : invoice' = Ended(invoice, r, commit)
    PROVE  SparesInvoices(r)
<1>1. DOMAIN invoice = Invoices
    BY DEF TypeOK, TablesOK
<1> QED BY <1>1 DEF SparesInvoices, WritesInvoice, Put, Ended

LEMMA OthersPaidFor ==
    ASSUME Invariant, PaymentsBacked, NEW r \in Requests, SparesInvoices(r),
           NEW s \in Requests \ {r},
           script'[s] = script[s], id'[s] = id[s], inv'[s] = inv[s]
    PROVE  PaidFor(s)'
<1>1. AsksAt(s)' = AsksAt(s) /\ At(s, "InvoiceSave")' = At(s, "InvoiceSave")
    BY DEF AsksAt, At
<1>2. PaidFor(s) /\ Locks(s)
    BY Parts DEF PaymentsBacked, OwnInvariant
<1>3. ASSUME AsksAt(s) # {}, ~At(s, "InvoiceSave") PROVE invoice'[id[s]] = invoice[id[s]]
    <2>1. id[s] \in Invoices /\ invoice[id[s]].by = s
        BY <1>2, <1>3 DEF Locks
    <2>2. s # NULL
        BY EntitiesAssumption
    <2> QED BY <2>1, <2>2 DEF SparesInvoices
<1>4. AsksOnly(s)' = AsksOnly(s)
    BY <1>1 DEF AsksOnly
<1> QED BY <1>1, <1>2, <1>3, <1>4 DEF PaidFor

(* A step of request r that makes no request to the agency. *)
LEMMA NothingNewIsBacked ==
    ASSUME Invariant, PaymentsBacked, NEW r \in Requests, SparesInvoices(r),
           \A s \in Requests \ {r} : /\ script'[s] = script[s] /\ id'[s] = id[s]
                                     /\ inv'[s] = inv[s] /\ form'[s] = form[s],
           NewOnesStay,
           \A k \in RutIds : IsNew(k)' /\ rut_requests[k].by = r
               => Active(r)' /\ AsksOnly(r)' /\ UNCHANGED invoice,
           PaidFor(r)'
    PROVE  PaymentsBacked'
<1>1. \A s \in Requests \ {r} : PaidFor(s)'
    BY OthersPaidFor
<1>2. ASSUME NEW k \in RutIds, IsNew(k)' PROVE BackedWhenNew(k)'
    <2>1. /\ IsNew(k) /\ rut_requests'[k].by = rut_requests[k].by
          /\ rut_requests'[k].new.invoice = rut_requests[k].new.invoice
        BY <1>2, EntitiesAssumption DEF NewOnesStay, IsNew
    <2>2. PICK s \in Requests, i \in Invoices :
              /\ rut_requests[k].by = s /\ rut_requests[k].new.invoice = i
              /\ invoice[i].by = s
        BY <2>1, Parts, NewNamesInvoice
           DEF Invariant, AskInvariant, IsNew, NewRequestsUnderLock
    <2>3. Active(s) /\ AsksOnly(s) /\ Backed(invoice[i].new)
        BY <2>1, <2>2 DEF PaymentsBacked, BackedWhenNew
    <2>4. invoice'[i] = invoice[i]
        BY <1>2, <2>2, EntitiesAssumption DEF SparesInvoices
    <2>5. Active(s)' /\ AsksOnly(s)'
        <3>1. CASE s = r
            BY <1>2, <2>2, <3>1
        <3>2. CASE s # r
            BY <2>3, <3>2 DEF Active, AsksOnly, AsksAt
        <3> QED BY <3>1, <3>2
    <2> QED BY <2>1, <2>2, <2>3, <2>4, <2>5 DEF BackedWhenNew
<1> QED BY <1>1, <1>2 DEF PaymentsBacked, BackedWhenNew

(* A statement that is no question: the handler has made no request yet. *)
LEMMA UnaskedIsBacked ==
    ASSUME Invariant, PaymentsBacked, NEW r \in Requests, Alone(r), SparesInvoices(r),
           NewOnesStay, script[r] # << >>,
           Head(script[r]).op \notin {"RUTList", "RUTCreate"}, PaidFor(r)'
    PROVE  PaymentsBacked'
<1>1. ASSUME NEW k \in RutIds, IsNew(k)', rut_requests[k].by = r PROVE FALSE
    <2>1. IsNew(k)
        BY <1>1, EntitiesAssumption DEF NewOnesStay, IsNew
    <2>2. AsksOnly(r)
        BY <1>1, <2>1 DEF PaymentsBacked, BackedWhenNew
    <2>3. 1 \in DOMAIN script[r] /\ script[r][1] = Head(script[r])
        BY Parts, ScriptParts
    <2> QED BY <2>2, <2>3 DEF AsksOnly, AsksAt
<1> QED BY <1>1, NothingNewIsBacked DEF Alone

LEMMA QuietPays ==
    ASSUME NEW r \in Requests, Quiet(script[r])'
    PROVE  PaidFor(r)'
BY DEF Quiet, PaidFor, AsksAt

(* What is neither a question nor comes before one. *)
Unrelated(op) == op \notin {"RUTList", "RUTCreate", "InvoiceSave"}

LEMMA UnrelatedTail ==
    ASSUME Invariant, PaymentsBacked, NEW r \in Requests, script[r] # << >>,
           Unrelated(Head(script[r]).op)
    PROVE  AsksAt(r) = {}
<1>1. 1 \in DOMAIN script[r] /\ script[r][1] = Head(script[r]) /\ ~At(r, "InvoiceSave")
    BY Parts, ScriptParts DEF At, Unrelated
<1> QED BY <1>1 DEF PaymentsBacked, PaidFor, AsksOnly, AsksAt, Unrelated

LEMMA Prepended ==
    ASSUME NEW S, NEW q \in Seq(S), NEW d \in S
    PROVE  /\ << d >> \o q \in Seq(S)
           /\ \A n \in DOMAIN (<< d >> \o q) :
                 \/ n = 1 /\ (<< d >> \o q)[n] = d
                 \/ n - 1 \in DOMAIN q /\ (<< d >> \o q)[n] = q[n - 1]
<1>1. /\ << d >> \o q \in Seq(S) /\ Len(<< d >> \o q) = Len(q) + 1
      /\ (<< d >> \o q)[1] = d
      /\ \A n \in 1..Len(q) : (<< d >> \o q)[n + 1] = q[n]
    OBVIOUS
<1>2. ASSUME NEW n \in DOMAIN (<< d >> \o q), n # 1
      PROVE  n - 1 \in DOMAIN q /\ (<< d >> \o q)[n] = q[n - 1]
    <2>1. n - 1 \in 1..Len(q) /\ n = (n - 1) + 1
        BY <1>1, <1>2
    <2> QED BY <1>1, <2>1
<1> QED BY <1>1, <1>2

LEMMA PrependedUnasked ==
    ASSUME NEW q \in Seq(Statement), NEW d \in Plain,
           \A n \in DOMAIN q : q[n].op \notin {"RUTList", "RUTCreate"}
    PROVE  \A n \in DOMAIN (<< d >> \o q) :
              (<< d >> \o q)[n].op \notin {"RUTList", "RUTCreate"}
<1>1. d \in Statement /\ d.op \notin {"RUTList", "RUTCreate"}
    BY DEF Plain
<1> DEFINE p == << d >> \o q
<1>2. \A n \in DOMAIN p : \/ n = 1 /\ p[n] = d
                          \/ n - 1 \in DOMAIN q /\ p[n] = q[n - 1]
    BY <1>1, Prepended
<1> HIDE DEF p
<1>3. \A n \in DOMAIN p : p[n].op \notin {"RUTList", "RUTCreate"}
    BY <1>1, <1>2
<1> QED BY <1>3 DEF p

LEMMA TailPays ==
    ASSUME Invariant, NEW r \in Requests, script[r] # << >>, AsksAt(r) = {},
           \/ script'[r] = Tail(script[r])
           \/ \E d \in Plain : script'[r] = << d >> \o Tail(script[r])
    PROVE  PaidFor(r)'
<1>1. /\ Tail(script[r]) \in Seq(Statement)
      /\ \A n \in DOMAIN Tail(script[r]) :
            Tail(script[r])[n].op \notin {"RUTList", "RUTCreate"}
    BY Parts, ScriptParts DEF AsksAt
<1> DEFINE q == Tail(script[r])
<1>2. CASE script'[r] = q
    BY <1>1, <1>2 DEF PaidFor, AsksAt
<1>3. ASSUME NEW d \in Plain, script'[r] = << d >> \o q PROVE PaidFor(r)'
    BY <1>1, <1>3, PrependedUnasked DEF PaidFor, AsksAt
<1> QED BY <1>2, <1>3

(* The flag of a payment marks the invoice as paid before it asks. *)
LEMMA FlaggedIsBacked ==
    ASSUME NEW f \in FlagForm, NEW x \in LocalInvoice,
           f.flag = "paid", ~f.revoke, x.rut_applicable
    PROVE  Backed(Flagged(f, x))
<1> DEFINE y == Flagged(f, x)
<1>1. /\ y.is_paid = ~f.revoke /\ y.date_paid = (x.date_paid \/ f.flag = "paid")
      /\ y.rut_applicable = x.rut_applicable
    BY DEF Flagged, LocalInvoice
<1> HIDE DEF y
<1>2. Backed(y)
    BY <1>1, Zenon DEF Backed
<1> QED BY <1>2 DEF y

LEMMA RowsPay ==
    ASSUME Invariant, NEW r \in Requests, InvoiceRows(r), ~Fail(r)
    PROVE  PaidFor(r)'
<1> DEFINE f == form[r]
           read == RowsOf(r)
<1>1. f \in Forms /\ inv[r] \in LocalInvoice /\ read \in LocalRows
    BY Parts, RowsOfType, InHandAfterRows
<1>2. \A q : ContinueWith(r, q) => script'[r] = q
    BY Parts DEF ContinueWith, TypeOK, ServingOK
<1>3. \/ /\ f.op = "flag"
         /\ inv' = [inv EXCEPT ![r] = Flagged(f, @)]
         /\ \E q \in FlagScripts(f, inv[r], read) : ContinueWith(r, q)
      \/ f.op = "post" /\ \E q \in PostScripts(f, inv[r], read) : ContinueWith(r, q)
      \/ f.op = "attach" /\ ContinueWith(r, FileScript(f))
      \/ f.op = "rut_flag" /\ \E q \in RutSaveScripts(f, read) : ContinueWith(r, q)
      \/ f.op = "rut_post" /\ \E q \in RutPostScripts(f, rut[r], HoursPosted(f, read)) :
                                 ContinueWith(r, q)
    BY DEF InvoiceRows
<1>4. ASSUME f.op = "flag", inv' = [inv EXCEPT ![r] = Flagged(f, @)],
             NEW q \in FlagScripts(f, inv[r], read), ContinueWith(r, q)
      PROVE  PaidFor(r)'
    <2>1. f \in FlagForm
        BY <1>1, <1>4, FormType
    <2>2. script'[r] = q /\ inv'[r] = Flagged(f, inv[r])
        BY <1>2, <1>4, Parts DEF TypeOK, HandOK
    <2>3. PICK m \in Nat :
             /\ 2..m \subseteq DOMAIN q
             /\ \A n \in 2..m : q[n].op = "RUTList"
             /\ \A n \in DOMAIN q \ 2..m :
                   q[n].op \notin {"RUTList", "RUTCreate", "InvoiceRows"}
             /\ 2..m # {} => /\ DOMAIN q = 1..m
                             /\ f.flag = "paid" /\ ~f.revoke /\ inv[r].rut_applicable
        BY <1>1, <2>1, FlagShape
    <2>4. AsksAt(r)' = 2..m
        BY <2>2, <2>3 DEF AsksAt
    <2>5. At(r, "InvoiceSave")'
        BY <1>1, <2>1, <2>2, FlagShape DEF At
    <2>6. ASSUME 2..m # {} PROVE Backed(inv'[r]) /\ \A n \in DOMAIN q : n = 1 \/ n \in 2..m
        <3>1. DOMAIN q = 1..m
            BY <2>3, <2>6
        <3>2. f.flag = "paid" /\ ~f.revoke /\ inv[r].rut_applicable
            BY <2>3, <2>6, Zenon
        <3> QED BY <1>1, <2>1, <2>2, <3>1, <3>2, FlaggedIsBacked
    <2> QED BY <2>2, <2>4, <2>5, <2>6 DEF PaidFor
<1>5. ASSUME script'[r] \in Seq(Plain) PROVE PaidFor(r)'
    BY <1>5, PlainIsQuiet, QuietPays
<1>6. CASE f.op = "post" /\ \E q \in PostScripts(f, inv[r], read) : ContinueWith(r, q)
    BY <1>1, <1>2, <1>5, <1>6, FormType, PostScriptsType, HandledIsPlain
<1>7. CASE f.op = "attach" /\ ContinueWith(r, FileScript(f))
    <2>1. f.attach \in Nat
        BY <1>1, <1>7, FormType DEF AttachForm
    <2> QED BY <1>2, <1>5, <1>7, <2>1, FileScriptType, HandledIsPlain
<1>8. CASE f.op = "rut_flag" /\ \E q \in RutSaveScripts(f, read) : ContinueWith(r, q)
    BY <1>1, <1>2, <1>5, <1>8, FormType, RutSaveScriptsType, HandledIsPlain
<1>9. CASE f.op = "rut_post" /\ \E q \in RutPostScripts(f, rut[r], HoursPosted(f, read)) :
                                   ContinueWith(r, q)
    BY <1>1, <1>2, <1>5, <1>9, FormType, HoursPostedType, RutPostScriptsType, HandledIsPlain
<1> QED BY <1>3, <1>4, <1>6, <1>7, <1>8, <1>9

(* Reading asks nothing. *)
LEMMA NothingStored ==
    ASSUME NEW r \in Requests, UNCHANGED << invoice, rut_requests >>
    PROVE  SparesInvoices(r) /\ NewOnesStay
BY DEF SparesInvoices, NewOnesStay

LEMMA ReadIsBacked ==
    ASSUME Invariant, PaymentsBacked, NEW r \in Requests, ~Fail(r),
           InvoiceList(r) \/ InvoiceRows(r) \/ GetNextInvoiceNumber(r) \/ CustomerList(r)
    PROVE  PaymentsBacked'
<1>1. Alone(r) /\ UNCHANGED << invoice, rut_requests >>
    BY Parts, ListFrame DEF tables
<1>2. SparesInvoices(r) /\ NewOnesStay
    BY <1>1, NothingStored
<1>3. script[r] # << >> /\ Unrelated(Head(script[r]).op)
    BY DEF InvoiceList, InvoiceRows, GetNextInvoiceNumber, CustomerList, Runs, At, Unrelated
<1>4. AsksAt(r) = {}
    BY <1>3, UnrelatedTail
<1>5. CASE InvoiceRows(r)
    BY <1>1, <1>2, <1>3, <1>5, RowsPay, UnaskedIsBacked DEF Unrelated
<1>6. CASE Continue(r)
    <2>1. script'[r] = Tail(script[r])
        BY <1>6, Parts DEF Continue, TypeOK, ServingOK
    <2> QED BY <1>1, <1>2, <1>3, <1>4, <2>1, TailPays, UnaskedIsBacked DEF Unrelated
<1>7. ASSUME GetNextInvoiceNumber(r), ~Continue(r) PROVE PaymentsBacked'
    <2>1. PICK n \in Nat : /\ form[r] \in PostForm /\ NewInvoice(form[r], n) \in LocalInvoice
                           /\ \E q \in PostScripts(form[r], NewInvoice(form[r], n), NoRows) :
                                 ContinueWith(r, q)
        BY <1>7, InHandAfterNumber
    <2>2. \A q : ContinueWith(r, q) => script'[r] = q
        BY Parts DEF ContinueWith, TypeOK, ServingOK
    <2>3. script'[r] \in Seq(Plain)
        BY <2>1, <2>2, ZeroTypes, PostScriptsType, HandledIsPlain
    <2>4. PaidFor(r)'
        BY <2>3, PlainIsQuiet, QuietPays
    <2> QED BY <1>1, <1>2, <1>3, <2>4, UnaskedIsBacked DEF Unrelated
<1> QED BY <1>5, <1>6, <1>7 DEF InvoiceList, CustomerList

(* When the paid invoice has been saved, its row holds the payment. *)
LEMMA SavedPays ==
    ASSUME Invariant, PaymentsBacked, NEW r \in Requests, At(r, "InvoiceSave"),
           script'[r] = Tail(script[r]), id'[r] = id[r],
           Reached(r) /\ Backed(inv[r]) => Backed(invoice'[id[r]].new)
    PROVE  PaidFor(r)'
<1>1. /\ script[r] # << >> /\ script[r][1].op = "InvoiceSave"
      /\ script'[r] \in Seq(Statement)
      /\ \A n \in DOMAIN script'[r] :
            /\ n \in Nat \ {0} /\ n + 1 \in DOMAIN script[r]
            /\ script'[r][n] = script[r][n + 1]
    BY Parts, ScriptParts DEF At
<1>2. SUFFICES ASSUME AsksAt(r)' # {}
               PROVE  ~At(r, "InvoiceSave")' /\ AsksOnly(r)' /\ Backed(invoice'[id[r]].new)
    BY DEF PaidFor
<1>3. PICK m \in Nat : m + 1 \in AsksAt(r)
    BY <1>1, <1>2 DEF AsksAt
<1>4. Reached(r)
    <2>1. 1 \notin AsksAt(r) /\ 1 \in 1..(m + 1)
        BY <1>1, <1>3 DEF AsksAt
    <2> QED BY <1>3, <2>1, Parts DEF OwnInvariant, Locks
<1>5. Backed(inv[r]) /\ \A n \in DOMAIN script[r] : n = 1 \/ n \in AsksAt(r)
    BY <1>3 DEF PaymentsBacked, PaidFor
<1>6. AsksOnly(r)'
    <2> SUFFICES ASSUME NEW n \in DOMAIN script'[r] PROVE n \in AsksAt(r)'
        BY DEF AsksOnly
    <2>1. n + 1 # 1 /\ n + 1 \in DOMAIN script[r] /\ script'[r][n] = script[r][n + 1]
        BY <1>1
    <2> QED BY <1>5, <2>1 DEF AsksAt
<1>7. ~At(r, "InvoiceSave")'
    <2> SUFFICES ASSUME script'[r] # << >>, Head(script'[r]).op = "InvoiceSave" PROVE FALSE
        BY DEF At
    <2>1. 1 \in DOMAIN script'[r] /\ script'[r][1] = Head(script'[r])
        BY <1>1
    <2> QED BY <1>6, <2>1 DEF AsksOnly, AsksAt
<1> QED BY <1>4, <1>5, <1>6, <1>7

LEMMA SaveIsBacked ==
    ASSUME Invariant, OwnBooks, PaymentsBacked, NEW r \in Requests, ~Fail(r),
           InvoiceUpdate(r) \/ InvoiceInsert(r) \/ CustomerUpdate(r) \/ CustomerInsert(r)
    PROVE  PaymentsBacked'
<1>1. Alone(r) /\ script'[r] = Tail(script[r])
    BY Parts, SaveFrame DEF Continue, TypeOK, ServingOK
<1>2. UNCHANGED rut_requests /\ NewOnesStay
    BY DEF InvoiceUpdate, InvoiceInsert, CustomerUpdate, CustomerInsert, NewOnesStay
<1>3. SparesInvoices(r)
    <2>1. CASE InvoiceUpdate(r) \/ InvoiceInsert(r)
        <3>1. WritesOwnInvoice(r)
            BY <2>1, OwnInvoiceUpdate, OwnInvoiceInsert
        <3> QED BY <3>1, Parts, WritesSpare DEF WritesOwnInvoice, WritesInvoice
    <2>2. CASE CustomerUpdate(r) \/ CustomerInsert(r)
        BY <2>2 DEF CustomerUpdate, CustomerInsert, SparesInvoices
    <2> QED BY <2>1, <2>2
<1>4. script[r] # << >> /\ Head(script[r]).op \in {"InvoiceSave", "CustomerSave"}
    BY DEF InvoiceUpdate, InvoiceInsert, CustomerUpdate, CustomerInsert, Runs, At
<1>5. CASE CustomerUpdate(r) \/ CustomerInsert(r)
    <2>1. Head(script[r]).op = "CustomerSave"
        BY <1>5 DEF CustomerUpdate, CustomerInsert, Runs, At
    <2>2. PaidFor(r)'
        BY <1>1, <1>4, <2>1, UnrelatedTail, TailPays DEF Unrelated
    <2> QED BY <1>1, <1>2, <1>3, <1>4, <2>2, UnaskedIsBacked
<1>6. CASE InvoiceInsert(r)
    <2>1. Head(script[r]).op = "InvoiceSave" /\ id[r] = NULL
        BY <1>6 DEF InvoiceInsert, Runs, At
    <2>2. Quiet(script[r])'
        BY <1>1, <1>4, <2>1, Parts, TailIsQuiet
    <2> QED BY <1>1, <1>2, <1>3, <1>4, <2>2, QuietPays, UnaskedIsBacked
<1>7. CASE InvoiceUpdate(r)
    <2> DEFINE old == Sees(invoice, r)[id[r]]
    <2>1. /\ At(r, "InvoiceSave") /\ id[r] \in Invoices /\ inv[r] \in LocalInvoice
          /\ id'[r] = id[r]
          /\ invoice' = IF Live(old)
                        THEN Put(invoice, r, id[r], UpdatedInvoice(old, inv[r])) ELSE invoice
        BY <1>7, Parts DEF InvoiceUpdate, Runs, TypeOK, HandOK, hand
    <2>2. ASSUME Reached(r), Backed(inv[r]) PROVE Backed(invoice'[id[r]].new)
        <3>1. invoice'[id[r]].new = UpdatedInvoice(old, inv[r])
            BY <2>1, <2>2, Parts DEF Reached, Put, TypeOK, TablesOK
        <3>2. /\ UpdatedInvoice(old, inv[r]).is_paid = inv[r].is_paid
              /\ UpdatedInvoice(old, inv[r]).date_paid = inv[r].date_paid
              /\ UpdatedInvoice(old, inv[r]).rut_applicable = inv[r].rut_applicable
            BY <2>1 DEF UpdatedInvoice, LocalInvoice
        <3> QED BY <2>2, <3>1, <3>2, Zenon DEF Backed
    <2>3. PaidFor(r)'
        BY <1>1, <2>1, <2>2, SavedPays
    <2> QED BY <1>1, <1>2, <1>3, <1>4, <2>3, UnaskedIsBacked
<1> QED BY <1>5, <1>6, <1>7

(* A question that was answered: the rest of the script asks on. *)
LEMMA AskedPays ==
    ASSUME Invariant, PaymentsBacked, NEW r \in Requests, script[r] # << >>,
           Head(script[r]).op \in {"RUTList", "RUTCreate"},
           \/ script'[r] = Tail(script[r])
           \/ \E d \in Statement : d.op = "RUTCreate" /\ script'[r] = << d >> \o Tail(script[r]),
           id'[r] = id[r], UNCHANGED << invoice, form >>
    PROVE  /\ PaidFor(r)' /\ AsksOnly(r)' /\ Active(r)'
           /\ Backed(invoice[id[r]].new)
<1> DEFINE q == Tail(script[r])
<1>1. /\ 1 \in DOMAIN script[r] /\ script[r][1] = Head(script[r]) /\ q \in Seq(Statement)
      /\ \A n \in DOMAIN q : n + 1 \in DOMAIN script[r] /\ q[n] = script[r][n + 1]
    BY Parts, ScriptParts
<1>2. 1 \in AsksAt(r) /\ ~At(r, "InvoiceSave")
    BY <1>1 DEF AsksAt, At
<1>3. AsksOnly(r) /\ Backed(invoice[id[r]].new)
    BY <1>2 DEF PaymentsBacked, PaidFor
<1>4. \A n \in DOMAIN q : q[n].op \in {"RUTList", "RUTCreate"}
    BY <1>1, <1>3 DEF AsksOnly, AsksAt
<1>5. /\ script'[r] \in Seq(Statement)
      /\ \A n \in DOMAIN script'[r] : script'[r][n].op \in {"RUTList", "RUTCreate"}
    <2>1. CASE script'[r] = q
        BY <1>1, <1>4, <2>1
    <2>2. ASSUME NEW d \in Statement, d.op = "RUTCreate", script'[r] = << d >> \o q
          PROVE  /\ script'[r] \in Seq(Statement)
                 /\ \A n \in DOMAIN script'[r] : script'[r][n].op \in {"RUTList", "RUTCreate"}
        <3> HIDE DEF q
        <3> DEFINE p == << d >> \o q
        <3>1. /\ p \in Seq(Statement)
              /\ \A n \in DOMAIN p : \/ n = 1 /\ p[n] = d
                                     \/ n - 1 \in DOMAIN q /\ p[n] = q[n - 1]
            BY <1>1, Prepended
        <3> HIDE DEF p
        <3>2. \A n \in DOMAIN p : p[n].op \in {"RUTList", "RUTCreate"}
            BY <1>4, <2>2, <3>1
        <3> QED BY <2>2, <3>1, <3>2 DEF p
    <2> QED BY <2>1, <2>2
<1>6. AsksOnly(r)'
    BY <1>5 DEF AsksOnly, AsksAt
<1>7. ~At(r, "InvoiceSave")'
    <2> SUFFICES ASSUME script'[r] # << >> PROVE Head(script'[r]).op # "InvoiceSave"
        BY DEF At
    <2>1. 1 \in DOMAIN script'[r] /\ script'[r][1] = Head(script'[r])
        BY <1>5
    <2> QED BY <1>5, <2>1
<1>8. Active(r)'
    BY Parts DEF IdleHasNoScript, Active
<1> QED BY <1>3, <1>6, <1>7, <1>8 DEF PaidFor

LEMMA ListedIsBacked ==
    ASSUME Invariant, PaymentsBacked, NEW r \in Requests, RUTList(r)
    PROVE  PaymentsBacked'
<1>1. /\ script[r] # << >> /\ Head(script[r]).op = "RUTList"
      /\ UNCHANGED << invoice, rut_requests, form, id, inv >>
    BY DEF RUTList, Runs, At, tables, hand, Continue, ContinueWith
<1>2. /\ \A s \in Requests \ {r} : script'[s] = script[s]
      /\ \/ script'[r] = Tail(script[r])
         \/ script'[r] = << Do("RUTCreate", Arg(r)) >> \o Tail(script[r])
    BY Parts DEF RUTList, Continue, ContinueWith, TypeOK, ServingOK
<1>3. Do("RUTCreate", Arg(r)) \in Statement /\ Do("RUTCreate", Arg(r)).op = "RUTCreate"
    BY <1>1, Parts, Served, StatementArgument, DoType DEF Arg, Do
<1>4. PaidFor(r)' /\ AsksOnly(r)' /\ Active(r)'
    BY <1>1, <1>2, <1>3, AskedPays
<1> QED BY <1>1, <1>2, <1>4, NothingStored, NothingNewIsBacked

(* A request is made in the name of a handler that has saved the payment. *)
LEMMA CreatedIsBacked ==
    ASSUME Invariant, PaymentsBacked, NEW r \in Requests, RUTCreate(r), ~Fail(r)
    PROVE  PaymentsBacked'
<1>1. /\ script[r] # << >> /\ Head(script[r]).op = "RUTCreate"
      /\ UNCHANGED << invoice, form, id, inv >>
    BY DEF RUTCreate, Runs, At, WriteRequest, hand, Continue
<1>2. PICK k \in FreshIds(rut_requests) :
          \E x : x.invoice = id[r] /\ rut_requests' = Put(rut_requests, r, k, x)
    BY DEF RUTCreate, WriteRequest
<1>10. PICK x : x.invoice = id[r] /\ rut_requests' = Put(rut_requests, r, k, x)
    BY <1>2
<1>3. script' = [script EXCEPT ![r] = Tail(@)]
    BY DEF RUTCreate, WriteRequest, Continue
<1>4. script'[r] = Tail(script[r]) /\ \A s \in Requests \ {r} : script'[s] = script[s]
    BY <1>3, Parts DEF TypeOK, ServingOK
<1>5. PaidFor(r)' /\ AsksOnly(r)' /\ Active(r)' /\ Backed(invoice[id[r]].new)
    BY <1>1, <1>4, AskedPays
<1>6. \A s \in Requests \ {r} : PaidFor(s)'
    BY <1>1, <1>4, OthersPaidFor DEF SparesInvoices
<1>7. \A l \in RutIds : IF l = k THEN rut_requests'[l].by = r /\ rut_requests'[l].new = x
                        ELSE rut_requests'[l] = rut_requests[l]
    BY <1>10, Parts DEF FreshIds, Put, TypeOK, TablesOK
<1>8. BackedWhenNew(k)'
    <2>1. k \in RutIds
        BY Parts DEF FreshIds, TypeOK, TablesOK
    <2>2. rut_requests'[k].by = r /\ rut_requests'[k].new.invoice = id[r]
        BY <1>10, <1>7, <2>1
    <2>3. invoice'[rut_requests'[k].new.invoice] = invoice[id[r]]
        BY <1>1, <2>2
    <2> QED BY <1>5, <2>2, <2>3 DEF BackedWhenNew
<1>9. ASSUME NEW l \in RutIds \ {k} PROVE BackedWhenNew(l)'
    <2>1. rut_requests'[l] = rut_requests[l] /\ IsNew(l)' = IsNew(l)
        BY <1>7 DEF IsNew
    <2>2. ASSUME IsNew(l) PROVE Active(rut_requests[l].by)' /\ AsksOnly(rut_requests[l].by)'
        <3>1. PICK s \in Requests : rut_requests[l].by = s
            BY <2>2, Parts, NewNamesInvoice DEF Invariant, AskInvariant, IsNew
        <3>2. CASE s = r
            BY <1>5, <2>1, <3>1, <3>2
        <3>3. CASE s # r
            <4>1. Active(s) /\ AsksOnly(s)
                BY <2>2, <3>1 DEF PaymentsBacked, BackedWhenNew
            <4>2. Active(s)' /\ AsksOnly(s)'
                BY <1>1, <1>4, <3>3, <4>1 DEF Active, AsksOnly, AsksAt
            <4> QED BY <2>1, <3>1, <4>2
        <3> QED BY <3>2, <3>3
    <2>3. BackedWhenNew(l)
        BY DEF PaymentsBacked
    <2> QED BY <1>1, <2>1, <2>2, <2>3 DEF BackedWhenNew
<1> QED BY <1>5, <1>6, <1>8, <1>9 DEF PaymentsBacked

LEMMA SideIsBacked ==
    ASSUME Invariant, PaymentsBacked, NEW r \in Requests, Side(r), ~Fail(r)
    PROVE  PaymentsBacked'
<1>1. Alone(r) /\ UNCHANGED invoice /\ SparesInvoices(r)
    BY Parts, SideFrame DEF SparesInvoices
<1>2. CASE RUTList(r)
    BY <1>2, ListedIsBacked
<1>3. CASE RUTCreate(r)
    BY <1>3, CreatedIsBacked
<1>4. ASSUME Side(r), ~RUTList(r), ~RUTCreate(r)
      PROVE  script[r] # << >> /\ Unrelated(Head(script[r]).op)
    BY <1>4 DEF Side, InvoiceRowAdd, InvoiceRowRemove, InvoiceRowUpdate, FileAdd, AttachmentAdd,
        AttachmentRemove, FileRemove, RUTGet, RUTSave, Runs, At, Unrelated
<1>5. ASSUME ~RUTList(r), ~RUTCreate(r), NewOnesStay,
             \/ script'[r] = Tail(script[r])
             \/ \E d \in Plain : script'[r] = << d >> \o Tail(script[r])
      PROVE  PaymentsBacked'
    BY <1>1, <1>4, <1>5, UnrelatedTail, TailPays, UnaskedIsBacked DEF Unrelated
<1>6. ASSUME Continue(r) PROVE script'[r] = Tail(script[r])
    BY <1>6, Parts DEF Continue, TypeOK, ServingOK
<1>7. CASE RUTSave(r)
    <2>1. NewOnesStay /\ Continue(r)
        BY <1>7, Parts, RUTSaveSaves, RequestSaved DEF Invariant, AskInvariant
    <2>2. ~RUTList(r) /\ ~RUTCreate(r)
        BY <1>7 DEF RUTSave, RUTList, RUTCreate, Runs, At
    <2> QED BY <1>5, <1>6, <2>1, <2>2
<1>8. CASE InvoiceRowAdd(r) \/ InvoiceRowRemove(r) \/ InvoiceRowUpdate(r) \/ AttachmentAdd(r)
           \/ FileRemove(r) \/ RUTGet(r)
    <2>1. Continue(r) /\ UNCHANGED rut_requests
        BY <1>8 DEF InvoiceRowAdd, InvoiceRowRemove, InvoiceRowUpdate, AttachmentAdd, FileRemove,
            RUTGet, WriteRow, MatchesNothing, tables
    <2>2. ~RUTList(r) /\ ~RUTCreate(r)
        BY <1>8 DEF InvoiceRowAdd, InvoiceRowRemove, InvoiceRowUpdate, AttachmentAdd, FileRemove,
            RUTGet, RUTList, RUTCreate, Runs, At
    <2>3. NewOnesStay
        BY <1>1, <2>1, NothingStored
    <2> QED BY <1>5, <1>6, <2>1, <2>2, <2>3
<1>9. CASE FileAdd(r) \/ AttachmentRemove(r)
    <2>1. /\ script[r] # << >> /\ UNCHANGED rut_requests
          /\ \/ /\ Head(script[r]).op = "FileAdd"
                /\ \E k \in Files :
                      ContinueWith(r, << Do("AttachmentAdd", k) >> \o Tail(script[r]))
             \/ /\ Head(script[r]).op = "AttachmentRemove"
                /\ ContinueWith(r, << Do("FileRemove", Arg(r)) >> \o Tail(script[r]))
        BY <1>9, Parts DEF FileAdd, AttachmentRemove, Runs, At, FreshIds, TypeOK, TablesOK
    <2>2. ~RUTList(r) /\ ~RUTCreate(r)
        BY <2>1 DEF RUTList, RUTCreate, Runs, At
    <2>3. NewOnesStay
        BY <1>1, <2>1, NothingStored
    <2>4. \A q : ContinueWith(r, q) => script'[r] = q
        BY Parts DEF ContinueWith, TypeOK, ServingOK
    <2>5. CASE Head(script[r]).op = "FileAdd"
        <3>1. PICK k \in Files : script'[r] = << Do("AttachmentAdd", k) >> \o Tail(script[r])
            BY <2>1, <2>4, <2>5
        <3> QED BY <1>5, <2>2, <2>3, <3>1, DoType
    <2>6. CASE Head(script[r]).op = "AttachmentRemove"
        <3>1. script'[r] = << Do("FileRemove", Arg(r)) >> \o Tail(script[r])
            BY <2>1, <2>4, <2>6
        <3>2. Arg(r) \in Files
            BY <2>1, <2>6, Parts, Served, StatementArgument DEF Arg
        <3> QED BY <1>5, <2>2, <2>3, <3>1, <3>2, DoType
    <2> QED BY <2>1, <2>5, <2>6
<1> QED BY <1>2, <1>3, <1>7, <1>8, <1>9 DEF Side

LEMMA EndIsBacked ==
    ASSUME Invariant, PaymentsBacked, NEW r \in Requests, NEW commit \in BOOLEAN,
           script[r] = << >>, EndTransaction(r, commit)
    PROVE  PaymentsBacked'
<1>1. /\ invoice' = Ended(invoice, r, commit) /\ rut_requests' = Ended(rut_requests, r, commit)
      /\ script' = script
      /\ \A s \in Requests \ {r} : form'[s] = form[s] /\ id'[s] = id[s] /\ inv'[s] = inv[s]
    BY Parts DEF EndTransaction, TypeOK, ServingOK, HandOK
<1>2. SparesInvoices(r)
    BY <1>1, Parts, WritesSpare
<1>3. NewOnesStay /\ \A k \in RutIds : rut_requests'[k].by # r
    BY <1>1, Parts, RequestEnded DEF Invariant, AskInvariant
<1>4. \A k \in RutIds : IsNew(k)' => rut_requests[k].by # r
    BY <1>3 DEF NewOnesStay, IsNew
<1>5. PaidFor(r)'
    BY <1>1 DEF PaidFor, AsksAt
<1> QED BY <1>1, <1>2, <1>3, <1>4, <1>5, NothingNewIsBacked

LEMMA BeginIsBacked ==
    ASSUME Invariant, PaymentsBacked, NEW r \in Requests, NEW f \in Forms, Begin(r, f)
    PROVE  PaymentsBacked'
<1>1. /\ UNCHANGED << invoice, rut_requests, inv >> /\ script'[r] = Opening(f)
      /\ \A s \in Requests \ {r} : /\ form'[s] = form[s] /\ script'[s] = script[s]
                                   /\ id'[s] = id[s]
    BY Parts DEF Begin, tables, TypeOK, ServingOK, HandOK
<1>2. \A k \in RutIds : IsNew(k) => rut_requests[k].by # r
    BY DEF Begin, PaymentsBacked, BackedWhenNew
<1>3. PaidFor(r)'
    BY <1>1, FakturaAssumption, OpeningIsQuiet, QuietPays
<1>4. \A k \in RutIds : IsNew(k)' => IsNew(k)
    BY <1>1 DEF IsNew
<1> QED BY <1>1, <1>2, <1>3, <1>4, NothingStored, NothingNewIsBacked

LEMMA FailIsBacked ==
    ASSUME Invariant, PaymentsBacked, NEW r \in Requests, script[r] # << >>, Fail(r)
    PROVE  PaymentsBacked'
<1>1. /\ UNCHANGED << invoice, rut_requests, form, id, inv >> /\ script'[r] = << >>
      /\ \A s \in Requests \ {r} : script'[s] = script[s]
    BY Parts DEF Fail, tables, hand, TypeOK, ServingOK
<1>2. PaidFor(r)' /\ AsksOnly(r)'
    BY <1>1 DEF PaidFor, AsksOnly, AsksAt
<1>3. Active(r)'
    BY <1>1, Parts DEF IdleHasNoScript, Active
<1> QED BY <1>1, <1>2, <1>3, NothingStored, NothingNewIsBacked

LEMMA PaymentsNext ==
    Invariant /\ OwnBooks /\ PaymentsBacked /\ [Next]_vars => PaymentsBacked'
<1> SUFFICES ASSUME Invariant, OwnBooks, PaymentsBacked, [Next]_vars PROVE PaymentsBacked'
    OBVIOUS
<1>1. CASE UNCHANGED vars
    BY <1>1 DEF vars, tables, hand, PaymentsBacked, BackedWhenNew, IsNew, Active, AsksOnly,
        PaidFor, AsksAt, At
<1>2. ASSUME NEW r \in Requests, StepOf(r) PROVE PaymentsBacked'
    BY <1>2, BeginIsBacked, EndIsBacked, FailIsBacked, StatementCases, ReadIsBacked,
       SaveIsBacked, SideIsBacked DEF StepOf
<1> QED BY <1>1, <1>2, StepCases

LEMMA PaymentsHold == Spec => []PaymentsBacked
<1>1. Init => PaymentsBacked
    BY DEF Init, EmptyTable, Settled, PaymentsBacked, BackedWhenNew, IsNew, PaidFor, AsksAt
<1> QED BY <1>1, PaymentsNext, InvariantHolds, OwnBooksHold, PTL DEF Spec

(* However many flags of payments, and revocations, overlap: a request to  *)
(* the tax agency becomes visible in a commit that shows its invoice paid, *)
(* on a known date and applicable (views/invoice/flag.go:72-75, 96-101).   *)
THEOREM RequestsComeWithPayment == Spec => RequestedWhenPaid
<1> DEFINE Comes == \A k \in RutIds :
                       ~Live(RequestIn(k)) /\ Live(RequestIn(k)') => BackedByPayment(k)'
<1>1. Invariant /\ PaymentsBacked /\ [Next]_vars => [Comes]_vars
    <2> SUFFICES ASSUME Invariant, PaymentsBacked, [Next]_vars, NEW k \in RutIds,
                        ~Live(RequestIn(k)), Live(RequestIn(k)')
                 PROVE  BackedByPayment(k)'
        OBVIOUS
    <2>1. Store' # Store
        <3>1. DOMAIN rut_requests = RutIds /\ DOMAIN rut_requests' = RutIds
            BY NextHolds, Parts DEF Invariant, TypeOK, TablesOK
        <3>2. Committed(rut_requests')[k] # Committed(rut_requests)[k]
            BY <3>1 DEF Committed, RequestIn
        <3> QED BY <3>2 DEF Store
    <2>2. PICK r \in Requests : EndTransaction(r, TRUE)
        BY <2>1, Parts, OnlyCommitsShow
    <2>3. /\ rut_requests[k].by = r /\ IsNew(k)
          /\ rut_requests'[k].val = rut_requests[k].new
        BY <2>2, Parts, EntitiesAssumption
           DEF EndTransaction, Ended, Settled, RequestIn, IsNew, TypeOK, TablesOK
    <2>4. PICK i \in Invoices : rut_requests[k].new.invoice = i /\ invoice[i].by = r
        BY <2>3, Parts, NewNamesInvoice
           DEF Invariant, AskInvariant, IsNew, NewRequestsUnderLock
    <2>5. invoice'[i].val = invoice[i].new
        BY <2>2, <2>4, Parts DEF EndTransaction, Ended, Settled, TypeOK, TablesOK
    <2>6. Backed(invoice[i].new)
        BY <2>3, <2>4 DEF PaymentsBacked, BackedWhenNew
    <2> QED BY <2>3, <2>4, <2>5, <2>6 DEF BackedByPayment, InvoiceIn, RequestIn, Backed
<1> QED BY <1>1, InvariantHolds, PaymentsHold, PTL DEF Spec, RequestedWhenPaid

-----------------------------------------------------------------------------
(* No type is forgotten. *)

(* What the questions of a script are about. *)
Questions(q) == {n \in DOMAIN q : q[n].op \in {"RUTList", "RUTCreate"}}
WantedBy(q)  == {q[n].on : n \in Questions(q)}

(* Request r flags an invoice as paid, or no longer as paid. *)
Pays(r) == Active(r) /\ form[r].op = "flag" /\ form[r].flag = "paid"

Reading == {InvoiceGet, << Do("InvoiceRows", NULL) >>}

SavesAndAsks(q) == \A n \in DOMAIN q : q[n].op \in {"InvoiceSave", "RUTList", "RUTCreate"}

(* Until it fails: each type is there already, or will be asked for. *)
Remembers(r) ==
    status[r] = StatusOK =>
        \A type \in RequestTypes(form[r], inv[r], rows[r]) :
            RequestExists(r, type) \/ type \in WantedBy(script[r])

(* It reads the invoice, and has then nothing to do but save and ask.      *)
UnderWay(r) ==
    /\ id[r] \in Invoices
    /\ \/ script[r] \in Reading
       \/ SavesAndAsks(script[r]) /\ Remembers(r)

TypesRemembered == \A r \in Requests : Pays(r) => UnderWay(r)

(* What a request sees of the requests to the agency, it goes on seeing. *)
SeenStays(r) ==
    \A k \in RutIds :
        LET x == Sees(rut_requests, r)[k]
            y == Sees(rut_requests', r)[k]
        IN  Live(x) => Live(y) /\ y.invoice = x.invoice /\ y.type = x.type

LEMMA ExistsStill ==
    ASSUME NEW r \in Requests, NEW type, SeenStays(r), id'[r] = id[r], RequestExists(r, type)
    PROVE  RequestExists(r, type)'
BY DEF RequestExists, SeenStays

LEMMA EndShows ==
    ASSUME TypeOK, KeysFixed, NEW r \in Requests, NEW commit \in BOOLEAN,
           rut_requests' = Ended(rut_requests, r, commit), NEW s \in Requests \ {r}
    PROVE  SeenStays(s)
<1> SUFFICES ASSUME NEW k \in RutIds, Live(Sees(rut_requests, s)[k])
             PROVE  LET x == Sees(rut_requests, s)[k]
                        y == Sees(rut_requests', s)[k]
                    IN  Live(y) /\ y.invoice = x.invoice /\ y.type = x.type
    BY DEF SeenStays
<1> DEFINE row == rut_requests[k]
<1>1. DOMAIN rut_requests = RutIds /\ r # NULL /\ s # NULL
    BY EntitiesAssumption DEF TypeOK, TablesOK
<1>2. DOMAIN rut_requests' = RutIds
    BY <1>1 DEF Ended
<1>3. Sees(rut_requests, s)[k] = IF row.by = s THEN row.new ELSE row.val
    BY <1>1 DEF Sees
<1>4. Sees(rut_requests', s)[k] = IF rut_requests'[k].by = s THEN rut_requests'[k].new
                                  ELSE rut_requests'[k].val
    BY <1>2 DEF Sees
<1>5. IF row.by # r THEN rut_requests'[k] = row
      ELSE /\ rut_requests'[k].by = NULL
           /\ rut_requests'[k].val = IF commit THEN row.new ELSE row.val
    BY <1>1 DEF Ended, Settled
<1>6. CASE row.by # r
    BY <1>3, <1>4, <1>5, <1>6
<1>7. CASE row.by = r
    <2>1. /\ Sees(rut_requests, s)[k] = row.val
          /\ Sees(rut_requests', s)[k] = IF commit THEN row.new ELSE row.val
        BY <1>1, <1>3, <1>4, <1>5, <1>7
    <2>2. /\ Live(row.val) /\ Live(row.new)
          /\ row.new.invoice = row.val.invoice /\ row.new.type = row.val.type
        BY <1>1, <1>7, <2>1 DEF KeysFixed, Key
    <2> QED BY <2>1, <2>2
<1> QED BY <1>6, <1>7

LEMMA SaveShows ==
    ASSUME TypeOK, KeysFixed, NEW r \in Requests, SavesRequest(r), NEW s \in Requests
    PROVE  SeenStays(s)
<1>1. CASE UNCHANGED rut_requests
    BY <1>1 DEF SeenStays
<1>2. ASSUME NEW k \in RutIds, NEW x \in RutRecord,
             rut_requests[k].by \in {NULL, r},
             Live(Sees(rut_requests, r)[k]),
             x.invoice = Sees(rut_requests, r)[k].invoice,
             x.type = Sees(rut_requests, r)[k].type,
             rut_requests' = Put(rut_requests, r, k, x), NEW l \in RutIds,
             Live(Sees(rut_requests, s)[l])
      PROVE  LET y == Sees(rut_requests, s)[l]
                 z == Sees(rut_requests', s)[l]
             IN  Live(z) /\ z.invoice = y.invoice /\ z.type = y.type
    <2>1. Live(x) /\ r # NULL /\ s # NULL
        BY EntitiesAssumption DEF Live
    <2>2. DOMAIN rut_requests = RutIds /\ DOMAIN rut_requests' = RutIds
        BY <1>2 DEF TypeOK, TablesOK, Put
    <2>3. IF l = k
          THEN rut_requests'[l] = [val |-> rut_requests[k].val, by |-> r, new |-> x]
          ELSE rut_requests'[l] = rut_requests[l]
        BY <1>2, <2>2 DEF Put
    <2>4. /\ Sees(rut_requests, s)[l] = IF rut_requests[l].by = s THEN rut_requests[l].new
                                        ELSE rut_requests[l].val
          /\ Sees(rut_requests', s)[l] = IF rut_requests'[l].by = s THEN rut_requests'[l].new
                                         ELSE rut_requests'[l].val
        BY <2>2 DEF Sees
    <2>5. CASE l # k
        BY <1>2, <2>3, <2>4, <2>5
    <2>6. CASE l = k /\ s = r
        BY <1>2, <2>1, <2>3, <2>4, <2>6
    <2>7. CASE l = k /\ s # r
        BY <1>2, <2>1, <2>3, <2>4, <2>7
    <2> QED BY <2>5, <2>6, <2>7
<1> QED BY <1>1, <1>2 DEF SavesRequest, SeenStays

LEMMA CreateShows ==
    ASSUME Invariant, NEW r \in Requests, id[r] \in Invoices, RUTCreate(r), ~Fail(r)
    PROVE  /\ \A s \in Requests : SeenStays(s)
           /\ \E k \in RutIds : LET y == Sees(rut_requests', r)[k] IN
                 Live(y) /\ y.invoice = id[r] /\ y.type = Arg(r)
<1> DEFINE x == [invoice |-> id[r], type |-> Arg(r), status |-> RUTPending,
                 date_sent |-> FALSE, date_paid |-> FALSE,
                 requested |-> NULL, received |-> NULL]
<1>1. PICK k \in FreshIds(rut_requests) : WriteRequest(r, k, x)
    BY DEF RUTCreate
<1>2. rut_requests' = Put(rut_requests, r, k, x)
    BY <1>1 DEF WriteRequest
<1>3. script[r] # << >> /\ Head(script[r]).op = "RUTCreate"
    BY DEF RUTCreate, Runs, At
<1>4. x \in RutRecord
    <2>1. Arg(r) \in Types
        BY <1>3, Parts, Served, StatementArgument DEF Arg
    <2> QED BY <2>1, StatusTypes DEF RutRecord
<1>5. Live(x) /\ x.invoice = id[r] /\ x.type = Arg(r)
    BY <1>4, EntitiesAssumption DEF Live
<1> HIDE DEF x
<1>6. /\ DOMAIN rut_requests = RutIds /\ DOMAIN rut_requests' = RutIds
      /\ k \in RutIds /\ rut_requests[k] = Settled(Absent)
    BY <1>2, Parts DEF TypeOK, TablesOK, Put, FreshIds
<1>7. \A l \in RutIds : IF l = k THEN rut_requests'[l] = [val |-> Absent, by |-> r, new |-> x]
                        ELSE rut_requests'[l] = rut_requests[l]
    BY <1>2, <1>6 DEF Put, Settled
<1>8. Sees(rut_requests', r)[k] = x
    BY <1>6, <1>7 DEF Sees
<1>9. ASSUME NEW s \in Requests PROVE SeenStays(s)
    <2>1. \A l \in RutIds :
             /\ Sees(rut_requests, s)[l] = IF rut_requests[l].by = s THEN rut_requests[l].new
                                           ELSE rut_requests[l].val
             /\ Sees(rut_requests', s)[l] = IF rut_requests'[l].by = s
                                            THEN rut_requests'[l].new
                                            ELSE rut_requests'[l].val
        BY <1>6 DEF Sees
    <2>2. ~Live(Sees(rut_requests, s)[k])
        BY <1>6, <2>1 DEF Live, Settled
    <2> QED BY <1>7, <2>1, <2>2 DEF SeenStays
<1> QED BY <1>5, <1>6, <1>8, <1>9

-----------------------------------------------------------------------------
(* Scripts that ask. *)

LEMMA WantedNext ==
    ASSUME NEW q \in Seq(Statement), q # << >>
    PROVE  \A type \in WantedBy(q) :
              \/ type = Head(q).on /\ Head(q).op \in {"RUTList", "RUTCreate"}
              \/ type \in WantedBy(Tail(q))
<1> SUFFICES ASSUME NEW n \in Questions(q), n # 1 PROVE q[n].on \in WantedBy(Tail(q))
    <2>1. q[1] = Head(q)
        OBVIOUS
    <2> QED BY <2>1 DEF WantedBy, Questions
<1>1. /\ DOMAIN q = 1..Len(q) /\ Len(q) \in Nat /\ DOMAIN Tail(q) = 1..(Len(q) - 1)
      /\ \A m \in 1..(Len(q) - 1) : Tail(q)[m] = q[m + 1]
    OBVIOUS
<1>2. n - 1 \in DOMAIN Tail(q) /\ Tail(q)[n - 1] = q[n]
    <2>1. n - 1 \in 1..(Len(q) - 1) /\ (n - 1) + 1 = n
        BY <1>1 DEF Questions
    <2> QED BY <1>1, <2>1
<1> QED BY <1>2 DEF WantedBy, Questions

LEMMA WantedFirst ==
    ASSUME NEW q \in Seq(Statement), NEW d \in Statement, d.op \in {"RUTList", "RUTCreate"}
    PROVE  d.on \in WantedBy(<< d >> \o q) /\ WantedBy(q) \subseteq WantedBy(<< d >> \o q)
<1> DEFINE p == << d >> \o q
<1>1. /\ p \in Seq(Statement) /\ DOMAIN p = 1..(Len(q) + 1) /\ Len(q) \in Nat
      /\ DOMAIN q = 1..Len(q) /\ p[1] = d
      /\ \A n \in 1..Len(q) : p[n + 1] = q[n]
    OBVIOUS
<1> HIDE DEF p
<1>2. 1 \in Questions(p)
    BY <1>1 DEF Questions
<1>3. \A n \in Questions(q) : n + 1 \in Questions(p) /\ p[n + 1] = q[n]
    BY <1>1 DEF Questions
<1>4. d.on \in WantedBy(p) /\ WantedBy(q) \subseteq WantedBy(p)
    BY <1>1, <1>2, <1>3 DEF WantedBy
<1> QED BY <1>4 DEF p

LEMMA TailSavesAndAsks ==
    ASSUME NEW q \in Seq(Statement), q # << >>, SavesAndAsks(q)
    PROVE  /\ SavesAndAsks(Tail(q))
           /\ \A d : d.op = "RUTCreate" => SavesAndAsks(<< d >> \o Tail(q))
<1> DEFINE t == Tail(q)
<1>1. t \in Seq(Statement) /\ \A n \in DOMAIN t : n + 1 \in DOMAIN q /\ t[n] = q[n + 1]
    OBVIOUS
<1> HIDE DEF t
<1>2. SavesAndAsks(t)
    BY <1>1 DEF SavesAndAsks
<1>3. ASSUME NEW d, d.op = "RUTCreate" PROVE SavesAndAsks(<< d >> \o t)
    <2> DEFINE p == << d >> \o t
    <2>1. \A n \in DOMAIN p : \/ p[n] = d
                              \/ n - 1 \in DOMAIN t /\ p[n] = t[n - 1]
        <3>1. /\ DOMAIN p = 1..(Len(t) + 1) /\ p[1] = d /\ Len(t) \in Nat
              /\ DOMAIN t = 1..Len(t)
              /\ \A n \in 1..Len(t) : p[n + 1] = t[n]
            BY <1>1
        <3> HIDE DEF p
        <3> SUFFICES ASSUME NEW n \in DOMAIN p, n # 1
                     PROVE  n - 1 \in DOMAIN t /\ p[n] = t[n - 1]
            BY <3>1
        <3>2. n - 1 \in 1..Len(t) /\ (n - 1) + 1 = n
            BY <3>1
        <3> QED BY <3>1, <3>2
    <2> HIDE DEF p
    <2>2. SavesAndAsks(p)
        BY <1>2, <1>3, <2>1 DEF SavesAndAsks
    <2> QED BY <2>2 DEF p
<1> QED BY <1>2, <1>3 DEF t

(* The script of a payment saves the invoice and asks for every type.      *)
LEMMA PaymentAsks ==
    ASSUME NEW f \in FlagForm, f.flag = "paid", NEW x, NEW rws \in LocalRows,
           NEW q \in FlagScripts(f, x, rws)
    PROVE  SavesAndAsks(q) /\ RequestTypes(f, x, rws) \subseteq WantedBy(q)
<1> DEFINE T == RequestTypes(f, x, rws)
<1>1. PICK types \in SetToSeqs(T), copied \in SetToSeqs(Present(rws)) :
         q = InvoiceSaveStmt \o ForEach(types, "RUTList")
             \o If(Converts(f), Conversion(f, rws, copied))
    BY DEF FlagScripts
<1>2. ~Converts(f)
    BY DEF Converts
<1> DEFINE L == ForEach(types, "RUTList")
<1>3. T \subseteq Types /\ IsFiniteSet(T)
    BY TypesFinite, FS_Subset DEF RequestTypes, ServiceTypes
<1> HIDE DEF T
<1>4. types \in Seq(T)
    BY <1>3, OrdersType
<1>5. /\ Len(types) \in Nat /\ Len(types) = Cardinality(T) /\ Cardinality(T) \in Nat
      /\ types \in Injection(1..Cardinality(T), T)
    <2>1. Cardinality(T) \in Nat
        BY <1>3, FS_CardinalityType
    <2>2. /\ types \in [1..Cardinality(T) -> T]
          /\ \A i, j \in 1..Cardinality(T) : i # j => types[i] # types[j]
        BY DEF SetToSeqs
    <2>3. Len(types) = Cardinality(T)
        BY <1>4, <2>1, <2>2
    <2> QED BY <2>1, <2>2, <2>3 DEF Injection, IsInjective
<1>6. types \in Surjection(1..Cardinality(T), T)
    <2>1. /\ IsFiniteSet(1..Cardinality(T))
          /\ Cardinality(1..Cardinality(T)) = Cardinality(T)
        BY <1>5, FS_Interval
    <2> QED BY <1>3, <1>5, <2>1, FS_Injection
<1>7. \A type \in T : \E n \in 1..Len(types) : types[n] = type
    BY <1>5, <1>6 DEF Surjection
<1>8. /\ DOMAIN L = 1..Len(types) /\ L \in Seq(Statement)
      /\ \A n \in 1..Len(types) : L[n].op = "RUTList" /\ L[n].on = types[n]
    <2>1. L \in Seq(Statement)
        BY RUTListsType, HandledIsPlain DEF T
    <2> QED BY <1>5, <2>1 DEF ForEach, Do
<1>9. q = InvoiceSaveStmt \o L
    <2>1. InvoiceSaveStmt \in Seq(Statement)
        BY DoType DEF InvoiceSaveStmt
    <2> HIDE DEF L
    <2>2. (InvoiceSaveStmt \o L) \o << >> = InvoiceSaveStmt \o L
        BY <1>8, <2>1
    <2> QED BY <1>1, <1>2, <2>2 DEF L, If
<1> HIDE DEF L
<1>10. /\ DOMAIN q = 1..(Len(types) + 1) /\ q[1].op = "InvoiceSave"
       /\ \A n \in 1..Len(types) : q[n + 1] = L[n]
    BY <1>5, <1>8, <1>9 DEF InvoiceSaveStmt, Do
<1>11. SavesAndAsks(q)
    <2> SUFFICES ASSUME NEW n \in DOMAIN q, n # 1 PROVE q[n].op = "RUTList"
        BY <1>10 DEF SavesAndAsks
    <2>1. n - 1 \in 1..Len(types) /\ (n - 1) + 1 = n
        BY <1>5, <1>10
    <2> QED BY <1>8, <1>10, <2>1
<1>12. \A n \in 1..Len(types) : n + 1 \in Questions(q) /\ q[n + 1].on = types[n]
    BY <1>5, <1>8, <1>10 DEF Questions
<1>13. T \subseteq WantedBy(q)
    BY <1>7, <1>12 DEF WantedBy
<1> QED BY <1>11, <1>13 DEF T

-----------------------------------------------------------------------------
(* Each step leaves the types remembered. *)

LEMMA PaysStill ==
    ASSUME NEW s \in Requests, TypesRemembered, SeenStays(s),
           form'[s] = form[s], script'[s] = script[s], status'[s] = status[s],
           id'[s] = id[s], inv'[s] = inv[s], rows'[s] = rows[s], Pays(s)'
    PROVE  UnderWay(s)'
<1>1. Pays(s)
    BY DEF Pays, Active
<1>2. CASE script[s] \in Reading
    BY <1>1, <1>2 DEF TypesRemembered, UnderWay
<1>3. CASE SavesAndAsks(script[s]) /\ Remembers(s)
    <2>1. Remembers(s)'
        BY <1>3, ExistsStill DEF Remembers
    <2> QED BY <1>1, <1>3, <2>1 DEF TypesRemembered, UnderWay
<1> QED BY <1>1, <1>2, <1>3 DEF TypesRemembered, UnderWay

(* What a step of r does to the others. *)
Outside(r) ==
    \A s \in Requests \ {r} :
        /\ form'[s] = form[s] /\ script'[s] = script[s] /\ status'[s] = status[s]
        /\ id'[s] = id[s] /\ inv'[s] = inv[s] /\ rows'[s] = rows[s] /\ SeenStays(s)

LEMMA OneRemembers ==
    ASSUME TypesRemembered, NEW r \in Requests, Outside(r),
           Pays(r)' => UnderWay(r)'
    PROVE  TypesRemembered'
<1> SUFFICES ASSUME NEW s \in Requests, Pays(s)'
             PROVE  UnderWay(s)'
    BY DEF TypesRemembered
<1>1. CASE s = r
    BY <1>1
<1>2. CASE s # r
    BY <1>2, PaysStill DEF Outside
<1> QED BY <1>1, <1>2

LEMMA BeginRemembers ==
    ASSUME Invariant, TypesRemembered, NEW r \in Requests, NEW f \in Forms, Begin(r, f)
    PROVE  TypesRemembered'
<1>1. /\ UNCHANGED << rut_requests, status, inv, rows >>
      /\ form'[r] = f /\ script'[r] = Opening(f)
      /\ id'[r] = IF IsRut(f) THEN NULL ELSE f.invoice
      /\ \A s \in Requests \ {r} : /\ form'[s] = form[s] /\ script'[s] = script[s]
                                   /\ id'[s] = id[s]
    BY Parts DEF Begin, tables, TypeOK, ServingOK, HandOK
<1>2. Outside(r)
    BY <1>1 DEF Outside, SeenStays
<1>3. ASSUME f.op = "flag" PROVE id'[r] \in Invoices /\ script'[r] = InvoiceGet
    <2>1. f \in FlagForm /\ f.invoice \in Invoices /\ ~IsRut(f)
        BY <1>3, FakturaAssumption, FormType DEF FlagForm, IsRut
    <2>2. f.invoice # NULL
        BY <2>1, EntitiesAssumption
    <2> QED BY <1>1, <2>1, <2>2 DEF Opening
<1> QED BY <1>1, <1>2, <1>3, OneRemembers DEF Pays, UnderWay, Reading

LEMMA EndRemembers ==
    ASSUME Invariant, TypesRemembered, NEW r \in Requests, NEW commit \in BOOLEAN,
           EndTransaction(r, commit)
    PROVE  TypesRemembered'
<1>1. /\ rut_requests' = Ended(rut_requests, r, commit) /\ script' = script
      /\ form'[r] = NULL
      /\ \A s \in Requests \ {r} : /\ form'[s] = form[s] /\ status'[s] = status[s]
                                   /\ id'[s] = id[s] /\ inv'[s] = inv[s]
                                   /\ rows'[s] = rows[s]
    BY Parts DEF EndTransaction, TypeOK, ServingOK, HandOK
<1>2. Outside(r)
    BY <1>1, Parts, EndShows DEF Outside, Invariant, AskInvariant
<1> QED BY <1>1, <1>2, OneRemembers DEF Pays, Active

LEMMA FailRemembers ==
    ASSUME Invariant, TypesRemembered, NEW r \in Requests, Fail(r)
    PROVE  TypesRemembered'
<1>1. /\ UNCHANGED << rut_requests, form, id, inv, rows >>
      /\ script'[r] = << >> /\ status'[r] = StatusInternalServerError
      /\ \A s \in Requests \ {r} : script'[s] = script[s] /\ status'[s] = status[s]
    BY Parts DEF Fail, tables, hand, TypeOK, ServingOK
<1>2. Outside(r)
    BY <1>1 DEF Outside, SeenStays
<1>3. SavesAndAsks(script'[r]) /\ Remembers(r)'
    BY <1>1 DEF SavesAndAsks, Remembers, StatusOK, StatusInternalServerError
<1>4. Pays(r)' => id'[r] \in Invoices
    BY <1>1 DEF TypesRemembered, UnderWay, Pays, Active
<1> QED BY <1>2, <1>3, <1>4, OneRemembers DEF UnderWay

(* The statements that a payment never comes to. *)
LEMMA OthersRemember ==
    ASSUME TypesRemembered, NEW r \in Requests, Outside(r), form' = form, script[r] # << >>,
           script[r] \in Seq(Statement),
           Head(script[r]).op \notin
               {"InvoiceList", "InvoiceRows", "InvoiceSave", "RUTList", "RUTCreate"}
    PROVE  TypesRemembered'
<1>1. 1 \in DOMAIN script[r] /\ script[r][1] = Head(script[r])
    OBVIOUS
<1>2. script[r] \notin Reading
    BY <1>1 DEF Reading, InvoiceGet, Do
<1>3. ~SavesAndAsks(script[r])
    BY <1>1 DEF SavesAndAsks
<1>4. ~Pays(r)
    BY <1>2, <1>3 DEF TypesRemembered, UnderWay
<1>5. ~Pays(r)'
    BY <1>4 DEF Pays, Active
<1> QED BY <1>5, OneRemembers

(* What a statement of r does to the others. *)
LEMMA StatementOutside ==
    ASSUME Invariant, NEW r \in Requests, ~Fail(r), Step(r), ~CommitOrRollback(r),
           \A s \in Requests : SeenStays(s)
    PROVE  Outside(r) /\ form' = form /\ status' = status
<1>1. Alone(r)
    BY StatementCases, Parts, ListFrame, SaveFrame, SideFrame
<1>2. \A s \in Requests \ {r} : rows'[s] = rows[s]
    BY Parts DEF Step, InvoiceList, InvoiceRows, GetNextInvoiceNumber, InvoiceUpdate,
        InvoiceInsert, InvoiceRowAdd, InvoiceRowRemove, InvoiceRowUpdate, CustomerList,
        CustomerUpdate, CustomerInsert, FileAdd, AttachmentAdd, AttachmentRemove,
        FileRemove, RUTGet, RUTList, RUTCreate, RUTSave, WriteRow, WriteRequest,
        MatchesNothing, hand, TypeOK, HandOK
<1> QED BY <1>1, <1>2 DEF Alone, Outside

LEMMA ListRemembers ==
    ASSUME Invariant, TypesRemembered, NEW r \in Requests, InvoiceList(r), ~Fail(r),
           Outside(r), form' = form
    PROVE  TypesRemembered'
<1>1. /\ script[r] # << >> /\ Head(script[r]).op = "InvoiceList"
      /\ Continue(r) /\ UNCHANGED id
    BY DEF InvoiceList, Runs, At
<1>2. script'[r] = Tail(script[r])
    BY <1>1, Parts DEF Continue, TypeOK, ServingOK
<1>3. ASSUME Pays(r) PROVE UnderWay(r)'
    <2>1. 1 \in DOMAIN script[r] /\ script[r][1] = Head(script[r])
        BY <1>1, Parts, ScriptParts
    <2>2. id[r] \in Invoices /\ script[r] \in Reading
        BY <1>1, <1>3, <2>1 DEF TypesRemembered, UnderWay, SavesAndAsks
    <2>3. script[r] = InvoiceGet
        BY <1>1, <2>2 DEF Reading, Do
    <2>4. script'[r] = << Do("InvoiceRows", NULL) >>
        BY <1>2, <2>3 DEF InvoiceGet
    <2> QED BY <1>1, <2>2, <2>4 DEF UnderWay, Reading
<1> QED BY <1>3, OneRemembers DEF Pays, Active

LEMMA RowsRemember ==
    ASSUME Invariant, TypesRemembered, NEW r \in Requests, InvoiceRows(r), ~Fail(r),
           Outside(r), form' = form
    PROVE  TypesRemembered'
<1>1. script[r] # << >> /\ UNCHANGED id
    BY InHandAfterRows DEF InvoiceRows, Runs, At
<1>2. ASSUME Pays(r) PROVE UnderWay(r)'
    <2> DEFINE f == form[r]
               x == inv[r]
               read == RowsOf(r)
    <2>1. f.op = "flag" /\ f.flag = "paid" /\ form'[r] = f
        BY <1>2 DEF Pays
    <2>2. f \in FlagForm /\ read \in LocalRows /\ x \in LocalInvoice
        BY <1>2, <2>1, Parts, InHandAfterRows, FormType, RowsOfType
    <2>3. /\ inv' = [inv EXCEPT ![r] = Flagged(f, @)]
          /\ rows' = [rows EXCEPT ![r] = read]
          /\ \E q \in FlagScripts(f, x, read) : ContinueWith(r, q)
        BY <2>1 DEF InvoiceRows
    <2>4. inv'[r] = Flagged(f, x) /\ rows'[r] = read
        BY <2>3, Parts DEF TypeOK, HandOK
    <2>5. PICK q \in FlagScripts(f, x, read) : script'[r] = q
        BY <2>3, Parts DEF ContinueWith, TypeOK, ServingOK
    <2>6. SavesAndAsks(q) /\ RequestTypes(f, x, read) \subseteq WantedBy(q)
        BY <2>1, <2>2, PaymentAsks
    <2>7. Flagged(f, x).rut_applicable = x.rut_applicable
        BY <2>2 DEF Flagged, LocalInvoice
    <2>8. RequestTypes(f, Flagged(f, x), read) = RequestTypes(f, x, read)
        BY <2>7 DEF RequestTypes
    <2>9. Remembers(r)'
        <3> HIDE DEF f, x, read
        <3>1. RequestTypes(form'[r], inv'[r], rows'[r]) \subseteq WantedBy(script'[r])
            BY <2>1, <2>4, <2>5, <2>6, <2>8
        <3> QED BY <3>1 DEF Remembers
    <2>10. id[r] \in Invoices
        BY <1>2 DEF TypesRemembered, UnderWay
    <2> QED BY <1>1, <2>5, <2>6, <2>9, <2>10 DEF UnderWay
<1> QED BY <1>2, OneRemembers DEF Pays, Active

(* A statement of a payment after the invoice was read. *)
LEMMA AskingRemembers ==
    ASSUME Invariant, TypesRemembered, NEW r \in Requests, Outside(r), form' = form,
           status' = status, script[r] # << >>,
           Head(script[r]).op \in {"InvoiceSave", "RUTList", "RUTCreate"},
           Pays(r) => /\ UNCHANGED << id, inv, rows >> /\ SeenStays(r)
                      /\ SavesAndAsks(script'[r])
                      /\ \A type \in WantedBy(script[r]) :
                            RequestExists(r, type)' \/ type \in WantedBy(script'[r])
    PROVE  TypesRemembered'
<1>1. ASSUME Pays(r) PROVE UnderWay(r)'
    <2>1. 1 \in DOMAIN script[r] /\ script[r][1] = Head(script[r])
        BY Parts, ScriptParts
    <2>2. script[r] \notin Reading
        BY <2>1 DEF Reading, InvoiceGet, Do
    <2>3. id[r] \in Invoices /\ Remembers(r)
        BY <1>1, <2>2 DEF TypesRemembered, UnderWay
    <2>4. RequestTypes(form[r], inv[r], rows[r])' = RequestTypes(form[r], inv[r], rows[r])
        BY <1>1
    <2>5. ASSUME status[r] = StatusOK, NEW type \in RequestTypes(form[r], inv[r], rows[r])
          PROVE  RequestExists(r, type)' \/ type \in WantedBy(script'[r])
        <3>1. RequestExists(r, type) \/ type \in WantedBy(script[r])
            BY <2>3, <2>5 DEF Remembers
        <3> QED BY <1>1, <3>1, ExistsStill
    <2>6. Remembers(r)'
        BY <2>4, <2>5 DEF Remembers
    <2> QED BY <1>1, <2>3, <2>6 DEF UnderWay
<1> QED BY <1>1, OneRemembers DEF Pays, Active

LEMMA SaveRemembers ==
    ASSUME Invariant, TypesRemembered, NEW r \in Requests, InvoiceUpdate(r) \/ InvoiceInsert(r),
           ~Fail(r), Outside(r), form' = form, status' = status, UNCHANGED rut_requests
    PROVE  TypesRemembered'
<1>1. script[r] # << >> /\ Head(script[r]).op = "InvoiceSave" /\ Continue(r)
    BY DEF InvoiceUpdate, InvoiceInsert, Runs, At
<1>2. script'[r] = Tail(script[r]) /\ script[r] \in Seq(Statement)
    BY <1>1, Parts DEF Continue, TypeOK, ServingOK
<1>3. ASSUME Pays(r)
      PROVE  /\ UNCHANGED << id, inv, rows >> /\ SeenStays(r)
             /\ SavesAndAsks(script'[r])
             /\ \A type \in WantedBy(script[r]) : type \in WantedBy(script'[r])
    <2>1. 1 \in DOMAIN script[r] /\ script[r][1] = Head(script[r])
        BY <1>1, Parts, ScriptParts
    <2>2. script[r] \notin Reading
        BY <1>1, <2>1 DEF Reading, InvoiceGet, Do
    <2>3. id[r] \in Invoices /\ SavesAndAsks(script[r])
        BY <1>3, <2>2 DEF TypesRemembered, UnderWay
    <2>4. id[r] # NULL
        BY <2>3, EntitiesAssumption
    <2>5. UNCHANGED << id, inv, rows >>
        BY <2>4 DEF InvoiceUpdate, InvoiceInsert, hand
    <2>6. SeenStays(r)
        BY DEF SeenStays
    <2> QED BY <1>1, <1>2, <2>3, <2>5, <2>6, TailSavesAndAsks, WantedNext
<1> QED BY <1>1, <1>3, AskingRemembers

LEMMA QuestionRemembers ==
    ASSUME Invariant, TypesRemembered, NEW r \in Requests, RUTList(r),
           Outside(r), form' = form, status' = status
    PROVE  TypesRemembered'
<1>1. /\ script[r] # << >> /\ Head(script[r]).op = "RUTList"
      /\ UNCHANGED << rut_requests, id, inv, rows >>
    BY DEF RUTList, Runs, At, tables, hand
<1> DEFINE t == Tail(script[r])
           d == Do("RUTCreate", Arg(r))
<1>2. /\ script[r] \in Seq(Statement) /\ t \in Seq(Statement)
      /\ \/ RequestExists(r, Arg(r)) /\ script'[r] = t
         \/ script'[r] = << d >> \o t
    BY <1>1, Parts, ScriptParts DEF RUTList, Continue, ContinueWith, TypeOK, ServingOK
<1>3. d \in Statement /\ d.op = "RUTCreate" /\ d.on = Arg(r) /\ Head(script[r]).on = Arg(r)
    BY <1>1, Parts, Served, StatementArgument, DoType DEF Arg, Do
<1>4. SeenStays(r)
    BY <1>1 DEF SeenStays
<1> HIDE DEF d
<1>5. ASSUME NEW type \in WantedBy(script[r])
      PROVE  RequestExists(r, type)' \/ type \in WantedBy(script'[r])
    <2>1. type = Arg(r) \/ type \in WantedBy(t)
        BY <1>1, <1>2, <1>3, <1>5, WantedNext
    <2>2. CASE script'[r] = << d >> \o t
        BY <1>2, <1>3, <2>1, <2>2, WantedFirst
    <2>3. CASE RequestExists(r, Arg(r)) /\ script'[r] = t
        BY <1>1, <1>4, <2>1, <2>3, ExistsStill
    <2> QED BY <1>2, <2>2, <2>3
<1>6. ASSUME Pays(r) PROVE SavesAndAsks(script'[r])
    <2>1. 1 \in DOMAIN script[r] /\ script[r][1] = Head(script[r])
        BY <1>1, Parts, ScriptParts
    <2>2. script[r] \notin Reading
        BY <1>1, <2>1 DEF Reading, InvoiceGet, Do
    <2>3. SavesAndAsks(script[r])
        BY <1>6, <2>2 DEF TypesRemembered, UnderWay
    <2> QED BY <1>1, <1>2, <1>3, <2>3, TailSavesAndAsks
<1> QED BY <1>1, <1>4, <1>5, <1>6, AskingRemembers

LEMMA CreateRemembers ==
    ASSUME Invariant, TypesRemembered, NEW r \in Requests, RUTCreate(r), ~Fail(r),
           id[r] \in Invoices,
           Outside(r), form' = form, status' = status
    PROVE  TypesRemembered'
<1>1. /\ script[r] # << >> /\ Head(script[r]).op = "RUTCreate"
      /\ Continue(r) /\ UNCHANGED << id, inv, rows >>
    BY DEF RUTCreate, Runs, At, WriteRequest, hand
<1>2. script'[r] = Tail(script[r]) /\ script[r] \in Seq(Statement)
    BY <1>1, Parts DEF Continue, TypeOK, ServingOK
<1>3. SeenStays(r) /\ \A type : type = Arg(r) => RequestExists(r, type)'
    BY <1>1, CreateShows DEF RequestExists
<1>4. ASSUME NEW type \in WantedBy(script[r])
      PROVE  RequestExists(r, type)' \/ type \in WantedBy(script'[r])
    BY <1>1, <1>2, <1>3, WantedNext DEF Arg
<1>5. ASSUME Pays(r) PROVE SavesAndAsks(script'[r])
    <2>1. 1 \in DOMAIN script[r] /\ script[r][1] = Head(script[r])
        BY <1>1, Parts, ScriptParts
    <2>2. script[r] \notin Reading
        BY <1>1, <2>1 DEF Reading, InvoiceGet, Do
    <2>3. SavesAndAsks(script[r])
        BY <1>5, <2>2 DEF TypesRemembered, UnderWay
    <2> QED BY <1>1, <1>2, <2>3, TailSavesAndAsks
<1> QED BY <1>1, <1>3, <1>4, <1>5, AskingRemembers

LEMMA CreatesForInvoice ==
    ASSUME Invariant, NEW r \in Requests, RUTCreate(r)
    PROVE  id[r] \in Invoices
<1>1. script[r] # << >> /\ Head(script[r]).op = "RUTCreate"
    BY DEF RUTCreate, Runs, At
<1>2. 1 \in AsksAt(r)
    BY <1>1, Parts, ScriptParts DEF AsksAt
<1> QED BY <1>1, <1>2, Parts DEF AsksUnderLock, Locks, Reached

LEMMA ShowsToAll ==
    ASSUME Invariant, NEW r \in Requests, ~Fail(r), Step(r), ~CommitOrRollback(r)
    PROVE  \A s \in Requests : SeenStays(s)
<1>1. CASE RUTCreate(r)
    <2>1. id[r] \in Invoices
        BY <1>1, CreatesForInvoice
    <2> QED BY <1>1, <2>1, CreateShows
<1>2. CASE RUTSave(r)
    BY <1>2, Parts, RUTSaveSaves, SaveShows DEF Invariant, AskInvariant
<1>3. CASE ~RUTCreate(r) /\ ~RUTSave(r)
    <2>1. UNCHANGED rut_requests
        BY <1>3 DEF Step, InvoiceList, InvoiceRows, GetNextInvoiceNumber, InvoiceUpdate,
            InvoiceInsert, InvoiceRowAdd, InvoiceRowRemove, InvoiceRowUpdate, CustomerList,
            CustomerUpdate, CustomerInsert, FileAdd, AttachmentAdd, AttachmentRemove,
            FileRemove, RUTGet, RUTList, WriteRow, MatchesNothing, tables
    <2> QED BY <2>1 DEF SeenStays
<1> QED BY <1>1, <1>2, <1>3

LEMMA StatementRemembers ==
    ASSUME Invariant, TypesRemembered, NEW r \in Requests, ~Fail(r), Step(r),
           ~CommitOrRollback(r)
    PROVE  TypesRemembered'
<1>1. Outside(r) /\ form' = form /\ status' = status
    BY ShowsToAll, StatementOutside
<1>2. CASE InvoiceList(r)
    BY <1>1, <1>2, ListRemembers
<1>3. CASE InvoiceRows(r)
    BY <1>1, <1>3, RowsRemember
<1>4. CASE InvoiceUpdate(r) \/ InvoiceInsert(r)
    <2>1. UNCHANGED rut_requests
        BY <1>4 DEF InvoiceUpdate, InvoiceInsert
    <2> QED BY <1>1, <1>4, <2>1, SaveRemembers
<1>5. CASE RUTList(r)
    BY <1>1, <1>5, QuestionRemembers
<1>6. CASE RUTCreate(r)
    BY <1>1, <1>6, CreatesForInvoice, CreateRemembers
<1>7. ASSUME ~InvoiceList(r), ~InvoiceRows(r), ~InvoiceUpdate(r), ~InvoiceInsert(r), ~RUTList(r),
             ~RUTCreate(r)
      PROVE  /\ script[r] # << >> /\ script[r] \in Seq(Statement)
             /\ Head(script[r]).op \notin
                   {"InvoiceList", "InvoiceRows", "InvoiceSave", "RUTList", "RUTCreate"}
    BY <1>7, Parts DEF Step, GetNextInvoiceNumber, InvoiceRowAdd, InvoiceRowRemove,
        InvoiceRowUpdate, CustomerList, CustomerUpdate, CustomerInsert, FileAdd, AttachmentAdd,
        AttachmentRemove, FileRemove, RUTGet, RUTSave, Runs, At, TypeOK, ServingOK
<1> QED BY <1>1, <1>2, <1>3, <1>4, <1>5, <1>6, <1>7, OthersRemember

LEMMA TypesNext == Invariant /\ TypesRemembered /\ [Next]_vars => TypesRemembered'
<1> SUFFICES ASSUME Invariant, TypesRemembered, [Next]_vars PROVE TypesRemembered'
    OBVIOUS
<1>1. CASE UNCHANGED vars
    BY <1>1 DEF vars, tables, hand, TypesRemembered, UnderWay, Pays, Active, Remembers,
        RequestExists
<1>2. ASSUME NEW r \in Requests, StepOf(r) PROVE TypesRemembered'
    BY <1>2, BeginRemembers, EndRemembers, FailRemembers, StatementRemembers DEF StepOf
<1> QED BY <1>1, <1>2, StepCases

(* However many payments of an invoice overlap, and whatever becomes of    *)
(* its rows meanwhile: the commit of a flag shows a request to the tax     *)
(* agency for each type of work among the rows that the handler has read   *)
(* (views/invoice/flag.go:147-182).                                        *)
THEOREM NoTypeIsForgotten == Spec => EveryTypeRequested
<1> DEFINE Shown == \A r \in Requests :
              /\ Active(r) /\ ~Active(r)' /\ Store' # Store
              /\ form[r].op = "flag"
              => \A type \in RequestTypes(form[r], inv[r], rows[r]) :
                    \E k \in RutIds : /\ Live(RequestIn(k)')
                                      /\ RequestIn(k)'.invoice = id[r]
                                      /\ RequestIn(k)'.type = type
<1>1. Init => TypesRemembered
    BY DEF Init, TypesRemembered, Pays, Active
<1>2. Invariant /\ TypesRemembered /\ [Next]_vars => [Shown]_vars
    <2> SUFFICES ASSUME Invariant, TypesRemembered, [Next]_vars, NEW r \in Requests,
                        Active(r), ~Active(r)', Store' # Store, form[r].op = "flag",
                        NEW type \in RequestTypes(form[r], inv[r], rows[r])
                 PROVE  \E k \in RutIds : /\ Live(RequestIn(k)')
                                          /\ RequestIn(k)'.invoice = id[r]
                                          /\ RequestIn(k)'.type = type
        OBVIOUS
    <2>1. PICK s \in Requests :
              /\ Active(s) /\ script[s] = << >> /\ status[s] < 400 /\ EndTransaction(s, TRUE)
        BY Parts, OnlyCommitsShow
    <2>2. s = r
        BY <2>1, Parts DEF EndTransaction, Active, TypeOK, ServingOK
    <2>3. Pays(r)
        BY DEF Pays, RequestTypes
    <2>4. status[r] = StatusOK
        BY <2>1, <2>2, Parts DEF TypeOK, ServingOK, StatusOK, StatusInternalServerError
    <2>5. script[r] \notin Reading /\ WantedBy(script[r]) = {}
        <3>1. script[r] = << >> /\ InvoiceGet # << >> /\ << Do("InvoiceRows", NULL) >> # << >>
            BY <2>1, <2>2 DEF InvoiceGet
        <3>2. WantedBy(<< >>) = {}
            BY DEF WantedBy, Questions
        <3> QED BY <3>1, <3>2 DEF Reading
    <2>6. RequestExists(r, type)
        BY <2>3, <2>4, <2>5 DEF TypesRemembered, UnderWay, Remembers
    <2>7. PICK k \in RutIds : LET x == Sees(rut_requests, r)[k] IN
              Live(x) /\ x.invoice = id[r] /\ x.type = type
        BY <2>6 DEF RequestExists
    <2>8. RequestIn(k)' = Sees(rut_requests, r)[k]
        BY <2>1, <2>2, Parts DEF EndTransaction, Ended, Settled, Sees, RequestIn, TypeOK, TablesOK
    <2> QED BY <2>7, <2>8
<1> QED BY <1>1, <1>2, TypesNext, InvariantHolds, PTL DEF Spec, EveryTypeRequested

-----------------------------------------------------------------------------
(* The books: documents and their numbers. *)

(* What the books say of an invoice or offer. *)
Document(x) ==
    [number |-> x.number, company |-> x.company, is_offer |-> x.is_offer,
     offer_id |-> x.offer_id]

(* What a handler does when its document has been inserted. *)
Filling == {"RowAdd", "RowRemove", "RowUpdate",
            "FileAdd", "AttachmentAdd", "AttachmentRemove", "FileRemove"}

FillsOnly(q) == \A n \in DOMAIN q : q[n].op \in Filling

Choosing == {"CustomerList", "CustomerSave"}

(* The insert has the choice of a customer before it, and the rest after.  *)
InsertsOnce(q) ==
    \A n \in DOMAIN q : q[n].op = "InvoiceSave" =>
        \A m \in DOMAIN q : /\ m < n => q[m].op \in Choosing
                            /\ m > n => q[m].op \in Filling

Taken(n) == \E i \in CommittedInvoices : InvoiceIn(i).number = n

(* The number that company c issues next, of what everybody can see. *)
NextNumber(c, n) ==
    /\ n \in Nat /\ c \in Companies
    /\ \/ n = 1 \/ n = FirstNumber[c]
       \/ \E i \in CommittedInvoices :
             InvoiceIn(i).company = c /\ n = InvoiceIn(i).number + 1
    /\ 1 <= n /\ FirstNumber[c] <= n
    /\ \A i \in CommittedInvoices : InvoiceIn(i).company = c => InvoiceIn(i).number + 1 <= n

(* A number that was read is still the next one, or was given to another.  *)
NumberRead(c, n) == NextNumber(c, n) \/ Taken(n)

(* An invoice that names an offer is written by the handler that accepts   *)
(* the offer, and has locked it.                                           *)
FromOffer(r, x) ==
    x.offer_id # NULL =>
        LET o == invoice[x.offer_id] IN
        /\ x.offer_id \in Invoices /\ ~x.is_offer /\ x.status = StatusInitial
        /\ o.by = r /\ Live(o.val) /\ o.val.is_offer /\ o.val.company = x.company
        /\ o.new.status = StatusAccepted /\ o.new.customer = x.customer

(* The invoice in hand is of the kind that the page is for. *)
OfKind(r) == Reached(r) /\ Sees(invoice, r)[id[r]].is_offer = form[r].is_offer

(* A flag has looked at the kind before it does these. *)
KindRead(r) ==
    \A n \in DOMAIN script[r] :
        /\ \/ n = 1 /\ script[r][n].op = "InvoiceRows"
           \/ script[r][n].op \in {"RUTList", "RUTCreate", "GetNextInvoiceNumber"}
        /\ form[r].op = "flag"
        => OfKind(r)

AsksForInvoice(r) == AsksAt(r) # {} => form[r].op = "flag" /\ ~form[r].is_offer

(* A number is read for the company of the session, and by a flag only     *)
(* between the save of the accepted offer and the insert of its invoice.   *)
Accepting(r, n) ==
    /\ form[r].is_offer /\ Ready(r)
    /\ \A m \in DOMAIN script[r] :
          /\ m < n => m = 1 /\ n = 2 /\ script[r][m].op = "InvoiceSave"
          /\ m > n => \/ m = n + 1 /\ script[r][m].op = "InvoiceSave"
                      \/ script[r][m].op = "RowAdd"
    /\ IF n = 1
       THEN LET o == invoice[id[r]] IN
            o.by = r /\ o.new.status = StatusAccepted /\ o.new.customer = inv[r].customer
       ELSE inv[r].status = StatusAccepted

Converting(r) ==
    \A n \in DOMAIN script[r] : script[r][n].op = "GetNextInvoiceNumber" =>
        /\ script[r][n].on = form[r].company
        /\ form[r].op = "post" => id[r] = NULL
        /\ form[r].op = "flag" => Accepting(r, n)

(* The document in hand that is going to be inserted. *)
Inserting(r) ==
    id[r] = NULL /\ (\E n \in DOMAIN script[r] : script[r][n].op = "InvoiceSave") =>
        /\ InsertsOnce(script[r]) /\ NumberRead(inv[r].company, inv[r].number)
        /\ FromOffer(r, inv[r]) /\ (At(r, "InvoiceSave") \/ inv[r].offer_id = NULL)

Booked(r) == KindRead(r) /\ AsksForInvoice(r) /\ Converting(r) /\ Inserting(r)

DocumentsFixed ==
    \A i \in Invoices : invoice[i].by # NULL /\ Live(invoice[i].val) =>
        Document(invoice[i].new) = Document(invoice[i].val)

(* A document that is not committed. *)
Unissued(i) == invoice[i].by # NULL /\ ~Live(invoice[i].val)

NewDocument(i) ==
    Unissued(i) =>
        LET x == invoice[i].new
            r == invoice[i].by IN
        /\ invoice[i].val = Absent /\ Active(r) /\ id[r] = i /\ FillsOnly(script[r])
        /\ NextNumber(x.company, x.number) /\ ~Taken(x.number) /\ FromOffer(r, x)

(* No two of them have the same number: the second waits for the first.    *)
NumbersDistinct ==
    \A i, j \in Invoices :
        Unissued(i) /\ Unissued(j) /\ invoice[i].new.number = invoice[j].new.number => i = j

(* A new request is for the committed invoice that its handler has in hand. *)
NewRequest(k) ==
    IsNew(k) => LET i == rut_requests[k].new.invoice IN
                /\ i = id[rut_requests[k].by]
                /\ Live(invoice[i].val) /\ ~invoice[i].val.is_offer

BooksKept ==
    /\ DocumentsFixed /\ NumbersDistinct
    /\ \A i \in Invoices : NewDocument(i)
    /\ \A k \in RutIds : NewRequest(k)
    /\ \A r \in Requests : Booked(r)

-----------------------------------------------------------------------------
(* The next number. *)

LEMMA InvoiceParts ==
    ASSUME TypeOK, NEW i \in Invoices
    PROVE  /\ DOMAIN invoice = Invoices /\ invoice \in [Invoices -> Versions(InvoiceRecord)]
           /\ Live(invoice[i].val) => invoice[i].val \in InvoiceRecord
           /\ Live(invoice[i].new) => invoice[i].new \in InvoiceRecord
           /\ invoice[i].by \in Requests \cup {NULL}
BY DEF TypeOK, TablesOK, Versions, Live

(* There is only one. *)
LEMMA NextIsUnique ==
    ASSUME TypeOK, NEW c, NEW n, NEW m, NextNumber(c, n), NextNumber(c, m)
    PROVE  n = m
<1>1. /\ n \in Nat /\ m \in Nat /\ FirstNumber[c] \in Nat
      /\ \A i \in CommittedInvoices : InvoiceIn(i).number \in Nat
    BY InvoiceParts, EntitiesAssumption
       DEF NextNumber, CommittedInvoices, InvoiceIn, InvoiceRecord
<1> QED BY <1>1 DEF NextNumber

(* A step that shows no document moves no number ... *)
LEMMA SameNumbers ==
    ASSUME \A i \in Invoices : /\ Live(invoice'[i].val) <=> Live(invoice[i].val)
                               /\ Live(invoice[i].val)
                                  => Document(invoice'[i].val) = Document(invoice[i].val),
           NEW c, NEW n
    PROVE  /\ Taken(n)' <=> Taken(n)
           /\ NextNumber(c, n)' <=> NextNumber(c, n)
<1>1. CommittedInvoices' = CommittedInvoices
    BY DEF CommittedInvoices, InvoiceIn
<1>2. \A i \in CommittedInvoices : /\ invoice'[i].val.number = invoice[i].val.number
                                   /\ invoice'[i].val.company = invoice[i].val.company
    BY DEF CommittedInvoices, InvoiceIn, Document
<1>3. Taken(n)' <=> Taken(n)
    BY <1>1, <1>2 DEF Taken, InvoiceIn
<1>4. NextNumber(c, n)' <=> NextNumber(c, n)
    BY <1>1, <1>2 DEF NextNumber, InvoiceIn
<1> QED BY <1>3, <1>4

(* ... and one that shows document i takes the number of that: what other  *)
(* companies issue next stays, and so does any other number.               *)
LEMMA OneNumberMore ==
    ASSUME TypeOK, NEW i \in Invoices,
           ~Live(invoice[i].val), Live(invoice'[i].val),
           NextNumber(invoice'[i].val.company, invoice'[i].val.number),
           \A j \in Invoices \ {i} :
              /\ Live(invoice'[j].val) <=> Live(invoice[j].val)
              /\ Live(invoice[j].val) => Document(invoice'[j].val) = Document(invoice[j].val),
           NEW c, NEW n
    PROVE  /\ Taken(n)' <=> Taken(n) \/ n = invoice'[i].val.number
           /\ NextNumber(c, n) /\ n # invoice'[i].val.number => NextNumber(c, n)'
<1> DEFINE x == invoice'[i].val
<1>1. CommittedInvoices' = CommittedInvoices \cup {i} /\ i \notin CommittedInvoices
    BY DEF CommittedInvoices, InvoiceIn
<1>2. \A j \in CommittedInvoices : /\ invoice'[j].val.number = invoice[j].val.number
                                   /\ invoice'[j].val.company = invoice[j].val.company
    BY DEF CommittedInvoices, InvoiceIn, Document
<1>3. Taken(n)' <=> Taken(n) \/ n = x.number
    BY <1>1, <1>2 DEF Taken, InvoiceIn
<1>4. ASSUME NextNumber(c, n), n # x.number PROVE NextNumber(c, n)'
    <2>1. c # x.company
        BY <1>4, NextIsUnique
    <2> HIDE DEF x
    <2>2. \A j \in CommittedInvoices' :
             \/ j = i /\ invoice'[j].val.company # c
             \/ /\ j \in CommittedInvoices
                /\ invoice'[j].val.number = invoice[j].val.number
                /\ invoice'[j].val.company = invoice[j].val.company
        BY <1>1, <1>2, <2>1 DEF x
    <2>3. CommittedInvoices \subseteq CommittedInvoices'
        BY <1>1
    <2> QED BY <1>2, <1>4, <2>2, <2>3 DEF NextNumber, InvoiceIn
<1> QED BY <1>3, <1>4

(* Who has no document of his own on the way finds the number that all do. *)
LEMMA NumberFound ==
    ASSUME Invariant, DocumentsFixed, NEW r \in Requests, NEW c \in Companies,
           \A i \in Invoices : Unissued(i) => invoice[i].by # r,
           NEW n, IsNextNumber(r, c, n)
    PROVE  NextNumber(c, n)
<1>1. \A i \in Invoices : /\ Live(Sees(invoice, r)[i]) <=> i \in CommittedInvoices
                          /\ i \in CommittedInvoices =>
                                /\ Sees(invoice, r)[i].number = InvoiceIn(i).number
                                /\ Sees(invoice, r)[i].company = InvoiceIn(i).company
                                /\ InvoiceIn(i).number \in Nat
    <2> TAKE i \in Invoices
    <2>1. Sees(invoice, r)[i] = IF invoice[i].by = r THEN invoice[i].new ELSE invoice[i].val
        BY Parts, InvoiceParts DEF Sees
    <2>2. CASE invoice[i].by = r
        <3>1. Live(invoice[i].val) /\ Live(invoice[i].new)
            BY <2>2, EntitiesAssumption
               DEF Unissued, Invariant, AskInvariant, InvoicesNeverRemoved
        <3>2. Document(invoice[i].new) = Document(invoice[i].val)
            BY <2>2, <3>1, EntitiesAssumption DEF DocumentsFixed
        <3> QED BY <2>1, <2>2, <3>1, <3>2, Parts, InvoiceParts
                DEF Document, CommittedInvoices, InvoiceIn, InvoiceRecord
    <2>3. CASE invoice[i].by # r
        BY <2>1, <2>3, Parts, InvoiceParts DEF CommittedInvoices, InvoiceIn, InvoiceRecord
    <2> QED BY <2>2, <2>3
<1>2. CommittedInvoices \subseteq Invoices
    BY DEF CommittedInvoices
<1>3. FirstNumber[c] \in Nat
    BY EntitiesAssumption
<1>4. \A m : m \in NumberCandidates(r, c) <=>
         \/ m = 1 \/ m = FirstNumber[c]
         \/ \E i \in CommittedInvoices : InvoiceIn(i).company = c /\ m = InvoiceIn(i).number + 1
    BY <1>1, <1>2 DEF NumberCandidates
<1> QED BY <1>1, <1>2, <1>3, <1>4 DEF IsNextNumber, NextNumber

-----------------------------------------------------------------------------
(* What a step of one request leaves to the others. *)

(* The versions of the invoices, as others see them, keep their documents. *)
SameToOthers(r) ==
    \A s \in Requests \ {r}, i \in Invoices :
        Live(Sees(invoice, s)[i])
        => /\ Live(Sees(invoice', s)[i])
           /\ Document(Sees(invoice', s)[i]) = Document(Sees(invoice, s)[i])

(* No number that was read is forgotten. *)
NumbersStay == \A c, n : NumberRead(c, n) => NumberRead(c, n)'

SameRequest(s) ==
    form'[s] = form[s] /\ script'[s] = script[s] /\ id'[s] = id[s] /\ inv'[s] = inv[s]

(* What names an offer that s holds goes on naming it. *)
LEMMA OfferStays ==
    ASSUME Invariant, NEW r \in Requests, SparesInvoices(r), NEW s \in Requests \ {r},
           NEW x, FromOffer(s, x)
    PROVE  FromOffer(s, x)'
<1>1. ASSUME x.offer_id # NULL PROVE invoice'[x.offer_id] = invoice[x.offer_id]
    BY <1>1, EntitiesAssumption DEF FromOffer, SparesInvoices
<1> QED BY <1>1 DEF FromOffer

LEMMA OthersBooked ==
    ASSUME Invariant, NEW r \in Requests, SparesInvoices(r), SameToOthers(r), NumbersStay,
           NEW s \in Requests \ {r}, SameRequest(s), Booked(s)
    PROVE  Booked(s)'
<1>1. ASSUME id[s] \in Invoices, Live(Sees(invoice, s)[id[s]])
      PROVE  /\ Live(Sees(invoice', s)[id[s]])
             /\ Sees(invoice', s)[id[s]].is_offer = Sees(invoice, s)[id[s]].is_offer
             /\ Sees(invoice', s)[id[s]].company = Sees(invoice, s)[id[s]].company
    BY <1>1 DEF SameToOthers, Document
<1>2. OfKind(s) => OfKind(s)'
    BY <1>1 DEF OfKind, Reached, SameRequest
<1>3. Ready(s) => Ready(s)'
    BY <1>1 DEF Ready, Reached, SameRequest
<1>4. KindRead(s)'
    BY <1>2 DEF Booked, KindRead, SameRequest
<1>5. AsksForInvoice(s)'
    BY DEF Booked, AsksForInvoice, AsksAt, SameRequest
<1>6. Converting(s)'
    <2> SUFFICES ASSUME NEW n \in DOMAIN script[s], script[s][n].op = "GetNextInvoiceNumber",
                        form[s].op = "flag"
                 PROVE  Accepting(s, n)'
        BY DEF Booked, Converting, SameRequest
    <2>1. Accepting(s, n) /\ OfKind(s)
        BY DEF Booked, Converting, KindRead
    <2>2. id[s] \in Invoices
        BY <2>1 DEF OfKind, Reached
    <2>3. n = 1 => invoice'[id[s]] = invoice[id[s]]
        BY <2>1, <2>2, EntitiesAssumption DEF Accepting, SparesInvoices
    <2> QED BY <1>3, <2>1, <2>3 DEF Accepting, SameRequest
<1>7. Inserting(s)'
    <2> SUFFICES ASSUME id[s] = NULL, NEW n \in DOMAIN script[s], script[s][n].op = "InvoiceSave"
                 PROVE  /\ InsertsOnce(script[s])
                        /\ NumberRead(inv[s].company, inv[s].number)'
                        /\ FromOffer(s, inv[s])'
                        /\ At(s, "InvoiceSave") \/ inv[s].offer_id = NULL
        BY DEF Inserting, SameRequest, At, NumberRead, NextNumber, Taken, FromOffer
    <2>1. /\ InsertsOnce(script[s]) /\ NumberRead(inv[s].company, inv[s].number)
          /\ FromOffer(s, inv[s]) /\ (At(s, "InvoiceSave") \/ inv[s].offer_id = NULL)
        BY DEF Booked, Inserting
    <2>2. NumberRead(inv[s].company, inv[s].number)'
        BY <2>1 DEF NumbersStay, SameRequest
    <2>3. FromOffer(s, inv[s])'
        BY <2>1, OfferStays DEF SameRequest
    <2> QED BY <2>1, <2>2, <2>3
<1> QED BY <1>4, <1>5, <1>6, <1>7 DEF Booked

(* A statement of r that inserts no document. *)
KeepsDocuments(r) ==
    \/ UNCHANGED invoice
    \/ \E i \in Invoices, x \in InvoiceRecord :
          /\ Live(invoice[i].val) /\ invoice[i].by \in {NULL, r}
          /\ Document(x) = Document(invoice[i].val)
          /\ invoice' = Put(invoice, r, i, x)

LEMMA DocumentsKept ==
    ASSUME Invariant, DocumentsFixed, NEW r \in Requests, KeepsDocuments(r)
    PROVE  /\ DocumentsFixed' /\ SparesInvoices(r) /\ SameToOthers(r) /\ NumbersStay
           /\ \A i \in Invoices : /\ invoice'[i].val = invoice[i].val
                                  /\ Unissued(i)' <=> Unissued(i)
                                  /\ Unissued(i) => invoice'[i] = invoice[i]
<1> DEFINE Kept == /\ DocumentsFixed' /\ SparesInvoices(r) /\ SameToOthers(r)
                   /\ \A i \in Invoices : /\ invoice'[i].val = invoice[i].val
                                          /\ Unissued(i)' <=> Unissued(i)
                                          /\ Unissued(i) => invoice'[i] = invoice[i]
<1>1. ASSUME UNCHANGED invoice PROVE Kept
    <2>1. \A i \in Invoices : Unissued(i)' <=> Unissued(i)
        BY <1>1 DEF Unissued
    <2>2. DocumentsFixed'
        BY <1>1 DEF DocumentsFixed
    <2>3. SparesInvoices(r)
        BY <1>1 DEF SparesInvoices
    <2>4. SameToOthers(r)
        <3>1. \A s, i : Sees(invoice', s)[i] = Sees(invoice, s)[i]
            BY <1>1
        <3> QED BY <3>1, Zenon DEF SameToOthers
    <2>5. \A i \in Invoices : /\ invoice'[i].val = invoice[i].val
                              /\ Unissued(i) => invoice'[i] = invoice[i]
        BY <1>1
    <2> QED BY <2>1, <2>2, <2>3, <2>4, <2>5
<1>2. ASSUME NEW i \in Invoices, NEW x \in InvoiceRecord,
             Live(invoice[i].val), invoice[i].by \in {NULL, r},
             Document(x) = Document(invoice[i].val), invoice' = Put(invoice, r, i, x)
      PROVE  Kept
    <2>1. Live(x) /\ r # NULL
        BY EntitiesAssumption DEF Live
    <2>2. DOMAIN invoice = Invoices /\ DOMAIN invoice' = Invoices
        BY <1>2, Parts, InvoiceParts DEF Put
    <2>3. \A j \in Invoices : IF j = i
              THEN invoice'[j] = [val |-> invoice[i].val, by |-> r, new |-> x]
              ELSE invoice'[j] = invoice[j]
        BY <1>2, <2>2 DEF Put
    <2>4. DocumentsFixed'
        BY <1>2, <2>3 DEF DocumentsFixed
    <2>5. SparesInvoices(r)
        BY <1>2, <2>3 DEF SparesInvoices
    <2>6. ASSUME NEW s \in Requests \ {r}, NEW j \in Invoices, Live(Sees(invoice, s)[j])
          PROVE  /\ Live(Sees(invoice', s)[j])
                 /\ Document(Sees(invoice', s)[j]) = Document(Sees(invoice, s)[j])
        <3>1. CASE j = i
            <4>1. Sees(invoice, s)[j] = invoice[i].val /\ Sees(invoice', s)[j] = invoice[i].val
                BY <1>2, <2>2, <2>3, <3>1, EntitiesAssumption DEF Sees
            <4> QED BY <1>2, <4>1
        <3>2. CASE j # i
            <4>1. Sees(invoice', s)[j] = Sees(invoice, s)[j]
                BY <2>2, <2>3, <3>2 DEF Sees
            <4> QED BY <2>6, <4>1
        <3> QED BY <3>1, <3>2
    <2>7. \A j \in Invoices : /\ invoice'[j].val = invoice[j].val
                              /\ Unissued(j)' <=> Unissued(j)
                              /\ Unissued(j) => invoice'[j] = invoice[j]
        BY <1>2, <2>3 DEF Unissued
    <2> QED BY <2>4, <2>5, <2>6, <2>7 DEF SameToOthers
<1>3. Kept
    BY <1>1, <1>2 DEF KeepsDocuments
<1>4. NumbersStay
    <2>1. \A i \in Invoices : /\ Live(invoice'[i].val) <=> Live(invoice[i].val)
                              /\ Live(invoice[i].val)
                                 => Document(invoice'[i].val) = Document(invoice[i].val)
        BY <1>3
    <2> QED BY <2>1, SameNumbers DEF NumbersStay, NumberRead
<1> QED BY <1>3, <1>4

(* New requests to the agency stay with the invoice in hand. *)
LEMMA NewRequestsStay ==
    ASSUME Invariant, \A k \in RutIds : NewRequest(k), NewOnesStay, NEW r \in Requests,
           \A i \in Invoices : Live(invoice[i].val) =>
              Live(invoice'[i].val) /\ invoice'[i].val.is_offer = invoice[i].val.is_offer,
           \A s \in Requests \ {r} : id'[s] = id[s],
           \A k \in RutIds : IsNew(k) /\ rut_requests[k].by = r
                             => id'[r] = id[r] \/ ~IsNew(k)'
    PROVE  \A k \in RutIds : NewRequest(k)'
<1> SUFFICES ASSUME NEW k \in RutIds, IsNew(k)'
             PROVE  LET i == rut_requests'[k].new.invoice IN
                    /\ i = id'[rut_requests'[k].by]
                    /\ Live(invoice'[i].val) /\ ~invoice'[i].val.is_offer
    BY DEF NewRequest
<1>1. /\ IsNew(k) /\ rut_requests'[k].by = rut_requests[k].by
      /\ rut_requests'[k].new.invoice = rut_requests[k].new.invoice
    BY EntitiesAssumption DEF NewOnesStay, IsNew
<1>2. PICK i \in Invoices : i = rut_requests[k].new.invoice
    BY <1>1, Parts, NewNamesInvoice DEF Invariant, AskInvariant, IsNew
<1>3. PICK s \in Requests : s = rut_requests[k].by
    BY <1>1, Parts, NewNamesInvoice DEF Invariant, AskInvariant, IsNew
<1>4. i = id[s] /\ Live(invoice[i].val) /\ ~invoice[i].val.is_offer
    BY <1>1, <1>2, <1>3 DEF NewRequest
<1>5. id'[s] = id[s]
    BY <1>1, <1>3
<1>6. Live(invoice'[i].val) /\ invoice'[i].val.is_offer = invoice[i].val.is_offer
    BY <1>4
<1>7. ~invoice'[i].val.is_offer
    BY <1>4, <1>6, Zenon
<1> QED BY <1>1, <1>2, <1>3, <1>4, <1>5, <1>6, <1>7

LEMMA StatementBooked ==
    ASSUME Invariant, BooksKept, NEW r \in Requests, KeepsDocuments(r), Booked(r)',
           \A s \in Requests \ {r} : SameRequest(s),
           \A i \in Invoices : Unissued(i) /\ invoice[i].by = r
               => /\ Active(r)' /\ id'[r] = id[r] /\ FillsOnly(script'[r])
                  /\ UNCHANGED invoice,
           \A k \in RutIds : NewRequest(k)'
    PROVE  BooksKept'
<1>1. /\ DocumentsFixed' /\ SparesInvoices(r) /\ SameToOthers(r) /\ NumbersStay
      /\ \A i \in Invoices : /\ invoice'[i].val = invoice[i].val
                             /\ Unissued(i)' <=> Unissued(i)
                             /\ Unissued(i) => invoice'[i] = invoice[i]
    BY DocumentsKept DEF BooksKept
<1>3. \A s \in Requests : Booked(s)'
    <2>1. ASSUME NEW s \in Requests \ {r} PROVE Booked(s)'
        BY <1>1, OthersBooked DEF BooksKept
    <2> QED BY <2>1
<1>4. NumbersDistinct'
    BY <1>1 DEF BooksKept, NumbersDistinct
<1>5. ASSUME NEW i \in Invoices PROVE NewDocument(i)'
    <2> SUFFICES ASSUME Unissued(i)' PROVE NewDocument(i)'
        BY DEF NewDocument
    <2>1. Unissued(i) /\ invoice'[i] = invoice[i]
        BY <1>1
    <2>2. PICK s \in Requests : invoice[i].by = s
        BY <2>1, Parts, InvoiceParts DEF Unissued
    <2> DEFINE x == invoice[i].new
    <2>3. /\ invoice[i].val = Absent /\ Active(s) /\ id[s] = i /\ FillsOnly(script[s])
          /\ NextNumber(x.company, x.number) /\ ~Taken(x.number) /\ FromOffer(s, x)
        BY <2>1, <2>2 DEF BooksKept, NewDocument
    <2> HIDE DEF x
    <2>4. NextNumber(x.company, x.number)' /\ ~Taken(x.number)'
        <3>1. \A j \in Invoices : /\ Live(invoice'[j].val) <=> Live(invoice[j].val)
                                  /\ Live(invoice[j].val)
                                     => Document(invoice'[j].val) = Document(invoice[j].val)
            BY <1>1
        <3>2. \A c, n : /\ Taken(n)' <=> Taken(n)
                        /\ NextNumber(c, n)' <=> NextNumber(c, n)
            BY <3>1, SameNumbers
        <3>3. x' = x
            BY <2>1 DEF x
        <3> QED BY <2>3, <3>2, <3>3
    <2>5. FromOffer(s, x)' /\ Active(s)' /\ id'[s] = i /\ FillsOnly(script'[s])
        <3>1. x' = x
            BY <2>1 DEF x
        <3>2. CASE s = r
            BY <2>1, <2>2, <2>3, <3>1, <3>2 DEF FromOffer
        <3>3. CASE s # r
            BY <1>1, <2>3, <3>1, <3>3, OfferStays DEF SameRequest, Active
        <3> QED BY <3>2, <3>3
    <2> QED BY <2>1, <2>2, <2>3, <2>4, <2>5 DEF NewDocument, x
<1> QED BY <1>1, <1>3, <1>4, <1>5 DEF BooksKept

-----------------------------------------------------------------------------
(* What the scripts look like. *)

(* The script of a form: a choice, one save, and the filling. *)
Posting(q) ==
    /\ q \in Seq(Statement) /\ InsertsOnce(q)
    /\ \A n \in DOMAIN q : q[n].op \in Choosing \cup Filling \cup {"InvoiceSave"}

LEMMA Joined ==
    ASSUME NEW S, NEW p \in Seq(S), NEW q \in Seq(S)
    PROVE  /\ p \o q \in Seq(S)
           /\ \A n \in DOMAIN (p \o q) :
                 /\ n \in Nat
                 /\ \/ n \in DOMAIN p /\ (p \o q)[n] = p[n]
                    \/ /\ n - Len(p) \in DOMAIN q /\ (p \o q)[n] = q[n - Len(p)]
                       /\ n > Len(p) /\ Len(p) \in Nat /\ DOMAIN p = 1..Len(p)
<1>1. Len(p) \in Nat /\ DOMAIN p = 1..Len(p) /\ Len(q) \in Nat /\ DOMAIN q = 1..Len(q)
    BY LenProperties
<1>2. /\ p \o q \in Seq(S) /\ Len(p \o q) = Len(p) + Len(q)
      /\ \A n \in 1..(Len(p) + Len(q)) :
            (p \o q)[n] = IF n <= Len(p) THEN p[n] ELSE q[n - Len(p)]
    BY ConcatProperties
<1> DEFINE pq == p \o q
<1>3. DOMAIN pq = 1..(Len(p) + Len(q))
    BY <1>2, LenProperties
<1>4. \A n \in 1..(Len(p) + Len(q)) : pq[n] = IF n <= Len(p) THEN p[n] ELSE q[n - Len(p)]
    BY <1>2
<1> HIDE DEF pq
<1>5. ASSUME NEW n \in DOMAIN pq
      PROVE  /\ n \in Nat
             /\ \/ n \in DOMAIN p /\ pq[n] = p[n]
                \/ /\ n - Len(p) \in DOMAIN q /\ pq[n] = q[n - Len(p)]
                   /\ n > Len(p)
    BY <1>1, <1>3, <1>4
<1> QED BY <1>1, <1>2, <1>5 DEF pq

LEMMA PostingFilled ==
    ASSUME NEW p, Posting(p), NEW q \in Seq(Statement), FillsOnly(q)
    PROVE  Posting(p \o q)
<1> DEFINE pq == p \o q
<1>1. p \in Seq(Statement) /\ DOMAIN p = 1..Len(p)
    BY LenProperties DEF Posting
<1>2. /\ pq \in Seq(Statement)
      /\ \A n \in DOMAIN pq :
            /\ n \in Nat
            /\ \/ n \in DOMAIN p /\ pq[n] = p[n]
               \/ /\ pq[n].op \in Filling
                  /\ n > Len(p) /\ Len(p) \in Nat /\ DOMAIN p = 1..Len(p)
    BY <1>1, Joined DEF FillsOnly
<1> HIDE DEF pq
<1>3. \A n \in DOMAIN pq : pq[n].op \in Choosing \cup Filling \cup {"InvoiceSave"}
    BY <1>2 DEF Posting
<1>4. ASSUME NEW n \in DOMAIN pq, pq[n].op = "InvoiceSave", NEW m \in DOMAIN pq
      PROVE  (m < n => pq[m].op \in Choosing) /\ (m > n => pq[m].op \in Filling)
    <2>1. n \in DOMAIN p /\ pq[n] = p[n] /\ n \in Nat /\ m \in Nat
        BY <1>2, <1>4 DEF Filling
    <2>2. CASE m \in DOMAIN p /\ pq[m] = p[m]
        BY <1>4, <2>1, <2>2 DEF Posting, InsertsOnce
    <2>3. CASE /\ pq[m].op \in Filling
               /\ m > Len(p) /\ Len(p) \in Nat /\ DOMAIN p = 1..Len(p)
        BY <2>1, <2>3
    <2> QED BY <1>2, <2>2, <2>3
<1>5. InsertsOnce(pq)
    BY <1>4 DEF InsertsOnce
<1> QED BY <1>2, <1>3, <1>5 DEF Posting, pq

(* The same statement for every element of a sequence. *)
LEMMA ForEachOp ==
    ASSUME NEW T, NEW args \in Seq(T), NEW op
    PROVE  \A n \in DOMAIN ForEach(args, op) : ForEach(args, op)[n].op = op
<1>1. Len(args) \in Nat
    BY LenProperties
<1> QED BY <1>1 DEF ForEach, Do

LEMMA SavePosting ==
    ASSUME NEW f \in PostForm, NEW x
    PROVE  Posting(SaveScript(f, x))
<1> DEFINE A == If(SelectsCustomer(f, x), << Do("CustomerList", f.customer_id) >>)
           B == If(f.customer # NULL, << Do("CustomerSave", f.customer) >>)
           C == If(Updates(f, x), InvoiceSaveStmt)
           AB == A \o B
           q == AB \o C
<1>1. A \in Seq(Statement) /\ \A n \in DOMAIN A : A[n].op \in Choosing
    <2>1. SelectsCustomer(f, x) => Do("CustomerList", f.customer_id) \in Statement
        BY DoType DEF SelectsCustomer, PostForm
    <2> QED BY <2>1 DEF If, Choosing, Do
<1>2. B \in Seq(Statement) /\ \A n \in DOMAIN B : B[n].op \in Choosing
    <2>1. f.customer # NULL => Do("CustomerSave", f.customer) \in Statement
        BY DoType DEF PostForm
    <2> QED BY <2>1 DEF If, Choosing, Do
<1>3. C \in Seq(Statement) /\ DOMAIN C \subseteq {1} /\ \A n \in DOMAIN C : C[n].op = "InvoiceSave"
    BY DoType DEF If, InvoiceSaveStmt, Do
<1> HIDE DEF A, B, C
<1>4. /\ AB \in Seq(Statement)
      /\ \A n \in DOMAIN AB : n \in Nat /\ (AB[n] \in {A[i] : i \in DOMAIN A}
                                         \/ AB[n] \in {B[i] : i \in DOMAIN B})
    BY <1>1, <1>2, Joined
<1>5. \A n \in DOMAIN AB : AB[n].op \in Choosing
    BY <1>1, <1>2, <1>4
<1> HIDE DEF AB
<1>6. /\ q \in Seq(Statement)
      /\ \A n \in DOMAIN q :
            /\ n \in Nat
            /\ \/ n \in DOMAIN AB /\ q[n].op \in Choosing
               \/ n = Len(AB) + 1 /\ q[n].op = "InvoiceSave"
                  /\ Len(AB) \in Nat /\ DOMAIN AB = 1..Len(AB)
    <2>1. /\ q \in Seq(Statement)
          /\ \A n \in DOMAIN q :
                /\ n \in Nat
                /\ \/ n \in DOMAIN AB /\ q[n] = AB[n]
                   \/ /\ n - Len(AB) \in DOMAIN C /\ q[n] = C[n - Len(AB)]
                      /\ n > Len(AB) /\ Len(AB) \in Nat /\ DOMAIN AB = 1..Len(AB)
        BY <1>3, <1>4, Joined
    <2> QED BY <1>3, <1>5, <2>1
<1> HIDE DEF q
<1>7. \A n \in DOMAIN q : q[n].op \in Choosing \cup Filling \cup {"InvoiceSave"}
    BY <1>6
<1>8. ASSUME NEW n \in DOMAIN q, q[n].op = "InvoiceSave", NEW m \in DOMAIN q
      PROVE  (m < n => q[m].op \in Choosing) /\ (m > n => q[m].op \in Filling)
    <2>1. n = Len(AB) + 1 /\ Len(AB) \in Nat /\ DOMAIN AB = 1..Len(AB)
        BY <1>6, <1>8 DEF Choosing
    <2> QED BY <1>6, <2>1
<1>9. Posting(q)
    BY <1>6, <1>7, <1>8 DEF Posting, InsertsOnce
<1> QED BY <1>9 DEF q, AB, A, B, C, SaveScript

LEMMA FilledJoin ==
    ASSUME NEW S, NEW p \in Seq(S), NEW q \in Seq(S), FillsOnly(p), FillsOnly(q)
    PROVE  p \o q \in Seq(S) /\ FillsOnly(p \o q)
<1> DEFINE pq == p \o q
<1>1. /\ pq \in Seq(S)
      /\ \A n \in DOMAIN pq : \/ n \in DOMAIN p /\ pq[n] = p[n]
                              \/ n - Len(p) \in DOMAIN q /\ pq[n] = q[n - Len(p)]
    BY Joined
<1> HIDE DEF pq
<1>2. FillsOnly(pq)
    BY <1>1 DEF FillsOnly
<1> QED BY <1>1, <1>2 DEF pq

LEMMA RowsFill ==
    ASSUME NEW f \in PostForm, NEW rws \in LocalRows,
           NEW changed \in SetToSeqs(ChangedRows(f, rws))
    PROVE  FillsOnly(RowScript(f, rws, changed))
<1> DEFINE A == ForEach(f.add, "RowAdd")
           B == ForEach(f.drop, "RowRemove")
           C == [n \in 1..Len(changed) |-> ChangedRow(f, rws, changed[n])]
           S == Statement \cup {C[n] : n \in DOMAIN C}
           AB == A \o B
<1>1. FillsOnly(A) /\ A \in Seq(S)
    <2>1. f.add \in Seq(RowData)
        BY DEF PostForm
    <2>2. FillsOnly(A)
        BY <2>1, ForEachOp DEF FillsOnly, Filling
    <2>3. \A x \in RowData : Do("RowAdd", x) \in S
        BY DoType
    <2> HIDE DEF S
    <2> QED BY <2>1, <2>2, <2>3, ForEachType
<1>2. FillsOnly(B) /\ B \in Seq(S)
    <2>1. f.drop \in Seq(Rows)
        BY DEF PostForm
    <2>2. FillsOnly(B)
        BY <2>1, ForEachOp DEF FillsOnly, Filling
    <2>3. \A k \in Rows : Do("RowRemove", k) \in S
        BY DoType
    <2> HIDE DEF S
    <2> QED BY <2>1, <2>2, <2>3, ForEachType
<1>3. FillsOnly(C) /\ C \in Seq(S)
    <2>1. changed \in Seq(ChangedRows(f, rws))
        <3>1. ChangedRows(f, rws) \subseteq Rows
            BY PresentFinite DEF ChangedRows, PostForm
        <3> QED BY <3>1, EntitiesAssumption, FS_Subset, OrdersType
    <2>2. Len(changed) \in Nat
        BY <2>1, LenProperties
    <2>3. C \in [1..Len(changed) -> S]
        OBVIOUS
    <2>4. FillsOnly(C)
        BY DEF FillsOnly, Filling, ChangedRow, Do
    <2> HIDE DEF C, S
    <2> QED BY <2>2, <2>3, <2>4, FunctionIsSeq
<1>4. RowScript(f, rws, changed) = AB \o C
    BY DEF RowScript
<1> HIDE DEF A, B, C, S
<1>5. FillsOnly(AB) /\ AB \in Seq(S)
    BY <1>1, <1>2, FilledJoin
<1> HIDE DEF AB
<1>6. FillsOnly(AB \o C)
    BY <1>3, <1>5, FilledJoin
<1> QED BY <1>4, <1>6

LEMMA FilesFill ==
    ASSUME NEW f, f.attach \in Nat
    PROVE  FileScript(f) \in Seq(Statement) /\ FillsOnly(FileScript(f))
<1>1. FillsOnly(FileScript(f))
    BY DEF FillsOnly, FileScript, Filling, Do
<1> QED BY <1>1, FileScriptType, HandledIsPlain

LEMMA PostShape ==
    ASSUME NEW f \in PostForm, NEW x, NEW rws \in LocalRows, NEW q \in PostScripts(f, x, rws)
    PROVE  Posting(q)
<1>1. PICK changed \in SetToSeqs(ChangedRows(f, rws)) :
         q = SaveScript(f, x) \o If(RowsOpen(x), RowScript(f, rws, changed))
             \o FileScript(f) \o ForEach(f.detach, "AttachmentRemove")
    BY DEF PostScripts
<1> DEFINE A == SaveScript(f, x)
           B == If(RowsOpen(x), RowScript(f, rws, changed))
           C == FileScript(f)
           D == ForEach(f.detach, "AttachmentRemove")
           AB == A \o B
           ABC == AB \o C
<1>2. Posting(A)
    BY SavePosting
<1>3. B \in Seq(Statement) /\ FillsOnly(B)
    BY RowScriptType, HandledIsPlain, RowsFill DEF If, FillsOnly
<1>4. C \in Seq(Statement) /\ FillsOnly(C)
    BY FilesFill DEF PostForm
<1>5. D \in Seq(Statement) /\ FillsOnly(D)
    <2>1. f.detach \in Seq(Files)
        BY DEF PostForm
    <2>2. FillsOnly(D)
        BY <2>1, ForEachOp DEF FillsOnly, Filling
    <2> QED BY <2>1, <2>2, ForEachType, DoType
<1>6. q = ABC \o D
    BY <1>1
<1> HIDE DEF A, B, C, D
<1>7. Posting(AB)
    BY <1>2, <1>3, PostingFilled
<1> HIDE DEF AB
<1>8. Posting(ABC)
    BY <1>4, <1>7, PostingFilled
<1> HIDE DEF ABC
<1> QED BY <1>5, <1>6, <1>8, PostingFilled

(* An accepted offer is saved, then a number is read for its invoice, and  *)
(* that is inserted with the rows.                                         *)
LEMMA ConvertingShape ==
    ASSUME NEW f \in FlagForm, NEW x, NEW rws \in LocalRows, NEW q \in FlagScripts(f, x, rws),
           NEW n \in DOMAIN q, q[n].op = "GetNextInvoiceNumber"
    PROVE  /\ n = 2 /\ q[n].on = f.company /\ f.flag = "accepted"
           /\ \A m \in DOMAIN q : /\ m < n => m = 1 /\ q[m].op = "InvoiceSave"
                                  /\ m > n => \/ m = n + 1 /\ q[m].op = "InvoiceSave"
                                              \/ q[m].op = "RowAdd"
<1>1. PICK types \in SetToSeqs(RequestTypes(f, x, rws)), copied \in SetToSeqs(Present(rws)) :
         q = InvoiceSaveStmt \o ForEach(types, "RUTList")
             \o If(Converts(f), Conversion(f, rws, copied))
    BY DEF FlagScripts
<1> DEFINE A == InvoiceSaveStmt
           L == ForEach(types, "RUTList")
           C == If(Converts(f), Conversion(f, rws, copied))
           AL == A \o L
<1>2. /\ A \in Seq(Statement) /\ Len(A) = 1 /\ DOMAIN A = {1} /\ A[1].op = "InvoiceSave"
    BY DoType DEF InvoiceSaveStmt, Do
<1>3. L \in Seq(Statement) /\ \A i \in DOMAIN L : L[i].op = "RUTList"
    BY RUTListsType, HandledIsPlain, ForEachOp
<1>4. C \in Seq(Statement)
    BY ConversionType, HandledIsPlain, IfType
<1>5. q = AL \o C
    BY <1>1
<1>6. Len(types) \in Nat /\ Len(L) = Len(types) /\ Len(A) \in Nat
    <2>1. Len(types) \in Nat
        BY RUTListsType, LenProperties
    <2> QED BY <1>2, <2>1 DEF ForEach
<1>7. Converts(f) => Len(L) = 0
    BY <1>6, AskingIsPaying
<1> HIDE DEF A, L, C
<1>8. /\ AL \in Seq(Statement) /\ Len(AL) = 1 + Len(L)
      /\ \A i \in DOMAIN AL : /\ i \in Nat
                              /\ \/ i = 1 /\ AL[i] = A[1]
                                 \/ i > 1 /\ AL[i].op = "RUTList"
    <2>1. /\ AL \in Seq(Statement)
          /\ \A i \in DOMAIN AL :
                /\ i \in Nat
                /\ \/ i \in DOMAIN A /\ AL[i] = A[i]
                   \/ i - Len(A) \in DOMAIN L /\ AL[i] = L[i - Len(A)] /\ i > Len(A)
        <3>1. A \in Seq(Statement) /\ L \in Seq(Statement)
            BY <1>2, <1>3
        <3>2. /\ A \o L \in Seq(Statement)
              /\ \A i \in DOMAIN (A \o L) :
                    /\ i \in Nat
                    /\ \/ i \in DOMAIN A /\ (A \o L)[i] = A[i]
                       \/ /\ i - Len(A) \in DOMAIN L /\ (A \o L)[i] = L[i - Len(A)]
                          /\ i > Len(A)
            BY <3>1, Joined
        <3> QED BY <3>2
    <2>2. Len(AL) = Len(A) + Len(L)
        BY <1>2, <1>3, ConcatProperties
    <2> HIDE DEF AL
    <2> QED BY <1>2, <1>3, <2>1, <2>2
<1> HIDE DEF AL
<1>9. \A i \in DOMAIN q :
          /\ i \in Nat
          /\ \/ i \in DOMAIN AL /\ q[i] = AL[i]
             \/ /\ i - Len(AL) \in DOMAIN C /\ q[i] = C[i - Len(AL)]
                /\ i > Len(AL) /\ DOMAIN AL = 1..Len(AL)
    BY <1>4, <1>5, <1>8, Joined
<1>10. Converts(f)
    <2> SUFFICES ASSUME ~Converts(f) PROVE FALSE
        OBVIOUS
    <2>1. DOMAIN C = {}
        BY DEF C, If
    <2>2. n \in DOMAIN AL /\ q[n] = AL[n]
        BY <1>9, <2>1
    <2> QED BY <1>2, <1>8, <2>2
<1>11. Len(AL) = 1 /\ DOMAIN AL = 1..1
    BY <1>6, <1>7, <1>8, <1>10, LenProperties
<1>12. /\ 1 \in DOMAIN C => C[1].op = "GetNextInvoiceNumber" /\ C[1].on = f.company
       /\ 2 \in DOMAIN C => C[2].op = "InvoiceSave"
       /\ \A i \in DOMAIN C : i \in Nat /\ (i \in {1, 2} \/ C[i].op = "RowAdd")
    <2> DEFINE G == << Do("GetNextInvoiceNumber", f.company) >>
               I == InvoiceSaveStmt
               R == [i \in 1..Len(copied) |->
                        Do("RowAdd", [kind |-> rws[copied[i]].kind, text |-> rws[copied[i]].text])]
               GI == G \o I
               S == Statement \cup {R[i] : i \in DOMAIN R}
    <2>1. GI \in Seq(S) /\ Len(GI) = 2 /\ GI[1] = G[1] /\ GI[2] = I[1]
        <3>1. G[1] \in Statement /\ I[1] \in Statement
            BY DoType DEF InvoiceSaveStmt, FlagForm
        <3>2. G = << G[1] >> /\ I \in Seq(S) /\ Len(I) = 1
            BY <3>1 DEF InvoiceSaveStmt
        <3> HIDE DEF G, I, S
        <3>3. << G[1] >> \o I \in Seq(S)
            <4>1. G[1] \in S /\ I \in Seq(S)
                BY <3>1, <3>2 DEF S
            <4> QED BY <4>1, Prepended
        <3>4. ASSUME NEW d \in S, NEW p \in Seq(S), Len(p) = 1
              PROVE  Len(<< d >> \o p) = 2 /\ (<< d >> \o p)[1] = d /\ (<< d >> \o p)[2] = p[1]
            <4>1. /\ Len(<< d >> \o p) = Len(p) + 1 /\ (<< d >> \o p)[1] = d
                  /\ \A i \in 1..Len(p) : (<< d >> \o p)[i + 1] = p[i]
                OBVIOUS
            <4>2. 1 \in 1..Len(p) /\ 1 + 1 = 2 /\ Len(p) + 1 = 2
                BY <3>4
            <4> QED BY <4>1, <4>2, Zenon
        <3>5. G[1] \in S
            BY <3>1 DEF S
        <3>6. GI = << G[1] >> \o I
            BY <3>2
        <3> QED BY <3>2, <3>3, <3>4, <3>5, <3>6
    <2>2. R \in Seq(S) /\ \A i \in DOMAIN R : R[i].op = "RowAdd"
        <3>1. copied \in Seq(Present(rws))
            BY PresentFinite, OrdersType
        <3>2. Len(copied) \in Nat
            BY <3>1, LenProperties
        <3>3. R \in [1..Len(copied) -> S]
            OBVIOUS
        <3>4. \A i \in DOMAIN R : R[i].op = "RowAdd"
            BY DEF Do
        <3> HIDE DEF R, S
        <3> QED BY <3>2, <3>3, <3>4, FunctionIsSeq
    <2>3. C = GI \o R
        BY <1>10 DEF C, If, Conversion
    <2>4. G[1].op = "GetNextInvoiceNumber" /\ G[1].on = f.company /\ I[1].op = "InvoiceSave"
        BY DEF Do, InvoiceSaveStmt
    <2> HIDE DEF G, I, R, GI, S
    <2>5. \A i \in DOMAIN C :
              /\ i \in Nat
              /\ \/ i \in DOMAIN GI /\ C[i] = GI[i]
                 \/ i - Len(GI) \in DOMAIN R /\ C[i] = R[i - Len(GI)] /\ i > Len(GI)
        <3>1. GI \in Seq(S) /\ R \in Seq(S)
            BY <2>1, <2>2
        <3>2. \A i \in DOMAIN (GI \o R) :
                 /\ i \in Nat
                 /\ \/ i \in DOMAIN GI /\ (GI \o R)[i] = GI[i]
                    \/ /\ i - Len(GI) \in DOMAIN R /\ (GI \o R)[i] = R[i - Len(GI)]
                       /\ i > Len(GI)
            BY <3>1, Joined
        <3> QED BY <2>3, <3>2
    <2>6. DOMAIN GI = 1..2
        BY <2>1, LenProperties
    <2> QED BY <2>1, <2>2, <2>4, <2>5, <2>6
<1>13. \A i \in DOMAIN q :
          /\ i \in Nat
          /\ \/ i = 1 /\ q[i].op = "InvoiceSave"
             \/ i = 2 /\ q[i].op = "GetNextInvoiceNumber" /\ q[i].on = f.company
             \/ i = 3 /\ q[i].op = "InvoiceSave"
             \/ i > 3 /\ q[i].op = "RowAdd"
    <2> TAKE i \in DOMAIN q
    <2>1. CASE i \in DOMAIN AL /\ q[i] = AL[i]
        BY <1>2, <1>6, <1>7, <1>8, <1>10, <1>11, <2>1
    <2>2. CASE i - 1 \in DOMAIN C /\ q[i] = C[i - 1] /\ i > 1
        BY <1>9, <1>12, <2>2
    <2> QED BY <1>9, <1>11, <2>1, <2>2
<1> QED BY <1>10, <1>13 DEF Converts

-----------------------------------------------------------------------------
(* What a request has in hand after its own statements. *)

LEMMA PlainlyBooked ==
    ASSUME NEW r \in Requests,
           \A n \in DOMAIN script'[r] :
              script'[r][n].op \notin {"InvoiceSave", "GetNextInvoiceNumber", "InvoiceRows",
                                       "RUTList", "RUTCreate"}
    PROVE  Booked(r)'
BY DEF Booked, KindRead, AsksForInvoice, AsksAt, Converting, Inserting

LEMMA FillingBooked ==
    ASSUME NEW r \in Requests, FillsOnly(script[r])'
    PROVE  Booked(r)'
BY PlainlyBooked DEF FillsOnly, Filling

LEMMA RutBooked ==
    ASSUME NEW r \in Requests, IsRut(form[r])', Prepared(r)', AsksAt(r)' = {}
    PROVE  Booked(r)'
<1>1. form'[r].op \in {"rut_flag", "rut_post"}
    BY DEF IsRut
<1>2. \A n \in DOMAIN script'[r] :
         script'[r][n].op \notin {"InvoiceSave", "GetNextInvoiceNumber"}
    BY DEF Prepared, Uses
<1> QED BY <1>1, <1>2 DEF Booked, KindRead, AsksForInvoice, Converting, Inserting

(* Who has a document on the way only fills it. *)
LEMMA OwnDocument ==
    ASSUME Invariant, BooksKept, NEW r \in Requests, NEW i \in Invoices,
           Unissued(i), invoice[i].by = r
    PROVE  /\ id[r] = i /\ FillsOnly(script[r])
           /\ script[r] # << >> => /\ Head(script[r]).op \in Filling
                                   /\ FillsOnly(Tail(script[r]))
<1>1. id[r] = i /\ FillsOnly(script[r])
    BY DEF BooksKept, NewDocument
<1>2. ASSUME script[r] # << >>
      PROVE  Head(script[r]).op \in Filling /\ FillsOnly(Tail(script[r]))
    BY <1>1, <1>2, Parts, ScriptParts DEF FillsOnly
<1> QED BY <1>1, <1>2

LEMMA RowsBooked ==
    ASSUME Invariant, OwnBooks, BooksKept, NEW r \in Requests, InvoiceRows(r), ~Fail(r)
    PROVE  Booked(r)'
<1> DEFINE f == form[r]
           read == RowsOf(r)
<1>1. f \in Forms /\ inv[r] \in LocalInvoice /\ read \in LocalRows /\ UNCHANGED << id, invoice, form >>
    BY Parts, RowsOfType, InHandAfterRows, ListFrame DEF Alone, tables
<1>2. \A q : ContinueWith(r, q) => script'[r] = q
    BY Parts DEF ContinueWith, TypeOK, ServingOK
<1>3. \/ /\ f.op = "flag" /\ ValidFlag(f)
         /\ inv' = [inv EXCEPT ![r] = Flagged(f, @)]
         /\ \E q \in FlagScripts(f, inv[r], read) : ContinueWith(r, q)
      \/ f.op = "post" /\ \E q \in PostScripts(f, inv[r], read) : ContinueWith(r, q)
      \/ f.op = "attach" /\ ContinueWith(r, FileScript(f))
      \/ f.op = "rut_flag" /\ \E q \in RutSaveScripts(f, read) : ContinueWith(r, q)
      \/ f.op = "rut_post" /\ \E q \in RutPostScripts(f, rut[r], HoursPosted(f, read)) :
                                 ContinueWith(r, q)
    BY DEF InvoiceRows
<1>4. script[r] # << >> /\ Head(script[r]).op = "InvoiceRows"
    BY DEF InvoiceRows, Runs, At
<1>5. 1 \in DOMAIN script[r] /\ script[r][1].op = "InvoiceRows"
    BY <1>4, Parts, ScriptParts
<1>6. id'[r] # NULL
    BY <1>1, <1>5, Parts, EntitiesAssumption DEF OwnInvariant, Found, Reached
<1>7. ASSUME f.op = "flag", ValidFlag(f), inv' = [inv EXCEPT ![r] = Flagged(f, @)],
             NEW q \in FlagScripts(f, inv[r], read), ContinueWith(r, q)
      PROVE  Booked(r)'
    <2>1. f \in FlagForm /\ script'[r] = q /\ inv'[r] = Flagged(f, inv[r])
        BY <1>1, <1>2, <1>7, FormType, Parts DEF TypeOK, HandOK
    <2>2. OfKind(r) /\ OfKind(r)'
        <3>1. OfKind(r)
            BY <1>5, <1>7 DEF BooksKept, Booked, KindRead
        <3>2. Sees(invoice', r) = Sees(invoice, r)
            BY <1>1
        <3> QED BY <1>1, <3>1, <3>2 DEF OfKind, Reached
    <2>3. KindRead(r)'
        BY <2>2 DEF KindRead
    <2>4. AsksForInvoice(r)'
        <3>1. PICK m \in Nat :
                 /\ 2..m \subseteq DOMAIN q
                 /\ \A n \in 2..m : q[n].op = "RUTList"
                 /\ \A n \in DOMAIN q \ 2..m :
                       q[n].op \notin {"RUTList", "RUTCreate", "InvoiceRows"}
                 /\ 2..m # {} => /\ DOMAIN q = 1..m
                                 /\ f.flag = "paid" /\ ~f.revoke /\ inv[r].rut_applicable
            BY <1>1, <2>1, FlagShape
        <3>2. AsksAt(r)' # {} => f.flag = "paid"
            BY <2>1, <3>1 DEF AsksAt
        <3>3. f.flag = "paid" => ~f.is_offer
            BY <1>7 DEF ValidFlag, OfferFlags
        <3> QED BY <1>1, <1>7, <3>2, <3>3 DEF AsksForInvoice
    <2>5. Converting(r)'
        <3> SUFFICES ASSUME NEW n \in DOMAIN q, q[n].op = "GetNextInvoiceNumber"
                     PROVE  /\ q[n].on = f.company
                            /\ Accepting(r, n)'
            BY <1>1, <1>7, <2>1 DEF Converting
        <3>1. /\ n = 2 /\ q[n].on = f.company /\ f.flag = "accepted"
              /\ \A m \in DOMAIN q : /\ m < n => m = 1 /\ q[m].op = "InvoiceSave"
                                     /\ m > n => \/ m = n + 1 /\ q[m].op = "InvoiceSave"
                                                 \/ q[m].op = "RowAdd"
            BY <1>1, <2>1, ConvertingShape
        <3>2. f.is_offer
            BY <1>7, <3>1 DEF ValidFlag, InvoiceFlags
        <3>3. inv'[r].status = StatusAccepted /\ inv'[r].company = inv[r].company
            BY <1>1, <2>1, <3>1 DEF Flagged, OfferFlags, StatusOf, LocalInvoice
        <3>4. Ready(r)'
            <4>1. Ready(r)
                BY <1>4, <1>7, HeadPrepared DEF IsRut
            <4>2. Sees(invoice', r) = Sees(invoice, r)
                BY <1>1
            <4>3. form'[r] = form[r] /\ id'[r] = id[r] /\ inv'[r].company = inv[r].company
                BY <1>1, <3>3
            <4>4. Reached(r)' <=> Reached(r)
                BY <4>2, <4>3 DEF Reached
            <4> QED BY <4>1, <4>2, <4>3, <4>4 DEF Ready
        <3>5. form'[r].is_offer /\ script'[r] = q /\ n # 1
            BY <1>1, <2>1, <3>1, <3>2
        <3>6. Accepting(r, n)'
            <4>1. \A m \in DOMAIN script'[r] :
                     /\ m < n => m = 1 /\ n = 2 /\ script'[r][m].op = "InvoiceSave"
                     /\ m > n => \/ m = n + 1 /\ script'[r][m].op = "InvoiceSave"
                                 \/ script'[r][m].op = "RowAdd"
                <5>1. script'[r] = q
                    BY <3>5
                <5>2. n = 2 /\ \A m \in DOMAIN q :
                                   /\ m < n => m = 1 /\ q[m].op = "InvoiceSave"
                                   /\ m > n => \/ m = n + 1 /\ q[m].op = "InvoiceSave"
                                               \/ q[m].op = "RowAdd"
                    BY <3>1
                <5> QED BY <5>1, <5>2
            <4> QED BY <3>3, <3>4, <3>5, <4>1 DEF Accepting
        <3> QED BY <3>1, <3>6
    <2>6. Inserting(r)'
        BY <1>6 DEF Inserting
    <2> QED BY <2>3, <2>4, <2>5, <2>6 DEF Booked
<1>8. CASE f.op = "post" /\ \E q \in PostScripts(f, inv[r], read) : ContinueWith(r, q)
    <2>1. PICK q \in PostScripts(f, inv[r], read) : script'[r] = q
        BY <1>2, <1>8
    <2>2. Posting(q)
        BY <1>1, <1>8, <2>1, FormType, PostShape
    <2>3. \A n \in DOMAIN q : q[n].op \notin {"GetNextInvoiceNumber", "RUTList", "RUTCreate"}
        BY <2>2 DEF Posting, Choosing, Filling
    <2> QED BY <1>1, <1>6, <1>8, <2>1, <2>3
            DEF Booked, KindRead, AsksForInvoice, AsksAt, Converting, Inserting
<1>9. CASE f.op = "attach" /\ ContinueWith(r, FileScript(f))
    <2>1. f.attach \in Nat
        BY <1>1, <1>9, FormType DEF AttachForm
    <2> QED BY <1>2, <1>9, <2>1, FilesFill, FillingBooked
<1>10. ASSUME script'[r] \in Seq(RutHandled) PROVE Booked(r)'
    <2>1. \A n \in DOMAIN script'[r] : script'[r][n].op \in {"RUTSave", "RowUpdate"}
        BY <1>10, LenProperties, ElementOfSeq DEF RutHandled
    <2> QED BY <2>1, PlainlyBooked
<1>11. CASE f.op = "rut_flag" /\ \E q \in RutSaveScripts(f, read) : ContinueWith(r, q)
    BY <1>1, <1>2, <1>10, <1>11, FormType, RutSaveScriptsType
<1>12. CASE f.op = "rut_post" /\ \E q \in RutPostScripts(f, rut[r], HoursPosted(f, read)) :
                                    ContinueWith(r, q)
    BY <1>1, <1>2, <1>10, <1>12, FormType, HoursPostedType, RutPostScriptsType
<1> QED BY <1>3, <1>7, <1>8, <1>9, <1>11, <1>12

(* The rest of a script, perhaps after one more statement. *)
Reduced(r) ==
    \/ script'[r] = Tail(script[r])
    \/ \E d \in Statement :
          /\ script'[r] = << d >> \o Tail(script[r])
          /\ \/ d.op \in Filling /\ Head(script[r]).op \in Filling
             \/ d.op = "RUTCreate" /\ Head(script[r]).op = "RUTList"

LEMMA ReducedParts ==
    ASSUME TypeOK, NEW r \in Requests, script[r] # << >>, Reduced(r)
    PROVE  /\ \E s \in {0, 1} :
                 \A n \in DOMAIN script'[r] :
                    /\ n \in Nat \ {0}
                    /\ \/ /\ n + s \in DOMAIN script[r] /\ script'[r][n] = script[r][n + s]
                          /\ n + s # 1
                       \/ n = 1 /\ s = 0
                          /\ \/ script'[r][n].op \in Filling /\ script[r][1].op \in Filling
                             \/ /\ script'[r][n].op = "RUTCreate"
                                /\ script[r][1].op = "RUTList"
           /\ 1 \in DOMAIN script[r] /\ script[r][1] = Head(script[r])
<1> DEFINE q == Tail(script[r])
<1>1. /\ 1 \in DOMAIN script[r] /\ script[r][1] = Head(script[r]) /\ q \in Seq(Statement)
      /\ \A n \in DOMAIN q : /\ n \in Nat \ {0} /\ n + 1 \in DOMAIN script[r]
                             /\ q[n] = script[r][n + 1]
    BY ScriptParts
<1> HIDE DEF q
<1>2. ASSUME script'[r] = q
      PROVE  \A n \in DOMAIN script'[r] :
                /\ n \in Nat \ {0}
                /\ n + 1 \in DOMAIN script[r] /\ script'[r][n] = script[r][n + 1] /\ n + 1 # 1
    BY <1>1, <1>2
<1>3. ASSUME NEW d \in Statement, script'[r] = << d >> \o q
      PROVE  \A n \in DOMAIN script'[r] :
                /\ n \in Nat \ {0}
                /\ \/ n = 1 /\ script'[r][n] = d
                   \/ n # 1 /\ n \in DOMAIN script[r] /\ script'[r][n] = script[r][n]
    <2> DEFINE p == << d >> \o q
    <2>1. \A n \in DOMAIN p : \/ n = 1 /\ p[n] = d
                              \/ n - 1 \in DOMAIN q /\ p[n] = q[n - 1]
        BY <1>1, Prepended
    <2>2. p \in Seq(Statement) /\ DOMAIN p \subseteq Nat \ {0}
        BY <1>1, Prepended, LenProperties
    <2> HIDE DEF p
    <2>3. ASSUME NEW n \in DOMAIN p, n # 1 PROVE n \in DOMAIN script[r] /\ p[n] = script[r][n]
        <3>1. n - 1 \in DOMAIN q /\ p[n] = q[n - 1] /\ n \in Nat
            BY <2>1, <2>2, <2>3
        <3>2. (n - 1) + 1 = n
            BY <3>1
        <3> QED BY <1>1, <3>1, <3>2
    <2> QED BY <1>3, <2>1, <2>2, <2>3 DEF p
<1>4. CASE script'[r] = q
    BY <1>1, <1>2, <1>4
<1>5. ASSUME NEW d \in Statement, script'[r] = << d >> \o q,
             \/ d.op \in Filling /\ Head(script[r]).op \in Filling
             \/ d.op = "RUTCreate" /\ Head(script[r]).op = "RUTList"
      PROVE  \A n \in DOMAIN script'[r] :
                /\ n \in Nat \ {0}
                /\ \/ /\ n + 0 \in DOMAIN script[r] /\ script'[r][n] = script[r][n + 0]
                      /\ n + 0 # 1
                   \/ n = 1 /\ \/ script'[r][n].op \in Filling /\ script[r][1].op \in Filling
                               \/ /\ script'[r][n].op = "RUTCreate"
                                  /\ script[r][1].op = "RUTList"
    BY <1>1, <1>3, <1>5
<1> QED BY <1>1, <1>4, <1>5 DEF Reduced, q

LEMMA TailBooked ==
    ASSUME Invariant, BooksKept, NEW r \in Requests, script[r] # << >>, Reduced(r),
           Head(script[r]).op \notin {"InvoiceSave", "GetNextInvoiceNumber", "InvoiceList"},
           UNCHANGED << form, invoice >>, id'[r] = id[r],
           inv'[r].number = inv[r].number, inv'[r].company = inv[r].company,
           inv'[r].offer_id = inv[r].offer_id
    PROVE  Booked(r)'
<1> DEFINE p == script'[r]
<1>1. PICK s \in {0, 1} :
         \A n \in DOMAIN p :
            /\ n \in Nat \ {0}
            /\ \/ n + s \in DOMAIN script[r] /\ p[n] = script[r][n + s] /\ n + s # 1
               \/ n = 1 /\ s = 0
                  /\ \/ p[n].op \in Filling /\ script[r][1].op \in Filling
                     \/ p[n].op = "RUTCreate" /\ script[r][1].op = "RUTList"
    BY Parts, ReducedParts
<1>2. 1 \in DOMAIN script[r] /\ script[r][1] = Head(script[r])
    BY Parts, ScriptParts
<1>3. Booked(r) /\ OwnInvariant(r)
    BY Parts DEF BooksKept
<1>4. OfKind(r)' <=> OfKind(r)
    <2>1. Sees(invoice', r) = Sees(invoice, r)
        OBVIOUS
    <2> QED BY <2>1 DEF OfKind, Reached
<1>5. KindRead(r)'
    <2> SUFFICES ASSUME NEW n \in DOMAIN p, form[r].op = "flag",
                        \/ n = 1 /\ p[n].op = "InvoiceRows"
                        \/ p[n].op \in {"RUTList", "RUTCreate", "GetNextInvoiceNumber"}
                 PROVE  OfKind(r)
        BY <1>4 DEF KindRead
    <2>1. CASE n + s \in DOMAIN script[r] /\ p[n] = script[r][n + s] /\ n + s # 1
        <3>1. p[n].op = "InvoiceRows" /\ n = 1 => script[r][1].op = "InvoiceList"
            <4> SUFFICES ASSUME p[n].op = "InvoiceRows", n = 1
                         PROVE  script[r][1].op = "InvoiceList"
                OBVIOUS
            <4>1. n + s = 2 /\ 2 - 1 = 1
                BY <2>1
            <4> QED BY <1>3, <2>1, <4>1 DEF OwnInvariant, Found
        <3>2. p[n].op \in {"RUTList", "RUTCreate", "GetNextInvoiceNumber"}
            BY <1>2, <3>1
        <3> QED BY <1>3, <2>1, <3>2 DEF Booked, KindRead
    <2>2. CASE /\ n = 1 /\ s = 0
               /\ \/ p[n].op \in Filling /\ script[r][1].op \in Filling
                  \/ p[n].op = "RUTCreate" /\ script[r][1].op = "RUTList"
        BY <1>2, <1>3, <2>2 DEF Filling, Booked, KindRead
    <2> QED BY <1>1, <2>1, <2>2
<1>6. AsksForInvoice(r)'
    <2> SUFFICES ASSUME NEW n \in DOMAIN p, p[n].op \in {"RUTList", "RUTCreate"}
                 PROVE  AsksAt(r) # {}
        BY <1>3 DEF AsksForInvoice, AsksAt, Booked
    <2>1. CASE n + s \in DOMAIN script[r] /\ p[n] = script[r][n + s] /\ n + s # 1
        BY <2>1 DEF AsksAt
    <2>2. CASE script[r][1].op = "RUTList"
        BY <1>2, <2>2 DEF AsksAt
    <2> QED BY <1>1, <2>1, <2>2 DEF Filling
<1>7. Converting(r)'
    <2> SUFFICES ASSUME NEW n \in DOMAIN p, p[n].op = "GetNextInvoiceNumber"
                 PROVE  /\ p[n].on = form[r].company
                        /\ form[r].op = "post" => id[r] = NULL
                        /\ form[r].op # "flag"
        BY DEF Converting
    <2>1. n + s \in DOMAIN script[r] /\ p[n] = script[r][n + s] /\ n + s # 1 /\ n + s \in Nat
        BY <1>1 DEF Filling
    <2>2. /\ p[n].on = form[r].company
          /\ form[r].op = "post" => id[r] = NULL
          /\ form[r].op = "flag" => Accepting(r, n + s)
        BY <1>3, <2>1 DEF Booked, Converting
    <2>3. Accepting(r, n + s) => script[r][1].op = "InvoiceSave"
        <3>1. 1 < n + s
            BY <1>1, <2>1
        <3> QED BY <1>2, <3>1 DEF Accepting
    <2> QED BY <1>2, <2>2, <2>3
<1>8. Inserting(r)'
    <2> SUFFICES ASSUME id[r] = NULL, NEW n \in DOMAIN p, p[n].op = "InvoiceSave"
                 PROVE  /\ InsertsOnce(p) /\ NumberRead(inv[r].company, inv[r].number)'
                        /\ FromOffer(r, inv[r])' /\ inv'[r].offer_id = NULL
        BY DEF Inserting
    <2>1. n + s \in DOMAIN script[r] /\ p[n] = script[r][n + s] /\ n + s # 1 /\ n + s \in Nat /\ n \in Nat
        BY <1>1 DEF Filling
    <2>2. /\ InsertsOnce(script[r]) /\ NumberRead(inv[r].company, inv[r].number)
          /\ inv[r].offer_id = NULL
        BY <1>3, <2>1 DEF Booked, Inserting, At
    <2>3. NumberRead(inv[r].company, inv[r].number)'
        <3>1. NumbersStay
            BY DocumentsKept DEF BooksKept, KeepsDocuments
        <3>2. PICK c, m : c = inv[r].company /\ m = inv[r].number
            OBVIOUS
        <3>3. NumberRead(c, m)'
            BY <2>2, <3>1, <3>2 DEF NumbersStay
        <3>4. inv'[r].company = c /\ inv'[r].number = m
            BY <3>2
        <3> QED BY <3>3, <3>4
    <2>4. script[r][1].op \in Choosing
        <3>1. 1 < n + s
            BY <1>1, <2>1
        <3> QED BY <1>2, <2>1, <2>2, <3>1 DEF InsertsOnce
    <2>5. \A m \in DOMAIN p : /\ m + s \in DOMAIN script[r] /\ p[m] = script[r][m + s]
                              /\ m \in Nat
        BY <1>1, <2>4 DEF Choosing, Filling
    <2>6. InsertsOnce(p)
        <3> SUFFICES ASSUME NEW k \in DOMAIN p, p[k].op = "InvoiceSave", NEW m \in DOMAIN p
                     PROVE  (m < k => p[m].op \in Choosing) /\ (m > k => p[m].op \in Filling)
            BY DEF InsertsOnce
        <3>1. (m < k <=> m + s < k + s) /\ (m > k <=> m + s > k + s)
            BY <2>5
        <3> QED BY <2>2, <2>5, <3>1 DEF InsertsOnce
    <2> QED BY <2>2, <2>3, <2>6 DEF FromOffer
<1> QED BY <1>5, <1>6, <1>7, <1>8 DEF Booked

(* A statement that writes neither invoices nor requests to the agency. *)
LEMMA ReducedIsKept ==
    ASSUME Invariant, BooksKept, NEW r \in Requests, Alone(r), script[r] # << >>, Reduced(r),
           Head(script[r]).op \notin {"InvoiceSave", "GetNextInvoiceNumber", "InvoiceList"},
           UNCHANGED invoice, id'[r] = id[r], NewOnesStay,
           inv'[r].number = inv[r].number, inv'[r].company = inv[r].company,
           inv'[r].offer_id = inv[r].offer_id
    PROVE  BooksKept'
<1>1. Booked(r)'
    BY TailBooked DEF Alone
<1>2. KeepsDocuments(r)
    BY DEF KeepsDocuments
<1>3. ASSUME NEW i \in Invoices, Unissued(i), invoice[i].by = r
      PROVE  FillsOnly(script'[r]) /\ Active(r)'
    <2>1. Head(script[r]).op \in Filling /\ FillsOnly(script[r])
        BY <1>3, OwnDocument
    <2>2. \A n \in DOMAIN script'[r] : script'[r][n].op \in Filling
        BY <2>1, Parts, ReducedParts DEF FillsOnly, Filling
    <2>3. Active(r)'
        BY Parts DEF Alone, Active, IdleHasNoScript
    <2> QED BY <2>2, <2>3 DEF FillsOnly
<1>4. \A k \in RutIds : NewRequest(k)'
    BY NewRequestsStay DEF BooksKept, Alone
<1>5. \A s \in Requests \ {r} : SameRequest(s)
    BY DEF Alone, SameRequest
<1> QED BY <1>1, <1>2, <1>3, <1>4, <1>5, StatementBooked

(* Who does not ask has made no request in this transaction. *)
LEMMA NoneNew ==
    ASSUME Invariant, PaymentsBacked, NEW r \in Requests, script[r] # << >>,
           Head(script[r]).op \notin {"RUTList", "RUTCreate"},
           NEW k \in RutIds, IsNew(k)
    PROVE  rut_requests[k].by # r
<1>1. 1 \in DOMAIN script[r] /\ script[r][1] = Head(script[r])
    BY Parts, ScriptParts
<1> QED BY <1>1 DEF PaymentsBacked, BackedWhenNew, AsksOnly, AsksAt

(* A statement that is neither a question nor fills the document in hand.  *)
LEMMA PrivateIsKept ==
    ASSUME Invariant, BooksKept, PaymentsBacked, NEW r \in Requests, Alone(r),
           script[r] # << >>,
           Head(script[r]).op \notin Filling \cup {"RUTList", "RUTCreate"},
           KeepsDocuments(r), UNCHANGED rut_requests, Booked(r)'
    PROVE  BooksKept'
<1>1. ASSUME NEW i \in Invoices, Unissued(i), invoice[i].by = r PROVE FALSE
    BY <1>1, OwnDocument
<1>2. \A s \in Requests \ {r} : SameRequest(s)
    BY DEF Alone, SameRequest
<1>3. \A i \in Invoices : Live(invoice[i].val) =>
         Live(invoice'[i].val) /\ invoice'[i].val.is_offer = invoice[i].val.is_offer
    BY DocumentsKept DEF BooksKept
<1>4. \A k \in RutIds : NewRequest(k)'
    <2>1. NewOnesStay
        BY DEF NewOnesStay
    <2> QED BY <1>3, <2>1, NoneNew, NewRequestsStay DEF BooksKept, Alone
<1> QED BY <1>1, <1>2, <1>4, StatementBooked

LEMMA SideIsKept ==
    ASSUME Invariant, OwnBooks, BooksKept, PaymentsBacked, NEW r \in Requests, ~Fail(r),
           \/ InvoiceRowAdd(r) \/ InvoiceRowRemove(r) \/ InvoiceRowUpdate(r)
           \/ FileAdd(r) \/ AttachmentAdd(r) \/ AttachmentRemove(r) \/ FileRemove(r)
           \/ RUTList(r) \/ RUTSave(r)
    PROVE  BooksKept'
<1>1. Alone(r) /\ UNCHANGED << invoice, inv >>
    BY Parts, SideFrame DEF Side
<1>2. /\ script[r] # << >>
      /\ Head(script[r]).op \notin {"InvoiceSave", "GetNextInvoiceNumber", "InvoiceList"}
    BY DEF InvoiceRowAdd, InvoiceRowRemove, InvoiceRowUpdate, FileAdd, AttachmentAdd,
        AttachmentRemove, FileRemove, RUTList, RUTSave, Runs, At
<1>3. UNCHANGED id
    BY DEF InvoiceRowAdd, InvoiceRowRemove, InvoiceRowUpdate, FileAdd, AttachmentAdd,
        AttachmentRemove, FileRemove, RUTList, RUTSave, WriteRow, WriteRequest, MatchesNothing,
        hand
<1>4. ASSUME Reduced(r), NewOnesStay PROVE BooksKept'
    BY <1>1, <1>2, <1>3, <1>4, ReducedIsKept
<1>5. Continue(r) => Reduced(r)
    BY Parts DEF Continue, TypeOK, ServingOK, Reduced
<1>6. \A q : ContinueWith(r, q) => script'[r] = q
    BY Parts DEF ContinueWith, TypeOK, ServingOK
<1>7. UNCHANGED rut_requests => NewOnesStay
    BY <1>1, NothingStored
<1>8. CASE RUTSave(r)
    <2>1. NewOnesStay /\ Continue(r)
        BY <1>8, Parts, RUTSaveSaves, RequestSaved DEF Invariant, AskInvariant
    <2> QED BY <1>4, <1>5, <2>1
<1>9. CASE RUTList(r)
    <2>1. UNCHANGED rut_requests /\ Head(script[r]).op = "RUTList"
        BY <1>9 DEF RUTList, tables, Runs, At
    <2>2. \/ Continue(r)
          \/ ContinueWith(r, << Do("RUTCreate", Arg(r)) >> \o Tail(script[r]))
        BY <1>9 DEF RUTList
    <2>3. Do("RUTCreate", Arg(r)) \in Statement /\ Do("RUTCreate", Arg(r)).op = "RUTCreate"
        BY <1>2, <2>1, Parts, Served, StatementArgument, DoType DEF Arg, Do
    <2>4. ASSUME ContinueWith(r, << Do("RUTCreate", Arg(r)) >> \o Tail(script[r]))
          PROVE  Reduced(r)
        BY <1>6, <2>1, <2>3, <2>4 DEF Reduced
    <2> QED BY <1>4, <1>5, <1>7, <2>1, <2>2, <2>4
<1>10. CASE InvoiceRowAdd(r) \/ InvoiceRowRemove(r) \/ InvoiceRowUpdate(r)
            \/ AttachmentAdd(r) \/ FileRemove(r)
    <2>1. Continue(r) /\ UNCHANGED rut_requests
        BY <1>10 DEF InvoiceRowAdd, InvoiceRowRemove, InvoiceRowUpdate, AttachmentAdd, FileRemove,
            WriteRow, MatchesNothing, tables
    <2> QED BY <1>4, <1>5, <1>7, <2>1
<1>11. CASE FileAdd(r)
    <2>1. PICK k \in Files : ContinueWith(r, << Do("AttachmentAdd", k) >> \o Tail(script[r]))
        BY <1>11, Parts DEF FileAdd, FreshIds, TypeOK, TablesOK
    <2>2. UNCHANGED rut_requests /\ Head(script[r]).op = "FileAdd"
        BY <1>11 DEF FileAdd, Runs, At
    <2>3. Do("AttachmentAdd", k) \in Statement /\ Do("AttachmentAdd", k).op = "AttachmentAdd"
        BY DoType DEF Do
    <2>4. Reduced(r)
        BY <1>6, <2>1, <2>2, <2>3 DEF Reduced, Filling
    <2> QED BY <1>4, <1>7, <2>2, <2>4
<1>12. CASE AttachmentRemove(r)
    <2>1. /\ ContinueWith(r, << Do("FileRemove", Arg(r)) >> \o Tail(script[r]))
          /\ UNCHANGED rut_requests /\ Head(script[r]).op = "AttachmentRemove"
        BY <1>12 DEF AttachmentRemove, Runs, At
    <2>2. Do("FileRemove", Arg(r)) \in Statement /\ Do("FileRemove", Arg(r)).op = "FileRemove"
        BY <1>2, <2>1, Parts, Served, StatementArgument, DoType DEF Arg, Do
    <2>3. Reduced(r)
        BY <1>6, <2>1, <2>2 DEF Reduced, Filling
    <2> QED BY <1>4, <1>7, <2>1, <2>3
<1> QED BY <1>8, <1>9, <1>10, <1>11, <1>12

LEMMA CustomerIsKept ==
    ASSUME Invariant, BooksKept, NEW r \in Requests, ~Fail(r),
           CustomerList(r) \/ CustomerUpdate(r) \/ CustomerInsert(r)
    PROVE  BooksKept'
<1>1. Alone(r) /\ Continue(r) /\ UNCHANGED << invoice, rut_requests, id >>
    BY Parts, ListFrame, SaveFrame
       DEF CustomerList, CustomerUpdate, CustomerInsert, tables, hand
<1>2. /\ script[r] # << >>
      /\ Head(script[r]).op \notin {"InvoiceSave", "GetNextInvoiceNumber", "InvoiceList"}
    BY DEF CustomerList, CustomerUpdate, CustomerInsert, Runs, At
<1>3. \/ inv'[r] = inv[r]
      \/ \E k : inv'[r] = [inv[r] EXCEPT !.customer = k]
    BY Parts DEF CustomerList, CustomerUpdate, CustomerInsert, hand, TypeOK, HandOK
<1>4. /\ inv'[r].number = inv[r].number /\ inv'[r].company = inv[r].company
      /\ inv'[r].offer_id = inv[r].offer_id
    BY <1>3, Parts DEF TypeOK, HandOK, LocalInvoice
<1>5. Reduced(r)
    BY <1>1, Parts DEF Continue, TypeOK, ServingOK, Reduced
<1>6. NewOnesStay
    BY <1>1, NothingStored
<1> QED BY <1>1, <1>2, <1>4, <1>5, <1>6, ReducedIsKept

LEMMA RUTGetIsKept ==
    ASSUME Invariant, OwnBooks, BooksKept, PaymentsBacked, NEW r \in Requests, RUTGet(r), ~Fail(r)
    PROVE  BooksKept'
<1>1. Alone(r) /\ UNCHANGED << invoice, rut_requests >> /\ Continue(r)
    BY Parts, SideFrame DEF Side, RUTGet, tables
<1>2. script[r] # << >> /\ Head(script[r]).op = "RUTGet"
    BY DEF RUTGet, Runs, At
<1>3. IsRut(form[r])
    BY <1>2, HeadPrepared
<1>4. AsksAt(r)' = {}
    <2>1. AsksAt(r) = {}
        BY <1>3 DEF BooksKept, Booked, AsksForInvoice, IsRut
    <2>2. script'[r] = Tail(script[r])
        BY <1>1, Parts DEF Continue, TypeOK, ServingOK
    <2> QED BY <1>2, <2>1, <2>2, Parts, ScriptParts DEF AsksAt
<1>5. Prepared(r)'
    BY OwnSide DEF Side, OwnBooks, WellPrepared
<1>6. Booked(r)'
    BY <1>1, <1>3, <1>4, <1>5, RutBooked DEF Alone
<1> QED BY <1>1, <1>2, <1>6, PrivateIsKept DEF KeepsDocuments, Filling

(* Only for a committed invoice that the handler has in hand: it has saved *)
(* it, and has inserted no document of its own.                            *)
LEMMA CreateIsKept ==
    ASSUME Invariant, OwnBooks, BooksKept, PaymentsBacked, NEW r \in Requests,
           RUTCreate(r), ~Fail(r)
    PROVE  BooksKept'
<1>1. Alone(r) /\ UNCHANGED << invoice, inv, id >> /\ Continue(r)
    BY Parts, SideFrame DEF Side, RUTCreate, WriteRequest, hand
<1>2. script[r] # << >> /\ Head(script[r]).op = "RUTCreate"
    BY DEF RUTCreate, Runs, At
<1>3. Reduced(r)
    BY <1>1, Parts DEF Continue, TypeOK, ServingOK, Reduced
<1>4. Booked(r)' /\ KeepsDocuments(r)
    BY <1>1, <1>2, <1>3, TailBooked DEF Alone, KeepsDocuments
<1>5. ASSUME NEW i \in Invoices, Unissued(i), invoice[i].by = r PROVE FALSE
    BY <1>2, <1>5, OwnDocument DEF Filling
<1>6. \A s \in Requests \ {r} : SameRequest(s)
    BY <1>1 DEF Alone, SameRequest
<1>7. PICK k \in FreshIds(rut_requests) :
          \E x : x.invoice = id[r] /\ rut_requests' = Put(rut_requests, r, k, x)
    BY DEF RUTCreate, WriteRequest
<1>8. PICK x : x.invoice = id[r] /\ rut_requests' = Put(rut_requests, r, k, x)
    BY <1>7
<1>9. \A l \in RutIds : IF l = k THEN rut_requests'[l].by = r /\ rut_requests'[l].new = x
                        ELSE rut_requests'[l] = rut_requests[l]
    BY <1>8, Parts DEF FreshIds, Put, TypeOK, TablesOK
<1>10. 1 \in DOMAIN script[r] /\ script[r][1].op = "RUTCreate"
    BY <1>2, Parts, ScriptParts
<1>11. id[r] \in Invoices /\ invoice[id[r]].by = r
    BY <1>2, <1>10, Parts DEF OwnInvariant, Locks, AsksAt, At
<1>12. Live(invoice[id[r]].val) /\ ~invoice[id[r]].val.is_offer
    <2>0. r # NULL
        BY EntitiesAssumption
    <2>1. Live(invoice[id[r]].val)
        <3>1. ~Unissued(id[r])
            BY <1>5, <1>11
        <3> QED BY <1>11, <2>0, <3>1 DEF Unissued
    <2>2. invoice[id[r]].new.is_offer = invoice[id[r]].val.is_offer
        <3>1. Document(invoice[id[r]].new) = Document(invoice[id[r]].val)
            BY <1>11, <2>0, <2>1 DEF BooksKept, DocumentsFixed
        <3> QED BY <3>1 DEF Document
    <2>3. form[r].op = "flag" /\ ~form[r].is_offer
        BY <1>10 DEF BooksKept, Booked, AsksForInvoice, AsksAt
    <2>4. Sees(invoice, r)[id[r]].is_offer = form[r].is_offer
        BY <1>10, <2>3 DEF BooksKept, Booked, KindRead, OfKind
    <2>5. Sees(invoice, r)[id[r]] = invoice[id[r]].new
        BY <1>11, Parts, InvoiceParts DEF Sees
    <2>6. ~invoice[id[r]].val.is_offer
        BY <2>2, <2>3, <2>4, <2>5, Zenon
    <2> QED BY <2>1, <2>6
<1>13. ASSUME NEW l \in RutIds PROVE NewRequest(l)'
    <2>1. CASE l = k
        <3>1. rut_requests'[l].by = r /\ rut_requests'[l].new.invoice = id[r]
            BY <1>8, <1>9, <2>1
        <3>2. /\ id'[rut_requests'[l].by] = id[r]
              /\ invoice'[rut_requests'[l].new.invoice] = invoice[id[r]]
            BY <1>1, <3>1
        <3> QED BY <1>12, <3>1, <3>2 DEF NewRequest
    <2>2. CASE l # k
        <3>1. rut_requests'[l] = rut_requests[l]
            BY <1>9, <2>2
        <3> QED BY <1>1, <3>1 DEF BooksKept, NewRequest, IsNew
    <2> QED BY <2>1, <2>2
<1> QED BY <1>4, <1>5, <1>6, <1>13, StatementBooked

LEMMA ListIsKept ==
    ASSUME Invariant, OwnBooks, BooksKept, PaymentsBacked, NEW r \in Requests,
           InvoiceList(r), ~Fail(r)
    PROVE  BooksKept'
<1> DEFINE x == Sees(invoice, r)[id[r]]
           p == script'[r]
<1>1. /\ script[r] # << >> /\ Head(script[r]).op = "InvoiceList"
      /\ id[r] \in Invoices /\ Visible(r, x) /\ Continue(r) /\ UNCHANGED << tables, id >>
    BY OwnParts DEF InvoiceList, Runs, At
<1>2. Alone(r) /\ UNCHANGED << invoice, rut_requests >>
    BY <1>1, OwnParts, ListFrame DEF tables
<1>3. p = Tail(script[r])
    BY <1>1, OwnParts DEF Continue
<1>4. 1 \in DOMAIN script[r] /\ script[r][1].op = "InvoiceList"
    BY <1>1, Parts, ScriptParts
<1>5. \A n \in DOMAIN p : n \in Nat \ {0} /\ n + 1 \in DOMAIN script[r] /\ p[n] = script[r][n + 1]
    BY <1>1, <1>3, Parts, ScriptParts
<1>6. Booked(r)
    BY DEF BooksKept
<1>7. AsksForInvoice(r)'
    <2> SUFFICES ASSUME NEW n \in DOMAIN p, p[n].op \in {"RUTList", "RUTCreate"}
                 PROVE  AsksAt(r) # {}
        BY <1>2, <1>6 DEF AsksForInvoice, AsksAt, Booked, Alone
    <2> QED BY <1>5 DEF AsksAt
<1>8. KindRead(r)'
    <2>1. form[r].op = "flag" => OfKind(r)'
        <3>1. form[r].op = "flag" => ~IsRut(form[r])
            BY DEF IsRut
        <3>2. Sees(invoice', r) = Sees(invoice, r) /\ id'[r] = id[r] /\ form'[r] = form[r]
            BY <1>1, <1>2 DEF Alone
        <3> QED BY <1>1, <3>1, <3>2 DEF OfKind, Reached, Visible
    <2> QED BY <1>2, <2>1 DEF KindRead, Alone
<1>9. Converting(r)'
    <2> SUFFICES ASSUME NEW n \in DOMAIN p, p[n].op = "GetNextInvoiceNumber"
                 PROVE  /\ p[n].on = form[r].company
                        /\ form[r].op = "post" => id[r] = NULL
                        /\ form[r].op # "flag"
        BY <1>1, <1>2 DEF Converting, Alone
    <2>1. /\ p[n].on = form[r].company
          /\ form[r].op = "post" => id[r] = NULL
          /\ form[r].op = "flag" => Accepting(r, n + 1)
        BY <1>5, <1>6 DEF Booked, Converting
    <2>2. ~Accepting(r, n + 1)
        <3>1. 1 < n + 1
            BY <1>5
        <3> QED BY <1>4, <3>1 DEF Accepting
    <2> QED BY <2>1, <2>2
<1>10. Inserting(r)'
    BY <1>1, EntitiesAssumption DEF Inserting
<1>11. Booked(r)'
    BY <1>7, <1>8, <1>9, <1>10 DEF Booked
<1> QED BY <1>1, <1>2, <1>11, PrivateIsKept DEF KeepsDocuments, Filling

LEMMA RowsIsKept ==
    ASSUME Invariant, OwnBooks, BooksKept, PaymentsBacked, NEW r \in Requests,
           InvoiceRows(r), ~Fail(r)
    PROVE  BooksKept'
<1>1. script[r] # << >> /\ Head(script[r]).op = "InvoiceRows"
    BY DEF InvoiceRows, Runs, At
<1>2. Alone(r) /\ UNCHANGED << invoice, rut_requests >>
    BY OwnParts, ListFrame DEF tables
<1> QED BY <1>1, <1>2, RowsBooked, PrivateIsKept DEF KeepsDocuments, Filling

(* The number that a statement reads. *)
LEMMA NumberIsNext ==
    ASSUME Invariant, OwnBooks, BooksKept, NEW r \in Requests, GetNextInvoiceNumber(r),
           NEW n, IsNextNumber(r, Arg(r), n)
    PROVE  Arg(r) = form[r].company /\ NextNumber(form[r].company, n)
<1>1. script[r] # << >> /\ Head(script[r]).op = "GetNextInvoiceNumber"
    BY DEF GetNextInvoiceNumber, Runs, At
<1>2. 1 \in DOMAIN script[r] /\ script[r][1] = Head(script[r])
    BY <1>1, Parts, ScriptParts
<1>3. Arg(r) = form[r].company
    BY <1>1, <1>2 DEF BooksKept, Booked, Converting, Arg
<1>4. Arg(r) \in Companies
    BY <1>1, Parts, Served, StatementArgument DEF Arg
<1>5. ASSUME NEW i \in Invoices, Unissued(i) PROVE invoice[i].by # r
    BY <1>1, <1>5, OwnDocument DEF Filling
<1>6. NextNumber(Arg(r), n)
    BY <1>4, <1>5, NumberFound DEF BooksKept
<1> QED BY <1>3, <1>6

(* ... is for the invoice of an accepted offer ... *)
LEMMA FlagNumberBooked ==
    ASSUME Invariant, OwnBooks, BooksKept, NEW r \in Requests, Alone(r), UNCHANGED invoice,
           script[r] # << >>, Head(script[r]).op = "GetNextInvoiceNumber",
           form[r].op = "flag", NEW n, NextNumber(form[r].company, n),
           inv'[r] = ConvertedInvoice(inv[r], id[r], n), id'[r] = NULL, Continue(r)
    PROVE  Booked(r)'
<1> DEFINE p == script'[r]
           x == ConvertedInvoice(inv[r], id[r], n)
           o == invoice[id[r]]
<1>1. 1 \in DOMAIN script[r] /\ script[r][1] = Head(script[r])
    BY Parts, ScriptParts
<1>2. p = Tail(script[r]) /\ form'[r] = form[r]
    BY Parts DEF Continue, Alone, TypeOK, ServingOK
<1>3. \A m \in DOMAIN p : m \in Nat \ {0} /\ m + 1 \in DOMAIN script[r] /\ p[m] = script[r][m + 1]
    BY <1>2, Parts, ScriptParts
<1>4. Accepting(r, 1) /\ OfKind(r)
    BY <1>1 DEF BooksKept, Booked, Converting, KindRead
<1>5. \A m \in DOMAIN p : \/ m = 1 /\ p[m].op = "InvoiceSave"
                          \/ p[m].op = "RowAdd"
    <2> TAKE m \in DOMAIN p
    <2>1. m + 1 > 1 /\ m + 1 \in DOMAIN script[r] /\ p[m] = script[r][m + 1]
        BY <1>3
    <2>2. m + 1 = 1 + 1 => m = 1
        BY <1>3
    <2> QED BY <1>4, <2>1, <2>2 DEF Accepting
<1>6. KindRead(r)' /\ AsksForInvoice(r)' /\ Converting(r)'
    BY <1>5 DEF KindRead, AsksForInvoice, AsksAt, Converting
<1>7. /\ x.number = n /\ x.status = StatusInitial /\ x.is_offer = FALSE /\ x.offer_id = id[r]
      /\ x.company = inv[r].company /\ x.customer = inv[r].customer
    BY Parts DEF ConvertedInvoice, TypeOK, HandOK, LocalInvoice
<1> HIDE DEF x
<1>8. /\ id[r] \in Invoices /\ form[r].is_offer /\ Sees(invoice, r)[id[r]].is_offer = form[r].is_offer
      /\ inv[r].company = form[r].company
      /\ Sees(invoice, r)[id[r]].company = form[r].company
      /\ o.by = r /\ o.new.status = StatusAccepted /\ o.new.customer = inv[r].customer
    BY <1>4, EntitiesAssumption DEF Accepting, OfKind, Reached, Ready
<1>9. Live(o.val)
    <2>1. ~Unissued(id[r])
        BY <1>8, OwnDocument DEF Filling
    <2>2. r # NULL
        BY EntitiesAssumption
    <2> QED BY <1>8, <2>1, <2>2 DEF Unissued
<1>10. o.val.is_offer /\ o.val.company = form[r].company
    <2>1. r # NULL
        BY EntitiesAssumption
    <2>2. Document(o.new) = Document(o.val)
        BY <1>8, <1>9, <2>1 DEF BooksKept, DocumentsFixed
    <2>3. Sees(invoice, r)[id[r]] = o.new
        BY <1>8, Parts, InvoiceParts DEF Sees
    <2>4. o.new.is_offer = o.val.is_offer /\ o.new.company = o.val.company
        BY <2>2 DEF Document
    <2>5. o.val.company = form[r].company
        BY <1>8, <2>3, <2>4
    <2>6. o.new.is_offer
        BY <1>8, <2>3, Zenon
    <2>7. o.val.is_offer
        BY <2>4, <2>6, Zenon
    <2> QED BY <2>5, <2>7
<1>11. FromOffer(r, inv[r])'
    <2>1. PICK y : y = inv'[r]
        OBVIOUS
    <2>2. /\ y.offer_id = id[r] /\ y.is_offer = FALSE /\ y.status = StatusInitial
          /\ y.company = inv[r].company /\ y.customer = inv[r].customer
        BY <1>7, <2>1 DEF x
    <2>3. invoice'[y.offer_id] = o
        BY <2>2
    <2>4. FromOffer(r, y)'
        BY <1>8, <1>9, <1>10, <2>2, <2>3 DEF FromOffer
    <2> QED BY <2>1, <2>4 DEF FromOffer
<1>12. NumberRead(inv[r].company, inv[r].number)'
    <2>1. PICK c : c = form[r].company
        OBVIOUS
    <2>2. NumberRead(c, n)
        BY <2>1 DEF NumberRead
    <2>3. NumbersStay
        BY DocumentsKept DEF KeepsDocuments, BooksKept
    <2>4. NumberRead(c, n)'
        BY <2>2, <2>3 DEF NumbersStay
    <2>5. inv'[r].company = c /\ inv'[r].number = n
        BY <1>7, <1>8, <2>1 DEF x
    <2> QED BY <2>4, <2>5
<1>13. InsertsOnce(p)
    BY <1>3, <1>5 DEF InsertsOnce, Filling
<1>14. Inserting(r)'
    <2>1. ASSUME NEW m \in DOMAIN p, p[m].op = "InvoiceSave" PROVE At(r, "InvoiceSave")'
        <3>1. m = 1 /\ p # << >> /\ Head(p) = p[1]
            BY <1>5, <2>1
        <3> QED BY <1>5, <2>1, <3>1 DEF At
    <2> QED BY <1>11, <1>12, <1>13, <2>1 DEF Inserting
<1> QED BY <1>6, <1>14 DEF Booked

(* ... or for a new document. *)
LEMMA PostNumberBooked ==
    ASSUME Invariant, OwnBooks, BooksKept, NEW r \in Requests, Alone(r), UNCHANGED << invoice, id >>,
           script[r] # << >>, Head(script[r]).op = "GetNextInvoiceNumber",
           form[r] \in PostForm, NEW n \in Nat, NextNumber(form[r].company, n),
           NewInvoice(form[r], n) \in LocalInvoice,
           inv'[r] = Posted(form[r], NewInvoice(form[r], n)),
           script'[r] \in PostScripts(form[r], NewInvoice(form[r], n), NoRows)
    PROVE  Booked(r)'
<1> DEFINE p == script'[r]
           blank == NewInvoice(form[r], n)
<1>1. form'[r] = form[r] /\ form[r].op = "post"
    BY DEF Alone, PostForm
<1>2. PICK y : y = inv'[r]
    OBVIOUS
<1>3. y.number = n /\ y.company = form[r].company /\ y.offer_id = NULL
    <2>1. blank.number = n /\ blank.company = form[r].company /\ blank.offer_id = NULL
        BY DEF NewInvoice, ZeroInvoice
    <2> HIDE DEF blank
    <2>2. \A x \in LocalInvoice :
              LET z == Posted(form[r], x) IN
              z.number = x.number /\ z.company = x.company /\ z.offer_id = x.offer_id
        BY DEF Posted, LocalInvoice
    <2>3. y = Posted(form[r], blank) /\ blank \in LocalInvoice
        BY <1>2 DEF blank
    <2> QED BY <2>1, <2>2, <2>3
<1>4. Posting(p)
    BY ZeroTypes, PostShape
<1>5. \A m \in DOMAIN p : p[m].op \notin {"GetNextInvoiceNumber", "RUTList", "RUTCreate"}
    BY <1>4 DEF Posting, Choosing, Filling
<1>6. KindRead(r)' /\ AsksForInvoice(r)' /\ Converting(r)'
    BY <1>1, <1>5 DEF KindRead, AsksForInvoice, AsksAt, Converting
<1>7. NumberRead(inv[r].company, inv[r].number)'
    <2>1. PICK c : c = form[r].company
        OBVIOUS
    <2>2. NumberRead(c, n)
        BY <2>1 DEF NumberRead
    <2>3. NumbersStay
        BY DocumentsKept DEF KeepsDocuments, BooksKept
    <2>4. NumberRead(c, n)'
        BY <2>2, <2>3 DEF NumbersStay
    <2>5. inv'[r].company = c /\ inv'[r].number = n
        BY <1>2, <1>3, <2>1
    <2> QED BY <2>4, <2>5
<1>8. InsertsOnce(p)
    BY <1>4 DEF Posting
<1>9. inv'[r].offer_id = NULL
    BY <1>2, <1>3
<1>10. Inserting(r)'
    BY <1>7, <1>8, <1>9 DEF Inserting, FromOffer
<1> QED BY <1>6, <1>10 DEF Booked

LEMMA NumberIsKept ==
    ASSUME Invariant, OwnBooks, BooksKept, PaymentsBacked, NEW r \in Requests,
           GetNextInvoiceNumber(r), ~Fail(r)
    PROVE  BooksKept'
<1>1. script[r] # << >> /\ Head(script[r]).op = "GetNextInvoiceNumber"
    BY DEF GetNextInvoiceNumber, Runs, At
<1>2. Alone(r) /\ UNCHANGED << invoice, rut_requests >>
    BY OwnParts, ListFrame DEF tables
<1>3. PICK n : /\ IsNextNumber(r, Arg(r), n)
               /\ \/ /\ form[r].op = "flag"
                     /\ inv' = [inv EXCEPT ![r] = ConvertedInvoice(@, id[r], n)]
                     /\ id'  = [id EXCEPT ![r] = NULL]
                     /\ Continue(r)
                  \/ /\ form[r].op = "post"
                     /\ inv' = [inv EXCEPT ![r] = Posted(form[r], NewInvoice(form[r], n))]
                     /\ \E q \in PostScripts(form[r], NewInvoice(form[r], n), NoRows) :
                           ContinueWith(r, q)
                     /\ UNCHANGED id
    BY DEF GetNextInvoiceNumber
<1>4. NextNumber(form[r].company, n) /\ n \in Nat
    BY <1>3, NumberIsNext DEF NextNumber
<1>5. ASSUME form[r].op = "flag", Continue(r), id'  = [id EXCEPT ![r] = NULL],
             inv' = [inv EXCEPT ![r] = ConvertedInvoice(@, id[r], n)]
      PROVE  Booked(r)'
    <2>1. inv'[r] = ConvertedInvoice(inv[r], id[r], n) /\ id'[r] = NULL
        BY <1>5, OwnParts
    <2> QED BY <1>1, <1>2, <1>4, <1>5, <2>1, FlagNumberBooked
<1>6. ASSUME form[r].op = "post", UNCHANGED id,
             inv' = [inv EXCEPT ![r] = Posted(form[r], NewInvoice(form[r], n))],
             NEW q \in PostScripts(form[r], NewInvoice(form[r], n), NoRows), ContinueWith(r, q)
      PROVE  Booked(r)'
    <2>1. inv'[r] = Posted(form[r], NewInvoice(form[r], n)) /\ script'[r] = q
        BY <1>6, OwnParts DEF ContinueWith
    <2>2. form[r] \in PostForm
        BY <1>3, <1>6, InHandAfterNumber
    <2>3. NewInvoice(form[r], n) \in LocalInvoice
        BY <1>4, <2>2, NewInvoiceType
    <2> QED BY <1>1, <1>2, <1>4, <1>6, <2>1, <2>2, <2>3, PostNumberBooked
<1>7. Booked(r)'
    BY <1>3, <1>5, <1>6
<1> QED BY <1>1, <1>2, <1>7, PrivateIsKept DEF KeepsDocuments, Filling

LEMMA UpdateIsKept ==
    ASSUME Invariant, OwnBooks, BooksKept, PaymentsBacked, NEW r \in Requests,
           InvoiceUpdate(r), ~Fail(r)
    PROVE  BooksKept'
<1>1. PICK i : i = id[r]
    OBVIOUS
<1> DEFINE old == Sees(invoice, r)[i]
           x == UpdatedInvoice(old, inv[r])
           p == script'[r]
<1>2. /\ script[r] # << >> /\ Head(script[r]).op = "InvoiceSave"
      /\ i # NULL /\ inv[r].customer # NULL /\ Continue(r)
      /\ invoice' = IF Live(old) THEN Put(invoice, r, i, x) ELSE invoice
      /\ UNCHANGED << customer, rut_requests, id, inv >>
    BY <1>1 DEF InvoiceUpdate, Runs, At, hand
<1>3. Alone(r) /\ form'[r] = form[r]
    BY OwnParts, SaveFrame DEF Alone
<1>4. /\ Ready(r) /\ i \in Invoices /\ Live(old)
      /\ old.company = form[r].company /\ inv[r].company = form[r].company
    BY <1>1, <1>2, HeadPrepared DEF Uses, Ready, Reached
<1>5. invoice[i].by \in {NULL, r}
    <2>1. \A s \in Requests \ {r} : ~Holds(invoice, s, i)
        BY <1>1 DEF InvoiceUpdate, Runs, Blocked, Waits
    <2> QED BY <1>4, <2>1, OwnParts, FreeToWrite DEF TypeOK, TablesOK
<1>6. x \in InvoiceRecord
    <2>1. old \in InvoiceRecord
        BY <1>4, OwnParts, SeesType DEF TypeOK, TablesOK
    <2> QED BY <1>2, <2>1, OwnParts, SavedTypes
<1>7. /\ x.company = old.company /\ x.number = old.number /\ x.is_offer = old.is_offer
      /\ x.offer_id = old.offer_id
      /\ x.customer = inv[r].customer /\ x.status = inv[r].status
    BY OwnParts DEF UpdatedInvoice, LocalInvoice
<1>8. invoice' = Put(invoice, r, i, x)
    BY <1>2, <1>4
<1>9. r # NULL
    BY EntitiesAssumption
<1> HIDE DEF x
<1>10. Live(invoice[i].val) /\ Document(old) = Document(invoice[i].val)
    <2>1. ~Unissued(i) \/ invoice[i].by # r
        BY <1>2, <1>4, OwnDocument DEF Filling
    <2>2. CASE invoice[i].by = r
        <3>1. Live(invoice[i].val)
            BY <1>9, <2>1, <2>2 DEF Unissued
        <3>2. Document(invoice[i].new) = Document(invoice[i].val)
            BY <1>4, <1>9, <2>2, <3>1 DEF BooksKept, DocumentsFixed
        <3>3. old = invoice[i].new
            BY <1>4, <2>2, OwnParts DEF Sees
        <3> QED BY <3>1, <3>2, <3>3
    <2>3. CASE invoice[i].by # r
        <3>1. old = invoice[i].val
            BY <1>4, <2>3, OwnParts DEF Sees
        <3> QED BY <1>4, <3>1
    <2> QED BY <2>2, <2>3
<1>11. KeepsDocuments(r)
    <2>1. Document(x) = Document(invoice[i].val)
        BY <1>7, <1>10 DEF Document
    <2> QED BY <1>4, <1>5, <1>6, <1>8, <1>10, <2>1 DEF KeepsDocuments
<1>12. invoice'[i].by = r /\ invoice'[i].new = x /\ Sees(invoice', r)[i] = x
    BY <1>4, <1>8, OwnParts DEF Put, Sees
<1>13. p = Tail(script[r])
    BY <1>2, OwnParts DEF Continue
<1>14. 1 \in DOMAIN script[r] /\ script[r][1].op = "InvoiceSave"
    BY <1>2, Parts, ScriptParts
<1>15. \A n \in DOMAIN p : n \in Nat \ {0} /\ n + 1 \in DOMAIN script[r] /\ p[n] = script[r][n + 1]
    BY <1>2, <1>13, Parts, ScriptParts
<1>16. Booked(r)
    BY DEF BooksKept
<1>17. Live(x)
    BY <1>6, EntitiesAssumption DEF Live
<1>18. OfKind(r) => OfKind(r)'
    <2>1. id'[r] = i
        BY <1>1, <1>2
    <2>2. Sees(invoice', r)[i].is_offer = Sees(invoice, r)[i].is_offer
        BY <1>7, <1>12
    <2> QED BY <1>1, <1>3, <1>4, <1>12, <1>17, <2>1, <2>2 DEF OfKind, Reached
<1>19. KindRead(r)'
    <2> SUFFICES ASSUME NEW n \in DOMAIN p, form[r].op = "flag",
                        \/ n = 1 /\ p[n].op = "InvoiceRows"
                        \/ p[n].op \in {"RUTList", "RUTCreate", "GetNextInvoiceNumber"}
                 PROVE  OfKind(r)
        BY <1>3, <1>18 DEF KindRead
    <2>1. ~(n = 1 /\ p[n].op = "InvoiceRows")
        <3> SUFFICES ASSUME n = 1, p[n].op = "InvoiceRows" PROVE FALSE
            OBVIOUS
        <3>1. 2 \in DOMAIN script[r] /\ script[r][2].op = "InvoiceRows"
            BY <1>15
        <3> QED BY <1>14, <3>1, Parts DEF OwnInvariant, Found
    <2> QED BY <1>15, <1>16, <2>1 DEF Booked, KindRead
<1>20. AsksForInvoice(r)'
    <2> SUFFICES ASSUME NEW n \in DOMAIN p, p[n].op \in {"RUTList", "RUTCreate"}
                 PROVE  AsksAt(r) # {}
        BY <1>3, <1>16 DEF AsksForInvoice, AsksAt, Booked
    <2> QED BY <1>15 DEF AsksAt
<1>21. Converting(r)'
    <2> SUFFICES ASSUME NEW n \in DOMAIN p, p[n].op = "GetNextInvoiceNumber"
                 PROVE  /\ p[n].on = form[r].company
                        /\ form[r].op = "post" => id[r] = NULL
                        /\ form[r].op = "flag" => Accepting(r, n)'
        BY <1>2, <1>3 DEF Converting
    <2>1. /\ p[n].on = form[r].company
          /\ form[r].op = "post" => id[r] = NULL
          /\ form[r].op = "flag" => Accepting(r, n + 1)
        BY <1>15, <1>16 DEF Booked, Converting
    <2>2. ASSUME Accepting(r, n + 1) PROVE Accepting(r, n)'
        <3>1. n = 1
            <4>1. 1 < n + 1
                BY <1>15
            <4>2. n + 1 = 2
                BY <1>14, <2>2, <4>1 DEF Accepting
            <4> QED BY <1>15, <4>2
        <3>2. \A m \in DOMAIN p : ~(m < 1) /\ (m > 1 => \/ m = 2 /\ p[m].op = "InvoiceSave"
                                                       \/ p[m].op = "RowAdd")
            <4> TAKE m \in DOMAIN p
            <4>1. m \in Nat \ {0} /\ m + 1 \in DOMAIN script[r] /\ p[m] = script[r][m + 1]
                BY <1>15
            <4>2. m + 1 > n + 1 => \/ m + 1 = (n + 1) + 1 /\ script[r][m + 1].op = "InvoiceSave"
                                   \/ script[r][m + 1].op = "RowAdd"
                BY <2>2, <4>1 DEF Accepting
            <4> QED BY <3>1, <4>1, <4>2
        <3>3. Ready(r)'
            <4>1. id'[r] = i /\ inv'[r] = inv[r]
                BY <1>1, <1>2
            <4>2. x.company = form[r].company
                BY <1>4, <1>7
            <4> QED BY <1>3, <1>4, <1>12, <1>17, <4>1, <4>2 DEF Ready, Reached
        <3>4. form[r].is_offer /\ inv[r].status = StatusAccepted
            BY <2>2, <3>1 DEF Accepting
        <3>5. /\ invoice'[id'[r]].by = r /\ invoice'[id'[r]].new.status = StatusAccepted
              /\ invoice'[id'[r]].new.customer = inv'[r].customer
            BY <1>1, <1>2, <1>7, <1>12, <3>4
        <3> QED BY <1>3, <3>1, <3>2, <3>3, <3>4, <3>5 DEF Accepting
    <2> QED BY <2>1, <2>2
<1>22. Inserting(r)'
    BY <1>1, <1>2 DEF Inserting
<1>23. Booked(r)'
    BY <1>19, <1>20, <1>21, <1>22 DEF Booked
<1> QED BY <1>2, <1>3, <1>11, <1>23, PrivateIsKept DEF Filling

(* The UNIQUE number, and the wait for whoever inserts the same, make the  *)
(* number of a new document its own.                                       *)
LEMMA InsertedNumber ==
    ASSUME Invariant, OwnBooks, BooksKept, NEW r \in Requests, InvoiceInsert(r), ~Fail(r)
    PROVE  /\ NextNumber(inv[r].company, inv[r].number) /\ ~Taken(inv[r].number)
           /\ \A j \in Invoices : Unissued(j) => /\ invoice[j].by # r
                                                 /\ invoice[j].new.number # inv[r].number
           /\ InsertsOnce(script[r]) /\ FromOffer(r, inv[r])
<1>1. /\ script[r] # << >> /\ Head(script[r]).op = "InvoiceSave" /\ id[r] = NULL
      /\ ~NumberTaken(r, inv[r].number) /\ ~Blocked(r)
    BY DEF InvoiceInsert, Runs, At
<1>2. 1 \in DOMAIN script[r] /\ script[r][1] = Head(script[r])
    BY <1>1, Parts, ScriptParts
<1>3. /\ InsertsOnce(script[r]) /\ FromOffer(r, inv[r])
      /\ NumberRead(inv[r].company, inv[r].number)
    BY <1>1, <1>2 DEF BooksKept, Booked, Inserting
<1>4. ~Taken(inv[r].number)
    <2> SUFFICES ASSUME NEW j \in Invoices, Live(invoice[j].val),
                        invoice[j].val.number = inv[r].number
                 PROVE  FALSE
        BY DEF Taken, CommittedInvoices, InvoiceIn
    <2>1. Live(Sees(invoice, r)[j]) /\ Sees(invoice, r)[j].number = inv[r].number
        <3>1. CASE invoice[j].by = r
            <4>1. r # NULL
                BY EntitiesAssumption
            <4>2. Document(invoice[j].new) = Document(invoice[j].val)
                BY <3>1, <4>1 DEF BooksKept, DocumentsFixed
            <4>3. Live(invoice[j].new)
                BY <3>1, <4>1, OwnParts DEF InvoicesNeverRemoved
            <4> QED BY <3>1, <4>2, <4>3, OwnParts DEF Sees, Document
        <3>2. CASE invoice[j].by # r
            BY <3>2, OwnParts DEF Sees
        <3> QED BY <3>1, <3>2
    <2> QED BY <1>1, <2>1 DEF NumberTaken
<1>5. ASSUME NEW j \in Invoices, Unissued(j)
      PROVE  invoice[j].by # r /\ invoice[j].new.number # inv[r].number
    <2>1. invoice[j].by # r
        BY <1>1, <1>5, OwnDocument DEF Filling
    <2>2. PICK s \in Requests \ {r} : invoice[j].by = s
        BY <1>5, <2>1, OwnParts, InvoiceParts DEF Unissued
    <2>3. invoice[j].val = Absent
        BY <1>5 DEF BooksKept, NewDocument
    <2>4. ~Waits(r, s)
        BY <1>1 DEF Blocked
    <2> QED BY <1>1, <2>1, <2>2, <2>3, <2>4 DEF Waits, At
<1> QED BY <1>3, <1>4, <1>5 DEF NumberRead

LEMMA InsertIsKept ==
    ASSUME Invariant, OwnBooks, BooksKept, PaymentsBacked, NEW r \in Requests,
           InvoiceInsert(r), ~Fail(r)
    PROVE  BooksKept'
<1> DEFINE x == InsertedInvoice(inv[r])
           p == script'[r]
<1>1. /\ script[r] # << >> /\ Head(script[r]).op = "InvoiceSave"
      /\ inv[r].customer # NULL /\ inv[r].company # NULL
      /\ Continue(r) /\ UNCHANGED << customer, inv, rut_requests >>
    BY DEF InvoiceInsert, Runs, At
<1>2. PICK i \in FreshIds(invoice) :
         invoice' = Put(invoice, r, i, x) /\ id' = [id EXCEPT ![r] = i]
    BY DEF InvoiceInsert
<1>3. Alone(r) /\ form'[r] = form[r]
    BY OwnParts, SaveFrame DEF Alone
<1>4. i \in Invoices /\ invoice[i].by = NULL /\ invoice[i].val = Absent
    BY OwnParts DEF FreshIds, Settled
<1>5. x \in InvoiceRecord
    BY <1>1, OwnParts, SavedTypes
<1>6. /\ x.number = inv[r].number /\ x.company = inv[r].company /\ x.offer_id = inv[r].offer_id
      /\ x.is_offer = inv[r].is_offer /\ x.status = inv[r].status /\ x.customer = inv[r].customer
    BY OwnParts DEF InsertedInvoice, LocalInvoice
<1>7. r # NULL /\ ~Live(Absent)
    BY EntitiesAssumption DEF Live
<1> HIDE DEF x
<1>8. \A j \in Invoices : IF j = i THEN invoice'[j] = [val |-> Absent, by |-> r, new |-> x]
                                   ELSE invoice'[j] = invoice[j]
    BY <1>2, <1>4, OwnParts DEF Put
<1>9. id'[r] = i /\ DOMAIN invoice' = Invoices
    BY <1>2, OwnParts DEF Put
<1>10. /\ NextNumber(x.company, x.number) /\ ~Taken(x.number)
       /\ \A j \in Invoices : Unissued(j) => invoice[j].by # r /\ invoice[j].new.number # x.number
       /\ InsertsOnce(script[r]) /\ FromOffer(r, inv[r])
    BY <1>6, InsertedNumber
<1>11. \A j \in Invoices : invoice'[j].val = invoice[j].val
    BY <1>4, <1>8
<1>12. \A c, n : /\ Taken(n)' <=> Taken(n)
                 /\ NextNumber(c, n)' <=> NextNumber(c, n)
    <2>1. \A j \in Invoices : /\ Live(invoice'[j].val) <=> Live(invoice[j].val)
                              /\ Live(invoice[j].val)
                                 => Document(invoice'[j].val) = Document(invoice[j].val)
        BY <1>11
    <2> QED BY <2>1, SameNumbers
<1>13. NumbersStay
    BY <1>12 DEF NumbersStay, NumberRead
<1>14. DocumentsFixed'
    BY <1>7, <1>8 DEF BooksKept, DocumentsFixed
<1>15. SparesInvoices(r)
    BY <1>4, <1>8 DEF SparesInvoices
<1>16. SameToOthers(r)
    <2> SUFFICES ASSUME NEW s \in Requests \ {r}, NEW j \in Invoices, Live(Sees(invoice, s)[j])
                 PROVE  Sees(invoice', s)[j] = Sees(invoice, s)[j]
        BY DEF SameToOthers
    <2>1. j # i
        BY <1>4, <1>7, OwnParts, EntitiesAssumption DEF Sees
    <2> QED BY <1>8, <1>9, <2>1, OwnParts DEF Sees
<1>17. \A s \in Requests \ {r} : SameRequest(s)
    BY <1>3 DEF Alone, SameRequest
<1>18. FillsOnly(p)
    <2>1. 1 \in DOMAIN script[r] /\ script[r][1].op = "InvoiceSave"
        BY <1>1, Parts, ScriptParts
    <2>2. ASSUME NEW n \in DOMAIN p PROVE p[n].op \in Filling
        <3>1. n \in Nat \ {0} /\ n + 1 \in DOMAIN script[r] /\ p[n] = script[r][n + 1]
            BY <1>1, <2>2, OwnParts, ScriptParts DEF Continue
        <3>2. n + 1 > 1
            BY <3>1
        <3> QED BY <1>10, <2>1, <3>1, <3>2 DEF InsertsOnce
    <2> QED BY <2>2 DEF FillsOnly
<1>19. \A s \in Requests : Booked(s)'
    <2>1. Booked(r)'
        BY <1>18, FillingBooked
    <2>2. ASSUME NEW s \in Requests \ {r} PROVE Booked(s)'
        BY <1>13, <1>15, <1>16, <1>17, OthersBooked DEF BooksKept
    <2> QED BY <2>1, <2>2
<1>20. NumbersDistinct'
    <2> SUFFICES ASSUME NEW j \in Invoices, NEW k \in Invoices, Unissued(j)', Unissued(k)',
                        invoice'[j].new.number = invoice'[k].new.number, j # k
                 PROVE  FALSE
        BY DEF NumbersDistinct
    <2>1. \A l \in Invoices : l # i => invoice'[l] = invoice[l] /\ (Unissued(l)' <=> Unissued(l))
        BY <1>8 DEF Unissued
    <2>2. invoice'[i].new = x
        BY <1>4, <1>8
    <2>3. CASE j = i
        BY <1>10, <2>1, <2>2, <2>3
    <2>4. CASE k = i
        BY <1>10, <2>1, <2>2, <2>4
    <2>5. CASE j # i /\ k # i
        BY <2>1, <2>5 DEF BooksKept, NumbersDistinct
    <2> QED BY <2>3, <2>4, <2>5
<1>21. Active(r)'
    BY <1>1, <1>3, Parts DEF Active, IdleHasNoScript
<1>22. NewDocument(i)'
    <2>1. invoice'[i] = [val |-> Absent, by |-> r, new |-> x]
        BY <1>4, <1>8
    <2>2. PICK y : y = x
        OBVIOUS
    <2>3. NextNumber(y.company, y.number)' /\ ~Taken(y.number)'
        BY <1>10, <1>12, <2>2
    <2>4. FromOffer(r, y)'
        <3> SUFFICES ASSUME y.offer_id # NULL PROVE FromOffer(r, y)'
            BY DEF FromOffer
        <3>1. y.offer_id \in Invoices /\ Live(invoice[y.offer_id].val)
            BY <1>6, <1>10, <2>2 DEF FromOffer
        <3>2. invoice'[y.offer_id] = invoice[y.offer_id]
            BY <1>4, <1>7, <1>8, <3>1
        <3>3. FromOffer(r, y)
            BY <1>6, <1>10, <2>2 DEF FromOffer
        <3> QED BY <3>2, <3>3 DEF FromOffer
    <2>5. invoice'[i].new = y /\ invoice'[i].by = r /\ invoice'[i].val = Absent
        BY <2>1, <2>2
    <2> QED BY <1>9, <1>18, <1>21, <2>3, <2>4, <2>5 DEF NewDocument
<1>23. ASSUME NEW j \in Invoices, j # i PROVE NewDocument(j)'
    <2> SUFFICES ASSUME Unissued(j)' PROVE NewDocument(j)'
        BY DEF NewDocument
    <2>1. Unissued(j) /\ invoice'[j] = invoice[j]
        BY <1>8, <1>23 DEF Unissued
    <2>2. PICK s \in Requests \ {r} : invoice[j].by = s
        BY <1>10, <2>1, Parts, InvoiceParts DEF Unissued
    <2>3. PICK y : y = invoice[j].new
        OBVIOUS
    <2>4. /\ invoice[j].val = Absent /\ Active(s) /\ id[s] = j /\ FillsOnly(script[s])
          /\ NextNumber(y.company, y.number) /\ ~Taken(y.number) /\ FromOffer(s, y)
        BY <2>1, <2>2, <2>3 DEF BooksKept, NewDocument
    <2>5. NextNumber(y.company, y.number)' /\ ~Taken(y.number)'
        BY <1>12, <2>4
    <2>6. FromOffer(s, y)'
        BY <1>15, <2>4, OfferStays
    <2>7. Active(s)' /\ id'[s] = j /\ FillsOnly(script'[s])
        BY <1>17, <2>4 DEF SameRequest, Active
    <2>8. invoice'[j].new = y /\ invoice'[j].by = s /\ invoice'[j].val = Absent
        BY <2>1, <2>2, <2>3, <2>4
    <2> QED BY <2>5, <2>6, <2>7, <2>8 DEF NewDocument
<1>24. \A k \in RutIds : NewRequest(k)'
    <2>1. NewOnesStay
        <3>1. UNCHANGED rut_requests
            BY <1>1
        <3> QED BY <3>1 DEF NewOnesStay
    <2>2. \A j \in Invoices : Live(invoice[j].val) =>
             Live(invoice'[j].val) /\ invoice'[j].val.is_offer = invoice[j].val.is_offer
        BY <1>11
    <2>3. \A k \in RutIds : IsNew(k) => rut_requests[k].by # r
        BY <1>1, NoneNew
    <2> QED BY <1>17, <2>1, <2>2, <2>3, NewRequestsStay DEF BooksKept, SameRequest
<1> QED BY <1>14, <1>19, <1>20, <1>22, <1>23, <1>24 DEF BooksKept

LEMMA BeginIsBooked ==
    ASSUME Invariant, BooksKept, PaymentsBacked, NEW r \in Requests, NEW f \in Forms, Begin(r, f)
    PROVE  BooksKept'
<1>1. /\ ~Active(r) /\ form'[r] = f /\ script'[r] = Opening(f)
      /\ id'[r] = IF IsRut(f) THEN NULL ELSE f.invoice
      /\ UNCHANGED << invoice, rut_requests, inv >>
      /\ \A s \in Requests \ {r} : SameRequest(s)
    BY Parts DEF Begin, tables, TypeOK, ServingOK, HandOK, SameRequest
<1>2. Booked(r)'
    <2>1. \A n \in DOMAIN Opening(f) :
             \/ Opening(f)[n].op \in {"RUTGet", "InvoiceList"}
             \/ Opening(f)[n].op = "InvoiceRows" /\ n # 1
             \/ /\ Opening(f)[n].op = "GetNextInvoiceNumber" /\ Opening(f)[n].on = f.company
                /\ ~IsRut(f) /\ f.invoice = NULL
        <3>1. CASE IsRut(f)
            <4>1. Opening(f) = << Do("RUTGet", f.rut) >> \o InvoiceGet
                BY <3>1 DEF Opening
            <4>2. InvoiceGet \in Seq(Statement) /\ InvoiceGet[1].op = "InvoiceList"
                  /\ InvoiceGet[2].op = "InvoiceRows" /\ DOMAIN InvoiceGet = {1, 2}
                BY InvoiceGetType DEF InvoiceGet, Do
            <4>3. Do("RUTGet", f.rut) \in Statement /\ Do("RUTGet", f.rut).op = "RUTGet"
                <5>1. f \in RutForm
                    BY <3>1, FormType DEF IsRut
                <5> QED BY <5>1, DoType DEF RutForm, RutFlagForm, RutPostForm, Do
            <4>4. \A n \in DOMAIN Opening(f) :
                     \/ n = 1 /\ Opening(f)[n] = Do("RUTGet", f.rut)
                     \/ n - 1 \in DOMAIN InvoiceGet /\ Opening(f)[n] = InvoiceGet[n - 1]
                BY <4>1, <4>2, <4>3, Prepended
            <4>5. \A n \in DOMAIN Opening(f) :
                     Opening(f)[n].op \in {"RUTGet", "InvoiceList"} \/
                     (Opening(f)[n].op = "InvoiceRows" /\ n # 1)
                <5> TAKE n \in DOMAIN Opening(f)
                <5>1. CASE n - 1 = 2
                    <6>1. n # 1
                        BY <5>1
                    <6> QED BY <4>2, <4>3, <4>4, <5>1, <6>1
                <5>2. CASE n - 1 # 2
                    BY <4>2, <4>3, <4>4, <5>2
                <5> QED BY <5>1, <5>2
            <4> QED BY <4>5
        <3>2. CASE ~IsRut(f) /\ f.invoice = NULL
            BY <3>2 DEF Opening, Do
        <3>3. CASE ~IsRut(f) /\ f.invoice # NULL
            BY <3>3 DEF Opening, InvoiceGet, Do
        <3> QED BY <3>1, <3>2, <3>3
    <2>2. f.op = "flag" => f.invoice # NULL
        <3>1. f.op = "flag" => f \in FlagForm
            BY FormType
        <3> QED BY <3>1, EntitiesAssumption DEF FlagForm
    <2>3. KindRead(r)' /\ AsksForInvoice(r)' /\ Converting(r)' /\ Inserting(r)'
        BY <1>1, <2>1, <2>2 DEF KindRead, AsksForInvoice, AsksAt, Converting, Inserting
    <2> QED BY <2>3 DEF Booked
<1>3. ASSUME NEW i \in Invoices, Unissued(i), invoice[i].by = r PROVE FALSE
    BY <1>1, <1>3 DEF BooksKept, NewDocument
<1>4. \A k \in RutIds : NewRequest(k)'
    <2>1. NewOnesStay
        BY <1>1, NothingStored
    <2>2. \A k \in RutIds : IsNew(k) => rut_requests[k].by # r
        BY <1>1 DEF PaymentsBacked, BackedWhenNew
    <2> QED BY <1>1, <2>1, <2>2, NewRequestsStay DEF BooksKept, SameRequest
<1>5. KeepsDocuments(r)
    BY <1>1 DEF KeepsDocuments
<1> QED BY <1>1, <1>2, <1>3, <1>4, <1>5, StatementBooked

LEMMA FailIsBooked ==
    ASSUME Invariant, BooksKept, NEW r \in Requests, script[r] # << >>, Fail(r)
    PROVE  BooksKept'
<1>1. /\ UNCHANGED << invoice, rut_requests, form, id, inv >> /\ script'[r] = << >>
      /\ \A s \in Requests \ {r} : SameRequest(s)
    BY Parts DEF Fail, tables, hand, TypeOK, ServingOK, SameRequest
<1>2. Booked(r)'
    BY <1>1, PlainlyBooked
<1>3. Active(r)' /\ id'[r] = id[r] /\ FillsOnly(script'[r])
    BY <1>1, Parts DEF IdleHasNoScript, Active, FillsOnly
<1>4. \A k \in RutIds : NewRequest(k)'
    <2>1. NewOnesStay
        BY <1>1, NothingStored
    <2> QED BY <1>1, <2>1, NewRequestsStay DEF BooksKept, SameRequest
<1>5. KeepsDocuments(r)
    BY <1>1 DEF KeepsDocuments
<1> QED BY <1>1, <1>2, <1>3, <1>4, <1>5, StatementBooked

-----------------------------------------------------------------------------
(* The end of a transaction. *)

(* The documents of the others stay, and r has at most one of its own.     *)
LEMMA EndedParts ==
    ASSUME Invariant, BooksKept, NEW r \in Requests, NEW commit \in BOOLEAN,
           invoice' = Ended(invoice, r, commit)
    PROVE  /\ \A i \in Invoices :
                 IF invoice[i].by = r
                 THEN /\ invoice'[i].by = NULL
                      /\ invoice'[i].val = IF commit THEN invoice[i].new ELSE invoice[i].val
                      /\ Live(invoice[i].new)
                 ELSE invoice'[i] = invoice[i]
           /\ \A i \in Invoices : Live(invoice[i].val) =>
                 Live(invoice'[i].val) /\ Document(invoice'[i].val) = Document(invoice[i].val)
           /\ DOMAIN invoice' = Invoices /\ r # NULL
           /\ \A i \in Invoices : Unissued(i) /\ invoice[i].by = r => id[r] = i
<1>1. r # NULL /\ DOMAIN invoice' = Invoices
    BY Parts, EntitiesAssumption DEF Ended, TypeOK, TablesOK
<1>2. \A i \in Invoices : invoice[i].by = r => Live(invoice[i].new)
    BY <1>1 DEF Invariant, AskInvariant, InvoicesNeverRemoved
<1>3. \A i \in Invoices :
         IF invoice[i].by = r
         THEN /\ invoice'[i].by = NULL
              /\ invoice'[i].val = IF commit THEN invoice[i].new ELSE invoice[i].val
         ELSE invoice'[i] = invoice[i]
    BY Parts, InvoiceParts DEF Ended, Settled
<1>4. ASSUME NEW i \in Invoices, Live(invoice[i].val)
      PROVE  Live(invoice'[i].val) /\ Document(invoice'[i].val) = Document(invoice[i].val)
    <2>1. invoice[i].by = r => Document(invoice[i].new) = Document(invoice[i].val)
        BY <1>1, <1>4 DEF BooksKept, DocumentsFixed
    <2> QED BY <1>2, <1>3, <1>4, <2>1
<1>5. \A i \in Invoices : Unissued(i) /\ invoice[i].by = r => id[r] = i
    BY DEF BooksKept, NewDocument
<1> QED BY <1>1, <1>2, <1>3, <1>4, <1>5

(* Either no document appears, or the one that r had on the way. *)
LEMMA EndedNumbers ==
    ASSUME Invariant, BooksKept, NEW r \in Requests, NEW commit \in BOOLEAN,
           invoice' = Ended(invoice, r, commit)
    PROVE  /\ NumbersStay
           /\ \A j \in Invoices : Unissued(j)' =>
                 /\ Unissued(j) /\ invoice'[j] = invoice[j] /\ invoice[j].by # r
                 /\ NextNumber(invoice[j].new.company, invoice[j].new.number)'
                 /\ ~Taken(invoice[j].new.number)'
<1>1. /\ \A i \in Invoices :
            IF invoice[i].by = r
            THEN /\ invoice'[i].by = NULL
                 /\ invoice'[i].val = IF commit THEN invoice[i].new ELSE invoice[i].val
                 /\ Live(invoice[i].new)
            ELSE invoice'[i] = invoice[i]
      /\ \A i \in Invoices : Live(invoice[i].val) =>
            Live(invoice'[i].val) /\ Document(invoice'[i].val) = Document(invoice[i].val)
      /\ r # NULL /\ \A i \in Invoices : Unissued(i) /\ invoice[i].by = r => id[r] = i
    BY EndedParts
<1>2. ASSUME NEW j \in Invoices, Unissued(j)'
      PROVE  Unissued(j) /\ invoice'[j] = invoice[j] /\ invoice[j].by # r
    BY <1>1, <1>2 DEF Unissued
<1>3. \A j \in Invoices : Unissued(j) =>
         /\ NextNumber(invoice[j].new.company, invoice[j].new.number)
         /\ ~Taken(invoice[j].new.number)
    BY DEF BooksKept, NewDocument
<1>4. CASE commit /\ \E i \in Invoices : Unissued(i) /\ invoice[i].by = r
    <2>1. PICK i \in Invoices : Unissued(i) /\ invoice[i].by = r
        BY <1>4
    <2>2. PICK x : x = invoice[i].new
        OBVIOUS
    <2>3. invoice'[i].val = x /\ Live(x) /\ ~Live(invoice[i].val)
        BY <1>1, <1>4, <2>1, <2>2 DEF Unissued
    <2>4. NextNumber(x.company, x.number)
        BY <1>3, <2>1, <2>2
    <2>5. \A j \in Invoices \ {i} :
             /\ Live(invoice'[j].val) <=> Live(invoice[j].val)
             /\ Live(invoice[j].val) => Document(invoice'[j].val) = Document(invoice[j].val)
        <3> TAKE j \in Invoices \ {i}
        <3>1. ~Live(invoice[j].val) => invoice[j].by # r
            BY <1>1, <2>1 DEF Unissued
        <3> QED BY <1>1, <3>1
    <2>6. \A c, n : /\ Taken(n)' <=> Taken(n) \/ n = x.number
                    /\ NextNumber(c, n) /\ n # x.number => NextNumber(c, n)'
        <3>1. NextNumber(invoice'[i].val.company, invoice'[i].val.number)
            BY <2>3, <2>4
        <3>2. Live(invoice'[i].val)
            BY <2>3
        <3>3. TypeOK
            BY Parts
        <3>4. \A c, n : /\ Taken(n)' <=> Taken(n) \/ n = invoice'[i].val.number
                        /\ NextNumber(c, n) /\ n # invoice'[i].val.number => NextNumber(c, n)'
            BY <2>3, <2>5, <3>1, <3>2, <3>3, OneNumberMore
        <3> QED BY <2>3, <3>4
    <2>7. NumbersStay
        BY <2>6 DEF NumbersStay, NumberRead
    <2>8. ASSUME NEW j \in Invoices, Unissued(j)'
          PROVE  /\ NextNumber(invoice[j].new.company, invoice[j].new.number)'
                 /\ ~Taken(invoice[j].new.number)'
        <3>1. Unissued(j) /\ invoice'[j] = invoice[j] /\ invoice[j].by # r
            BY <1>2, <2>8
        <3>2. PICK y : y = invoice[j].new
            OBVIOUS
        <3>3. y.number # x.number
            BY <2>1, <2>2, <3>1, <3>2 DEF BooksKept, NumbersDistinct
        <3>4. NextNumber(y.company, y.number) /\ ~Taken(y.number)
            BY <1>3, <3>1, <3>2
        <3>5. NextNumber(y.company, y.number)' /\ ~Taken(y.number)'
            BY <2>6, <3>3, <3>4
        <3>6. invoice'[j].new = y
            BY <3>1, <3>2
        <3> QED BY <3>5, <3>6
    <2> QED BY <1>2, <2>7, <2>8
<1>5. CASE ~(commit /\ \E i \in Invoices : Unissued(i) /\ invoice[i].by = r)
    <2>1. \A i \in Invoices : /\ Live(invoice'[i].val) <=> Live(invoice[i].val)
                              /\ Live(invoice[i].val)
                                 => Document(invoice'[i].val) = Document(invoice[i].val)
        <3> TAKE i \in Invoices
        <3>1. ~Live(invoice[i].val) => ~Live(invoice'[i].val)
            BY <1>1, <1>5 DEF Unissued
        <3> QED BY <1>1, <3>1
    <2>2. \A c, n : /\ Taken(n)' <=> Taken(n)
                    /\ NextNumber(c, n)' <=> NextNumber(c, n)
        BY <2>1, SameNumbers
    <2>3. NumbersStay
        BY <2>2 DEF NumbersStay, NumberRead
    <2>4. ASSUME NEW j \in Invoices, Unissued(j)'
          PROVE  /\ NextNumber(invoice[j].new.company, invoice[j].new.number)'
                 /\ ~Taken(invoice[j].new.number)'
        <3>1. Unissued(j) /\ invoice'[j] = invoice[j] /\ invoice[j].by # r
            BY <1>2, <2>4
        <3>2. PICK y : y = invoice[j].new
            OBVIOUS
        <3>3. NextNumber(y.company, y.number) /\ ~Taken(y.number)
            BY <1>3, <3>1, <3>2
        <3>4. NextNumber(y.company, y.number)' /\ ~Taken(y.number)'
            BY <2>2, <3>3
        <3>5. invoice'[j].new = y
            BY <3>1, <3>2
        <3> QED BY <3>4, <3>5
    <2> QED BY <1>2, <2>3, <2>4
<1> QED BY <1>4, <1>5

LEMMA EndIsBooked ==
    ASSUME Invariant, BooksKept, NEW r \in Requests, NEW commit \in BOOLEAN,
           script[r] = << >>, EndTransaction(r, commit)
    PROVE  BooksKept'
<1>1. /\ invoice' = Ended(invoice, r, commit) /\ rut_requests' = Ended(rut_requests, r, commit)
      /\ script'[r] = << >> /\ \A s \in Requests \ {r} : SameRequest(s)
    BY Parts DEF EndTransaction, TypeOK, ServingOK, HandOK, SameRequest
<1>2. /\ \A i \in Invoices :
            IF invoice[i].by = r
            THEN /\ invoice'[i].by = NULL
                 /\ invoice'[i].val = IF commit THEN invoice[i].new ELSE invoice[i].val
                 /\ Live(invoice[i].new)
            ELSE invoice'[i] = invoice[i]
      /\ \A i \in Invoices : Live(invoice[i].val) =>
            Live(invoice'[i].val) /\ Document(invoice'[i].val) = Document(invoice[i].val)
      /\ DOMAIN invoice' = Invoices /\ r # NULL
    BY <1>1, EndedParts
<1>3. /\ NumbersStay
      /\ \A j \in Invoices : Unissued(j)' =>
            /\ Unissued(j) /\ invoice'[j] = invoice[j] /\ invoice[j].by # r
            /\ NextNumber(invoice[j].new.company, invoice[j].new.number)'
            /\ ~Taken(invoice[j].new.number)'
    BY <1>1, EndedNumbers
<1>4. DocumentsFixed'
    BY <1>2 DEF BooksKept, DocumentsFixed
<1>5. SparesInvoices(r)
    BY <1>2 DEF SparesInvoices
<1>6. SameToOthers(r)
    <2> SUFFICES ASSUME NEW s \in Requests \ {r}, NEW j \in Invoices, Live(Sees(invoice, s)[j])
                 PROVE  /\ Live(Sees(invoice', s)[j])
                        /\ Document(Sees(invoice', s)[j]) = Document(Sees(invoice, s)[j])
        BY DEF SameToOthers
    <2>1. s # NULL
        BY EntitiesAssumption
    <2>2. CASE invoice[j].by = r
        <3>1. Sees(invoice, s)[j] = invoice[j].val /\ Sees(invoice', s)[j] = invoice'[j].val
            BY <1>2, <2>1, <2>2, Parts, InvoiceParts DEF Sees
        <3> QED BY <1>2, <3>1
    <2>3. CASE invoice[j].by # r
        <3>1. Sees(invoice, s)[j] = Sees(invoice', s)[j]
            BY <1>2, <2>3, Parts, InvoiceParts DEF Sees
        <3> QED BY <3>1
    <2> QED BY <2>2, <2>3
<1>7. \A s \in Requests : Booked(s)'
    <2>1. Booked(r)'
        BY <1>1, PlainlyBooked
    <2>2. ASSUME NEW s \in Requests \ {r} PROVE Booked(s)'
        BY <1>1, <1>3, <1>5, <1>6, OthersBooked DEF BooksKept
    <2> QED BY <2>1, <2>2
<1>8. NumbersDistinct'
    BY <1>3 DEF BooksKept, NumbersDistinct
<1>9. ASSUME NEW j \in Invoices PROVE NewDocument(j)'
    <2> SUFFICES ASSUME Unissued(j)' PROVE NewDocument(j)'
        BY DEF NewDocument
    <2>1. /\ Unissued(j) /\ invoice'[j] = invoice[j] /\ invoice[j].by # r
          /\ NextNumber(invoice[j].new.company, invoice[j].new.number)'
          /\ ~Taken(invoice[j].new.number)'
        BY <1>3
    <2>2. PICK s \in Requests \ {r} : invoice[j].by = s
        BY <2>1, Parts, InvoiceParts DEF Unissued
    <2>3. PICK y : y = invoice[j].new
        OBVIOUS
    <2>4. invoice[j].val = Absent /\ Active(s) /\ id[s] = j /\ FillsOnly(script[s]) /\ FromOffer(s, y)
        BY <2>1, <2>2, <2>3 DEF BooksKept, NewDocument
    <2>5. FromOffer(s, y)'
        BY <1>5, <2>4, OfferStays
    <2>6. Active(s)' /\ id'[s] = j /\ FillsOnly(script'[s])
        BY <1>1, <2>4 DEF SameRequest, Active
    <2>7. invoice'[j].new = y /\ invoice'[j].by = s /\ invoice'[j].val = Absent
        BY <2>1, <2>2, <2>3, <2>4
    <2>8. NextNumber(y.company, y.number)' /\ ~Taken(y.number)'
        BY <2>1, <2>7
    <2> QED BY <2>5, <2>6, <2>7, <2>8 DEF NewDocument
<1>10. \A k \in RutIds : NewRequest(k)'
    <2>1. NewOnesStay /\ \A k \in RutIds : rut_requests'[k].by # r
        BY <1>1, Parts, RequestEnded DEF Invariant, AskInvariant
    <2>2. \A k \in RutIds : IsNew(k) /\ rut_requests[k].by = r => ~IsNew(k)'
        BY <2>1 DEF NewOnesStay, IsNew
    <2>3. \A j \in Invoices : Live(invoice[j].val) =>
             Live(invoice'[j].val) /\ invoice'[j].val.is_offer = invoice[j].val.is_offer
        BY <1>2 DEF Document
    <2> QED BY <1>1, <2>1, <2>2, <2>3, NewRequestsStay DEF BooksKept, SameRequest
<1> QED BY <1>4, <1>7, <1>8, <1>9, <1>10 DEF BooksKept

LEMMA BooksNext ==
    Invariant /\ OwnBooks /\ PaymentsBacked /\ BooksKept /\ [Next]_vars => BooksKept'
<1> SUFFICES ASSUME Invariant, OwnBooks, PaymentsBacked, BooksKept, [Next]_vars PROVE BooksKept'
    OBVIOUS
<1>1. ASSUME UNCHANGED vars PROVE BooksKept'
    <2>1. UNCHANGED << invoice, rut_requests, form, script, id, inv >>
        BY <1>1 DEF vars, tables, hand
    <2>2. DocumentsFixed' /\ NumbersDistinct'
        BY <2>1 DEF BooksKept, DocumentsFixed, NumbersDistinct, Unissued
    <2>3. \A i \in Invoices : NewDocument(i)'
        BY <2>1 DEF BooksKept, NewDocument, Unissued, Active, NextNumber, Taken,
            CommittedInvoices, InvoiceIn, FromOffer
    <2>4. \A k \in RutIds : NewRequest(k)'
        BY <2>1 DEF BooksKept, NewRequest, IsNew
    <2>5. ASSUME NEW r \in Requests PROVE Booked(r)'
        <3>1. Booked(r)
            BY DEF BooksKept
        <3>2. (OfKind(r)' <=> OfKind(r)) /\ (Ready(r)' <=> Ready(r))
            <4>1. Sees(invoice', r) = Sees(invoice, r)
                BY <2>1
            <4> QED BY <2>1, <4>1 DEF OfKind, Ready, Reached
        <3>3. KindRead(r)' /\ AsksForInvoice(r)'
            BY <2>1, <3>1, <3>2 DEF Booked, KindRead, AsksForInvoice, AsksAt
        <3>4. Converting(r)'
            BY <2>1, <3>1, <3>2 DEF Booked, Converting, Accepting
        <3>5. Inserting(r)'
            BY <2>1, <3>1 DEF Booked, Inserting, NumberRead, NextNumber, Taken,
                CommittedInvoices, InvoiceIn, FromOffer, At
        <3> QED BY <3>3, <3>4, <3>5 DEF Booked
    <2> QED BY <2>2, <2>3, <2>4, <2>5 DEF BooksKept
<1>2. ASSUME NEW r \in Requests, StepOf(r) PROVE BooksKept'
    <2>1. ASSUME NEW f \in Forms, Begin(r, f) PROVE BooksKept'
        BY <2>1, BeginIsBooked
    <2>2. ASSUME NEW commit \in BOOLEAN, script[r] = << >>, EndTransaction(r, commit)
          PROVE  BooksKept'
        BY <2>2, EndIsBooked
    <2>3. ASSUME script[r] # << >>, Fail(r) PROVE BooksKept'
        BY <2>3, FailIsBooked
    <2>4. ASSUME ~Fail(r), Step(r), ~CommitOrRollback(r) PROVE BooksKept'
        BY <2>4, StatementCases, ListIsKept, RowsIsKept, NumberIsKept, UpdateIsKept, InsertIsKept,
           CustomerIsKept, SideIsKept, RUTGetIsKept, CreateIsKept DEF Side
    <2> QED BY <1>2, <2>1, <2>2, <2>3, <2>4 DEF StepOf
<1> QED BY <1>1, <1>2, StepCases

LEMMA BooksHold == Spec => []BooksKept
<1>1. Init => BooksKept
    BY DEF Init, EmptyTable, Settled, BooksKept, DocumentsFixed, NumbersDistinct, NewDocument,
        Unissued, NewRequest, IsNew, Booked, KindRead, AsksForInvoice, AsksAt, Converting,
        Inserting
<1> QED BY <1>1, BooksNext, InvariantHolds, OwnBooksHold, PaymentsHold, PTL DEF Spec

-----------------------------------------------------------------------------
(* What a commit enters. *)

(* A document that appears is the one its handler had on the way. *)
LEMMA AppearsFromOwn ==
    ASSUME Invariant, BooksKept, NEW r \in Requests, EndTransaction(r, TRUE),
           NEW i \in Invoices, ~Live(InvoiceIn(i)), Live(InvoiceIn(i)')
    PROVE  /\ invoice[i].by = r /\ Unissued(i) /\ id[r] = i
           /\ InvoiceIn(i)' = invoice[i].new /\ Active(r)
           /\ NextNumber(invoice[i].new.company, invoice[i].new.number)
           /\ ~Taken(invoice[i].new.number)
           /\ FromOffer(r, invoice[i].new)
<1>1. /\ IF invoice[i].by = r
         THEN invoice'[i].val = invoice[i].new ELSE invoice'[i] = invoice[i]
      /\ r # NULL
    BY EndedParts DEF EndTransaction
<1>2. invoice[i].by = r /\ invoice'[i].val = invoice[i].new
    BY <1>1 DEF InvoiceIn
<1>3. Unissued(i)
    BY <1>1, <1>2 DEF Unissued, InvoiceIn
<1> QED BY <1>2, <1>3 DEF BooksKept, NewDocument, InvoiceIn

(* Whatever else is done to the offer meanwhile: an invoice that names an  *)
(* offer appears in the commit that accepts it, for the offer's company    *)
(* and customer (views/invoice/flag.go:80-115).                            *)
THEOREM InvoicesComeFromOffers == Spec => MadeFromAcceptedOffer
<1> DEFINE Made == \A i \in Invoices :
                      ~Live(InvoiceIn(i)) /\ Live(InvoiceIn(i)') /\ InvoiceIn(i)'.offer_id # NULL
                      => MatchesOffer(i)'
<1>1. Invariant /\ BooksKept /\ [Next]_vars => [Made]_vars
    <2> SUFFICES ASSUME Invariant, BooksKept, [Next]_vars, NEW i \in Invoices,
                        ~Live(InvoiceIn(i)), Live(InvoiceIn(i)'), InvoiceIn(i)'.offer_id # NULL
                 PROVE  MatchesOffer(i)'
        OBVIOUS
    <2>1. Store' # Store
        <3>1. DOMAIN invoice = Invoices /\ DOMAIN invoice' = Invoices
            BY NextHolds, Parts DEF Invariant, TypeOK, TablesOK
        <3>2. Committed(invoice')[i] # Committed(invoice)[i]
            BY <3>1 DEF Committed, InvoiceIn
        <3> QED BY <3>2 DEF Store
    <2>2. PICK r \in Requests : EndTransaction(r, TRUE)
        BY <2>1, Parts, OnlyCommitsShow
    <2>3. PICK x : x = invoice[i].new
        OBVIOUS
    <2>4. invoice'[i].val = x /\ x.offer_id # NULL /\ FromOffer(r, x)
        BY <2>2, <2>3, AppearsFromOwn DEF InvoiceIn
    <2>5. PICK o \in Invoices : o = x.offer_id
        BY <2>4 DEF FromOffer
    <2>6. /\ ~x.is_offer /\ x.status = StatusInitial /\ invoice[o].by = r /\ Live(invoice[o].val)
          /\ invoice[o].val.is_offer /\ invoice[o].val.company = x.company
          /\ invoice[o].new.status = StatusAccepted /\ invoice[o].new.customer = x.customer
        BY <2>4, <2>5 DEF FromOffer
    <2>7. /\ invoice'[o].val = invoice[o].new
          /\ Document(invoice'[o].val) = Document(invoice[o].val)
        BY <2>2, <2>6, EndedParts DEF EndTransaction
    <2>8. /\ invoice'[o].val.is_offer = invoice[o].val.is_offer
          /\ invoice'[o].val.company = invoice[o].val.company
        BY <2>7 DEF Document
    <2>9. invoice'[o].val.is_offer
        BY <2>6, <2>8, Zenon
    <2> QED BY <2>4, <2>5, <2>6, <2>7, <2>8, <2>9 DEF MatchesOffer, InvoiceIn
<1> QED BY <1>1, InvariantHolds, BooksHold, PTL DEF Spec, MadeFromAcceptedOffer

-----------------------------------------------------------------------------
(* Each commit is one change of the books. *)

LEMMA DocumentsAre ==
    ASSUME TypeOK
    PROVE  DocumentsShown = [i \in Invoices |->
              IF Live(invoice[i].val) THEN Document(invoice[i].val) ELSE NULL]
BY DEF DocumentsShown, CommittedInvoices, InvoiceIn, Document

LEMMA DocumentsAreNext ==
    ASSUME TypeOK'
    PROVE  DocumentsShown' = [i \in Invoices |->
              IF Live(invoice'[i].val) THEN Document(invoice'[i].val) ELSE NULL]
BY DEF DocumentsShown, CommittedInvoices, InvoiceIn, Document

Request(x) == [invoice |-> x.invoice, type |-> x.type]

LEMMA RequestsAre ==
    ASSUME TypeOK
    PROVE  RequestsShown = [k \in RutIds |->
              IF Live(rut_requests[k].val) THEN Request(rut_requests[k].val) ELSE NULL]
BY DEF RequestsShown, CommittedRequests, RequestIn, Request

LEMMA RequestsAreNext ==
    ASSUME TypeOK'
    PROVE  RequestsShown' = [k \in RutIds |->
              IF Live(rut_requests'[k].val) THEN Request(rut_requests'[k].val) ELSE NULL]
BY DEF RequestsShown, CommittedRequests, RequestIn, Request

(* An entry of the books is not NULL. *)
LEMMA EntriesAreEntries ==
    ASSUME TypeOK
    PROVE  /\ \A i \in Invoices : Live(invoice[i].val) => Document(invoice[i].val) # NULL
           /\ \A k \in RutIds : Live(rut_requests[k].val) => Request(rut_requests[k].val) # NULL
<1>1. ASSUME NEW i \in Invoices, Live(invoice[i].val)
      PROVE  Document(invoice[i].val) # NULL
    <2>1. PICK x \in InvoiceRecord : x = invoice[i].val
        BY <1>1, InvoiceParts
    <2>2. Document(x) \in [number : Nat, company : Companies, is_offer : BOOLEAN,
                           offer_id : Invoices \cup {NULL}]
        BY DEF Document, InvoiceRecord
    <2> QED BY <2>1, <2>2, EntitiesAssumption
<1>2. ASSUME NEW k \in RutIds, Live(rut_requests[k].val)
      PROVE  Request(rut_requests[k].val) # NULL
    <2>1. PICK x \in RutRecord : x = rut_requests[k].val
        BY <1>2 DEF TypeOK, TablesOK, Versions, Live
    <2>2. Request(x) \in [invoice : Invoices, type : Types]
        BY DEF Request, RutRecord
    <2> QED BY <2>1, <2>2, EntitiesAssumption
<1> QED BY <1>1, <1>2

LEMMA EnteredIs ==
    ASSUME TypeOK
    PROVE  Books!Entered = CommittedInvoices
<1>1. \A i \in Invoices : DocumentsShown[i] # NULL <=> Live(invoice[i].val)
    BY DocumentsAre, EntriesAreEntries
<1> QED BY <1>1 DEF Books!Entered, CommittedInvoices, InvoiceIn

(* The number that a company issues next is the next one of the books. *)
LEMMA NextIsNext ==
    ASSUME TypeOK, NEW c \in Companies, NEW n, NextNumber(c, n), ~Taken(n)
    PROVE  n \in Books!Candidates(c) /\ Books!IsNext(c, n) /\ Books!Free(n)
<1>1. \A i \in CommittedInvoices :
         /\ DocumentsShown[i].number = InvoiceIn(i).number
         /\ DocumentsShown[i].company = InvoiceIn(i).company
    BY DEF DocumentsShown, CommittedInvoices
<1>2. Books!NumbersOf(c) = {InvoiceIn(i).number : i \in {j \in CommittedInvoices : InvoiceIn(j).company = c}}
    BY <1>1, EnteredIs DEF Books!NumbersOf
<1>3. n \in Books!Candidates(c)
    BY <1>2 DEF Books!Candidates, NextNumber
<1>4. Books!IsNext(c, n)
    BY <1>2 DEF Books!IsNext, Books!Candidates, NextNumber
<1>5. Books!Free(n)
    BY <1>1, EnteredIs DEF Books!Free, Taken
<1> QED BY <1>3, <1>4, <1>5

(* What a commit makes of the requests to the agency. *)
LEMMA EndedRequests ==
    ASSUME Invariant, NEW r \in Requests, EndTransaction(r, TRUE)
    PROVE  \A k \in RutIds :
              /\ IsNew(k) /\ rut_requests[k].by = r
                 => /\ rut_requests'[k].val = rut_requests[k].new
                    /\ Live(rut_requests[k].new)
              /\ ~(IsNew(k) /\ rut_requests[k].by = r)
                 => /\ Live(rut_requests'[k].val) <=> Live(rut_requests[k].val)
                    /\ Live(rut_requests[k].val)
                       => Request(rut_requests'[k].val) = Request(rut_requests[k].val)
<1> TAKE k \in RutIds
<1>1. /\ rut_requests[k].by = r => rut_requests'[k].val = rut_requests[k].new
      /\ rut_requests[k].by # r => rut_requests'[k] = rut_requests[k]
    BY Parts DEF EndTransaction, Ended, Settled, TypeOK, TablesOK
<1>2. r # NULL
    BY EntitiesAssumption
<1>3. CASE rut_requests[k].by = r
    <2>1. Live(rut_requests[k].new)
        BY <1>2, <1>3 DEF Invariant, AskInvariant, KeysFixed
    <2>2. Live(rut_requests[k].val) => Request(rut_requests[k].new) = Request(rut_requests[k].val)
        BY <1>2, <1>3 DEF Invariant, AskInvariant, KeysFixed, Key, Request
    <2> QED BY <1>1, <1>2, <1>3, <2>1, <2>2 DEF IsNew
<1>4. CASE rut_requests[k].by # r
    BY <1>1, <1>4
<1> QED BY <1>3, <1>4

LEMMA EnterStep ==
    ASSUME Invariant, Invariant', BooksKept, NEW r \in Requests, EndTransaction(r, TRUE),
           NEW i \in Invoices, ~Live(InvoiceIn(i)), Live(InvoiceIn(i)')
    PROVE  Books!Next
<1>1. PICK x : x = invoice[i].new
    OBVIOUS
<1>2. /\ invoice[i].by = r /\ Unissued(i) /\ id[r] = i
      /\ invoice'[i].val = x /\ Live(x)
      /\ NextNumber(x.company, x.number) /\ ~Taken(x.number) /\ FromOffer(r, x)
    BY <1>1, AppearsFromOwn DEF InvoiceIn
<1>3. /\ TypeOK /\ TypeOK'
    BY DEF Invariant
<1>4. x \in InvoiceRecord
    BY <1>1, <1>2, <1>3, InvoiceParts
<1>5. /\ x.company \in Companies /\ x.is_offer \in BOOLEAN
      /\ x.offer_id \in Invoices \cup {NULL}
    BY <1>4 DEF InvoiceRecord
<1>6. ASSUME NEW j \in Invoices \ {i}
      PROVE  /\ Live(invoice'[j].val) <=> Live(invoice[j].val)
             /\ Live(invoice[j].val) => Document(invoice'[j].val) = Document(invoice[j].val)
    <2>1. /\ invoice[j].by # r => invoice'[j] = invoice[j]
          /\ Live(invoice[j].val) =>
                 Live(invoice'[j].val) /\ Document(invoice'[j].val) = Document(invoice[j].val)
          /\ Unissued(j) /\ invoice[j].by = r => id[r] = j
          /\ r # NULL
        BY EndedParts DEF EndTransaction
    <2>2. ~Live(invoice[j].val) => invoice[j].by # r
        BY <1>2, <2>1 DEF Unissued
    <2> QED BY <2>1, <2>2
<1>7. DocumentsShown' = [DocumentsShown EXCEPT ![i] = Document(x)]
    <2>1. \A j \in Invoices : DocumentsShown'[j] = IF j = i THEN Document(x) ELSE DocumentsShown[j]
        BY <1>2, <1>3, <1>6, DocumentsAre, DocumentsAreNext
    <2>2. DocumentsShown' = [j \in Invoices |-> DocumentsShown'[j]]
        BY <1>3, DocumentsAreNext
    <2>3. DocumentsShown = [j \in Invoices |-> DocumentsShown[j]]
        BY <1>3, DocumentsAre
    <2> QED BY <2>1, <2>2, <2>3
<1>8. RequestsShown' = RequestsShown
    <2>1. ASSUME NEW k \in RutIds PROVE ~(IsNew(k) /\ rut_requests[k].by = r)
        <3>1. ~Live(invoice[i].val)
            BY <1>2 DEF Unissued
        <3> QED BY <1>2, <3>1 DEF BooksKept, NewRequest
    <2>2. \A k \in RutIds :
             /\ Live(rut_requests'[k].val) <=> Live(rut_requests[k].val)
             /\ Live(rut_requests[k].val)
                => Request(rut_requests'[k].val) = Request(rut_requests[k].val)
        BY <2>1, EndedRequests
    <2> QED BY <1>3, <2>2, RequestsAre, RequestsAreNext
<1>9. DocumentsShown[i] = NULL
    BY <1>2, <1>3, DocumentsAre DEF Unissued
<1>10. /\ x.number \in Books!Candidates(x.company)
       /\ Books!IsNext(x.company, x.number) /\ Books!Free(x.number)
    BY <1>2, <1>3, <1>5, NextIsNext
<1>11. ASSUME x.offer_id # NULL
       PROVE  /\ x.offer_id \in Books!Entered
              /\ DocumentsShown[x.offer_id].is_offer /\ ~x.is_offer
              /\ DocumentsShown[x.offer_id].company = x.company
    <2>1. PICK o \in Invoices : o = x.offer_id
        BY <1>5, <1>11
    <2>2. /\ Live(invoice[o].val) /\ invoice[o].val.is_offer
          /\ invoice[o].val.company = x.company /\ ~x.is_offer
        BY <1>2, <1>11, <2>1 DEF FromOffer
    <2>3. DocumentsShown[o] = Document(invoice[o].val)
        BY <1>3, <2>2, DocumentsAre
    <2>4. /\ DocumentsShown[o].is_offer = invoice[o].val.is_offer
          /\ DocumentsShown[o].company = invoice[o].val.company
        BY <2>3 DEF Document
    <2>5. DocumentsShown[o].is_offer
        BY <2>2, <2>4, Zenon
    <2>6. o \in Books!Entered
        BY <1>3, <2>2, EnteredIs DEF CommittedInvoices, InvoiceIn
    <2> QED BY <2>1, <2>2, <2>4, <2>5, <2>6
<1>12. Books!Enter(i, x.company, x.is_offer, x.offer_id)
    BY <1>7, <1>8, <1>9, <1>10, <1>11 DEF Books!Enter, Document
<1> QED BY <1>5, <1>12 DEF Books!Next

LEMMA AskStep ==
    ASSUME Invariant, Invariant', BooksKept, NEW r \in Requests, EndTransaction(r, TRUE),
           \A i \in Invoices : Live(InvoiceIn(i)') => Live(InvoiceIn(i)),
           NEW q \in RutIds, IsNew(q), rut_requests[q].by = r
    PROVE  Books!Next
<1> DEFINE K    == {k \in RutIds : IsNew(k) /\ rut_requests[k].by = r}
           type == [k \in K |-> rut_requests[k].new.type]
<1>1. TypeOK /\ TypeOK' /\ KeysFixed /\ KeysUnique /\ r # NULL
    BY EntitiesAssumption DEF Invariant, AskInvariant
<1>2. DocumentsShown' = DocumentsShown
    <2>1. \A i \in Invoices : Live(invoice[i].val) =>
             Live(invoice'[i].val) /\ Document(invoice'[i].val) = Document(invoice[i].val)
        BY EndedParts DEF EndTransaction
    <2>2. \A i \in Invoices : Live(invoice'[i].val) => Live(invoice[i].val)
        BY DEF InvoiceIn
    <2> QED BY <1>1, <2>1, <2>2, DocumentsAre, DocumentsAreNext
<1>3. PICK i \in Invoices : i = id[r] /\ Live(invoice[i].val) /\ ~invoice[i].val.is_offer
    <2>1. rut_requests[q].new.invoice \in Invoices
        BY <1>1, NewNamesInvoice
    <2> QED BY <2>1 DEF BooksKept, NewRequest
<1>4. i \in Books!Entered /\ ~DocumentsShown[i].is_offer
    <2>1. DocumentsShown[i].is_offer = invoice[i].val.is_offer
        BY <1>1, <1>3, DocumentsAre DEF Document
    <2>2. ~DocumentsShown[i].is_offer
        BY <1>3, <2>1, Zenon
    <2> QED BY <1>1, <1>3, <2>2, EnteredIs DEF CommittedInvoices, InvoiceIn
<1>5. ASSUME NEW k \in K
      PROVE  /\ k \in RutIds /\ Stored(k) /\ ~Live(rut_requests[k].val)
             /\ Live(rut_requests[k].new)
             /\ Key(k) = << i, rut_requests[k].new.type >>
             /\ Request(rut_requests[k].new) = [invoice |-> i, type |-> type[k]]
             /\ type[k] \in Types
    <2>1. /\ k \in RutIds /\ IsNew(k) /\ rut_requests[k].by = r
        OBVIOUS
    <2>2. /\ rut_requests[k].by # NULL /\ ~Live(rut_requests[k].val)
          /\ Live(rut_requests[k].new) /\ Stored(k)
          /\ Key(k) = << rut_requests[k].new.invoice, rut_requests[k].new.type >>
        BY <1>1, <2>1 DEF IsNew, KeysFixed, Stored
    <2>3. rut_requests[k].new.invoice = i
        BY <1>3, <2>1 DEF BooksKept, NewRequest
    <2>4. rut_requests[k].new \in RutRecord
        BY <1>1, <2>1, <2>2 DEF TypeOK, TablesOK, Versions, Live
    <2>5. rut_requests[k].new.type \in Types
        BY <2>4 DEF RutRecord
    <2> QED BY <2>1, <2>2, <2>3, <2>5 DEF Request
<1>6. ASSUME NEW k \in K, NEW l \in K \ {k} PROVE type[l] # type[k]
    <2>1. k \in RutIds /\ l \in RutIds /\ Stored(k) /\ Stored(l)
        BY <1>5
    <2>2. type[l] = type[k] => Key(l) = Key(k)
        BY <1>5
    <2> QED BY <1>1, <2>1, <2>2 DEF KeysUnique
<1>7. ASSUME NEW k \in K, NEW l \in RutIds
      PROVE  RequestsShown[l] # [invoice |-> i, type |-> type[k]]
    <2>1. CASE Live(rut_requests[l].val)
        <3>1. RequestsShown[l] = Request(rut_requests[l].val)
            BY <1>1, <2>1, RequestsAre
        <3>2. Stored(l) /\ Key(l) = << rut_requests[l].val.invoice, rut_requests[l].val.type >>
            BY <2>1 DEF Stored, Key
        <3>3. k \in RutIds /\ Stored(k) /\ l # k
            BY <1>5, <2>1
        <3>4. Key(l) # Key(k)
            BY <1>1, <3>2, <3>3 DEF KeysUnique
        <3>5. type[k] = rut_requests[k].new.type /\ Key(k) = << i, rut_requests[k].new.type >>
            BY <1>5
        <3>6. PICK y : y = rut_requests[l].val
            OBVIOUS
        <3>7. ~(y.invoice = i /\ y.type = type[k])
            BY <3>2, <3>4, <3>5, <3>6
        <3>8. Request(y) # [invoice |-> i, type |-> type[k]]
            <4> HIDE DEF type
            <4> QED BY <3>7 DEF Request
        <3> QED BY <3>1, <3>6, <3>8
    <2>2. CASE ~Live(rut_requests[l].val)
        <3>1. RequestsShown[l] = NULL
            BY <1>1, <2>2, RequestsAre
        <3>2. [invoice |-> i, type |-> type[k]] \in [invoice : Invoices, type : Types]
            BY <1>5
        <3> QED BY <3>1, <3>2, EntitiesAssumption
    <2> QED BY <2>1, <2>2
<1>8. RequestsShown' = [k \in RutIds |->
         IF k \in K THEN [invoice |-> i, type |-> type[k]] ELSE RequestsShown[k]]
    <2>1. \A k \in K : /\ Live(rut_requests'[k].val)
                       /\ Request(rut_requests'[k].val) = [invoice |-> i, type |-> type[k]]
        BY <1>5, EndedRequests
    <2>2. \A k \in RutIds : k \notin K =>
             /\ Live(rut_requests'[k].val) <=> Live(rut_requests[k].val)
             /\ Live(rut_requests[k].val)
                => Request(rut_requests'[k].val) = Request(rut_requests[k].val)
        BY EndedRequests
    <2> HIDE DEF K, type
    <2>3. \A k \in RutIds :
             RequestsShown'[k] = IF k \in K THEN [invoice |-> i, type |-> type[k]]
                                 ELSE RequestsShown[k]
        <3> TAKE k \in RutIds
        <3>1. /\ RequestsShown[k] = IF Live(rut_requests[k].val)
                                    THEN Request(rut_requests[k].val) ELSE NULL
              /\ RequestsShown'[k] = IF Live(rut_requests'[k].val)
                                     THEN Request(rut_requests'[k].val) ELSE NULL
            BY <1>1, RequestsAre, RequestsAreNext
        <3>2. CASE k \in K
            BY <2>1, <3>1, <3>2
        <3>3. CASE k \notin K
            BY <2>2, <3>1, <3>3
        <3> QED BY <3>2, <3>3
    <2>4. RequestsShown' = [k \in RutIds |-> RequestsShown'[k]]
        BY <1>1, RequestsAreNext
    <2> QED BY <2>3, <2>4
<1>9. \A k \in K : RequestsShown[k] = NULL
    BY <1>1, <1>5, RequestsAre
<1>10. K \in SUBSET RutIds /\ type \in [K -> Types]
    BY <1>5
<1> HIDE DEF K, type
<1>11. Books!Ask(i, K, type)
    BY <1>2, <1>4, <1>6, <1>7, <1>8, <1>9 DEF Books!Ask
<1> QED BY <1>3, <1>10, <1>11 DEF Books!Next

LEMMA BooksStep ==
    ASSUME Invariant, Invariant', BooksKept, [Next]_vars
    PROVE  [Books!Next]_(Books!vars)
<1>1. TypeOK /\ TypeOK'
    BY DEF Invariant
<1>2. CASE Store' = Store
    <2>1. /\ \A i \in Invoices : invoice'[i].val = invoice[i].val
          /\ \A k \in RutIds : rut_requests'[k].val = rut_requests[k].val
        <3>1. /\ DOMAIN invoice = Invoices /\ DOMAIN invoice' = Invoices
              /\ DOMAIN rut_requests = RutIds /\ DOMAIN rut_requests' = RutIds
            BY <1>1 DEF TypeOK, TablesOK
        <3>2. Committed(invoice') = Committed(invoice)
              /\ Committed(rut_requests') = Committed(rut_requests)
            BY <1>2 DEF Store
        <3> QED BY <3>1, <3>2 DEF Committed
    <2>2. DocumentsShown' = DocumentsShown /\ RequestsShown' = RequestsShown
        BY <1>1, <2>1, DocumentsAre, DocumentsAreNext, RequestsAre, RequestsAreNext
    <2> QED BY <2>2 DEF Books!vars
<1>3. CASE Store' # Store
    <2>1. PICK r \in Requests : EndTransaction(r, TRUE)
        BY <1>1, <1>3, OnlyCommitsShow
    <2>2. CASE \E i \in Invoices : ~Live(InvoiceIn(i)) /\ Live(InvoiceIn(i)')
        BY <2>1, <2>2, EnterStep
    <2>3. CASE /\ \A i \in Invoices : Live(InvoiceIn(i)') => Live(InvoiceIn(i))
               /\ \E q \in RutIds : IsNew(q) /\ rut_requests[q].by = r
        BY <2>1, <2>3, AskStep
    <2>4. CASE /\ \A i \in Invoices : Live(InvoiceIn(i)') => Live(InvoiceIn(i))
               /\ ~\E q \in RutIds : IsNew(q) /\ rut_requests[q].by = r
        <3>1. \A i \in Invoices : Live(invoice[i].val) =>
                 Live(invoice'[i].val) /\ Document(invoice'[i].val) = Document(invoice[i].val)
            BY <2>1, EndedParts DEF EndTransaction
        <3>2. \A i \in Invoices : Live(invoice'[i].val) => Live(invoice[i].val)
            BY <2>4 DEF InvoiceIn
        <3>3. \A k \in RutIds :
                 /\ Live(rut_requests'[k].val) <=> Live(rut_requests[k].val)
                 /\ Live(rut_requests[k].val)
                    => Request(rut_requests'[k].val) = Request(rut_requests[k].val)
            BY <2>1, <2>4, EndedRequests
        <3>4. DocumentsShown' = DocumentsShown
            BY <1>1, <3>1, <3>2, DocumentsAre, DocumentsAreNext
        <3>5. RequestsShown' = RequestsShown
            BY <1>1, <3>3, RequestsAre, RequestsAreNext
        <3> QED BY <3>4, <3>5 DEF Books!vars
    <2> QED BY <2>2, <2>3, <2>4
<1> QED BY <1>2, <1>3

LEMMA BooksInit == Init => Books!Init
<1> SUFFICES ASSUME Init
             PROVE  Books!Init
    OBVIOUS
<1>1. /\ \A i \in Invoices : ~Live(invoice[i].val)
      /\ \A k \in RutIds : ~Live(rut_requests[k].val)
    BY DEF Init, EmptyTable, Settled, Live
<1> QED BY <1>1 DEF Books!Init, DocumentsShown, RequestsShown, CommittedInvoices,
                    CommittedRequests, InvoiceIn, RequestIn

(* The program keeps the books of Register.tla, whatever requests overlap  *)
(* and whatever fails: a commit enters one document with the next free     *)
(* number of its company, or asks for types of work that nobody asked for  *)
(* before, or does neither (models/company.go:80-95, flag.go:80-182).      *)
THEOREM CommitsKeepTheBooks == Spec => ImplementsRegister
<1>1. Invariant /\ Invariant' /\ BooksKept /\ [Next]_vars => [Books!Next]_(Books!vars)
    BY BooksStep
<1> QED BY <1>1, BooksInit, InvariantHolds, BooksHold, PTL
        DEF Spec, ImplementsRegister, Books!Spec

-----------------------------------------------------------------------------
(* What only a request that was overtaken can break. *)

(* The pages of a request get it first, and save no other. *)
GetsFirst(r) ==
    \A n \in DOMAIN script[r] :
        script[r][n].op = "RUTGet" =>
            n = 1 /\ script[r] = << Do("RUTGet", form[r].rut) >> \o InvoiceGet

SavesOwn(r) ==
    \A n \in DOMAIN script[r] :
        script[r][n].op = "RUTSave" => IsRut(form[r]) /\ script[r][n].on = form[r].rut

RutScripts == \A r \in Requests : GetsFirst(r) /\ SavesOwn(r)

(* What becomes of the script of a handler that goes on. *)
LEMMA StatementScript ==
    ASSUME Invariant, NEW r \in Requests, ~Fail(r), Step(r), ~CommitOrRollback(r)
    PROVE  /\ Alone(r) /\ script[r] # << >>
           /\ \/ InvoiceRows(r)
              \/ GetNextInvoiceNumber(r) /\ script'[r] \in Seq(Issued)
              \/ Reduced(r)
<1>1. Alone(r)
    BY StatementCases, Parts, ListFrame, SaveFrame, SideFrame
<1>2. script[r] # << >>
    BY DEF Step, InvoiceList, InvoiceRows, GetNextInvoiceNumber, InvoiceUpdate, InvoiceInsert,
        InvoiceRowAdd, InvoiceRowRemove, InvoiceRowUpdate, CustomerList, CustomerUpdate,
        CustomerInsert, FileAdd, AttachmentAdd, AttachmentRemove, FileRemove, RUTGet, RUTList,
        RUTCreate, RUTSave, Runs, At
<1>3. script \in [Requests -> Seq(Statement)]
    BY Parts DEF TypeOK, ServingOK
<1>4. ASSUME Continue(r) PROVE Reduced(r)
    BY <1>3, <1>4 DEF Continue, Reduced
<1>5. ASSUME NEW d \in Statement, ContinueWith(r, << d >> \o Tail(script[r])),
             \/ d.op \in Filling /\ Head(script[r]).op \in Filling
             \/ d.op = "RUTCreate" /\ Head(script[r]).op = "RUTList"
      PROVE  Reduced(r)
    <2>1. script'[r] = << d >> \o Tail(script[r])
        BY <1>3, <1>5 DEF ContinueWith
    <2> QED BY <1>5, <2>1 DEF Reduced
<1>6. ASSUME FileAdd(r) PROVE Reduced(r)
    <2>1. PICK k \in Files : ContinueWith(r, << Do("AttachmentAdd", k) >> \o Tail(script[r]))
        BY <1>6, Parts DEF FileAdd, FreshIds, TypeOK, TablesOK
    <2>2. Head(script[r]).op = "FileAdd"
        BY <1>6 DEF FileAdd, Runs, At
    <2>3. Do("AttachmentAdd", k) \in Statement /\ Do("AttachmentAdd", k).op = "AttachmentAdd"
        BY DoType DEF Do
    <2> QED BY <1>5, <2>1, <2>2, <2>3 DEF Filling
<1>7. ASSUME AttachmentRemove(r) PROVE Reduced(r)
    <2>1. /\ ContinueWith(r, << Do("FileRemove", Arg(r)) >> \o Tail(script[r]))
          /\ Head(script[r]).op = "AttachmentRemove"
        BY <1>7 DEF AttachmentRemove, Runs, At
    <2>2. Arg(r) \in Files
        BY <1>2, <2>1, Parts, Served, StatementArgument DEF Arg
    <2>3. Do("FileRemove", Arg(r)) \in Statement /\ Do("FileRemove", Arg(r)).op = "FileRemove"
        BY <2>2, DoType DEF Do
    <2> QED BY <1>5, <2>1, <2>3 DEF Filling
<1>8. ASSUME RUTList(r) PROVE Reduced(r)
    <2>1. /\ \/ Continue(r)
             \/ ContinueWith(r, << Do("RUTCreate", Arg(r)) >> \o Tail(script[r]))
          /\ Head(script[r]).op = "RUTList"
        BY <1>8 DEF RUTList, Runs, At
    <2>2. Arg(r) \in Types
        BY <1>2, <2>1, Parts, Served, StatementArgument DEF Arg
    <2>3. Do("RUTCreate", Arg(r)) \in Statement /\ Do("RUTCreate", Arg(r)).op = "RUTCreate"
        BY <2>2, DoType DEF Do
    <2> QED BY <1>4, <1>5, <2>1, <2>3
<1>9. ASSUME GetNextInvoiceNumber(r) PROVE Reduced(r) \/ script'[r] \in Seq(Issued)
    BY <1>4, <1>9, NumberScript
<1>10. ASSUME ~InvoiceRows(r), ~GetNextInvoiceNumber(r), ~FileAdd(r), ~AttachmentRemove(r),
              ~RUTList(r)
       PROVE  Continue(r)
    BY <1>10 DEF Step, InvoiceList, InvoiceUpdate, InvoiceInsert, InvoiceRowAdd,
        InvoiceRowRemove, InvoiceRowUpdate, CustomerList, CustomerUpdate, CustomerInsert,
        AttachmentAdd, FileRemove, RUTGet, RUTCreate, RUTSave, WriteRow, WriteRequest,
        MatchesNothing
<1> QED BY <1>1, <1>2, <1>4, <1>6, <1>7, <1>8, <1>9, <1>10

LEMMA RutSavesOwn ==
    ASSUME NEW f \in RutForm, NEW rws \in LocalRows, NEW q \in RutSaveScripts(f, rws)
    PROVE  \A n \in DOMAIN q : q[n].op = "RUTSave" => q[n].on = f.rut
<1> DEFINE W == {k \in Present(rws) : rws[k].hours # NULL}
           Saves(worked) == [n \in 1..Len(worked) |->
               Do("RowUpdate", [row |-> worked[n], data |-> Content(rws[worked[n]])])]
<1>1. PICK worked \in SetToSeqs(W) : q = << Do("RUTSave", f.rut) >> \o Saves(worked)
    BY DEF RutSaveScripts
<1>2. worked \in Seq(Present(rws))
    BY PresentFinite, FS_Subset, OrdersType, SeqMonotonic
<1>3. Len(worked) \in Nat /\ \A n \in 1..Len(worked) : worked[n] \in Present(rws)
    BY <1>2, LenProperties, ElementOfSeq
<1>4. \A k \in Present(rws) : [row |-> k, data |-> Content(rws[k])] \in RowImage
    BY PresentFinite, PresentType DEF RowRecord, RowImage, RowContent, Content
<1> DEFINE S == Saves(worked)
<1>5. S \in Seq(RutHandled)
    BY <1>3, <1>4, HandledType, FunctionIsSeq
<1>6. Do("RUTSave", f.rut) \in RutHandled /\ Do("RUTSave", f.rut).on = f.rut
    BY HandledType DEF RutForm, RutFlagForm, RutPostForm, Do
<1>7. \A n \in DOMAIN S : S[n].op = "RowUpdate"
    BY <1>3 DEF Do
<1>8. q = << Do("RUTSave", f.rut) >> \o S
    BY <1>1
<1> HIDE DEF S
<1>9. \A n \in DOMAIN q : \/ n = 1 /\ q[n] = Do("RUTSave", f.rut)
                          \/ n - 1 \in DOMAIN S /\ q[n] = S[n - 1]
    BY <1>5, <1>6, <1>8, Prepended
<1> QED BY <1>6, <1>7, <1>9

LEMMA OpeningGets ==
    ASSUME NEW r \in Requests, NEW f \in Forms, script'[r] = Opening(f), form'[r] = f
    PROVE  GetsFirst(r)' /\ SavesOwn(r)'
<1>1. CASE IsRut(f)
    <2>1. Opening(f) = << Do("RUTGet", f.rut) >> \o InvoiceGet
        BY <1>1 DEF Opening
    <2>2. Do("RUTGet", f.rut) \in Statement /\ Do("RUTGet", f.rut).op = "RUTGet"
        BY <1>1, FormType, DoType DEF IsRut, RutForm, RutFlagForm, RutPostForm, Do
    <2>3. \A n \in DOMAIN InvoiceGet : InvoiceGet[n].op \in {"InvoiceList", "InvoiceRows"}
        BY DEF InvoiceGet, Do
    <2>4. \A n \in DOMAIN Opening(f) :
             \/ n = 1 /\ Opening(f)[n] = Do("RUTGet", f.rut)
             \/ n - 1 \in DOMAIN InvoiceGet /\ Opening(f)[n] = InvoiceGet[n - 1]
        BY <2>1, <2>2, InvoiceGetType, Prepended
    <2>5. \A n \in DOMAIN Opening(f) :
             \/ n = 1 /\ Opening(f)[n].op = "RUTGet"
             \/ Opening(f)[n].op \in {"InvoiceList", "InvoiceRows"}
        BY <2>2, <2>3, <2>4
    <2> QED BY <2>1, <2>5 DEF GetsFirst, SavesOwn
<1>2. CASE ~IsRut(f)
    <2>1. \/ Opening(f) = << Do("GetNextInvoiceNumber", f.company) >>
          \/ Opening(f) = << Do("InvoiceList", NULL), Do("InvoiceRows", NULL) >>
        BY <1>2 DEF Opening, InvoiceGet
    <2>2. \A n \in DOMAIN Opening(f) :
             Opening(f)[n].op \in {"GetNextInvoiceNumber", "InvoiceList", "InvoiceRows"}
        BY <2>1 DEF Do
    <2> QED BY <2>2 DEF GetsFirst, SavesOwn
<1> QED BY <1>1, <1>2

LEMMA IssuedGets ==
    ASSUME NEW r \in Requests, script'[r] \in Seq(Issued)
    PROVE  GetsFirst(r)' /\ SavesOwn(r)'
<1>1. \A n \in DOMAIN script'[r] : script'[r][n] \in Issued
    BY LenProperties, ElementOfSeq
<1> QED BY <1>1 DEF GetsFirst, SavesOwn, Issued

LEMMA RowsGet ==
    ASSUME Invariant, NEW r \in Requests, InvoiceRows(r), ~Fail(r), form'[r] = form[r]
    PROVE  GetsFirst(r)' /\ SavesOwn(r)'
<1> DEFINE f == form[r]
<1>1. CASE ~IsRut(f)
    BY <1>1, RowsScript, IssuedGets
<1>2. CASE IsRut(f)
    <2>1. \A n \in DOMAIN script'[r] : script'[r][n] \in RutHandled
        BY <1>2, RowsScript, LenProperties, ElementOfSeq
    <2>2. f \in Forms /\ RowsOf(r) \in LocalRows /\ f \in RutForm
        BY <1>2, Parts, RowsOfType, InHandAfterRows, FormType DEF IsRut
    <2>3. f.op = "rut_post" => HoursPosted(f, RowsOf(r)) \in LocalRows
        BY <2>2, FormType, HoursPostedType
    <2>4. \/ \E rws \in LocalRows : script'[r] \in RutSaveScripts(f, rws)
          \/ script'[r] = << >>
        <3>1. \A q : ContinueWith(r, q) => script'[r] = q
            BY Parts DEF ContinueWith, TypeOK, ServingOK
        <3>2. \/ f.op = "rut_flag" /\ \E q \in RutSaveScripts(f, RowsOf(r)) : ContinueWith(r, q)
              \/ /\ f.op = "rut_post"
                 /\ \E q \in RutPostScripts(f, rut[r], HoursPosted(f, RowsOf(r))) :
                       ContinueWith(r, q)
            BY <1>2 DEF InvoiceRows, IsRut
        <3> QED BY <2>2, <2>3, <3>1, <3>2 DEF RutPostScripts
    <2>5. \A n \in DOMAIN script'[r] : script'[r][n].op = "RUTSave" => script'[r][n].on = f.rut
        BY <2>2, <2>4, RutSavesOwn
    <2> QED BY <1>2, <2>1, <2>5 DEF GetsFirst, SavesOwn, RutHandled
<1> QED BY <1>1, <1>2

LEMMA ReducedGets ==
    ASSUME TypeOK, RutScripts, NEW r \in Requests, script[r] # << >>, Reduced(r),
           form'[r] = form[r]
    PROVE  GetsFirst(r)' /\ SavesOwn(r)'
<1>1. PICK s \in {0, 1} :
         \A n \in DOMAIN script'[r] :
            /\ n \in Nat \ {0}
            /\ \/ n + s \in DOMAIN script[r] /\ script'[r][n] = script[r][n + s] /\ n + s # 1
               \/ script'[r][n].op \in Filling
               \/ script'[r][n].op = "RUTCreate"
    BY ReducedParts
<1>2. GetsFirst(r) /\ SavesOwn(r)
    BY DEF RutScripts
<1>3. \A n \in DOMAIN script'[r] : script'[r][n].op # "RUTGet"
    BY <1>1, <1>2 DEF GetsFirst, Filling
<1>4. \A n \in DOMAIN script'[r] :
         script'[r][n].op = "RUTSave" => IsRut(form[r]) /\ script'[r][n].on = form[r].rut
    BY <1>1, <1>2 DEF SavesOwn, Filling
<1> QED BY <1>3, <1>4 DEF GetsFirst, SavesOwn

LEMMA RutScriptsNext == Invariant /\ RutScripts /\ [Next]_vars => RutScripts'
<1> SUFFICES ASSUME Invariant, RutScripts, [Next]_vars PROVE RutScripts'
    OBVIOUS
<1>1. ASSUME NEW r \in Requests, GetsFirst(r)' /\ SavesOwn(r)',
             \A s \in Requests \ {r} : script'[s] = script[s] /\ form'[s] = form[s]
      PROVE  RutScripts'
    <2> SUFFICES ASSUME NEW s \in Requests PROVE GetsFirst(s)' /\ SavesOwn(s)'
        BY DEF RutScripts
    <2>1. CASE s # r
        BY <1>1, <2>1 DEF RutScripts, GetsFirst, SavesOwn
    <2> QED BY <1>1, <2>1
<1>2. CASE UNCHANGED vars
    BY <1>2 DEF vars, RutScripts, GetsFirst, SavesOwn
<1>3. ASSUME NEW r \in Requests, StepOf(r) PROVE RutScripts'
    <2>1. ASSUME NEW f \in Forms, Begin(r, f) PROVE RutScripts'
        <3>1. /\ script'[r] = Opening(f) /\ form'[r] = f
              /\ \A s \in Requests \ {r} : script'[s] = script[s] /\ form'[s] = form[s]
            BY <2>1, Parts DEF Begin, TypeOK, ServingOK
        <3> QED BY <1>1, <3>1, OpeningGets
    <2>2. ASSUME NEW commit \in BOOLEAN, script[r] = << >>, EndTransaction(r, commit)
          PROVE  RutScripts'
        <3>1. /\ script'[r] = << >>
              /\ \A s \in Requests \ {r} : script'[s] = script[s] /\ form'[s] = form[s]
            BY <2>2, Parts DEF EndTransaction, TypeOK, ServingOK
        <3>2. DOMAIN script'[r] = {}
            BY <3>1
        <3> QED BY <1>1, <3>1, <3>2 DEF GetsFirst, SavesOwn
    <2>3. CASE Fail(r)
        <3>1. /\ script'[r] = << >>
              /\ \A s \in Requests \ {r} : script'[s] = script[s] /\ form'[s] = form[s]
            BY <2>3, Parts DEF Fail, TypeOK, ServingOK
        <3>2. DOMAIN script'[r] = {}
            BY <3>1
        <3> QED BY <1>1, <3>1, <3>2 DEF GetsFirst, SavesOwn
    <2>4. CASE ~Fail(r) /\ Step(r) /\ ~CommitOrRollback(r)
        <3>1. /\ script[r] # << >> /\ form'[r] = form[r]
              /\ \/ InvoiceRows(r) \/ script'[r] \in Seq(Issued) \/ Reduced(r)
              /\ \A s \in Requests \ {r} : script'[s] = script[s] /\ form'[s] = form[s]
            BY <2>4, StatementScript DEF Alone
        <3>2. GetsFirst(r)' /\ SavesOwn(r)'
            BY <2>4, <3>1, Parts, RowsGet, IssuedGets, ReducedGets
        <3> QED BY <1>1, <3>1, <3>2
    <2> QED BY <1>3, <2>1, <2>2, <2>3, <2>4 DEF StepOf
<1> QED BY <1>2, <1>3, StepCases

(* A stored invoice x may be replaced by y: x is not deleted, and the date *)
(* of its payment is not lost.                                             *)
Follows(x, y) == ~x.is_deleted /\ (x.date_paid => y.date_paid)

(* The handler of r has read its invoice, and has still something to do:   *)
(* the copy that it has in hand may replace the stored one.                *)
HasRead(r) == script[r] # << >> /\ Head(script[r]).op \notin {"RUTGet", "InvoiceList"}

InvoiceCurrent(r) ==
    HasRead(r) /\ id[r] \in Invoices \ overtaken[r] /\ Live(invoice[id[r]].val)
    => Follows(invoice[id[r]].val, inv[r])

InvoiceGuarded(i) ==
    LET r == invoice[i].by IN
    r # NULL /\ Live(invoice[i].val)
    => Active(r) /\ (i \notin overtaken[r] => Follows(invoice[i].val, invoice[i].new))

InvoicesFollow ==
    /\ \A i \in Invoices : InvoiceGuarded(i)
    /\ \A r \in Requests : InvoiceCurrent(r)

(* What a request was overtaken by is not forgotten while it is active. *)
Kept == \A r \in Requests : Active(r)' => overtaken[r] \subseteq overtaken'[r]

LEMMA HistoryKept ==
    ASSUME [HNext]_hvars
    PROVE  /\ [Next]_vars /\ Kept
           /\ \A r \in Requests : ~UNCHANGED vars /\ Active(r)' =>
                 Changed(invoice, r) \cup Changed(rut_requests, r) \subseteq overtaken'[r]
<1>1. CASE HNext
    <2>1. \A r \in Requests : Active(r)' =>
             overtaken'[r] = overtaken[r] \cup Changed(invoice, r) \cup Changed(invoice_row, r)
                                          \cup Changed(rut_requests, r)
        BY <1>1 DEF HNext, Remember
    <2> QED BY <1>1, <2>1 DEF HNext, Kept
<1>2. CASE UNCHANGED hvars
    BY <1>2 DEF hvars, Kept
<1> QED BY <1>1, <1>2

LEMMA WorksIsActive ==
    ASSUME Invariant, NEW r \in Requests, script[r] # << >> PROVE Active(r)
BY Parts DEF IdleHasNoScript

LEMMA GuardedStill ==
    ASSUME Invariant, Kept, InvoicesFollow, NEW i \in Invoices, invoice'[i] = invoice[i],
           \A s \in Requests : invoice[i].by = s /\ Active(s) => Active(s)'
    PROVE  InvoiceGuarded(i)'
<1> SUFFICES ASSUME NEW s, s = invoice[i].by, s # NULL, Live(invoice[i].val)
             PROVE  /\ form'[s] # NULL
                    /\ i \notin overtaken'[s] => Follows(invoice[i].val, invoice[i].new)
    BY DEF InvoiceGuarded, Active, Follows
<1>1. s \in Requests
    BY Parts DEF TypeOK, TablesOK, Versions
<1>2. Active(s) /\ (i \notin overtaken[s] => Follows(invoice[i].val, invoice[i].new))
    BY DEF InvoicesFollow, InvoiceGuarded
<1>3. Active(s)'
    BY <1>1, <1>2
<1> QED BY <1>1, <1>2, <1>3 DEF Active, Kept

LEMMA InvoicesFollowStill ==
    ASSUME Invariant, Kept, InvoicesFollow, NEW r \in Requests, Alone(r), Active(r),
           InvoiceCurrent(r)',
           \A i \in Invoices :
              \/ invoice'[i] = invoice[i]
              \/ /\ invoice'[i].val = invoice[i].val /\ invoice'[i].by = r
                 /\ Live(invoice[i].val) /\ i \notin overtaken[r]
                    => Follows(invoice[i].val, invoice'[i].new)
    PROVE  InvoicesFollow'
<1>1. /\ \A s \in Requests : Active(s)' = Active(s)
      /\ \A s \in Requests : Active(s) => overtaken[s] \subseteq overtaken'[s]
    BY DEF Alone, Active, Kept
<1>2. ASSUME NEW i \in Invoices PROVE InvoiceGuarded(i)'
    <2>1. CASE invoice'[i] = invoice[i]
        BY <1>1, <2>1, GuardedStill
    <2>2. CASE invoice'[i] # invoice[i]
        BY <1>1, <2>2 DEF InvoiceGuarded, Active, Follows
    <2> QED BY <2>1, <2>2
<1>3. ASSUME NEW s \in Requests, s # r, HasRead(s)' PROVE InvoiceCurrent(s)'
    <2>1. /\ script'[s] = script[s] /\ id'[s] = id[s] /\ inv'[s] = inv[s] /\ InvoiceCurrent(s)
          /\ \A i \in Invoices : invoice'[i].val = invoice[i].val
        BY <1>3 DEF Alone, InvoicesFollow
    <2>2. HasRead(s) /\ overtaken[s] \subseteq overtaken'[s]
        BY <1>1, <1>3, <2>1, WorksIsActive DEF HasRead
    <2> QED BY <2>1, <2>2 DEF InvoiceCurrent, Follows
<1>4. \A s \in Requests : InvoiceCurrent(s)'
    BY <1>3 DEF InvoiceCurrent
<1> QED BY <1>2, <1>4 DEF InvoicesFollow

(* Most statements change neither what is in hand nor the stored invoices. *)
LEMMA CurrentStill ==
    ASSUME Invariant, Kept, InvoicesFollow, NEW r \in Requests, HasRead(r), Alone(r),
           UNCHANGED invoice, id'[r] = id[r], inv[r].date_paid => inv'[r].date_paid
    PROVE  InvoicesFollow'
<1>1. Active(r) /\ overtaken[r] \subseteq overtaken'[r]
    BY WorksIsActive DEF HasRead, Alone, Active, Kept
<1>2. InvoiceCurrent(r)'
    BY <1>1 DEF InvoicesFollow, InvoiceCurrent, Follows
<1> QED BY <1>1, <1>2, InvoicesFollowStill

LEMMA GetFollows ==
    ASSUME Invariant, RutScripts, NEW r \in Requests, RUTGet(r), ~Fail(r)
    PROVE  /\ script'[r] = InvoiceGet
           /\ Arg(r) = form[r].rut
<1>1. Runs(r, "RUTGet") /\ Continue(r)
    BY DEF RUTGet
<1>2. script[r] # << >> /\ Head(script[r]).op = "RUTGet"
    BY <1>1 DEF Runs, At
<1>3. script'[r] = Tail(script[r])
    BY <1>1, Parts DEF Continue, TypeOK, ServingOK
<1>4. 1 \in DOMAIN script[r] /\ script[r][1] = Head(script[r])
    BY <1>2, Parts, ScriptParts
<1>5. script[r] = << Do("RUTGet", form[r].rut) >> \o InvoiceGet
    BY <1>2, <1>4 DEF RutScripts, GetsFirst
<1>6. InvoiceGet \in Seq(Statement) /\ Do("RUTGet", form[r].rut) \in Statement
    <2>1. script[r][1] = Do("RUTGet", form[r].rut)
        BY <1>5, InvoiceGetType
    <2> QED BY <1>2, <1>4, <2>1, Parts, Served, InvoiceGetType
<1>7. Head(script[r]) = Do("RUTGet", form[r].rut) /\ Tail(script[r]) = InvoiceGet
    <2>1. ASSUME NEW d \in Statement, NEW q \in Seq(Statement)
          PROVE  Head(<< d >> \o q) = d /\ Tail(<< d >> \o q) = q
        OBVIOUS
    <2> QED BY <1>5, <1>6, <2>1
<1> QED BY <1>3, <1>7 DEF Arg, Do

LEMMA ReadFollows ==
    ASSUME Invariant, Kept, BooksKept, RutScripts, InvoicesFollow, NEW r \in Requests, ~Fail(r),
           Alone(r), script[r] # << >>,
           InvoiceList(r) \/ InvoiceRows(r) \/ GetNextInvoiceNumber(r) \/ CustomerList(r)
    PROVE  InvoicesFollow'
<1>1. /\ UNCHANGED invoice /\ DOMAIN invoice = Invoices
      /\ inv[r] \in LocalInvoice /\ inv \in [Requests -> LocalInvoice]
      /\ id \in [Requests -> Invoices \cup {NULL}]
      /\ Active(r) /\ overtaken[r] \subseteq overtaken'[r]
    BY Parts, ListFrame, WorksIsActive
       DEF tables, TypeOK, HandOK, TablesOK, Alone, Active, Kept
<1>2. CASE InvoiceList(r)
    <2>1. /\ inv'[r] = Sees(invoice, r)[id[r]] /\ id'[r] = id[r] /\ id[r] \in Invoices
          /\ ~inv'[r].is_deleted
        BY <1>1, <1>2 DEF InvoiceList, Visible
    <2>2. inv'[r] = IF invoice[id[r]].by = r THEN invoice[id[r]].new ELSE invoice[id[r]].val
        BY <1>1, <2>1 DEF Sees
    <2>3. r # NULL
        BY EntitiesAssumption
    <2>4. Live(invoice[id[r]].val) /\ id[r] \notin overtaken[r]
          => Follows(invoice[id[r]].val, inv'[r])
        BY <2>1, <2>2, <2>3 DEF InvoicesFollow, InvoiceGuarded, Follows
    <2>5. InvoiceCurrent(r)'
        BY <1>1, <2>1, <2>4 DEF InvoiceCurrent, Follows
    <2> QED BY <1>1, <2>5, InvoicesFollowStill
<1>3. CASE InvoiceRows(r)
    <2>1. HasRead(r)
        BY <1>3 DEF InvoiceRows, Runs, At, HasRead
    <2>2. \/ inv'[r] = inv[r]
          \/ inv'[r] = Flagged(form[r], inv[r])
          \/ inv'[r] = Posted(form[r], inv[r])
        BY <1>3, InHandAfterRows
    <2>3. inv[r].date_paid => inv'[r].date_paid
        BY <1>1, <2>2 DEF Flagged, Posted, LocalInvoice
    <2> QED BY <1>1, <1>3, <2>1, <2>3, InHandAfterRows, CurrentStill
<1>4. CASE GetNextInvoiceNumber(r)
    <2>1. script[r] # << >> /\ Head(script[r]).op = "GetNextInvoiceNumber"
        BY <1>4 DEF GetNextInvoiceNumber, Runs, At
    <2>2. 1 \in DOMAIN script[r] /\ script[r][1] = Head(script[r])
        BY <2>1, Parts, ScriptParts
    <2>3. form[r].op = "post" => id[r] = NULL
        BY <2>1, <2>2 DEF BooksKept, Booked, Converting
    <2>4. id'[r] = NULL
        BY <1>1, <1>4, <2>3, InHandAfterNumber
    <2>5. InvoiceCurrent(r)'
        BY <2>4, EntitiesAssumption DEF InvoiceCurrent
    <2> QED BY <1>1, <2>5, InvoicesFollowStill
<1>5. CASE CustomerList(r)
    <2>1. HasRead(r) /\ id'[r] = id[r]
        BY <1>5 DEF CustomerList, Runs, At, HasRead
    <2>2. inv'[r] = [inv[r] EXCEPT !.customer = Arg(r)]
        BY <1>1, <1>5 DEF CustomerList
    <2>3. inv'[r].date_paid = inv[r].date_paid
        BY <1>1, <2>2 DEF LocalInvoice
    <2> QED BY <1>1, <2>1, <2>3, CurrentStill
<1> QED BY <1>2, <1>3, <1>4, <1>5

LEMMA SaveFollows ==
    ASSUME Invariant, Kept, InvoicesFollow, NEW r \in Requests, ~Fail(r), Alone(r),
           InvoiceUpdate(r) \/ InvoiceInsert(r) \/ CustomerUpdate(r) \/ CustomerInsert(r)
    PROVE  InvoicesFollow'
<1>1. /\ DOMAIN invoice = Invoices /\ invoice \in [Invoices -> Versions(InvoiceRecord)]
      /\ inv[r] \in LocalInvoice /\ inv \in [Requests -> LocalInvoice]
      /\ id \in [Requests -> Invoices \cup {NULL}]
    BY Parts DEF TypeOK, HandOK, TablesOK
<1>2. HasRead(r) /\ Active(r) /\ overtaken[r] \subseteq overtaken'[r]
    BY WorksIsActive DEF InvoiceUpdate, InvoiceInsert, CustomerUpdate, CustomerInsert, Runs, At,
        HasRead, Alone, Active, Kept
<1>3. CASE InvoiceUpdate(r)
    <2> DEFINE old == Sees(invoice, r)[id[r]]
    <2>1. /\ id[r] \in Invoices /\ UNCHANGED << inv, id >>
          /\ UNCHANGED invoice \/ invoice' = Put(invoice, r, id[r], UpdatedInvoice(old, inv[r]))
        BY <1>1, <1>3 DEF InvoiceUpdate, hand
    <2>2. UpdatedInvoice(old, inv[r]).date_paid = inv[r].date_paid
        BY <1>1 DEF UpdatedInvoice, LocalInvoice
    <2> HIDE DEF old
    <2>3. \A i \in Invoices :
             \/ invoice'[i] = invoice[i]
             \/ /\ i = id[r] /\ invoice'[i].val = invoice[i].val /\ invoice'[i].by = r
                /\ invoice'[i].new = UpdatedInvoice(old, inv[r])
        BY <1>1, <2>1 DEF Put
    <2>4. InvoiceCurrent(r)
        BY DEF InvoicesFollow
    <2>5. Live(invoice[id[r]].val) /\ id[r] \notin overtaken[r]
          => Follows(invoice[id[r]].val, UpdatedInvoice(old, inv[r]))
        BY <1>2, <2>1, <2>2, <2>4 DEF InvoiceCurrent, Follows
    <2>6. invoice'[id[r]].val = invoice[id[r]].val
        BY <2>1, <2>3
    <2>7. InvoiceCurrent(r)'
        BY <1>2, <2>1, <2>4, <2>6 DEF InvoiceCurrent, Follows
    <2> QED BY <1>2, <2>3, <2>5, <2>7, InvoicesFollowStill
<1>4. CASE InvoiceInsert(r)
    <2>1. PICK i \in FreshIds(invoice) :
             /\ invoice' = Put(invoice, r, i, InsertedInvoice(inv[r]))
             /\ id' = [id EXCEPT ![r] = i]
        BY <1>4 DEF InvoiceInsert
    <2>2. i \in Invoices /\ invoice[i].val = Absent /\ id'[r] = i
        BY <1>1, <2>1 DEF FreshIds, Settled
    <2>3. \A j \in Invoices :
             \/ invoice'[j] = invoice[j]
             \/ j = i /\ invoice'[j].val = Absent /\ invoice'[j].by = r
        BY <1>1, <2>1, <2>2 DEF Put
    <2>4. invoice'[i].val = Absent /\ ~Live(Absent)
        BY <2>2, <2>3 DEF Live
    <2>5. InvoiceCurrent(r)'
        BY <2>2, <2>4 DEF InvoiceCurrent
    <2> QED BY <1>2, <2>2, <2>3, <2>4, <2>5, InvoicesFollowStill
<1>5. CASE CustomerUpdate(r)
    BY <1>2, <1>5, CurrentStill DEF CustomerUpdate, hand
<1>6. CASE CustomerInsert(r)
    <2>1. PICK k : inv' = [inv EXCEPT ![r].customer = k]
        BY <1>6 DEF CustomerInsert
    <2>2. inv'[r].date_paid = inv[r].date_paid
        BY <1>1, <2>1 DEF LocalInvoice
    <2>3. UNCHANGED << invoice, id >>
        BY <1>6 DEF CustomerInsert
    <2> QED BY <1>2, <2>2, <2>3, CurrentStill
<1> QED BY <1>3, <1>4, <1>5, <1>6

LEMMA SideFollows ==
    ASSUME Invariant, Kept, RutScripts, InvoicesFollow, NEW r \in Requests, ~Fail(r), Alone(r),
           script[r] # << >>, Side(r)
    PROVE  InvoicesFollow'
<1>1. UNCHANGED << invoice, inv >> /\ Active(r)
    BY Parts, SideFrame, WorksIsActive
<1>2. CASE RUTGet(r)
    <2>1. script'[r] = InvoiceGet
        BY <1>2, GetFollows
    <2>2. ~HasRead(r)'
        BY <2>1 DEF HasRead, InvoiceGet, Do
    <2> QED BY <1>1, <2>2, InvoicesFollowStill DEF InvoiceCurrent
<1>3. CASE ~RUTGet(r)
    <2>1. HasRead(r) /\ UNCHANGED id
        BY <1>3 DEF Side, InvoiceRowAdd, InvoiceRowRemove, InvoiceRowUpdate, FileAdd,
            AttachmentAdd, AttachmentRemove, FileRemove, RUTList, RUTCreate, RUTSave, WriteRow,
            WriteRequest, MatchesNothing, hand, Runs, At, HasRead
    <2> QED BY <1>1, <2>1, CurrentStill
<1> QED BY <1>2, <1>3

(* A commit changes nothing that another request has read, unless it then  *)
(* counts as overtaken.                                                    *)
LEMMA EndFollows ==
    ASSUME Invariant, BooksKept, Kept, InvoicesFollow, NEW r \in Requests, script[r] = << >>,
           NEW commit \in BOOLEAN, EndTransaction(r, commit),
           \A s \in Requests : Active(s)' => Changed(invoice, s) \subseteq overtaken'[s]
    PROVE  InvoicesFollow'
<1>1. \A i \in Invoices : IF invoice[i].by = r THEN invoice'[i].by = NULL
                          ELSE invoice'[i] = invoice[i]
    BY EndedParts DEF EndTransaction
<1>2. /\ UNCHANGED script
      /\ \A s \in Requests \ {r} : form'[s] = form[s] /\ id'[s] = id[s] /\ inv'[s] = inv[s]
    BY Parts DEF EndTransaction, TypeOK, ServingOK, HandOK
<1>3. ASSUME NEW s \in Requests, HasRead(s)', id'[s] \in Invoices \ overtaken'[s],
             Live(invoice'[id'[s]].val)
      PROVE  Follows(invoice'[id'[s]].val, inv'[s])
    <2>1. s # r /\ HasRead(s) /\ InvoiceCurrent(s)
        BY <1>2, <1>3 DEF HasRead, InvoicesFollow
    <2>2. Active(s)'
        BY <1>2, <2>1, WorksIsActive DEF HasRead, Active
    <2>3. id'[s] = id[s] /\ inv'[s] = inv[s] /\ DOMAIN invoice = Invoices
        BY <1>2, <2>1, Parts DEF TypeOK, TablesOK
    <2>4. invoice'[id[s]].val = invoice[id[s]].val
        BY <1>1, <1>3, <2>1, <2>2, <2>3 DEF Changed
    <2>5. id[s] \notin overtaken[s]
        BY <1>3, <2>2, <2>3 DEF Kept
    <2> QED BY <1>3, <2>1, <2>3, <2>4, <2>5 DEF InvoiceCurrent
<1>4. \A s \in Requests : InvoiceCurrent(s)'
    BY <1>3 DEF InvoiceCurrent, Follows
<1>5. ASSUME NEW i \in Invoices PROVE InvoiceGuarded(i)'
    <2>1. CASE invoice[i].by = r
        BY <1>1, <2>1 DEF InvoiceGuarded
    <2>2. CASE invoice[i].by # r
        <3>1. \A s \in Requests : invoice[i].by = s /\ Active(s) => Active(s)'
            BY <1>2, <2>2 DEF Active
        <3> QED BY <1>1, <2>2, <3>1, GuardedStill
    <2> QED BY <2>1, <2>2
<1> QED BY <1>4, <1>5 DEF InvoicesFollow

LEMMA BeginFollows ==
    ASSUME Invariant, Kept, InvoicesFollow, NEW r \in Requests, NEW f \in Forms, Begin(r, f)
    PROVE  InvoicesFollow'
<1>1. /\ UNCHANGED << invoice, inv >> /\ script'[r] = Opening(f)
      /\ id'[r] = IF IsRut(f) THEN NULL ELSE f.invoice
      /\ \A s \in Requests \ {r} : script'[s] = script[s] /\ id'[s] = id[s]
      /\ ~Active(r) /\ \A s \in Requests \ {r} : form'[s] = form[s]
    BY Parts DEF Begin, tables, TypeOK, ServingOK, HandOK
<1>2. InvoiceCurrent(r)'
    <2>1. CASE id'[r] = NULL
        BY <2>1, EntitiesAssumption DEF InvoiceCurrent
    <2>2. CASE id'[r] # NULL
        <3>1. Opening(f) = << Do("InvoiceList", NULL), Do("InvoiceRows", NULL) >>
            BY <1>1, <2>2 DEF Opening, InvoiceGet
        <3> QED BY <1>1, <3>1 DEF InvoiceCurrent, HasRead, Do
    <2> QED BY <2>1, <2>2
<1>3. ASSUME NEW s \in Requests, s # r, HasRead(s)' PROVE InvoiceCurrent(s)'
    <2>1. /\ HasRead(s) /\ id'[s] = id[s] /\ UNCHANGED << invoice, inv >> /\ InvoiceCurrent(s)
        BY <1>1, <1>3 DEF HasRead, InvoicesFollow
    <2>2. overtaken[s] \subseteq overtaken'[s]
        BY <1>1, <1>3, <2>1, WorksIsActive DEF HasRead, Active, Kept
    <2> QED BY <2>1, <2>2 DEF InvoiceCurrent, Follows
<1>4. \A s \in Requests : InvoiceCurrent(s)'
    BY <1>2, <1>3 DEF InvoiceCurrent
<1>5. ASSUME NEW i \in Invoices PROVE InvoiceGuarded(i)'
    <2>1. \A s \in Requests : Active(s) => Active(s)'
        BY <1>1 DEF Active
    <2> QED BY <1>1, <2>1, GuardedStill
<1> QED BY <1>4, <1>5 DEF InvoicesFollow

LEMMA InvoicesFollowNext ==
    Invariant /\ BooksKept /\ RutScripts /\ InvoicesFollow /\ [HNext]_hvars
    => InvoicesFollow'
<1> SUFFICES ASSUME Invariant, BooksKept, RutScripts, InvoicesFollow, [HNext]_hvars
             PROVE  InvoicesFollow'
    OBVIOUS
<1>0. [Next]_vars /\ Kept
    BY HistoryKept
<1>1. CASE UNCHANGED vars
    <2>1. ASSUME NEW s \in Requests, HasRead(s)' PROVE InvoiceCurrent(s)'
        <3>1. HasRead(s) /\ InvoiceCurrent(s) /\ Active(s)'
            BY <1>1, <2>1, WorksIsActive DEF vars, InvoicesFollow, HasRead, Active
        <3> QED BY <1>0, <1>1, <3>1
                DEF Kept, vars, tables, hand, InvoiceCurrent, HasRead, Follows
    <2>2. ASSUME NEW i \in Invoices PROVE InvoiceGuarded(i)'
        <3>1. invoice'[i] = invoice[i] /\ \A s \in Requests : Active(s) => Active(s)'
            BY <1>1 DEF vars, tables, Active
        <3> QED BY <1>0, <3>1, GuardedStill
    <2>3. \A s \in Requests : InvoiceCurrent(s)'
        BY <2>1 DEF InvoiceCurrent
    <2> QED BY <2>2, <2>3 DEF InvoicesFollow
<1>2. ASSUME NEW r \in Requests, StepOf(r), ~UNCHANGED vars PROVE InvoicesFollow'
    <2>1. CASE \E f \in Forms : Begin(r, f)
        BY <1>0, <2>1, BeginFollows
    <2>2. CASE \E commit \in BOOLEAN : Active(r) /\ script[r] = << >> /\ EndTransaction(r, commit)
        BY <1>0, <1>2, <2>2, HistoryKept, EndFollows
    <2>3. CASE Fail(r)
        <3>1. /\ UNCHANGED << invoice, id, inv, form >> /\ script'[r] = << >>
              /\ \A s \in Requests \ {r} : script'[s] = script[s]
            BY <2>3, Parts DEF Fail, tables, hand, TypeOK, ServingOK
        <3>2. ASSUME NEW s \in Requests, HasRead(s)' PROVE InvoiceCurrent(s)'
            <4>1. HasRead(s) /\ InvoiceCurrent(s) /\ Active(s)'
                BY <3>1, <3>2, WorksIsActive DEF InvoicesFollow, HasRead, Active
            <4> QED BY <1>0, <3>1, <4>1 DEF Kept, InvoiceCurrent, HasRead, Follows
        <3>3. \A s \in Requests : InvoiceCurrent(s)'
            BY <3>2 DEF InvoiceCurrent
        <3>4. ASSUME NEW i \in Invoices PROVE InvoiceGuarded(i)'
            <4>1. invoice'[i] = invoice[i] /\ \A s \in Requests : Active(s) => Active(s)'
                BY <3>1 DEF Active
            <4> QED BY <1>0, <4>1, GuardedStill
        <3> QED BY <3>3, <3>4 DEF InvoicesFollow
    <2>4. CASE ~Fail(r) /\ Step(r) /\ ~CommitOrRollback(r)
        BY <1>0, <2>4, StatementScript, StatementCases, ReadFollows, SaveFollows, SideFollows
    <2> QED BY <1>2, <2>1, <2>2, <2>3, <2>4 DEF StepOf
<1> QED BY <1>0, <1>1, <1>2, StepCases

(* A stored request x may be replaced by y: what was sent stays sent, and  *)
(* for the sum that it was sent with.                                      *)
StaysSent(x, y) ==
    x.status # RUTPending => y.status # RUTPending /\ y.requested = x.requested

(* ... by the copy that a handler has in hand of the request it serves.    *)
HasGot(r) == script[r] # << >> /\ IsRut(form[r]) /\ Head(script[r]).op # "RUTGet"

RequestCurrent(r) ==
    /\ HasGot(r) /\ Live(rut_requests[form[r].rut].val)
    /\ form[r].rut \notin overtaken[r]
    => StaysSent(rut_requests[form[r].rut].val, rut[r])

RequestGuarded(k) ==
    LET r == rut_requests[k].by IN
    r # NULL /\ Live(rut_requests[k].val)
    => /\ Active(r)
       /\ k \notin overtaken[r] => StaysSent(rut_requests[k].val, rut_requests[k].new)

RequestsFollow ==
    /\ \A k \in RutIds : RequestGuarded(k)
    /\ \A r \in Requests : RequestCurrent(r)

LEMMA RutOfForm ==
    ASSUME Invariant, NEW r \in Requests, HasGot(r)
    PROVE  form[r] \in Forms /\ form[r] \in RutForm /\ form[r].rut \in RutIds
<1>1. form[r] \in Forms
    BY Parts, Served DEF HasGot
<1>2. form[r] \in RutForm
    BY <1>1, FormType DEF HasGot, IsRut
<1> QED BY <1>1, <1>2 DEF RutForm, RutFlagForm, RutPostForm

LEMMA RequestGuardedStill ==
    ASSUME Invariant, Kept, RequestsFollow, NEW k \in RutIds, rut_requests'[k] = rut_requests[k],
           \A s \in Requests : rut_requests[k].by = s /\ Active(s) => Active(s)'
    PROVE  RequestGuarded(k)'
<1> SUFFICES ASSUME NEW s, s = rut_requests[k].by, s # NULL, Live(rut_requests[k].val)
             PROVE  /\ form'[s] # NULL
                    /\ k \notin overtaken'[s]
                       => StaysSent(rut_requests[k].val, rut_requests[k].new)
    BY DEF RequestGuarded, Active, StaysSent
<1>1. s \in Requests
    BY Parts DEF TypeOK, TablesOK, Versions
<1>2. /\ Active(s)
      /\ k \notin overtaken[s] => StaysSent(rut_requests[k].val, rut_requests[k].new)
    BY DEF RequestsFollow, RequestGuarded
<1>3. Active(s)'
    BY <1>1, <1>2
<1> QED BY <1>1, <1>2, <1>3 DEF Active, Kept

(* A handler of which nothing changes stays current. *)
LEMMA RequestCurrentStill ==
    ASSUME Invariant, Kept, RequestsFollow, NEW s \in Requests, script'[s] = script[s],
           form'[s] = form[s], rut'[s] = rut[s],
           \A k \in RutIds : k \in overtaken'[s] \/ rut_requests'[k].val = rut_requests[k].val
    PROVE  RequestCurrent(s)'
<1> SUFFICES ASSUME HasGot(s), Live(rut_requests'[form[s].rut].val),
                    form[s].rut \notin overtaken'[s]
             PROVE  StaysSent(rut_requests'[form[s].rut].val, rut[s])
    BY DEF RequestCurrent, HasGot, StaysSent
<1>1. RequestCurrent(s) /\ form[s].rut \in RutIds /\ Active(s)
    BY RutOfForm, WorksIsActive DEF RequestsFollow, HasGot
<1>2. form[s].rut \notin overtaken[s]
    BY <1>1 DEF Kept, Active
<1> QED BY <1>1, <1>2 DEF RequestCurrent

LEMMA RequestsFollowStill ==
    ASSUME Invariant, Kept, RequestsFollow, NEW r \in Requests, Alone(r), script[r] # << >>,
           RequestCurrent(r)', \A s \in Requests \ {r} : rut'[s] = rut[s],
           \A k \in RutIds :
              \/ rut_requests'[k] = rut_requests[k]
              \/ /\ rut_requests'[k].val = rut_requests[k].val /\ rut_requests'[k].by = r
                 /\ Live(rut_requests[k].val) /\ k \notin overtaken[r]
                    => StaysSent(rut_requests[k].val, rut_requests'[k].new)
    PROVE  RequestsFollow'
<1>1. /\ \A s \in Requests : Active(s)' = Active(s)
      /\ Active(r) /\ overtaken[r] \subseteq overtaken'[r]
    BY WorksIsActive DEF Alone, Active, Kept
<1>2. ASSUME NEW k \in RutIds PROVE RequestGuarded(k)'
    <2>1. CASE rut_requests'[k] = rut_requests[k]
        BY <1>1, <2>1, RequestGuardedStill
    <2>2. CASE rut_requests'[k] # rut_requests[k]
        BY <1>1, <2>2 DEF RequestGuarded, Active, StaysSent
    <2> QED BY <2>1, <2>2
<1>3. ASSUME NEW s \in Requests, s # r PROVE RequestCurrent(s)'
    <2>1. script'[s] = script[s] /\ form'[s] = form[s] /\ rut'[s] = rut[s]
        BY <1>3 DEF Alone
    <2>2. \A k \in RutIds : rut_requests'[k].val = rut_requests[k].val
        OBVIOUS
    <2> QED BY <2>1, <2>2, RequestCurrentStill
<1>4. \A s \in Requests : RequestCurrent(s)'
    BY <1>3
<1> QED BY <1>2, <1>4 DEF RequestsFollow

(* Most statements touch no request, and HasGot does not begin with them. *)
LEMMA RequestStill ==
    ASSUME Invariant, Kept, RequestsFollow, NEW r \in Requests, Alone(r), script[r] # << >>,
           Head(script[r]).op # "RUTGet", UNCHANGED << rut_requests, rut >>
    PROVE  RequestsFollow'
<1>1. RequestCurrent(r) /\ overtaken[r] \subseteq overtaken'[r]
    BY WorksIsActive DEF RequestsFollow, Kept, Active, Alone
<1>2. RequestCurrent(r)'
    BY <1>1 DEF RequestCurrent, HasGot, StaysSent, Alone
<1> QED BY <1>2, RequestsFollowStill

LEMMA GottenFollows ==
    ASSUME Invariant, Kept, RutScripts, RequestsFollow, NEW r \in Requests, ~Fail(r), Alone(r),
           script[r] # << >>, RUTGet(r)
    PROVE  RequestsFollow'
<1>1. /\ DOMAIN rut_requests = RutIds /\ rut \in [Requests -> LocalRut] /\ r # NULL
    BY Parts, EntitiesAssumption DEF TypeOK, HandOK, TablesOK
<1>2. Arg(r) = form[r].rut /\ Arg(r) \in RutIds
    <2>1. script[r] # << >> /\ Head(script[r]).op = "RUTGet"
        BY DEF RUTGet, Runs, At
    <2> QED BY <2>1, GetFollows, Parts, Served, StatementArgument DEF Arg
<1>3. /\ rut'[r] = Sees(rut_requests, r)[form[r].rut]
      /\ \A s \in Requests \ {r} : rut'[s] = rut[s]
      /\ UNCHANGED rut_requests
    BY <1>1, <1>2 DEF RUTGet, tables
<1>4. rut'[r] = IF rut_requests[form[r].rut].by = r THEN rut_requests[form[r].rut].new
                ELSE rut_requests[form[r].rut].val
    BY <1>1, <1>2, <1>3 DEF Sees
<1>5. Live(rut_requests[form[r].rut].val) /\ form[r].rut \notin overtaken[r]
      => StaysSent(rut_requests[form[r].rut].val, rut'[r])
    BY <1>1, <1>2, <1>4 DEF RequestsFollow, RequestGuarded, StaysSent
<1>6. overtaken[r] \subseteq overtaken'[r]
    BY WorksIsActive DEF Kept, Active, Alone
<1>7. RequestCurrent(r)'
    BY <1>3, <1>5, <1>6 DEF RequestCurrent, StaysSent, Alone
<1> QED BY <1>3, <1>7, RequestsFollowStill

LEMMA ChangedFollows ==
    ASSUME Invariant, Kept, RequestsFollow, NEW r \in Requests, ~Fail(r), Alone(r), InvoiceRows(r)
    PROVE  RequestsFollow'
<1> DEFINE f == form[r]
           x == rut_requests[f.rut].val
<1>1. /\ rut \in [Requests -> LocalRut] /\ script \in [Requests -> Seq(Statement)]
      /\ f \in Forms /\ form'[r] = f /\ UNCHANGED rut_requests
      /\ script[r] # << >> /\ Head(script[r]).op = "InvoiceRows"
      /\ overtaken[r] \subseteq overtaken'[r]
    BY Parts, ListFrame, InHandAfterRows, WorksIsActive
       DEF TypeOK, HandOK, ServingOK, Alone, tables, InvoiceRows, Runs, At, Kept, Active
<1>2. CASE ~IsRut(f)
    <2>1. UNCHANGED rut
        BY <1>2 DEF InvoiceRows, IsRut
    <2>2. ~HasGot(r)'
        BY <1>1, <1>2 DEF HasGot
    <2> QED BY <1>1, <2>1, <2>2, RequestsFollowStill DEF RequestCurrent
<1>3. CASE IsRut(f)
    <2>1. Live(x) /\ f.rut \notin overtaken'[r] => StaysSent(x, rut[r])
        BY <1>1, <1>3 DEF RequestsFollow, RequestCurrent, HasGot
    <2>2. \A s \in Requests \ {r} : rut'[s] = rut[s]
        BY <1>1 DEF InvoiceRows
    <2>3. \A q : ContinueWith(r, q) => script'[r] = q
        BY <1>1 DEF ContinueWith
    <2>4. CASE f.op = "rut_flag"
        <3>1. rut'[r] = RutFlagged(f, rut[r]) /\ f \in RutFlagForm
            BY <1>1, <2>4, FormType DEF InvoiceRows
        <3>2. /\ rut'[r].status = RUTStatusOf[f.flag] /\ rut'[r].requested = rut[r].requested
              /\ f.flag \in {"sent", "paid", "rejected"}
            BY <1>1, <3>1 DEF RutFlagged, LocalRut, RutFlagForm
        <3>3. rut'[r].status # RUTPending
            BY <3>2 DEF RUTStatusOf, RUTPending, RUTSent, RUTPaid, RUTRejected
        <3>4. Live(x) /\ f.rut \notin overtaken'[r] => StaysSent(x, rut'[r])
            BY <2>1, <3>2, <3>3 DEF StaysSent
        <3>5. RequestCurrent(r)'
            BY <1>1, <3>4 DEF RequestCurrent, StaysSent
        <3> QED BY <1>1, <2>2, <3>5, RequestsFollowStill
    <2>5. CASE f.op = "rut_post"
        <3>1. \E q \in RutPostScripts(f, rut[r], HoursPosted(f, RowsOf(r))) : script'[r] = q
            BY <2>3, <2>5 DEF InvoiceRows
        <3>2. script'[r] # << >> => rut[r].status = RUTPending
            BY <3>1 DEF RutPostScripts
        <3>3. script'[r] # << >> /\ Live(x) /\ f.rut \notin overtaken'[r] => StaysSent(x, rut'[r])
            BY <2>1, <3>2 DEF StaysSent
        <3>4. RequestCurrent(r)'
            BY <1>1, <3>3 DEF RequestCurrent, HasGot, StaysSent
        <3> QED BY <1>1, <2>2, <3>4, RequestsFollowStill
    <2> QED BY <1>3, <2>4, <2>5 DEF IsRut
<1> QED BY <1>2, <1>3

LEMMA SavedFollows ==
    ASSUME Invariant, Kept, RutScripts, RequestsFollow, NEW r \in Requests, ~Fail(r), Alone(r),
           RUTSave(r) \/ RUTCreate(r)
    PROVE  RequestsFollow'
<1>1. /\ DOMAIN rut_requests = RutIds /\ rut \in [Requests -> LocalRut]
      /\ UNCHANGED rut /\ form' = form
      /\ script[r] # << >> /\ Head(script[r]).op # "RUTGet"
    BY Parts DEF TypeOK, HandOK, TablesOK, Alone, RUTSave, RUTCreate, WriteRequest,
        MatchesNothing, hand, Runs, At
<1>2. ASSUME \A k \in RutIds : rut_requests'[k].val = rut_requests[k].val
      PROVE  RequestCurrent(r)'
    <2>1. RequestCurrent(r) /\ overtaken[r] \subseteq overtaken'[r]
        BY <1>1, WorksIsActive DEF RequestsFollow, Kept, Active
    <2> SUFFICES ASSUME HasGot(r)', Live(rut_requests'[form[r].rut].val),
                        form[r].rut \notin overtaken'[r]
                 PROVE  StaysSent(rut_requests'[form[r].rut].val, rut[r])
        BY <1>1 DEF RequestCurrent, StaysSent
    <2>2. HasGot(r)
        BY <1>1 DEF HasGot
    <2>3. form[r].rut \in RutIds
        BY <2>2, RutOfForm
    <2> QED BY <1>2, <2>1, <2>2, <2>3 DEF RequestCurrent
<1>3. CASE RUTCreate(r)
    <2>1. PICK k \in FreshIds(rut_requests) : \E x : rut_requests' = Put(rut_requests, r, k, x)
        BY <1>3 DEF RUTCreate, WriteRequest
    <2>2. rut_requests[k].val = Absent /\ ~Live(Absent)
        BY <2>1 DEF FreshIds, Settled, Live
    <2>3. \A l \in RutIds : \/ rut_requests'[l] = rut_requests[l]
                            \/ /\ l = k /\ rut_requests'[l].val = rut_requests[l].val
                               /\ rut_requests'[l].by = r
        BY <1>1, <2>1 DEF Put
    <2> QED BY <1>1, <1>2, <2>2, <2>3, RequestsFollowStill
<1>4. CASE RUTSave(r)
    <2> DEFINE old == Sees(rut_requests, r)[Arg(r)]
               x == [rut[r] EXCEPT !.invoice = old.invoice, !.type = old.type]
    <2>1. UNCHANGED rut_requests \/ rut_requests' = Put(rut_requests, r, Arg(r), x)
        BY <1>4 DEF RUTSave, WriteRequest, MatchesNothing, tables
    <2>2. x.status = rut[r].status /\ x.requested = rut[r].requested
        BY <1>1 DEF LocalRut
    <2>3. Head(script[r]).op = "RUTSave"
        BY <1>4 DEF RUTSave, Runs, At
    <2>4. IsRut(form[r]) /\ Arg(r) = form[r].rut
        <3>1. 1 \in DOMAIN script[r] /\ script[r][1] = Head(script[r])
            BY <1>1, Parts, ScriptParts
        <3> QED BY <2>3, <3>1 DEF RutScripts, SavesOwn, Arg
    <2>5. Live(rut_requests[Arg(r)].val) /\ Arg(r) \notin overtaken[r]
          => StaysSent(rut_requests[Arg(r)].val, rut[r])
        BY <1>1, <2>3, <2>4 DEF RequestsFollow, RequestCurrent, HasGot
    <2>6. Live(rut_requests[Arg(r)].val) /\ Arg(r) \notin overtaken[r]
          => StaysSent(rut_requests[Arg(r)].val, x)
        BY <2>2, <2>5 DEF StaysSent
    <2> HIDE DEF x
    <2>7. \A l \in RutIds : \/ rut_requests'[l] = rut_requests[l]
                            \/ /\ l = Arg(r) /\ rut_requests'[l].val = rut_requests[l].val
                               /\ rut_requests'[l].new = x /\ rut_requests'[l].by = r
        BY <1>1, <2>1 DEF Put
    <2> QED BY <1>1, <1>2, <2>6, <2>7, RequestsFollowStill
<1> QED BY <1>3, <1>4

LEMMA RequestsFollowNext ==
    Invariant /\ BooksKept /\ RutScripts /\ RequestsFollow /\ [HNext]_hvars
    => RequestsFollow'
<1> SUFFICES ASSUME Invariant, BooksKept, RutScripts, RequestsFollow, [HNext]_hvars
             PROVE  RequestsFollow'
    OBVIOUS
<1>0. [Next]_vars /\ Kept
    BY HistoryKept
<1>1. CASE UNCHANGED vars
    <2>1. \A s \in Requests : RequestCurrent(s)'
        BY <1>0, <1>1, RequestCurrentStill DEF vars, tables, hand
    <2>2. \A k \in RutIds : RequestGuarded(k)'
        BY <1>0, <1>1, RequestGuardedStill DEF vars, tables, Active
    <2> QED BY <2>1, <2>2 DEF RequestsFollow
<1>2. ASSUME NEW r \in Requests, StepOf(r), ~UNCHANGED vars PROVE RequestsFollow'
    <2>1. ASSUME NEW f \in Forms, Begin(r, f) PROVE RequestsFollow'
        <3>1. /\ UNCHANGED << rut_requests, rut >> /\ script'[r] = Opening(f) /\ form'[r] = f
              /\ \A s \in Requests \ {r} : script'[s] = script[s] /\ form'[s] = form[s]
              /\ ~Active(r)
            BY <2>1, Parts DEF Begin, tables, TypeOK, ServingOK
        <3>2. ~HasGot(r)'
            <4>1. ASSUME IsRut(f) PROVE Head(script'[r]).op = "RUTGet"
                <5>1. script'[r] = << Do("RUTGet", f.rut) >> \o InvoiceGet
                    BY <3>1, <4>1 DEF Opening
                <5>2. Do("RUTGet", f.rut) \in Statement
                    BY <4>1, FormType, DoType DEF IsRut, RutForm, RutFlagForm, RutPostForm
                <5>3. ASSUME NEW d \in Statement, NEW q \in Seq(Statement)
                      PROVE  Head(<< d >> \o q) = d
                    OBVIOUS
                <5>4. Head(script'[r]) = Do("RUTGet", f.rut)
                    BY <5>1, <5>2, <5>3, InvoiceGetType
                <5> QED BY <5>4 DEF Do
            <4> QED BY <3>1, <4>1 DEF HasGot
        <3>3. \A s \in Requests \ {r} : RequestCurrent(s)'
            BY <1>0, <3>1, RequestCurrentStill
        <3>4. \A s \in Requests : RequestCurrent(s)'
            BY <3>2, <3>3 DEF RequestCurrent
        <3>5. \A k \in RutIds : RequestGuarded(k)'
            <4>1. \A s \in Requests : Active(s) => Active(s)'
                BY <3>1 DEF Active
            <4> QED BY <1>0, <3>1, <4>1, RequestGuardedStill
        <3> QED BY <3>4, <3>5 DEF RequestsFollow
    <2>2. ASSUME NEW commit \in BOOLEAN, Active(r), script[r] = << >>, EndTransaction(r, commit)
          PROVE  RequestsFollow'
        <3>1. /\ rut_requests' = Ended(rut_requests, r, commit) /\ UNCHANGED script
              /\ \A s \in Requests \ {r} : form'[s] = form[s] /\ rut'[s] = rut[s]
            BY <2>2, Parts DEF EndTransaction, TypeOK, ServingOK, HandOK
        <3>2. \A k \in RutIds : IF rut_requests[k].by = r THEN rut_requests'[k].by = NULL
                                ELSE rut_requests'[k] = rut_requests[k]
            BY <3>1, Parts DEF Ended, Settled, TypeOK, TablesOK
        <3>3. ASSUME NEW s \in Requests, s # r, HasGot(s)' PROVE RequestCurrent(s)'
            <4>1. HasGot(s) /\ Active(s)'
                BY <3>1, <3>3, WorksIsActive DEF HasGot, Active
            <4>2. Changed(rut_requests, s) \subseteq overtaken'[s]
                BY <1>2, <4>1, HistoryKept
            <4>3. \A k \in RutIds :
                     k \in overtaken'[s] \/ rut_requests'[k].val = rut_requests[k].val
                BY <3>2, <3>3, <4>2, Parts DEF Changed, TypeOK, TablesOK
            <4> QED BY <1>0, <3>1, <3>3, <4>3, RequestCurrentStill
        <3>4. \A s \in Requests : RequestCurrent(s)'
            <4>1. ~HasGot(r)'
                BY <2>2, <3>1 DEF HasGot
            <4> QED BY <3>3, <4>1 DEF RequestCurrent
        <3>5. ASSUME NEW k \in RutIds PROVE RequestGuarded(k)'
            <4>1. CASE rut_requests[k].by = r
                BY <3>2, <4>1 DEF RequestGuarded
            <4>2. CASE rut_requests[k].by # r
                <5>1. \A s \in Requests : rut_requests[k].by = s /\ Active(s) => Active(s)'
                    BY <3>1, <4>2 DEF Active
                <5> QED BY <1>0, <3>2, <4>2, <5>1, RequestGuardedStill
            <4> QED BY <4>1, <4>2
        <3> QED BY <3>4, <3>5 DEF RequestsFollow
    <2>3. CASE Fail(r)
        <3>1. /\ UNCHANGED << rut_requests, rut, form >> /\ script'[r] = << >>
              /\ \A s \in Requests \ {r} : script'[s] = script[s]
            BY <2>3, Parts DEF Fail, tables, hand, TypeOK, ServingOK
        <3>2. \A s \in Requests : RequestCurrent(s)'
            <4>1. \A s \in Requests \ {r} : RequestCurrent(s)'
                BY <1>0, <3>1, RequestCurrentStill
            <4> QED BY <3>1, <4>1 DEF RequestCurrent, HasGot
        <3>3. \A k \in RutIds : RequestGuarded(k)'
            BY <1>0, <3>1, RequestGuardedStill DEF Active
        <3> QED BY <3>2, <3>3 DEF RequestsFollow
    <2>4. CASE ~Fail(r) /\ Step(r) /\ ~CommitOrRollback(r)
        <3>1. Alone(r) /\ script[r] # << >>
            BY <2>4, StatementScript
        <3>2. ASSUME ~RUTGet(r), ~InvoiceRows(r), ~RUTSave(r), ~RUTCreate(r)
              PROVE  Head(script[r]).op # "RUTGet" /\ UNCHANGED << rut_requests, rut >>
            BY <2>4, <3>2 DEF Step, InvoiceList, GetNextInvoiceNumber, InvoiceUpdate,
                InvoiceInsert, InvoiceRowAdd, InvoiceRowRemove, InvoiceRowUpdate, CustomerList,
                CustomerUpdate, CustomerInsert, FileAdd, AttachmentAdd, AttachmentRemove,
                FileRemove, RUTList, WriteRow, MatchesNothing, Runs, At, tables, hand
        <3> QED BY <1>0, <2>4, <3>1, <3>2, GottenFollows, ChangedFollows, SavedFollows, RequestStill
    <2> QED BY <1>2, <2>1, <2>2, <2>3, <2>4 DEF StepOf
<1> QED BY <1>0, <1>1, <1>2, StepCases

-----------------------------------------------------------------------------
(* What a commit shows is what its request has stored. *)
LEMMA CommitShows ==
    ASSUME TypeOK, NEW r \in Requests, EndTransaction(r, TRUE)
    PROVE  /\ \A i \in Invoices : IF invoice[i].by = r
                                  THEN InvoiceIn(i)' = invoice[i].new
                                  ELSE InvoiceIn(i)' = InvoiceIn(i)
           /\ \A k \in RutIds : IF rut_requests[k].by = r
                                THEN RequestIn(k)' = rut_requests[k].new
                                ELSE RequestIn(k)' = RequestIn(k)
BY DEF EndTransaction, Ended, Settled, InvoiceIn, RequestIn, TypeOK, TablesOK

LEMMA StoreShows ==
    ASSUME Invariant, [Next]_vars, Store' = Store
    PROVE  /\ \A i \in Invoices : InvoiceIn(i)' = InvoiceIn(i)
           /\ \A k \in RutIds : RequestIn(k)' = RequestIn(k)
<1>1. /\ DOMAIN invoice = Invoices /\ DOMAIN invoice' = Invoices
      /\ DOMAIN rut_requests = RutIds /\ DOMAIN rut_requests' = RutIds
    BY NextHolds, Parts DEF Invariant, TypeOK, TablesOK
<1>2. /\ Committed(invoice') = Committed(invoice)
      /\ Committed(rut_requests') = Committed(rut_requests)
    BY DEF Store
<1>3. /\ \A i \in Invoices : Committed(invoice)[i] = InvoiceIn(i)
      /\ \A i \in Invoices : Committed(invoice')[i] = InvoiceIn(i)'
      /\ \A k \in RutIds : Committed(rut_requests)[k] = RequestIn(k)
      /\ \A k \in RutIds : Committed(rut_requests')[k] = RequestIn(k)'
    BY <1>1 DEF Committed, InvoiceIn, RequestIn
<1> QED BY <1>2, <1>3

LEMMA NothingToFollow == Init => RutScripts /\ InvoicesFollow /\ RequestsFollow
<1> SUFFICES ASSUME Init PROVE RutScripts /\ InvoicesFollow /\ RequestsFollow
    OBVIOUS
<1>1. \A r \in Requests : script[r] = << >>
    BY DEF Init
<1>2. RutScripts
    BY <1>1 DEF RutScripts, GetsFirst, SavesOwn
<1>3. /\ \A i \in Invoices : invoice[i].by = NULL
      /\ \A k \in RutIds : rut_requests[k].by = NULL
    BY DEF Init, EmptyTable, Settled
<1>4. InvoicesFollow
    BY <1>1, <1>3 DEF InvoicesFollow, InvoiceGuarded, InvoiceCurrent, HasRead, Follows
<1>5. RequestsFollow
    BY <1>1, <1>3 DEF RequestsFollow, RequestGuarded, RequestCurrent, HasGot, StaysSent
<1> QED BY <1>2, <1>4, <1>5

(* The history variable only watches. *)
LEMMA HistoryWatches == HSpec => Spec
<1>1. HInit => Init
    BY DEF HInit
<1>2. [HNext]_hvars => [Next]_vars
    BY HistoryKept
<1> QED BY <1>1, <1>2, PTL DEF HSpec, Spec

LEMMA CopiesFollow == HSpec => [](Invariant /\ RutScripts /\ InvoicesFollow /\ RequestsFollow)
<1> DEFINE Proven == Invariant /\ BooksKept
           Following == RutScripts /\ InvoicesFollow /\ RequestsFollow
<1>1. HInit => Following
    BY NothingToFollow DEF HInit
<1>2. Proven /\ Following /\ [HNext]_hvars => Following'
    BY RutScriptsNext, InvoicesFollowNext, RequestsFollowNext, HistoryKept
<1>3. HSpec => []Proven
    BY HistoryWatches, InvariantHolds, BooksHold, PTL
<1> HIDE DEF Following
<1>4. HSpec => []Following
    BY <1>1, <1>2, <1>3, PTL DEF HSpec
<1> QED BY <1>3, <1>4, PTL DEF Following

(* A commit that changes a committed invoice in a way that the copies in   *)
(* hand do not allow is the commit of a request that was overtaken.        *)
LEMMA ChangesFollow ==
    ASSUME Invariant, InvoicesFollow, [HNext]_hvars, NEW i \in CommittedInvoices,
           i \notin overtaken[invoice[i].by]
    PROVE  InvoiceIn(i)' = InvoiceIn(i) \/ Follows(InvoiceIn(i), InvoiceIn(i)')
<1>1. i \in Invoices /\ Live(InvoiceIn(i)) /\ [Next]_vars
    BY HistoryKept DEF CommittedInvoices
<1>2. CASE Store' = Store
    BY <1>1, <1>2, StoreShows
<1>3. CASE Store' # Store
    <2>1. PICK r \in Requests : EndTransaction(r, TRUE)
        BY <1>1, <1>3, Parts, OnlyCommitsShow
    <2>2. CASE invoice[i].by = r
        <3>1. InvoiceIn(i)' = invoice[i].new
            BY <1>1, <2>1, <2>2, Parts, CommitShows
        <3>2. Follows(InvoiceIn(i), invoice[i].new)
            BY <1>1, <2>2, EntitiesAssumption DEF InvoicesFollow, InvoiceGuarded, InvoiceIn
        <3> QED BY <3>1, <3>2 DEF Follows
    <2>3. CASE invoice[i].by # r
        BY <1>1, <2>1, <2>3, Parts, CommitShows
    <2> QED BY <2>2, <2>3
<1> QED BY <1>2, <1>3

(* Whatever requests overlap and whatever fails, the date of a payment is  *)
(* lost only in the commit of a request that saved a copy from before      *)
(* another commit to the same invoice: no handler clears the date, which   *)
(* the exported file formats without a look (views/rut/export.go:74).      *)
THEOREM PaymentDatesAreKept == HSpec => PaymentDateKept
<1>1. Invariant /\ InvoicesFollow /\ [HNext]_hvars
      => [\A i \in CommittedInvoices :
             InvoiceIn(i).date_paid /\ ~InvoiceIn(i)'.date_paid
             => i \in overtaken[invoice[i].by]]_hvars
    BY ChangesFollow DEF Follows
<1> QED BY <1>1, CopiesFollow, PTL DEF HSpec, PaymentDateKept

(* Whatever requests overlap and whatever fails, a deleted invoice changes *)
(* only in the commit of a request that was overtaken: InvoiceList finds   *)
(* it for no other, so that they have no copy to save (invoice.go:432).    *)
THEOREM DeletedInvoicesStay == HSpec => DeletedStays
<1>1. Invariant /\ InvoicesFollow /\ [HNext]_hvars
      => [\A i \in CommittedInvoices :
             InvoiceIn(i).is_deleted /\ InvoiceIn(i)' # InvoiceIn(i)
             => i \in overtaken[invoice[i].by]]_hvars
    BY ChangesFollow DEF Follows
<1> QED BY <1>1, CopiesFollow, PTL DEF HSpec, DeletedStays

(* Whatever requests overlap and whatever fails, a request to the agency   *)
(* that was sent is pending again, or asks for another sum, only in the    *)
(* commit of a handler that was overtaken: any other finds it sent before  *)
(* it saves the page, and saves nothing (views/rut/rut.go:115).            *)
THEOREM SentRequestsStay == HSpec => SentRequestStays
<1>1. Invariant /\ RequestsFollow /\ [HNext]_hvars
      => [\A k \in CommittedRequests :
             /\ RequestIn(k).status # RUTPending
             /\ \/ RequestIn(k)'.status = RUTPending
                \/ RequestIn(k)'.requested # RequestIn(k).requested
             => k \in overtaken[rut_requests[k].by]]_hvars
    <2> SUFFICES ASSUME Invariant, RequestsFollow, [HNext]_hvars, NEW k \in CommittedRequests,
                        k \notin overtaken[rut_requests[k].by]
                 PROVE  StaysSent(RequestIn(k), RequestIn(k)')
        BY DEF StaysSent
    <2>1. k \in RutIds /\ Live(RequestIn(k)) /\ [Next]_vars
        BY HistoryKept DEF CommittedRequests
    <2>2. CASE Store' = Store
        BY <2>1, <2>2, StoreShows DEF StaysSent
    <2>3. CASE Store' # Store
        <3>1. PICK r \in Requests : EndTransaction(r, TRUE)
            BY <2>1, <2>3, Parts, OnlyCommitsShow
        <3>2. \/ RequestIn(k)' = RequestIn(k)
              \/ rut_requests[k].by = r /\ RequestIn(k)' = rut_requests[k].new
            BY <2>1, <3>1, Parts, CommitShows
        <3>3. rut_requests[k].by = r => StaysSent(RequestIn(k), rut_requests[k].new)
            BY <2>1, EntitiesAssumption DEF RequestsFollow, RequestGuarded, RequestIn
        <3> QED BY <3>2, <3>3 DEF StaysSent
    <2> QED BY <2>2, <2>3
<1> QED BY <1>1, CopiesFollow, PTL DEF HSpec, SentRequestStays
=============================================================================
