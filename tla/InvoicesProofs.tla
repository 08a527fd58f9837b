--------------------------- MODULE InvoicesProofs ---------------------------
(***************************************************************************)
(* For any number of concurrent requests and any set of forms: a flag of   *)
(* an invoice has its date, the customer of an invoice is one of the       *)
(* invoice's company, and files and attachments come and go together.      *)
(***************************************************************************)
EXTENDS FakturaProofs

(* What [Next]_vars does for one request: the cases of every proof below.  *)
StepOf(r) ==
    \/ \E f \in Forms : Begin(r, f)
    \/ Active(r) /\ \E commit \in BOOLEAN : /\ script[r] = << >> /\ EndTransaction(r, commit)
                                            /\ commit => status[r] <= 400
    \/ script[r] # << >> /\ Fail(r)
    \/ ~Fail(r) /\ Step(r) /\ ~CommitOrRollback(r)

LEMMA StepCases ==
    ASSUME [Next]_vars
    PROVE  UNCHANGED vars \/ \E r \in Requests : StepOf(r)
<1>1. ASSUME NEW r \in Requests, CommitOrRollback(r) PROVE StepOf(r)
    <2> DEFINE commit == status[r] <= 400
    <2>1. commit \in BOOLEAN
        OBVIOUS
    <2>2. /\ Active(r) /\ script[r] = << >>
          /\ EndTransaction(r, commit) /\ (commit => status[r] <= 400)
        BY <1>1 DEF CommitOrRollback
    <2> HIDE DEF commit
    <2> QED BY <2>1, <2>2 DEF StepOf
<1>2. ASSUME NEW r \in Requests, CommitFails(r) PROVE StepOf(r)
    BY <1>2 DEF CommitFails, StepOf
<1>3. ASSUME NEW r \in Requests, DeadlockDetected(r) PROVE StepOf(r)
    BY <1>3, WaitsIsServed DEF DeadlockDetected, StepOf
<1>4. ASSUME NEW r \in Requests, StatementFails(r) PROVE StepOf(r)
    BY <1>4 DEF StatementFails, StepOf
<1>5. ASSUME NEW r \in Requests, Step(r), ~CommitOrRollback(r) PROVE StepOf(r)
    <2>1. script[r] # << >>
        BY <1>5 DEF Step, InvoiceList, InvoiceRows, GetNextInvoiceNumber, InvoiceUpdate,
            InvoiceInsert, InvoiceRowAdd, InvoiceRowRemove, InvoiceRowUpdate, CustomerList,
            CustomerUpdate, CustomerInsert, FileAdd, AttachmentAdd, AttachmentRemove,
            FileRemove, RUTGet, RUTList, RUTCreate, RUTSave, Runs, At
    <2> QED BY <1>5, <2>1 DEF StepOf
<1> QED BY <1>1, <1>2, <1>3, <1>4, <1>5 DEF Next, StepOf

-----------------------------------------------------------------------------
(* Flags and dates. *)

(* The flags of an invoice have their dates: in the table, in what a       *)
(* request wrote, and in the copy a handler has in hand.                   *)
Dated(x) == (x.is_paid => x.date_paid) /\ (x.is_invoiced => x.date_invoiced)

DatesKept ==
    /\ \A i \in Invoices : /\ Live(invoice[i].val) => Dated(invoice[i].val)
                           /\ invoice[i].by # NULL => Dated(invoice[i].new)
    /\ \A r \in Requests : Dated(inv[r])

LEMMA FlaggedIsDated ==
    ASSUME NEW f \in FlagForm, NEW x \in LocalInvoice, Dated(x)
    PROVE  Dated(Flagged(f, x))
<1> DEFINE y == Flagged(f, x)
<1>1. /\ y.is_paid = (IF f.flag = "paid" THEN ~f.revoke ELSE x.is_paid)
      /\ y.date_paid = (x.date_paid \/ f.flag = "paid")
      /\ y.is_invoiced = (IF f.flag = "invoiced" THEN ~f.revoke ELSE x.is_invoiced)
      /\ y.date_invoiced = (x.date_invoiced \/ f.flag = "invoiced")
    BY DEF Flagged, LocalInvoice
<1> HIDE DEF y
<1>2. Dated(y)
    BY <1>1 DEF Dated
<1> QED BY <1>2 DEF y

LEMMA PostedIsDated ==
    ASSUME NEW f \in PostForm, NEW x \in LocalInvoice, Dated(x)
    PROVE  Dated(Posted(f, x))
<1> DEFINE y == Posted(f, x)
<1>1. /\ y.is_paid = x.is_paid /\ y.date_paid = x.date_paid
      /\ y.is_invoiced = x.is_invoiced
      /\ y.date_invoiced = (x.date_invoiced \/ f.date)
    BY DEF Posted, LocalInvoice
<1> HIDE DEF y
<1>2. Dated(y)
    BY <1>1 DEF Dated
<1> QED BY <1>2 DEF y

LEMMA OthersAreDated ==
    /\ Dated(ZeroInvoice)
    /\ \A f \in PostForm, n \in Nat : Dated(NewInvoice(f, n))
    /\ \A x \in LocalInvoice : \A i, n : Dated(x) => Dated(ConvertedInvoice(x, i, n))
    /\ \A x \in LocalInvoice : \A k : Dated(x) => Dated([x EXCEPT !.customer = k])
    /\ \A x \in LocalInvoice : \A old : Dated(x) => Dated(UpdatedInvoice(old, x))
    /\ \A x \in LocalInvoice : Dated(InsertedInvoice(x))
BY DEF Dated, ZeroInvoice, NewInvoice, ConvertedInvoice, UpdatedInvoice, InsertedInvoice,
       LocalInvoice

-----------------------------------------------------------------------------
(* What a statement of request r leaves alone. *)

Alone(r) ==
    /\ form' = form /\ status' = status
    /\ \A s \in Requests \ {r} :
          script'[s] = script[s] /\ id'[s] = id[s] /\ inv'[s] = inv[s]

(* The statements that read or write neither invoices nor customers. *)
Side(r) ==
    \/ InvoiceRowAdd(r) \/ InvoiceRowRemove(r) \/ InvoiceRowUpdate(r)
    \/ FileAdd(r) \/ AttachmentAdd(r) \/ AttachmentRemove(r) \/ FileRemove(r)
    \/ RUTGet(r) \/ RUTList(r) \/ RUTCreate(r) \/ RUTSave(r)

LEMMA SideFrame ==
    ASSUME TypeOK, NEW r \in Requests, Side(r), ~Fail(r)
    PROVE  Alone(r) /\ UNCHANGED << invoice, customer, inv >>
<1>1. UNCHANGED << invoice, customer, inv >>
    BY DEF Side, InvoiceRowAdd, InvoiceRowRemove, InvoiceRowUpdate, FileAdd, AttachmentAdd,
        AttachmentRemove, FileRemove, RUTGet, RUTList, RUTCreate, RUTSave, WriteRow,
        WriteRequest, MatchesNothing, tables, hand
<1>2. Continue(r) \/ \E q : ContinueWith(r, q)
    BY DEF Side, InvoiceRowAdd, InvoiceRowRemove, InvoiceRowUpdate, FileAdd, AttachmentAdd,
        AttachmentRemove, FileRemove, RUTGet, RUTList, RUTCreate, RUTSave, WriteRow,
        WriteRequest, MatchesNothing
<1>3. \A s \in Requests \ {r} : id'[s] = id[s]
    BY DEF Side, InvoiceRowAdd, InvoiceRowRemove, InvoiceRowUpdate, FileAdd, AttachmentAdd,
        AttachmentRemove, FileRemove, RUTGet, RUTList, RUTCreate, RUTSave, WriteRow,
        WriteRequest, MatchesNothing, hand, TypeOK, HandOK
<1>4. /\ form' = form /\ status' = status
      /\ \A s \in Requests \ {r} : script'[s] = script[s]
    BY <1>2 DEF Continue, ContinueWith, TypeOK, ServingOK
<1> QED BY <1>1, <1>3, <1>4 DEF Alone

LEMMA ListFrame ==
    ASSUME TypeOK, NEW r \in Requests, ~Fail(r),
           InvoiceList(r) \/ InvoiceRows(r) \/ GetNextInvoiceNumber(r) \/ CustomerList(r)
    PROVE  Alone(r) /\ UNCHANGED tables
<1>1. UNCHANGED tables
    BY DEF InvoiceList, InvoiceRows, GetNextInvoiceNumber, CustomerList
<1>2. Continue(r) \/ \E q : ContinueWith(r, q)
    BY DEF InvoiceList, InvoiceRows, GetNextInvoiceNumber, CustomerList
<1>3. \A s \in Requests \ {r} : id'[s] = id[s] /\ inv'[s] = inv[s]
    BY DEF InvoiceList, InvoiceRows, GetNextInvoiceNumber, CustomerList, TypeOK, HandOK
<1>4. /\ form' = form /\ status' = status
      /\ \A s \in Requests \ {r} : script'[s] = script[s]
    BY <1>2 DEF Continue, ContinueWith, TypeOK, ServingOK
<1> QED BY <1>1, <1>3, <1>4 DEF Alone

LEMMA SaveFrame ==
    ASSUME TypeOK, NEW r \in Requests, ~Fail(r),
           InvoiceUpdate(r) \/ InvoiceInsert(r) \/ CustomerUpdate(r) \/ CustomerInsert(r)
    PROVE  Alone(r) /\ Continue(r) /\ UNCHANGED << file, invoice_attachments >>
<1>1. Continue(r) /\ UNCHANGED << file, invoice_attachments >>
    BY DEF InvoiceUpdate, InvoiceInsert, CustomerUpdate, CustomerInsert
<1>3. \A s \in Requests \ {r} : id'[s] = id[s] /\ inv'[s] = inv[s]
    BY DEF InvoiceUpdate, InvoiceInsert, CustomerUpdate, CustomerInsert, TypeOK, HandOK, hand
<1>4. /\ form' = form /\ status' = status
      /\ \A s \in Requests \ {r} : script'[s] = script[s]
    BY <1>1 DEF Continue, TypeOK, ServingOK
<1> QED BY <1>1, <1>3, <1>4 DEF Alone

(* ... so that these are the cases of a step. *)
LEMMA StatementCases ==
    ASSUME NEW r \in Requests, ~Fail(r), Step(r), ~CommitOrRollback(r)
    PROVE  \/ InvoiceList(r) \/ InvoiceRows(r) \/ GetNextInvoiceNumber(r)
           \/ InvoiceUpdate(r) \/ InvoiceInsert(r)
           \/ CustomerList(r) \/ CustomerUpdate(r) \/ CustomerInsert(r)
           \/ Side(r)
BY DEF Step, Side

-----------------------------------------------------------------------------
(* Each step keeps the dates. *)

(* What an invoice in hand becomes when its rows have been read. *)
LEMMA InHandAfterRows ==
    ASSUME Invariant, NEW r \in Requests, InvoiceRows(r), ~Fail(r)
    PROVE  /\ UNCHANGED id /\ form[r] \in Forms /\ inv[r] \in LocalInvoice
           /\ \/ inv'[r] = inv[r]
              \/ form[r] \in FlagForm /\ inv'[r] = Flagged(form[r], inv[r])
              \/ form[r] \in PostForm /\ inv'[r] = Posted(form[r], inv[r])
<1>1. form[r] \in Forms /\ inv[r] \in LocalInvoice /\ inv \in [Requests -> LocalInvoice]
    BY Parts, Served DEF InvoiceRows, Runs, At, TypeOK, HandOK
<1>2. /\ form[r].op = "flag" => form[r] \in FlagForm
      /\ form[r].op = "post" => form[r] \in PostForm
    BY <1>1, FormType
<1> QED BY <1>1, <1>2 DEF InvoiceRows

(* ... and when the next number has been read. *)
LEMMA InHandAfterNumber ==
    ASSUME Invariant, NEW r \in Requests, GetNextInvoiceNumber(r)
    PROVE  /\ form[r] \in Forms /\ inv[r] \in LocalInvoice
           /\ \E n \in Nat :
                 \/ /\ form[r].op = "flag" /\ form[r] \in FlagForm
                    /\ inv'[r] = ConvertedInvoice(inv[r], id[r], n)
                    /\ id' = [id EXCEPT ![r] = NULL] /\ Continue(r)
                 \/ /\ form[r].op = "post" /\ form[r] \in PostForm
                    /\ NewInvoice(form[r], n) \in LocalInvoice
                    /\ inv'[r] = Posted(form[r], NewInvoice(form[r], n))
                    /\ UNCHANGED id
                    /\ \E q \in PostScripts(form[r], NewInvoice(form[r], n), NoRows) :
                          ContinueWith(r, q)
<1>1. /\ form[r] \in Forms /\ Arg(r) \in Companies
      /\ inv[r] \in LocalInvoice /\ inv \in [Requests -> LocalInvoice]
    BY Parts, Served, StatementArgument
       DEF GetNextInvoiceNumber, Runs, At, Arg, TypeOK, HandOK
<1>2. /\ form[r].op = "flag" => form[r] \in FlagForm
      /\ form[r].op = "post" => form[r] \in PostForm
    BY <1>1, FormType
<1>3. NumberCandidates(r, Arg(r)) \subseteq Nat
    BY <1>1, Parts, NumberType
<1>4. form[r].op = "post" => \A n \in Nat : NewInvoice(form[r], n) \in LocalInvoice
    BY <1>2, NewInvoiceType
<1> QED BY <1>1, <1>2, <1>3, <1>4 DEF GetNextInvoiceNumber

LEMMA DatesInHand ==
    ASSUME DatesKept, NEW r \in Requests, UNCHANGED invoice, Dated(inv'[r]),
           \A s \in Requests \ {r} : inv'[s] = inv[s]
    PROVE  DatesKept'
<1>1. \A i \in Invoices : /\ Live(invoice'[i].val) => Dated(invoice'[i].val)
                          /\ invoice'[i].by # NULL => Dated(invoice'[i].new)
    BY DEF DatesKept
<1>2. \A s \in Requests : Dated(inv'[s])
    BY DEF DatesKept
<1> QED BY <1>1, <1>2 DEF DatesKept, Dated

LEMMA DatesWritten ==
    ASSUME TypeOK, DatesKept, NEW r \in Requests, UNCHANGED inv,
           NEW i \in Invoices, NEW x, Dated(x), invoice' = Put(invoice, r, i, x)
    PROVE  DatesKept'
<1>1. \A j \in Invoices : IF j = i
          THEN invoice'[j] = [val |-> invoice[i].val, by |-> r, new |-> x]
          ELSE invoice'[j] = invoice[j]
    BY DEF Put, TypeOK, TablesOK
<1>2. \A j \in Invoices : /\ Live(invoice'[j].val) => Dated(invoice'[j].val)
                          /\ invoice'[j].by # NULL => Dated(invoice'[j].new)
    BY <1>1 DEF DatesKept
<1>3. \A s \in Requests : Dated(inv'[s])
    BY DEF DatesKept
<1> QED BY <1>2, <1>3 DEF DatesKept, Dated

LEMMA DatesRead ==
    ASSUME Invariant, DatesKept, NEW r \in Requests, ~Fail(r),
           InvoiceList(r) \/ InvoiceRows(r) \/ GetNextInvoiceNumber(r) \/ CustomerList(r)
    PROVE  DatesKept'
<1>1. UNCHANGED invoice /\ \A s \in Requests \ {r} : inv'[s] = inv[s]
    BY Parts, ListFrame DEF Alone, tables
<1>2. inv[r] \in LocalInvoice /\ Dated(inv[r]) /\ inv \in [Requests -> LocalInvoice]
    BY Parts DEF TypeOK, HandOK, DatesKept
<1>3. CASE InvoiceList(r)
    <2>1. inv'[r] = Sees(invoice, r)[id[r]] /\ id[r] \in Invoices /\ Live(inv'[r])
        BY <1>2, <1>3, Parts DEF InvoiceList, Visible, TypeOK, HandOK
    <2>2. DOMAIN invoice = Invoices
        BY Parts DEF TypeOK, TablesOK
    <2>3. Dated(inv'[r])
        BY <2>1, <2>2, EntitiesAssumption DEF DatesKept, Sees
    <2> QED BY <1>1, <2>3, DatesInHand
<1>4. CASE InvoiceRows(r)
    BY <1>1, <1>2, <1>4, InHandAfterRows, FlaggedIsDated, PostedIsDated, DatesInHand
<1>5. CASE GetNextInvoiceNumber(r)
    BY <1>1, <1>2, <1>5, InHandAfterNumber, OthersAreDated, PostedIsDated, DatesInHand
<1>6. CASE CustomerList(r)
    <2>1. inv'[r] = [inv[r] EXCEPT !.customer = Arg(r)]
        BY <1>2, <1>6 DEF CustomerList
    <2> QED BY <1>1, <1>2, <2>1, OthersAreDated, DatesInHand
<1> QED BY <1>3, <1>4, <1>5, <1>6

LEMMA DatesSaved ==
    ASSUME Invariant, DatesKept, NEW r \in Requests, ~Fail(r),
           InvoiceUpdate(r) \/ InvoiceInsert(r) \/ CustomerUpdate(r) \/ CustomerInsert(r)
    PROVE  DatesKept'
<1>1. inv[r] \in LocalInvoice /\ Dated(inv[r]) /\ inv \in [Requests -> LocalInvoice]
    BY Parts DEF TypeOK, HandOK, DatesKept
<1>2. CASE InvoiceUpdate(r)
    <2> DEFINE old == Sees(invoice, r)[id[r]]
    <2>1. /\ id[r] \in Invoices /\ UNCHANGED inv
          /\ UNCHANGED invoice \/ invoice' = Put(invoice, r, id[r], UpdatedInvoice(old, inv[r]))
        BY <1>2, Parts DEF InvoiceUpdate, hand, TypeOK, HandOK
    <2>2. Dated(UpdatedInvoice(old, inv[r]))
        BY <1>1, OthersAreDated
    <2> QED BY <1>1, <2>1, <2>2, Parts, DatesWritten, DatesInHand
<1>3. CASE InvoiceInsert(r)
    <2>1. PICK i \in Invoices : invoice' = Put(invoice, r, i, InsertedInvoice(inv[r]))
        BY <1>3, Parts DEF InvoiceInsert, FreshIds, TypeOK, TablesOK
    <2>2. UNCHANGED inv
        BY <1>3 DEF InvoiceInsert
    <2> QED BY <1>1, <2>1, <2>2, Parts, OthersAreDated, DatesWritten
<1>4. CASE CustomerUpdate(r)
    BY <1>1, <1>4, DatesInHand DEF CustomerUpdate, hand
<1>5. CASE CustomerInsert(r)
    <2>1. PICK k : inv' = [inv EXCEPT ![r].customer = k]
        BY <1>5 DEF CustomerInsert
    <2>2. inv'[r] = [inv[r] EXCEPT !.customer = k] /\ \A s \in Requests \ {r} : inv'[s] = inv[s]
        BY <1>1, <2>1
    <2>3. UNCHANGED invoice
        BY <1>5 DEF CustomerInsert
    <2> QED BY <1>1, <2>2, <2>3, OthersAreDated, DatesInHand
<1> QED BY <1>2, <1>3, <1>4, <1>5

LEMMA DatesEnd ==
    ASSUME Invariant, DatesKept, NEW r \in Requests, NEW commit \in BOOLEAN,
           EndTransaction(r, commit)
    PROVE  DatesKept'
<1>1. /\ invoice' = Ended(invoice, r, commit) /\ inv' = [inv EXCEPT ![r] = ZeroInvoice]
      /\ DOMAIN invoice = Invoices /\ inv \in [Requests -> LocalInvoice]
    BY Parts DEF EndTransaction, TypeOK, TablesOK, HandOK
<1>2. \A i \in Invoices :
         IF invoice[i].by # r THEN invoice'[i] = invoice[i]
         ELSE /\ invoice'[i].by = NULL
              /\ invoice'[i].val = IF commit THEN invoice[i].new ELSE invoice[i].val
    BY <1>1 DEF Ended, Settled
<1>3. \A i \in Invoices : /\ Live(invoice'[i].val) => Dated(invoice'[i].val)
                          /\ invoice'[i].by # NULL => Dated(invoice'[i].new)
    BY <1>2, EntitiesAssumption DEF DatesKept
<1>4. \A s \in Requests : Dated(inv'[s])
    BY <1>1, OthersAreDated DEF DatesKept
<1> QED BY <1>3, <1>4 DEF DatesKept, Dated

LEMMA DatesNext == Invariant /\ DatesKept /\ [Next]_vars => DatesKept'
<1> SUFFICES ASSUME Invariant, DatesKept, [Next]_vars PROVE DatesKept'
    OBVIOUS
<1>1. ASSUME UNCHANGED << invoice, inv >> PROVE DatesKept'
    BY <1>1 DEF DatesKept, Dated
<1>2. CASE UNCHANGED vars
    BY <1>1, <1>2 DEF vars, tables, hand
<1>3. ASSUME NEW r \in Requests, StepOf(r) PROVE DatesKept'
    <2>1. CASE \E f \in Forms : Begin(r, f)
        BY <1>1, <2>1 DEF Begin, tables
    <2>2. CASE \E commit \in BOOLEAN : EndTransaction(r, commit)
        BY <2>2, DatesEnd
    <2>3. CASE Fail(r)
        BY <1>1, <2>3 DEF Fail, tables, hand
    <2>4. CASE ~Fail(r) /\ Step(r) /\ ~CommitOrRollback(r)
        BY <1>1, <2>4, Parts, StatementCases, SideFrame, DatesRead, DatesSaved
    <2> QED BY <1>3, <2>1, <2>2, <2>3, <2>4 DEF StepOf
<1> QED BY <1>2, <1>3, StepCases

(* Whatever copies of an invoice overwrite each other, and whatever fails: *)
(* an invoice that is flagged as paid or as invoiced has the date that the *)
(* pages and the export format without looking (views/invoice/flag.go:69). *)
THEOREM FlagsAreDated == Spec => []FlagsHaveDates
<1>1. Init => DatesKept
    BY OthersAreDated DEF Init, EmptyTable, Settled, DatesKept, Live
<1>2. DatesKept => FlagsHaveDates
    BY DEF DatesKept, Dated, FlagsHaveDates, CommittedInvoices, InvoiceIn
<1> QED BY <1>1, <1>2, DatesNext, InvariantHolds, PTL DEF Spec

-----------------------------------------------------------------------------
(* Customers and companies. *)

(* No statement gives an invoice or a customer to another company, and     *)
(* customers are never removed.                                            *)
InvoiceCompaniesFixed ==
    \A i \in Invoices :
        invoice[i].by # NULL /\ Live(invoice[i].val)
        => invoice[i].new.company = invoice[i].val.company

CustomerCompaniesFixed ==
    \A k \in Customers :
        customer[k].by # NULL
        => /\ Live(customer[k].new)
           /\ Live(customer[k].val) => customer[k].new.company = customer[k].val.company

(* Customer k of company c: as everybody finds it, and as request r does.  *)
InBooks(k, c) ==
    k \in Customers /\ Live(customer[k].val) /\ customer[k].val.company = c

Known(r, k, c) ==
    /\ k \in Customers /\ Live(Sees(customer, r)[k])
    /\ Sees(customer, r)[k].company = c

(* The customer of an invoice is known to those who find the invoice: to   *)
(* all, to the request that wrote it, to the handler that has it in hand.  *)
CustomersKnown ==
    /\ \A i \in CommittedInvoices : InBooks(InvoiceIn(i).customer, InvoiceIn(i).company)
    /\ \A i \in Invoices, r \in Requests :
          invoice[i].by = r => Known(r, invoice[i].new.customer, invoice[i].new.company)

KnownInHand(r) ==
    inv[r].customer # NULL => Known(r, inv[r].customer, inv[r].company)

(* The invoice in hand is one of the company that r is served for, and so  *)
(* is the stored one, if there is one.                                     *)
Ready(r) ==
    /\ inv[r].company = form[r].company
    /\ id[r] # NULL => Reached(r) /\ Sees(invoice, r)[id[r]].company = form[r].company

(* The statements that rely on that. *)
Uses == {"FileAdd", "AttachmentAdd", "CustomerList", "CustomerSave", "InvoiceSave"}

(* What the handler has made sure of before the statements of its script.  *)
Prepared(r) ==
    \A n \in DOMAIN script[r] :
        LET op == script[r][n].op IN
        /\ op \in {"AttachmentAdd", "FileRemove"} => n = 1
        /\ op = "RUTGet" => IsRut(form[r])
        /\ op \in Uses => ~IsRut(form[r]) /\ Ready(r)
        /\ op = "GetNextInvoiceNumber" =>
              ~IsRut(form[r]) /\ (form[r].op = "post" => id[r] = NULL \/ Ready(r))
        /\ op = "InvoiceRows" /\ n = 1 => IsRut(form[r]) \/ Ready(r)

WellPrepared(r) == KnownInHand(r) /\ Prepared(r)

OwnBooks ==
    /\ InvoiceCompaniesFixed /\ CustomerCompaniesFixed /\ CustomersKnown
    /\ \A r \in Requests : WellPrepared(r)

(* What a step of request r does to the customers and to the invoices. *)

WritesCustomer(r) ==
    \/ UNCHANGED customer
    \/ \E k \in Customers, x \in CustomerRecord :
          LET old == Sees(customer, r)[k] IN
          /\ customer[k].by \in {NULL, r}
          /\ Live(old) => x.company = old.company
          /\ customer' = Put(customer, r, k, x)

WritesOwnInvoice(r) ==
    \/ UNCHANGED invoice
    \/ \E i \in Invoices, x \in InvoiceRecord :
          LET old == Sees(invoice, r)[i] IN
          /\ invoice[i].by \in {NULL, r}
          /\ Live(old) => x.company = old.company
          /\ Known(r, x.customer, x.company)
          /\ invoice' = Put(invoice, r, i, x)

(* Nobody loses sight of a customer ... *)
LEMMA CustomerWritten ==
    ASSUME TypeOK, CustomerCompaniesFixed, NEW r \in Requests, WritesCustomer(r)
    PROVE  /\ CustomerCompaniesFixed'
           /\ \A s \in Requests : \A k, c : Known(s, k, c) => Known(s, k, c)'
           /\ \A k, c : InBooks(k, c) => InBooks(k, c)'
<1>1. CASE UNCHANGED customer
    BY <1>1 DEF CustomerCompaniesFixed, Known, InBooks
<1>2. ASSUME NEW j \in Customers, NEW x \in CustomerRecord, customer[j].by \in {NULL, r},
             Live(Sees(customer, r)[j]) => x.company = Sees(customer, r)[j].company,
             customer' = Put(customer, r, j, x)
      PROVE  /\ CustomerCompaniesFixed'
             /\ \A s \in Requests : \A k, c : Known(s, k, c) => Known(s, k, c)'
             /\ \A k, c : InBooks(k, c) => InBooks(k, c)'
    <2>1. Live(x)
        BY EntitiesAssumption DEF Live
    <2>2. DOMAIN customer = Customers /\ DOMAIN customer' = Customers
        BY <1>2 DEF TypeOK, TablesOK, Put
    <2>3. \A k \in Customers : IF k = j
              THEN customer'[k] = [val |-> customer[j].val, by |-> r, new |-> x]
              ELSE customer'[k] = customer[k]
        BY <1>2, <2>2 DEF Put
    <2>4. Live(customer[j].val) => x.company = customer[j].val.company
        BY <1>2, <2>2, EntitiesAssumption DEF CustomerCompaniesFixed, Sees
    <2>5. CustomerCompaniesFixed'
        BY <2>1, <2>3, <2>4 DEF CustomerCompaniesFixed
    <2>6. ASSUME NEW s \in Requests, NEW k, NEW c, Known(s, k, c)
          PROVE  Known(s, k, c)'
        <3>1. CASE k = j
            BY <1>2, <2>1, <2>2, <2>3, <2>6, <3>1, EntitiesAssumption DEF Known, Sees
        <3>2. CASE k # j
            BY <2>2, <2>3, <2>6, <3>2 DEF Known, Sees
        <3> QED BY <3>1, <3>2
    <2>7. \A k, c : InBooks(k, c) => InBooks(k, c)'
        BY <2>3 DEF InBooks
    <2> QED BY <2>5, <2>6, <2>7
<1> QED BY <1>1, <1>2 DEF WritesCustomer

LEMMA CustomerEnded ==
    ASSUME TypeOK, CustomerCompaniesFixed, NEW r \in Requests, NEW commit \in BOOLEAN,
           customer' = Ended(customer, r, commit)
    PROVE  /\ CustomerCompaniesFixed'
           /\ \A s \in Requests \ {r} : \A k, c : Known(s, k, c) => Known(s, k, c)'
           /\ \A k, c : InBooks(k, c) => InBooks(k, c)'
           /\ commit => \A k, c : Known(r, k, c) => InBooks(k, c)'
<1>1. DOMAIN customer = Customers /\ DOMAIN customer' = Customers
    BY DEF TypeOK, TablesOK, Ended
<1>2. \A k \in Customers :
         IF customer[k].by # r THEN customer'[k] = customer[k]
         ELSE /\ customer'[k].by = NULL
              /\ customer'[k].val = IF commit THEN customer[k].new ELSE customer[k].val
    BY <1>1 DEF Ended, Settled
<1>3. \A k \in Customers : customer[k].by = r =>
          /\ Live(customer[k].new)
          /\ Live(customer[k].val) => customer[k].new.company = customer[k].val.company
    BY EntitiesAssumption DEF CustomerCompaniesFixed
<1>4. CustomerCompaniesFixed'
    BY <1>2 DEF CustomerCompaniesFixed
<1>5. ASSUME NEW s \in Requests \ {r}, NEW k, NEW c, Known(s, k, c)
      PROVE  Known(s, k, c)'
    <2>1. CASE customer[k].by # r
        BY <1>1, <1>2, <1>5, <2>1 DEF Known, Sees
    <2>2. CASE customer[k].by = r
        BY <1>1, <1>2, <1>3, <1>5, <2>2, EntitiesAssumption DEF Known, Sees
    <2> QED BY <2>1, <2>2
<1>6. \A k, c : InBooks(k, c) => InBooks(k, c)'
    BY <1>2, <1>3 DEF InBooks
<1>7. ASSUME commit, NEW k, NEW c, Known(r, k, c) PROVE InBooks(k, c)'
    BY <1>1, <1>2, <1>3, <1>7 DEF Known, InBooks, Sees
<1> QED BY <1>4, <1>5, <1>6, <1>7

(* ... or sees an invoice change its company. *)
LEMMA OwnInvoiceWritten ==
    ASSUME TypeOK, InvoiceCompaniesFixed, InvoicesNeverRemoved, NEW r \in Requests,
           WritesOwnInvoice(r)
    PROVE  /\ InvoiceCompaniesFixed'
           /\ \A s \in Requests, i \in Invoices :
                 Live(Sees(invoice, s)[i])
                 => /\ Live(Sees(invoice', s)[i])
                    /\ Sees(invoice', s)[i].company = Sees(invoice, s)[i].company
           /\ \A i \in Invoices : invoice'[i].val = invoice[i].val
           /\ \A i \in Invoices :
                 \/ invoice'[i] = invoice[i]
                 \/ /\ invoice'[i].by = r
                    /\ Known(r, invoice'[i].new.customer, invoice'[i].new.company)
<1>1. CASE UNCHANGED invoice
    BY <1>1 DEF InvoiceCompaniesFixed
<1>2. ASSUME NEW j \in Invoices, NEW x \in InvoiceRecord, invoice[j].by \in {NULL, r},
             Live(Sees(invoice, r)[j]) => x.company = Sees(invoice, r)[j].company,
             Known(r, x.customer, x.company), invoice' = Put(invoice, r, j, x)
      PROVE  /\ InvoiceCompaniesFixed'
             /\ \A s \in Requests, i \in Invoices :
                   Live(Sees(invoice, s)[i])
                   => /\ Live(Sees(invoice', s)[i])
                      /\ Sees(invoice', s)[i].company = Sees(invoice, s)[i].company
             /\ \A i \in Invoices : invoice'[i].val = invoice[i].val
             /\ \A i \in Invoices :
                   \/ invoice'[i] = invoice[i]
                   \/ /\ invoice'[i].by = r
                      /\ Known(r, invoice'[i].new.customer, invoice'[i].new.company)
    <2>1. Live(x)
        BY EntitiesAssumption DEF Live
    <2>2. DOMAIN invoice = Invoices /\ DOMAIN invoice' = Invoices
        BY <1>2 DEF TypeOK, TablesOK, Put
    <2>3. \A i \in Invoices : IF i = j
              THEN invoice'[i] = [val |-> invoice[j].val, by |-> r, new |-> x]
              ELSE invoice'[i] = invoice[i]
        BY <1>2, <2>2 DEF Put
    <2>4. Live(invoice[j].val) => x.company = invoice[j].val.company
        BY <1>2, <2>2, EntitiesAssumption DEF InvoiceCompaniesFixed, InvoicesNeverRemoved, Sees
    <2>5. InvoiceCompaniesFixed'
        BY <2>3, <2>4 DEF InvoiceCompaniesFixed
    <2>6. ASSUME NEW s \in Requests, NEW i \in Invoices, Live(Sees(invoice, s)[i])
          PROVE  /\ Live(Sees(invoice', s)[i])
                 /\ Sees(invoice', s)[i].company = Sees(invoice, s)[i].company
        <3>1. CASE i = j
            BY <1>2, <2>1, <2>2, <2>3, <2>6, <3>1, EntitiesAssumption DEF Sees
        <3>2. CASE i # j
            BY <2>2, <2>3, <2>6, <3>2 DEF Sees
        <3> QED BY <3>1, <3>2
    <2>7. \A i \in Invoices :
             /\ invoice'[i].val = invoice[i].val
             /\ \/ invoice'[i] = invoice[i]
                \/ /\ invoice'[i].by = r
                   /\ Known(r, invoice'[i].new.customer, invoice'[i].new.company)
        BY <1>2, <2>3
    <2> QED BY <2>5, <2>6, <2>7
<1> QED BY <1>1, <1>2 DEF WritesOwnInvoice

LEMMA OwnInvoiceEnded ==
    ASSUME TypeOK, InvoiceCompaniesFixed, InvoicesNeverRemoved, NEW r \in Requests,
           NEW commit \in BOOLEAN, invoice' = Ended(invoice, r, commit)
    PROVE  /\ InvoiceCompaniesFixed'
           /\ \A s \in Requests \ {r}, i \in Invoices :
                 Live(Sees(invoice, s)[i])
                 => /\ Live(Sees(invoice', s)[i])
                    /\ Sees(invoice', s)[i].company = Sees(invoice, s)[i].company
           /\ \A i \in Invoices :
                 IF invoice[i].by # r THEN invoice'[i] = invoice[i]
                 ELSE /\ invoice'[i].by = NULL
                      /\ invoice'[i].val = IF commit THEN invoice[i].new ELSE invoice[i].val
<1>1. DOMAIN invoice = Invoices /\ DOMAIN invoice' = Invoices
    BY DEF TypeOK, TablesOK, Ended
<1>2. \A i \in Invoices :
         IF invoice[i].by # r THEN invoice'[i] = invoice[i]
         ELSE /\ invoice'[i].by = NULL
              /\ invoice'[i].val = IF commit THEN invoice[i].new ELSE invoice[i].val
    BY <1>1 DEF Ended, Settled
<1>3. \A i \in Invoices : invoice[i].by = r =>
          /\ Live(invoice[i].new)
          /\ Live(invoice[i].val) => invoice[i].new.company = invoice[i].val.company
    BY EntitiesAssumption DEF InvoiceCompaniesFixed, InvoicesNeverRemoved
<1>4. InvoiceCompaniesFixed'
    BY <1>2 DEF InvoiceCompaniesFixed
<1>5. ASSUME NEW s \in Requests \ {r}, NEW i \in Invoices, Live(Sees(invoice, s)[i])
      PROVE  /\ Live(Sees(invoice', s)[i])
             /\ Sees(invoice', s)[i].company = Sees(invoice, s)[i].company
    <2>1. CASE invoice[i].by # r
        BY <1>1, <1>2, <1>5, <2>1 DEF Sees
    <2>2. CASE invoice[i].by = r
        BY <1>1, <1>2, <1>3, <1>5, <2>2, EntitiesAssumption DEF Sees
    <2> QED BY <2>1, <2>2
<1> QED BY <1>2, <1>4, <1>5

(* What is left to show of a statement of r: what r itself has in hand.    *)
LEMMA OwnStatement ==
    ASSUME Invariant, OwnBooks, NEW r \in Requests, Alone(r),
           WritesCustomer(r), WritesOwnInvoice(r), WellPrepared(r)'
    PROVE  OwnBooks'
<1>1. TypeOK /\ InvoicesNeverRemoved /\ InvoiceCompaniesFixed /\ CustomerCompaniesFixed
    BY DEF Invariant, AskInvariant, OwnBooks
<1>2. InvoiceCompaniesFixed' /\ CustomerCompaniesFixed'
    BY <1>1, CustomerWritten, OwnInvoiceWritten
<1>3. CustomersKnown'
    <2>1. ASSUME NEW i \in Invoices, Live(invoice'[i].val)
          PROVE  /\ invoice'[i].val.customer \in Customers
                 /\ Live(customer'[invoice'[i].val.customer].val)
                 /\ customer'[invoice'[i].val.customer].val.company = invoice'[i].val.company
        <3>1. invoice'[i].val = invoice[i].val
            BY <1>1, OwnInvoiceWritten
        <3>2. InBooks(invoice[i].val.customer, invoice[i].val.company)
            BY <2>1, <3>1 DEF OwnBooks, CustomersKnown, CommittedInvoices, InvoiceIn
        <3>3. \A k, c : InBooks(k, c) => /\ k \in Customers /\ Live(customer'[k].val)
                                        /\ customer'[k].val.company = c
            BY <1>1, CustomerWritten DEF InBooks
        <3> QED BY <3>1, <3>2, <3>3
    <2>2. ASSUME NEW i \in Invoices, NEW s \in Requests, invoice'[i].by = s
          PROVE  /\ invoice'[i].new.customer \in Customers
                 /\ Live(Sees(customer', s)[invoice'[i].new.customer])
                 /\ Sees(customer', s)[invoice'[i].new.customer].company
                    = invoice'[i].new.company
        <3>1. Known(s, invoice'[i].new.customer, invoice'[i].new.company)
            <4>1. CASE invoice'[i] = invoice[i]
                BY <2>2, <4>1 DEF OwnBooks, CustomersKnown
            <4>2. CASE invoice'[i] # invoice[i]
                BY <1>1, <2>2, <4>2, OwnInvoiceWritten
            <4> QED BY <4>1, <4>2
        <3>2. \A k, c : Known(s, k, c) => /\ k \in Customers /\ Live(Sees(customer', s)[k])
                                         /\ Sees(customer', s)[k].company = c
            BY <1>1, CustomerWritten DEF Known
        <3> QED BY <3>1, <3>2
    <2> QED BY <2>1, <2>2 DEF CustomersKnown, CommittedInvoices, InvoiceIn, InBooks, Known
<1>4. ASSUME NEW s \in Requests \ {r} PROVE WellPrepared(s)'
    <2>1. /\ form'[s] = form[s] /\ script'[s] = script[s] /\ id'[s] = id[s] /\ inv'[s] = inv[s]
          /\ KnownInHand(s) /\ Prepared(s)
        BY DEF Alone, OwnBooks, WellPrepared
    <2>2. KnownInHand(s)'
        <3>1. \A l, d : Known(s, l, d) => /\ l \in Customers /\ Live(Sees(customer', s)[l])
                                         /\ Sees(customer', s)[l].company = d
            BY <1>1, CustomerWritten DEF Known
        <3> QED BY <2>1, <3>1 DEF KnownInHand, Known
    <2>3. Ready(s) => Ready(s)'
        BY <1>1, <2>1, OwnInvoiceWritten DEF Ready, Reached
    <2>4. Prepared(s)'
        BY <2>1, <2>3 DEF Prepared
    <2> QED BY <2>2, <2>4 DEF WellPrepared
<1> QED BY <1>2, <1>3, <1>4 DEF OwnBooks

(* The rest of a script is prepared when the invoice in hand remains so. *)
LEMMA TailPrepared ==
    ASSUME Invariant, NEW r \in Requests, Prepared(r), script[r] # << >>,
           script'[r] = Tail(script[r]), form'[r] = form[r],
           \/ IsRut(form[r])
           \/ Ready(r)'
           \/ /\ Head(script[r]).op # "InvoiceList"
              /\ Ready(r) => Ready(r)'
              /\ id[r] = NULL => id'[r] = NULL \/ Ready(r)'
    PROVE  Prepared(r)'
<1> DEFINE S == Tail(script[r])
<1> SUFFICES ASSUME NEW n \in DOMAIN S
             PROVE  LET op == S[n].op IN
                    /\ op \in {"AttachmentAdd", "FileRemove"} => n = 1
                    /\ op = "RUTGet" => IsRut(form[r])
                    /\ op \in Uses => ~IsRut(form[r]) /\ Ready(r)'
                    /\ op = "GetNextInvoiceNumber" =>
                          /\ ~IsRut(form[r])
                          /\ form[r].op = "post" => id'[r] = NULL \/ Ready(r)'
                    /\ op = "InvoiceRows" /\ n = 1 => IsRut(form[r]) \/ Ready(r)'
    BY DEF Prepared
<1>1. /\ n \in Nat \ {0} /\ n + 1 \in DOMAIN script[r] /\ S[n] = script[r][n + 1]
      /\ script[r][1] = Head(script[r])
    BY Parts, ScriptParts
<1>2. n + 1 # 1 /\ (n + 1) - 1 = n
    BY <1>1
<1>3. /\ S[n].op \notin {"AttachmentAdd", "FileRemove"}
      /\ S[n].op = "RUTGet" => IsRut(form[r])
      /\ S[n].op \in Uses => ~IsRut(form[r]) /\ Ready(r)
      /\ S[n].op = "GetNextInvoiceNumber" =>
            ~IsRut(form[r]) /\ (form[r].op = "post" => id[r] = NULL \/ Ready(r))
    <2> HIDE DEF S
    <2> QED BY <1>1, <1>2 DEF Prepared
<1>4. S[n].op = "InvoiceRows" => script[r][n].op = "InvoiceList"
    BY <1>1, <1>2, Parts DEF OwnInvariant, Found
<1> HIDE DEF S
<1> QED BY <1>1, <1>3, <1>4

(* So is a script in which another statement takes the place of the first. *)
LEMMA InsteadPrepared ==
    ASSUME Invariant, NEW r \in Requests, Prepared(r), script[r] # << >>,
           NEW d \in Statement, script'[r] = << d >> \o Tail(script[r]),
           d.op \in {"AttachmentAdd", "FileRemove", "RUTCreate"},
           d.op = "AttachmentAdd" => Head(script[r]).op = "FileAdd",
           form'[r] = form[r], id'[r] = id[r], Ready(r) => Ready(r)'
    PROVE  Prepared(r)'
<1> DEFINE S == << d >> \o Tail(script[r])
<1>1. /\ script[r] \in Seq(Statement) /\ Tail(script[r]) \in Seq(Statement)
      /\ 1 \in DOMAIN script[r] /\ script[r][1] = Head(script[r])
    BY Parts, ScriptParts
<1>2. /\ DOMAIN S = 1..(1 + Len(Tail(script[r]))) /\ S[1] = d
      /\ \A n \in DOMAIN S : n # 1 => n \in DOMAIN script[r] /\ S[n] = script[r][n]
    <2>1. Len(script[r]) \in Nat \ {0} /\ DOMAIN script[r] = 1..Len(script[r])
        BY <1>1
    <2>2. /\ Len(Tail(script[r])) = Len(script[r]) - 1
          /\ \A n \in 1..(Len(script[r]) - 1) : Tail(script[r])[n] = script[r][n + 1]
        BY <1>1, <2>1
    <2>3. /\ S \in Seq(Statement) /\ Len(S) = 1 + Len(Tail(script[r])) /\ S[1] = d
          /\ \A n \in 1..Len(Tail(script[r])) : S[n + 1] = Tail(script[r])[n]
        BY <1>1
    <2> HIDE DEF S
    <2>4. DOMAIN S = 1..Len(S)
        BY <2>3
    <2>5. ASSUME NEW n \in DOMAIN S, n # 1
          PROVE  n \in DOMAIN script[r] /\ S[n] = script[r][n]
        <3>1. n - 1 \in 1..(Len(script[r]) - 1) /\ (n - 1) + 1 = n /\ n \in 1..Len(script[r])
            BY <2>1, <2>2, <2>3, <2>4, <2>5
        <3> QED BY <2>1, <2>2, <2>3, <3>1
    <2> QED BY <2>3, <2>4, <2>5
<1>3. d.op = "AttachmentAdd" => ~IsRut(form[r]) /\ Ready(r)
    BY <1>1 DEF Prepared, Uses
<1> SUFFICES ASSUME NEW n \in DOMAIN S
             PROVE  LET op == S[n].op IN
                    /\ op \in {"AttachmentAdd", "FileRemove"} => n = 1
                    /\ op = "RUTGet" => IsRut(form[r])
                    /\ op \in Uses => ~IsRut(form[r]) /\ Ready(r)'
                    /\ op = "GetNextInvoiceNumber" =>
                          /\ ~IsRut(form[r])
                          /\ form[r].op = "post" => id'[r] = NULL \/ Ready(r)'
                    /\ op = "InvoiceRows" /\ n = 1 => IsRut(form[r]) \/ Ready(r)'
    BY DEF Prepared
<1> HIDE DEF S
<1>4. CASE n = 1
    BY <1>2, <1>3, <1>4 DEF Uses
<1>5. CASE n # 1
    BY <1>2, <1>5 DEF Prepared
<1> QED BY <1>4, <1>5

(* And so is a new script. *)
LEMMA NewPrepared ==
    ASSUME NEW r \in Requests, NEW q \in Seq(Issued), script'[r] = q, form'[r] = form[r],
           ~IsRut(form[r]), Ready(r)'
    PROVE  Prepared(r)'
<1>1. \A n \in DOMAIN q : q[n] \in Issued
    BY LenProperties, ElementOfSeq
<1> QED BY <1>1 DEF Prepared, Issued

LEMMA RutPrepared ==
    ASSUME NEW r \in Requests, NEW q \in Seq(RutHandled), script'[r] = q
    PROVE  Prepared(r)'
<1>1. \A n \in DOMAIN q : q[n].op \in {"RUTSave", "RowUpdate"}
    BY LenProperties, ElementOfSeq DEF RutHandled
<1> QED BY <1>1 DEF Prepared, Uses

LEMMA OpeningPrepared ==
    ASSUME TypeOK, NEW r \in Requests, NEW f \in Forms, Begin(r, f)
    PROVE  Prepared(r)'
<1>1. /\ script'[r] = Opening(f) /\ form'[r] = f
      /\ ~IsRut(f) => id'[r] = f.invoice
    BY DEF Begin, TypeOK, ServingOK, HandOK
<1>2. CASE IsRut(f)
    <2> DEFINE a == << Do("RUTGet", f.rut) >>
    <2>1. /\ a \in Seq(Statement) /\ Len(a) = 1
          /\ InvoiceGet \in Seq(Statement) /\ Len(InvoiceGet) = 2
        <3>1. f \in RutForm
            BY <1>2, FormType DEF IsRut
        <3>2. Do("RUTGet", f.rut) \in Statement
            BY <3>1, DoType DEF RutForm, RutFlagForm, RutPostForm
        <3>3. Len(InvoiceGet) = 2
            BY DEF InvoiceGet
        <3> QED BY <3>2, <3>3, InvoiceGetType
    <2>2. Opening(f) = a \o InvoiceGet
        BY <1>2 DEF Opening
    <2>3. /\ a[1].op = "RUTGet" /\ InvoiceGet[1].op = "InvoiceList"
          /\ InvoiceGet[2].op = "InvoiceRows"
        BY DEF InvoiceGet, Do
    <2> HIDE DEF a
    <2>4. /\ DOMAIN Opening(f) = 1..3 /\ Opening(f)[1].op = "RUTGet"
          /\ Opening(f)[2].op = "InvoiceList" /\ Opening(f)[3].op = "InvoiceRows"
        <3>1. /\ a \o InvoiceGet \in Seq(Statement) /\ Len(a \o InvoiceGet) = 3
              /\ \A n \in 1..3 : (a \o InvoiceGet)[n] = IF n <= 1 THEN a[n] ELSE InvoiceGet[n - 1]
            BY <2>1, ConcatProperties
        <3>2. DOMAIN (a \o InvoiceGet) = 1..3
            BY <3>1, LenProperties
        <3> QED BY <2>2, <2>3, <3>1, <3>2
    <2> QED BY <1>1, <1>2, <2>4 DEF Prepared, Uses
<1>3. CASE ~IsRut(f) /\ f.invoice = NULL
    <2>1. Opening(f) = << Do("GetNextInvoiceNumber", f.company) >>
        BY <1>3 DEF Opening
    <2> QED BY <1>1, <1>3, <2>1 DEF Prepared, Do, Uses
<1>4. CASE ~IsRut(f) /\ f.invoice # NULL
    <2>1. Opening(f) = << Do("InvoiceList", NULL), Do("InvoiceRows", NULL) >>
        BY <1>4 DEF Opening, InvoiceGet
    <2> QED BY <1>1, <2>1 DEF Prepared, Do, Uses
<1> QED BY <1>2, <1>3, <1>4

-----------------------------------------------------------------------------
(* Each step keeps customers and invoices together. *)

LEMMA OwnParts ==
    ASSUME Invariant, OwnBooks, NEW r \in Requests
    PROVE  /\ TypeOK /\ InvoicesNeverRemoved /\ KnownInHand(r) /\ Prepared(r)
           /\ inv \in [Requests -> LocalInvoice] /\ inv[r] \in LocalInvoice
           /\ id \in [Requests -> Invoices \cup {NULL}]
           /\ script \in [Requests -> Seq(Statement)]
           /\ DOMAIN invoice = Invoices /\ DOMAIN customer = Customers
BY Parts DEF OwnBooks, WellPrepared, TypeOK, HandOK, ServingOK, TablesOK, Invariant, AskInvariant

(* What relies on the invoice in hand finds it ready. *)
LEMMA HeadPrepared ==
    ASSUME Invariant, OwnBooks, NEW r \in Requests, script[r] # << >>
    PROVE  /\ Head(script[r]).op \in Uses => ~IsRut(form[r]) /\ Ready(r)
           /\ Head(script[r]).op = "RUTGet" => IsRut(form[r])
           /\ Head(script[r]).op = "InvoiceRows" => IsRut(form[r]) \/ Ready(r)
           /\ Head(script[r]).op = "GetNextInvoiceNumber" =>
                 ~IsRut(form[r]) /\ (form[r].op = "post" => id[r] = NULL \/ Ready(r))
<1>1. 1 \in DOMAIN script[r] /\ script[r][1] = Head(script[r])
    BY Parts, ScriptParts
<1>2. Prepared(r)
    BY OwnParts
<1> QED BY <1>1, <1>2 DEF Prepared

LEMMA NothingWritten ==
    ASSUME NEW r \in Requests, UNCHANGED << invoice, customer >>
    PROVE  WritesCustomer(r) /\ WritesOwnInvoice(r)
BY DEF WritesCustomer, WritesOwnInvoice

LEMMA OwnSide ==
    ASSUME Invariant, OwnBooks, NEW r \in Requests, Side(r), ~Fail(r)
    PROVE  OwnBooks'
<1>1. Alone(r) /\ UNCHANGED << invoice, customer, inv >>
    BY OwnParts, SideFrame
<1>2. KnownInHand(r)'
    BY <1>1, OwnParts DEF KnownInHand, Known
<1>3. script[r] # << >>
    BY DEF Side, InvoiceRowAdd, InvoiceRowRemove, InvoiceRowUpdate, FileAdd, AttachmentAdd,
        AttachmentRemove, FileRemove, RUTGet, RUTList, RUTCreate, RUTSave, Runs, At
<1>4. id'[r] = id[r] => (Ready(r) => Ready(r)')
    BY <1>1 DEF Ready, Reached, Alone
<1>5. form'[r] = form[r]
    BY <1>1 DEF Alone
<1>6. Prepared(r)'
    <2>1. CASE RUTGet(r)
        <3>1. Head(script[r]).op = "RUTGet" /\ Continue(r)
            BY <2>1 DEF RUTGet, Runs, At
        <3>2. script'[r] = Tail(script[r]) /\ IsRut(form[r])
            BY <1>3, <3>1, OwnParts, HeadPrepared DEF Continue
        <3> QED BY <1>3, <1>5, <3>2, OwnParts, TailPrepared
    <2>2. ASSUME UNCHANGED id, Continue(r), Head(script[r]).op # "InvoiceList"
          PROVE  Prepared(r)'
        <3>1. script'[r] = Tail(script[r]) /\ id'[r] = id[r]
            BY <2>2, OwnParts DEF Continue
        <3> QED BY <1>3, <1>4, <1>5, <2>2, <3>1, OwnParts, TailPrepared
    <2>3. CASE \/ InvoiceRowAdd(r) \/ InvoiceRowRemove(r) \/ InvoiceRowUpdate(r)
               \/ AttachmentAdd(r) \/ FileRemove(r) \/ RUTCreate(r) \/ RUTSave(r)
               \/ RUTList(r) /\ Continue(r)
        <3>1. UNCHANGED id /\ Continue(r)
            BY <2>3 DEF InvoiceRowAdd, InvoiceRowRemove, InvoiceRowUpdate, AttachmentAdd,
                FileRemove, RUTCreate, RUTSave, RUTList, WriteRow, WriteRequest,
                MatchesNothing, hand
        <3>2. Head(script[r]).op # "InvoiceList"
            BY <2>3 DEF InvoiceRowAdd, InvoiceRowRemove, InvoiceRowUpdate, AttachmentAdd,
                FileRemove, RUTCreate, RUTSave, RUTList, Runs, At
        <3> QED BY <2>2, <3>1, <3>2
    <2>4. ASSUME NEW op \in {"AttachmentAdd", "FileRemove", "RUTCreate"}, NEW x,
                 Do(op, x) \in Statement,
                 op = "AttachmentAdd" => Head(script[r]).op = "FileAdd",
                 UNCHANGED id, ContinueWith(r, << Do(op, x) >> \o Tail(script[r]))
          PROVE  Prepared(r)'
        <3>1. script'[r] = << Do(op, x) >> \o Tail(script[r]) /\ id'[r] = id[r]
            BY <2>4, OwnParts DEF ContinueWith
        <3>2. Do(op, x).op = op
            BY DEF Do
        <3> QED BY <1>3, <1>4, <1>5, <2>4, <3>1, <3>2, OwnParts, InsteadPrepared
    <2>5. CASE FileAdd(r)
        <3>1. /\ Head(script[r]).op = "FileAdd" /\ UNCHANGED id
              /\ \E k \in Files : ContinueWith(r, << Do("AttachmentAdd", k) >> \o Tail(script[r]))
            BY <2>5, Parts DEF FileAdd, Runs, At, hand, FreshIds, TypeOK, TablesOK
        <3> QED BY <2>4, <3>1, DoType
    <2>6. CASE AttachmentRemove(r)
        <3>1. /\ Head(script[r]).op = "AttachmentRemove" /\ UNCHANGED id
              /\ ContinueWith(r, << Do("FileRemove", Arg(r)) >> \o Tail(script[r]))
            BY <2>6 DEF AttachmentRemove, Runs, At, hand
        <3>2. Arg(r) \in Files
            BY <1>3, <3>1, Parts, Served, StatementArgument DEF Arg
        <3> QED BY <2>4, <3>1, <3>2, DoType
    <2>7. CASE RUTList(r) /\ ~Continue(r)
        <3>1. /\ Head(script[r]).op = "RUTList" /\ UNCHANGED id
              /\ ContinueWith(r, << Do("RUTCreate", Arg(r)) >> \o Tail(script[r]))
            BY <2>7 DEF RUTList, Runs, At, hand
        <3>2. Arg(r) \in Types
            BY <1>3, <3>1, Parts, Served, StatementArgument DEF Arg
        <3> QED BY <2>4, <3>1, <3>2, DoType
    <2> QED BY <2>1, <2>3, <2>5, <2>6, <2>7 DEF Side
<1> QED BY <1>1, <1>2, <1>6, NothingWritten, OwnStatement DEF WellPrepared

(* An invoice that request r finds has a customer that r finds. *)
LEMMA FoundIsKnown ==
    ASSUME Invariant, OwnBooks, NEW r \in Requests, NEW i \in Invoices,
           Live(Sees(invoice, r)[i])
    PROVE  Known(r, Sees(invoice, r)[i].customer, Sees(invoice, r)[i].company)
<1>1. CASE invoice[i].by = r
    BY <1>1, OwnParts DEF OwnBooks, CustomersKnown, Sees
<1>2. CASE invoice[i].by # r
    <2>1. Sees(invoice, r)[i] = invoice[i].val
        BY <1>2, OwnParts DEF Sees
    <2>2. InBooks(invoice[i].val.customer, invoice[i].val.company)
        BY <2>1 DEF OwnBooks, CustomersKnown, CommittedInvoices, InvoiceIn
    <2>3. \A k, c : InBooks(k, c) => Known(r, k, c)
        BY OwnParts, EntitiesAssumption DEF OwnBooks, CustomerCompaniesFixed, InBooks, Known, Sees
    <2> QED BY <2>1, <2>2, <2>3
<1> QED BY <1>1, <1>2

LEMMA OwnList ==
    ASSUME Invariant, OwnBooks, NEW r \in Requests, InvoiceList(r), ~Fail(r)
    PROVE  OwnBooks'
<1> DEFINE x == Sees(invoice, r)[id[r]]
<1>1. /\ script[r] # << >> /\ id[r] \in Invoices /\ Visible(r, x) /\ inv'[r] = x
      /\ Continue(r) /\ UNCHANGED << tables, id >>
    BY OwnParts DEF InvoiceList, Runs, At
<1>2. Alone(r) /\ UNCHANGED << invoice, customer >>
    BY <1>1, OwnParts, ListFrame DEF tables
<1>3. KnownInHand(r)'
    BY <1>1, <1>2, FoundIsKnown DEF Visible, KnownInHand, Known
<1>4. form'[r] = form[r] /\ script'[r] = Tail(script[r])
    BY <1>1, <1>2, OwnParts DEF Alone, Continue
<1>5. IsRut(form[r]) \/ Ready(r)'
    BY <1>1, <1>2, <1>4 DEF Visible, Ready, Reached
<1>6. Prepared(r)'
    BY <1>1, <1>4, <1>5, OwnParts, TailPrepared
<1> QED BY <1>2, <1>3, <1>6, NothingWritten, OwnStatement DEF WellPrepared

(* What the reading of the rows, and of the next number, leave to be done. *)
LEMMA RowsScript ==
    ASSUME Invariant, NEW r \in Requests, InvoiceRows(r), ~Fail(r)
    PROVE  /\ IsRut(form[r]) => script'[r] \in Seq(RutHandled)
           /\ ~IsRut(form[r]) => script'[r] \in Seq(Issued)
<1> DEFINE f == form[r]
<1>1. /\ f \in Forms /\ inv[r] \in LocalInvoice /\ RowsOf(r) \in LocalRows
    BY Parts, RowsOfType, InHandAfterRows
<1>2. \A q : ContinueWith(r, q) => script'[r] = q
    BY Parts DEF ContinueWith, TypeOK, ServingOK
<1>3. \/ f.op = "flag" /\ \E q \in FlagScripts(f, inv[r], RowsOf(r)) : ContinueWith(r, q)
      \/ f.op = "post" /\ \E q \in PostScripts(f, inv[r], RowsOf(r)) : ContinueWith(r, q)
      \/ f.op = "attach" /\ ContinueWith(r, FileScript(f))
      \/ f.op = "rut_flag" /\ \E q \in RutSaveScripts(f, RowsOf(r)) : ContinueWith(r, q)
      \/ f.op = "rut_post" /\ \E q \in RutPostScripts(f, rut[r], HoursPosted(f, RowsOf(r))) :
                                 ContinueWith(r, q)
    BY DEF InvoiceRows
<1>4. CASE f.op = "flag" /\ \E q \in FlagScripts(f, inv[r], RowsOf(r)) : ContinueWith(r, q)
    BY <1>1, <1>2, <1>4, FormType, FlagScriptsType DEF IsRut
<1>5. CASE f.op = "post" /\ \E q \in PostScripts(f, inv[r], RowsOf(r)) : ContinueWith(r, q)
    BY <1>1, <1>2, <1>5, FormType, PostScriptsType, HandledIsPlain DEF IsRut
<1>6. CASE f.op = "attach" /\ ContinueWith(r, FileScript(f))
    <2>1. f.attach \in Nat
        BY <1>1, <1>6, FormType DEF AttachForm
    <2> QED BY <1>2, <1>6, <2>1, FileScriptType, HandledIsPlain DEF IsRut
<1>7. CASE f.op = "rut_flag" /\ \E q \in RutSaveScripts(f, RowsOf(r)) : ContinueWith(r, q)
    BY <1>1, <1>2, <1>7, FormType, RutSaveScriptsType DEF IsRut
<1>8. CASE f.op = "rut_post" /\ \E q \in RutPostScripts(f, rut[r], HoursPosted(f, RowsOf(r))) :
                                   ContinueWith(r, q)
    BY <1>1, <1>2, <1>8, FormType, HoursPostedType, RutPostScriptsType DEF IsRut
<1> QED BY <1>3, <1>4, <1>5, <1>6, <1>7, <1>8

LEMMA NumberScript ==
    ASSUME Invariant, NEW r \in Requests, GetNextInvoiceNumber(r)
    PROVE  \/ form[r].op = "flag" /\ Continue(r)
           \/ form[r].op = "post" /\ script'[r] \in Seq(Issued)
<1>1. \/ form[r].op = "flag" /\ Continue(r)
      \/ /\ form[r].op = "post" /\ form[r] \in PostForm
         /\ \E n \in Nat : /\ NewInvoice(form[r], n) \in LocalInvoice
                           /\ \E q \in PostScripts(form[r], NewInvoice(form[r], n), NoRows) :
                                 ContinueWith(r, q)
    BY InHandAfterNumber
<1>2. \A q : ContinueWith(r, q) => script'[r] = q
    BY Parts DEF ContinueWith, TypeOK, ServingOK
<1> QED BY <1>1, <1>2, ZeroTypes, PostScriptsType, HandledIsPlain

LEMMA OwnRows ==
    ASSUME Invariant, OwnBooks, NEW r \in Requests, InvoiceRows(r), ~Fail(r)
    PROVE  OwnBooks'
<1>1. script[r] # << >> /\ Head(script[r]).op = "InvoiceRows"
    BY DEF InvoiceRows, Runs, At
<1>2. Alone(r) /\ UNCHANGED << invoice, customer >>
    BY OwnParts, ListFrame DEF tables
<1> DEFINE f == form[r]
<1>3. /\ UNCHANGED id /\ f \in Forms /\ f'= f /\ RowsOf(r) \in LocalRows
      /\ \/ inv'[r] = inv[r]
         \/ f \in FlagForm /\ inv'[r] = Flagged(f, inv[r])
         \/ f \in PostForm /\ inv'[r] = Posted(f, inv[r])
    BY <1>2, OwnParts, RowsOfType, InHandAfterRows DEF Alone
<1>4. inv'[r].company = inv[r].company /\ inv'[r].customer \in {NULL, inv[r].customer}
    <2> DEFINE x == inv[r]
    <2>1. x \in LocalInvoice
        BY OwnParts
    <2> HIDE DEF x, f
    <2>2. Flagged(f, x).company = x.company /\ Flagged(f, x).customer = x.customer
        BY <2>1 DEF Flagged, LocalInvoice
    <2>3. Posted(f, x).company = x.company /\ Posted(f, x).customer \in {NULL, x.customer}
        BY <2>1 DEF Posted, LocalInvoice
    <2> USE DEF x, f
    <2> QED BY <1>3, <2>2, <2>3
<1>5. KnownInHand(r)'
    BY <1>2, <1>4, OwnParts DEF KnownInHand, Known
<1>6. Ready(r) => Ready(r)'
    BY <1>2, <1>3, <1>4 DEF Ready, Reached
<1>7. IsRut(f) \/ Ready(r)'
    BY <1>1, <1>6, HeadPrepared
<1>8. Prepared(r)'
    BY <1>2, <1>3, <1>7, RowsScript, NewPrepared, RutPrepared
<1> QED BY <1>2, <1>5, <1>8, NothingWritten, OwnStatement DEF WellPrepared

LEMMA OwnNumber ==
    ASSUME Invariant, OwnBooks, NEW r \in Requests, GetNextInvoiceNumber(r), ~Fail(r)
    PROVE  OwnBooks'
<1>1. script[r] # << >> /\ Head(script[r]).op = "GetNextInvoiceNumber"
    BY DEF GetNextInvoiceNumber, Runs, At
<1>2. Alone(r) /\ UNCHANGED << invoice, customer >> /\ form'[r] = form[r]
    BY OwnParts, ListFrame DEF tables, Alone
<1>3. ~IsRut(form[r]) /\ (form[r].op = "post" => id[r] = NULL \/ Ready(r))
    BY <1>1, HeadPrepared
<1>4. PICK n \in Nat :
         \/ /\ form[r].op = "flag" /\ inv'[r] = ConvertedInvoice(inv[r], id[r], n)
            /\ id' = [id EXCEPT ![r] = NULL] /\ Continue(r)
         \/ /\ form[r].op = "post" /\ form[r] \in PostForm
            /\ NewInvoice(form[r], n) \in LocalInvoice
            /\ inv'[r] = Posted(form[r], NewInvoice(form[r], n))
            /\ UNCHANGED id
            /\ \E q \in PostScripts(form[r], NewInvoice(form[r], n), NoRows) : ContinueWith(r, q)
    BY InHandAfterNumber
<1>5. CASE /\ form[r].op = "flag" /\ inv'[r] = ConvertedInvoice(inv[r], id[r], n)
           /\ id' = [id EXCEPT ![r] = NULL] /\ Continue(r)
    <2>1. inv'[r].company = inv[r].company /\ inv'[r].customer = inv[r].customer
        BY <1>5, OwnParts DEF ConvertedInvoice, LocalInvoice
    <2>2. KnownInHand(r)'
        BY <1>2, <2>1, OwnParts DEF KnownInHand, Known
    <2>3. id'[r] = NULL /\ script'[r] = Tail(script[r])
        BY <1>5, OwnParts DEF Continue
    <2>4. Ready(r) => Ready(r)'
        BY <1>2, <2>1, <2>3 DEF Ready
    <2>5. Prepared(r)'
        BY <1>1, <1>2, <2>3, <2>4, OwnParts, TailPrepared
    <2> QED BY <1>2, <2>2, <2>5, NothingWritten, OwnStatement DEF WellPrepared
<1>6. CASE /\ form[r].op = "post" /\ form[r] \in PostForm
           /\ NewInvoice(form[r], n) \in LocalInvoice
           /\ inv'[r] = Posted(form[r], NewInvoice(form[r], n))
           /\ UNCHANGED id
           /\ \E q \in PostScripts(form[r], NewInvoice(form[r], n), NoRows) : ContinueWith(r, q)
    <2>1. /\ NewInvoice(form[r], n).company = form[r].company
          /\ NewInvoice(form[r], n).customer = NULL
        BY DEF NewInvoice, ZeroInvoice
    <2> DEFINE blank == NewInvoice(form[r], n)
    <2>2. Posted(form[r], blank).company = blank.company
        <3> HIDE DEF blank
        <3> QED BY <1>6 DEF Posted, LocalInvoice, blank
    <2>3. Posted(form[r], blank).customer \in {NULL, blank.customer}
        <3> HIDE DEF blank
        <3> QED BY <1>6 DEF Posted, LocalInvoice, blank
    <2>4. inv'[r].company = form[r].company /\ inv'[r].customer = NULL
        BY <1>6, <2>1, <2>2, <2>3
    <2>5. KnownInHand(r)'
        BY <2>4 DEF KnownInHand
    <2>6. Ready(r)'
        BY <1>2, <1>3, <1>6, <2>4 DEF Ready, Reached
    <2>7. Prepared(r)'
        BY <1>2, <1>3, <1>6, <2>6, NumberScript, NewPrepared
    <2> QED BY <1>2, <2>5, <2>7, NothingWritten, OwnStatement DEF WellPrepared
<1> QED BY <1>4, <1>5, <1>6

(* A statement that relies on the invoice in hand leaves it ready. *)
LEMMA OwnUse ==
    ASSUME Invariant, OwnBooks, NEW r \in Requests, Alone(r), Continue(r), script[r] # << >>,
           Head(script[r]).op \in Uses, WritesCustomer(r), WritesOwnInvoice(r),
           KnownInHand(r)', Ready(r)'
    PROVE  OwnBooks'
<1>1. script'[r] = Tail(script[r]) /\ form'[r] = form[r]
    BY OwnParts DEF Continue, Alone
<1>2. Prepared(r)'
    BY <1>1, OwnParts, TailPrepared
<1> QED BY <1>2, OwnStatement DEF WellPrepared

LEMMA OwnCustomerList ==
    ASSUME Invariant, OwnBooks, NEW r \in Requests, CustomerList(r), ~Fail(r)
    PROVE  OwnBooks'
<1> DEFINE x == Sees(customer, r)[Arg(r)]
<1>1. /\ script[r] # << >> /\ Head(script[r]).op = "CustomerList"
      /\ Continue(r) /\ UNCHANGED << tables, id >>
      /\ inv' = [inv EXCEPT ![r].customer = Arg(r)]
      /\ Live(x) /\ x.company = form[r].company
    BY DEF CustomerList, Runs, At
<1>2. Alone(r) /\ UNCHANGED << invoice, customer >> /\ form'[r] = form[r]
    BY <1>1, OwnParts, ListFrame DEF tables, Alone
<1>3. Ready(r)
    BY <1>1, HeadPrepared DEF Uses
<1>4. inv'[r].customer = Arg(r) /\ inv'[r].company = inv[r].company
    BY <1>1, OwnParts DEF LocalInvoice
<1>5. Arg(r) \in Customers
    BY <1>1, Parts, Served, StatementArgument DEF Arg
<1>6. KnownInHand(r)'
    BY <1>1, <1>2, <1>3, <1>4, <1>5 DEF KnownInHand, Known, Ready
<1>7. Ready(r)'
    BY <1>1, <1>2, <1>3, <1>4 DEF Ready, Reached
<1> QED BY <1>1, <1>2, <1>6, <1>7, NothingWritten, OwnUse DEF Uses

LEMMA OwnInvoiceUpdate ==
    ASSUME Invariant, OwnBooks, NEW r \in Requests, InvoiceUpdate(r), ~Fail(r)
    PROVE  WritesOwnInvoice(r) /\ OwnBooks'
<1> DEFINE i == id[r]
           old == Sees(invoice, r)[i]
           x == UpdatedInvoice(old, inv[r])
<1>1. /\ script[r] # << >> /\ Head(script[r]).op = "InvoiceSave"
      /\ i # NULL /\ inv[r].customer # NULL /\ Continue(r)
      /\ invoice' = IF Live(old) THEN Put(invoice, r, i, x) ELSE invoice
      /\ UNCHANGED << customer, id, inv >>
    BY DEF InvoiceUpdate, Runs, At, hand
<1>2. Alone(r) /\ form'[r] = form[r]
    BY OwnParts, SaveFrame DEF Alone
<1>3. /\ Ready(r) /\ i \in Invoices /\ Live(old)
      /\ old.company = form[r].company /\ inv[r].company = form[r].company
    BY <1>1, HeadPrepared DEF Uses, Ready, Reached
<1>4. invoice[i].by \in {NULL, r}
    <2>1. \A s \in Requests \ {r} : ~Holds(invoice, s, i)
        BY DEF InvoiceUpdate, Runs, Blocked, Waits
    <2> QED BY <1>3, <2>1, OwnParts, FreeToWrite DEF TypeOK, TablesOK
<1>5. x \in InvoiceRecord
    <2>1. old \in InvoiceRecord
        BY <1>3, OwnParts, SeesType DEF TypeOK, TablesOK
    <2> QED BY <1>1, <2>1, OwnParts, SavedTypes
<1>6. x.company = old.company /\ x.customer = inv[r].customer
    BY OwnParts DEF UpdatedInvoice, LocalInvoice
<1>7. Known(r, x.customer, x.company)
    BY <1>1, <1>3, <1>6, OwnParts DEF KnownInHand
<1>8. invoice' = Put(invoice, r, i, x)
    BY <1>1, <1>3
<1>9. WritesOwnInvoice(r)
    <2> HIDE DEF i, x
    <2> QED BY <1>3, <1>4, <1>5, <1>6, <1>7, <1>8 DEF WritesOwnInvoice, i
<1>10. Ready(r)'
    BY <1>1, <1>2, <1>3, <1>9, OwnParts, OwnInvoiceWritten DEF OwnBooks, Ready, Reached
<1>11. KnownInHand(r)'
    BY <1>1, OwnParts DEF KnownInHand, Known
<1>12. WritesCustomer(r)
    BY <1>1 DEF WritesCustomer
<1> QED BY <1>1, <1>2, <1>9, <1>10, <1>11, <1>12, OwnUse DEF Uses

LEMMA OwnInvoiceInsert ==
    ASSUME Invariant, OwnBooks, NEW r \in Requests, InvoiceInsert(r), ~Fail(r)
    PROVE  WritesOwnInvoice(r) /\ OwnBooks'
<1> DEFINE x == InsertedInvoice(inv[r])
<1>1. /\ script[r] # << >> /\ Head(script[r]).op = "InvoiceSave"
      /\ inv[r].customer # NULL /\ inv[r].company # NULL
      /\ Continue(r) /\ UNCHANGED << customer, inv >>
    BY DEF InvoiceInsert, Runs, At
<1>2. PICK i \in FreshIds(invoice) :
         invoice' = Put(invoice, r, i, x) /\ id' = [id EXCEPT ![r] = i]
    BY DEF InvoiceInsert
<1>3. Alone(r) /\ form'[r] = form[r]
    BY OwnParts, SaveFrame DEF Alone
<1>4. Ready(r) /\ inv[r].company = form[r].company
    BY <1>1, HeadPrepared DEF Uses, Ready
<1>5. i \in Invoices /\ invoice[i].by = NULL /\ invoice[i].val = Absent
    BY OwnParts DEF FreshIds, Settled
<1>6. ~Live(Sees(invoice, r)[i])
    BY <1>5, OwnParts, EntitiesAssumption DEF Sees, Live
<1>7. x \in InvoiceRecord /\ Live(x)
    BY <1>1, OwnParts, SavedTypes, EntitiesAssumption DEF Live
<1>8. x.company = inv[r].company /\ x.customer = inv[r].customer
    BY OwnParts DEF InsertedInvoice, LocalInvoice
<1>9. Known(r, x.customer, x.company)
    BY <1>1, <1>8, OwnParts DEF KnownInHand
<1>10. WritesOwnInvoice(r)
    <2> HIDE DEF x
    <2> QED BY <1>2, <1>5, <1>6, <1>7, <1>9 DEF WritesOwnInvoice
<1>11. Sees(invoice', r)[i] = x /\ id'[r] = i
    <2> HIDE DEF x
    <2> QED BY <1>2, <1>5, OwnParts DEF Put, Sees
<1>12. Ready(r)'
    <2> HIDE DEF x
    <2> QED BY <1>1, <1>3, <1>4, <1>5, <1>7, <1>8, <1>11 DEF Ready, Reached
<1>13. KnownInHand(r)'
    BY <1>1, OwnParts DEF KnownInHand, Known
<1>14. WritesCustomer(r)
    BY <1>1 DEF WritesCustomer
<1> QED BY <1>1, <1>3, <1>10, <1>12, <1>13, <1>14, OwnUse DEF Uses

LEMMA OwnCustomerUpdate ==
    ASSUME Invariant, OwnBooks, NEW r \in Requests, CustomerUpdate(r), ~Fail(r)
    PROVE  OwnBooks'
<1> DEFINE k == inv[r].customer
           old == Sees(customer, r)[k]
           x == [company |-> old.company, text |-> Arg(r)]
<1>1. /\ script[r] # << >> /\ Head(script[r]).op = "CustomerSave"
      /\ k # NULL /\ Continue(r)
      /\ customer' = IF Live(old) THEN Put(customer, r, k, x) ELSE customer
      /\ UNCHANGED << invoice, id, inv >>
    BY DEF CustomerUpdate, Runs, At, hand
<1>2. Alone(r) /\ form'[r] = form[r]
    BY OwnParts, SaveFrame DEF Alone
<1>3. Known(r, k, inv[r].company)
    BY <1>1, OwnParts DEF KnownInHand
<1>4. k \in Customers /\ Live(old)
    BY <1>3 DEF Known
<1>5. customer[k].by \in {NULL, r}
    <2>1. \A s \in Requests \ {r} : ~Holds(customer, s, k)
        BY DEF CustomerUpdate, Runs, Blocked, Waits
    <2> HIDE DEF k
    <2> QED BY <1>4, <2>1, OwnParts, FreeToWrite DEF TypeOK, TablesOK
<1>6. x \in CustomerRecord
    <2>1. old \in CustomerRecord
        <3> HIDE DEF k
        <3> QED BY <1>4, OwnParts, SeesType DEF TypeOK, TablesOK
    <2>2. Arg(r) \in Texts
        BY <1>1, Parts, Served, StatementArgument DEF Arg
    <2> QED BY <2>1, <2>2 DEF CustomerRecord
<1>7. x.company = old.company /\ customer' = Put(customer, r, k, x)
    BY <1>1, <1>4
<1>8. WritesCustomer(r)
    <2> HIDE DEF k, x
    <2> QED BY <1>4, <1>5, <1>6, <1>7 DEF WritesCustomer
<1>9. Known(r, k, inv[r].company)'
    <2>1. \A l, d : Known(r, l, d) => /\ l \in Customers /\ Live(Sees(customer', r)[l])
                                     /\ Sees(customer', r)[l].company = d
        BY <1>8, OwnParts, CustomerWritten DEF OwnBooks, Known
    <2> QED BY <1>1, <1>3, <2>1 DEF Known
<1>10. KnownInHand(r)'
    BY <1>9 DEF KnownInHand
<1>11. Ready(r)'
    BY <1>1, <1>2, HeadPrepared DEF Uses, Ready, Reached
<1>12. WritesOwnInvoice(r)
    BY <1>1 DEF WritesOwnInvoice
<1> QED BY <1>1, <1>2, <1>8, <1>10, <1>11, <1>12, OwnUse DEF Uses

LEMMA OwnCustomerInsert ==
    ASSUME Invariant, OwnBooks, NEW r \in Requests, CustomerInsert(r), ~Fail(r)
    PROVE  OwnBooks'
<1> DEFINE x == [company |-> form[r].company, text |-> Arg(r)]
<1>1. /\ script[r] # << >> /\ Head(script[r]).op = "CustomerSave"
      /\ Continue(r) /\ UNCHANGED << invoice, id >>
    BY DEF CustomerInsert, Runs, At
<1>2. PICK k \in FreshIds(customer) :
         customer' = Put(customer, r, k, x) /\ inv' = [inv EXCEPT ![r].customer = k]
    BY DEF CustomerInsert
<1>3. Alone(r) /\ form'[r] = form[r]
    BY OwnParts, SaveFrame DEF Alone
<1>4. Ready(r)
    BY <1>1, HeadPrepared DEF Uses
<1>5. k \in Customers /\ customer[k].by = NULL /\ customer[k].val = Absent
    BY OwnParts DEF FreshIds, Settled
<1>6. ~Live(Sees(customer, r)[k])
    BY <1>5, OwnParts, EntitiesAssumption DEF Sees, Live
<1>7. x \in CustomerRecord /\ Live(x) /\ x.company = form[r].company
    <2>1. Arg(r) \in Texts /\ form[r].company \in Companies
        BY <1>1, Parts, Served, StatementArgument, FormType DEF Arg
    <2> QED BY <2>1, EntitiesAssumption DEF CustomerRecord, Live
<1> HIDE DEF x
<1>8. WritesCustomer(r)
    BY <1>2, <1>5, <1>6, <1>7 DEF WritesCustomer
<1>9. Sees(customer', r)[k] = x
    BY <1>2, <1>5, OwnParts DEF Put, Sees
<1>10. inv'[r].customer = k /\ inv'[r].company = inv[r].company
    BY <1>2, OwnParts DEF LocalInvoice
<1>11. KnownInHand(r)'
    BY <1>4, <1>5, <1>7, <1>9, <1>10 DEF KnownInHand, Known, Ready
<1>12. Ready(r)'
    BY <1>1, <1>3, <1>4, <1>10 DEF Ready, Reached
<1>13. WritesOwnInvoice(r)
    BY <1>1 DEF WritesOwnInvoice
<1> QED BY <1>1, <1>3, <1>8, <1>11, <1>12, <1>13, OwnUse DEF Uses

LEMMA OwnEnd ==
    ASSUME Invariant, OwnBooks, NEW r \in Requests, NEW commit \in BOOLEAN,
           EndTransaction(r, commit), script[r] = << >>
    PROVE  OwnBooks'
<1>1. /\ customer' = Ended(customer, r, commit) /\ invoice' = Ended(invoice, r, commit)
      /\ script' = script /\ inv'[r] = ZeroInvoice
      /\ \A s \in Requests \ {r} :
            form'[s] = form[s] /\ id'[s] = id[s] /\ inv'[s] = inv[s]
    BY OwnParts DEF EndTransaction, TypeOK, ServingOK
<1>2. /\ InvoiceCompaniesFixed' /\ CustomerCompaniesFixed'
      /\ \A s \in Requests \ {r}, i \in Invoices :
            Live(Sees(invoice, s)[i])
            => /\ Live(Sees(invoice', s)[i])
               /\ Sees(invoice', s)[i].company = Sees(invoice, s)[i].company
      /\ \A i \in Invoices :
            IF invoice[i].by # r THEN invoice'[i] = invoice[i]
            ELSE /\ invoice'[i].by = NULL
                 /\ invoice'[i].val = IF commit THEN invoice[i].new ELSE invoice[i].val
    BY <1>1, OwnParts, CustomerEnded, OwnInvoiceEnded DEF OwnBooks
<1>3. CustomersKnown'
    <2>1. ASSUME NEW i \in Invoices, Live(invoice'[i].val)
          PROVE  /\ invoice'[i].val.customer \in Customers
                 /\ Live(customer'[invoice'[i].val.customer].val)
                 /\ customer'[invoice'[i].val.customer].val.company = invoice'[i].val.company
        <3>1. \A k, c : InBooks(k, c) \/ (commit /\ Known(r, k, c))
                        => /\ k \in Customers /\ Live(customer'[k].val)
                           /\ customer'[k].val.company = c
            BY <1>1, OwnParts, CustomerEnded DEF OwnBooks, InBooks
        <3>2. CASE invoice'[i].val = invoice[i].val
            BY <2>1, <3>1, <3>2 DEF OwnBooks, CustomersKnown, CommittedInvoices, InvoiceIn
        <3>3. CASE invoice'[i].val # invoice[i].val
            <4>1. commit /\ invoice[i].by = r /\ invoice'[i].val = invoice[i].new
                BY <1>2, <3>3
            <4> QED BY <3>1, <4>1 DEF OwnBooks, CustomersKnown
        <3> QED BY <3>2, <3>3
    <2>2. ASSUME NEW i \in Invoices, NEW s \in Requests, invoice'[i].by = s
          PROVE  /\ invoice'[i].new.customer \in Customers
                 /\ Live(Sees(customer', s)[invoice'[i].new.customer])
                 /\ Sees(customer', s)[invoice'[i].new.customer].company
                    = invoice'[i].new.company
        <3>1. s # r /\ invoice'[i] = invoice[i]
            BY <1>2, <2>2, EntitiesAssumption
        <3>2. Known(s, invoice[i].new.customer, invoice[i].new.company)
            BY <2>2, <3>1 DEF OwnBooks, CustomersKnown
        <3>3. \A k, c : Known(s, k, c) => /\ k \in Customers /\ Live(Sees(customer', s)[k])
                                         /\ Sees(customer', s)[k].company = c
            BY <1>1, <3>1, OwnParts, CustomerEnded DEF OwnBooks, Known
        <3> QED BY <3>1, <3>2, <3>3
    <2> QED BY <2>1, <2>2 DEF CustomersKnown, CommittedInvoices, InvoiceIn, InBooks, Known
<1>4. WellPrepared(r)'
    <2>1. KnownInHand(r)'
        BY <1>1 DEF KnownInHand, ZeroInvoice
    <2>2. Prepared(r)'
        BY <1>1 DEF Prepared
    <2> QED BY <2>1, <2>2 DEF WellPrepared
<1>5. ASSUME NEW s \in Requests \ {r} PROVE WellPrepared(s)'
    <2>1. KnownInHand(s) /\ Prepared(s)
        BY DEF OwnBooks, WellPrepared
    <2>2. KnownInHand(s)'
        <3>1. \A k, c : Known(s, k, c) => /\ k \in Customers /\ Live(Sees(customer', s)[k])
                                         /\ Sees(customer', s)[k].company = c
            BY <1>1, OwnParts, CustomerEnded DEF OwnBooks, Known
        <3> QED BY <1>1, <2>1, <3>1 DEF KnownInHand, Known
    <2>3. Ready(s) => Ready(s)'
        BY <1>1, <1>2 DEF Ready, Reached
    <2>4. Prepared(s)'
        BY <1>1, <2>1, <2>3 DEF Prepared
    <2> QED BY <2>2, <2>4 DEF WellPrepared
<1> QED BY <1>2, <1>3, <1>4, <1>5 DEF OwnBooks

(* What neither writes an invoice nor a customer, nor finds one. *)
LEMMA OwnElsewhere ==
    ASSUME OwnBooks, NEW r \in Requests, UNCHANGED << customer, invoice, inv >>, Prepared(r)',
           \A s \in Requests \ {r} :
               form'[s] = form[s] /\ script'[s] = script[s] /\ id'[s] = id[s]
    PROVE  OwnBooks'
<1>1. InvoiceCompaniesFixed' /\ CustomerCompaniesFixed' /\ CustomersKnown'
    BY DEF OwnBooks, InvoiceCompaniesFixed, CustomerCompaniesFixed, CustomersKnown, InBooks,
           Known, CommittedInvoices, InvoiceIn
<1>2. \A s \in Requests : KnownInHand(s)'
    BY DEF OwnBooks, WellPrepared, KnownInHand, Known
<1>3. ASSUME NEW s \in Requests \ {r} PROVE Prepared(s)'
    <2>1. Ready(s) => Ready(s)'
        BY DEF Ready, Reached
    <2>2. Prepared(s)
        BY DEF OwnBooks, WellPrepared
    <2> QED BY <2>1, <2>2 DEF Prepared
<1> QED BY <1>1, <1>2, <1>3 DEF OwnBooks, WellPrepared

LEMMA OwnNext == Invariant /\ OwnBooks /\ [Next]_vars => OwnBooks'
<1> SUFFICES ASSUME Invariant, OwnBooks, [Next]_vars PROVE OwnBooks'
    OBVIOUS
<1>1. CASE UNCHANGED vars
    BY <1>1 DEF vars, tables, hand, OwnBooks, InvoiceCompaniesFixed, CustomerCompaniesFixed,
        CustomersKnown, InBooks, Known, CommittedInvoices, InvoiceIn, WellPrepared,
        KnownInHand, Prepared, Ready, Reached
<1>2. ASSUME NEW r \in Requests, StepOf(r) PROVE OwnBooks'
    <2>1. ASSUME NEW f \in Forms, Begin(r, f) PROVE OwnBooks'
        <3>1. /\ UNCHANGED << customer, invoice, inv >>
              /\ \A s \in Requests \ {r} :
                    form'[s] = form[s] /\ script'[s] = script[s] /\ id'[s] = id[s]
            BY <2>1, Parts DEF Begin, tables, TypeOK, ServingOK, HandOK
        <3> QED BY <2>1, <3>1, Parts, OpeningPrepared, OwnElsewhere
    <2>2. CASE \E commit \in BOOLEAN : script[r] = << >> /\ EndTransaction(r, commit)
        BY <2>2, OwnEnd
    <2>3. CASE Fail(r)
        <3>1. /\ UNCHANGED << customer, invoice, inv >>
              /\ script'[r] = << >>
              /\ \A s \in Requests \ {r} :
                    form'[s] = form[s] /\ script'[s] = script[s] /\ id'[s] = id[s]
            BY <2>3, OwnParts DEF Fail, tables, hand
        <3>2. Prepared(r)'
            BY <3>1 DEF Prepared
        <3> QED BY <3>1, <3>2, OwnElsewhere
    <2>4. CASE ~Fail(r) /\ Step(r) /\ ~CommitOrRollback(r)
        BY <2>4, StatementCases, OwnList, OwnRows, OwnNumber, OwnInvoiceUpdate, OwnInvoiceInsert,
            OwnCustomerList, OwnCustomerUpdate, OwnCustomerInsert, OwnSide
    <2> QED BY <1>2, <2>1, <2>2, <2>3, <2>4 DEF StepOf
<1> QED BY <1>1, <1>2, StepCases

LEMMA OwnInit == Init => OwnBooks
<1> SUFFICES ASSUME Init PROVE OwnBooks
    OBVIOUS
<1>1. /\ \A i \in Invoices : invoice[i].by = NULL /\ ~Live(invoice[i].val)
      /\ \A k \in Customers : customer[k].by = NULL
      /\ \A r \in Requests : script[r] = << >> /\ inv[r].customer = NULL
    BY DEF Init, EmptyTable, Settled, ZeroInvoice, Live
<1>2. \A r \in Requests : WellPrepared(r)
    BY <1>1 DEF WellPrepared, KnownInHand, Prepared
<1>3. InvoiceCompaniesFixed /\ CustomerCompaniesFixed
    BY <1>1 DEF InvoiceCompaniesFixed, CustomerCompaniesFixed
<1>4. CustomersKnown
    BY <1>1, EntitiesAssumption DEF CustomersKnown, CommittedInvoices, InvoiceIn
<1> QED BY <1>2, <1>3, <1>4 DEF OwnBooks

LEMMA OwnBooksHold == Spec => []OwnBooks
BY OwnInit, OwnNext, InvariantHolds, PTL DEF Spec

(* The customer of an invoice is one of the invoice's own company, however *)
(* customers are selected, made and changed at the same time               *)
(* (views/invoice/view.go:151-180, models/customer.go:112-157).            *)
THEOREM CustomersAreOwn == Spec => []OwnCustomers
<1>1. OwnBooks => OwnCustomers
    BY DEF OwnBooks, CustomersKnown, InBooks, OwnCustomers
<1> QED BY <1>1, OwnBooksHold, PTL

-----------------------------------------------------------------------------
(* Files and attachments. *)

(* Statements about a file come in pairs: a file is stored and then hung   *)
(* on the invoice, a link is cut and then its file removed.  Between the   *)
(* two, the second one is pending.                                         *)
Pending(r, k) == (At(r, "AttachmentAdd") \/ At(r, "FileRemove")) /\ Arg(r) = k

Rests(r) == ~At(r, "AttachmentAdd") /\ ~At(r, "FileRemove")

Paired(r, k) == Live(Sees(file, r)[k]) <=> Live(Sees(invoice_attachments, r)[k])

(* The file and the link are both there or both not, and who writes the    *)
(* one keeps everybody else from the other.                                *)
FilePaired(k) ==
    LET f == file[k]
        a == invoice_attachments[k] IN
    /\ Live(f.val) <=> Live(a.val)
    /\ Live(a.val) => Live(InvoiceIn(a.val))
    /\ f.by # NULL /\ a.by # NULL => f.by = a.by
    /\ a.by # NULL => Live(a.val) \/ f.by = a.by
    /\ a.by # NULL /\ Live(a.new) => f.by = a.by /\ Live(f.new)
    /\ f.by # NULL /\ Live(f.val) => a.by = f.by

(* The same as request r finds it, unless it is between the two. *)
FilePairedFor(r, k) ==
    LET f == file[k]
        a == invoice_attachments[k] IN
    /\ a.by = r /\ Live(a.new) => Live(Sees(invoice, r)[a.new])
    /\ status[r] = StatusOK => Pending(r, k) \/ Paired(r, k)
    /\ At(r, "AttachmentAdd") /\ Arg(r) = k
       => f.by = r /\ Live(f.new) /\ a.by \in {NULL, r} /\ ~Live(a.val)

FilesPaired ==
    \A k \in Files : FilePaired(k) /\ \A r \in Requests : FilePairedFor(r, k)

LEMMA TailRests ==
    ASSUME Invariant, OwnBooks, NEW r \in Requests, script[r] # << >>,
           script'[r] = Tail(script[r])
    PROVE  Rests(r)'
<1> DEFINE S == Tail(script[r])
<1>1. SUFFICES ASSUME S # << >>, Head(S).op \in {"AttachmentAdd", "FileRemove"} PROVE FALSE
    BY DEF Rests, At
<1>2. S \in Seq(Statement) /\ \A n \in DOMAIN S : n + 1 \in DOMAIN script[r] /\ S[n] = script[r][n + 1]
    BY Parts, ScriptParts
<1> HIDE DEF S
<1>3. 1 \in DOMAIN S /\ Head(S) = S[1]
    BY <1>1, <1>2
<1>4. 2 \in DOMAIN script[r] /\ Head(S) = script[r][2]
    BY <1>2, <1>3
<1>5. Prepared(r)
    BY OwnParts
<1> QED BY <1>1, <1>4, <1>5 DEF Prepared

LEMMA NewRests ==
    ASSUME NEW r \in Requests, script'[r] \in Seq(Issued) \cup Seq(RutHandled)
    PROVE  Rests(r)'
<1>1. script'[r] # << >> => Head(script'[r]) \in Issued \cup RutHandled
    BY HeadTailProperties
<1> QED BY <1>1 DEF Rests, At, Issued, RutHandled

(* What a request does elsewhere: to invoices, and to its own script. *)
LEMMA FilesElsewhere ==
    ASSUME FilesPaired, TypeOK, NEW r \in Requests, UNCHANGED << file, invoice_attachments >>,
           \A i \in Invoices : Live(invoice[i].val) => Live(invoice'[i].val),
           \A s \in Requests, i \in Invoices :
               Live(Sees(invoice, s)[i]) => Live(Sees(invoice', s)[i]),
           \A s \in Requests \ {r} : script'[s] = script[s] /\ status'[s] = status[s],
           Rests(r)',
           status'[r] = StatusOK => status[r] = StatusOK /\ Rests(r)
    PROVE  FilesPaired'
<1> SUFFICES ASSUME NEW k \in Files
             PROVE  FilePaired(k)' /\ \A s \in Requests : FilePairedFor(s, k)'
    BY DEF FilesPaired
<1> DEFINE f == file[k]
           a == invoice_attachments[k]
<1>1. a.val \in Invoices \cup {Absent, Gone} /\ a.new \in Invoices \cup {Absent, Gone}
    BY DEF TypeOK, TablesOK, Versions
<1>2. FilePaired(k) /\ \A s \in Requests : FilePairedFor(s, k)
    BY DEF FilesPaired
<1>3. FilePaired(k)'
    BY <1>1, <1>2 DEF FilePaired, InvoiceIn, Live
<1>4. ASSUME NEW s \in Requests PROVE FilePairedFor(s, k)'
    <2>1. a.by = s /\ Live(a.new) => Live(Sees(invoice', s)[a.new])
        BY <1>1, <1>2 DEF FilePairedFor, Live
    <2>2. Paired(s, k)' <=> Paired(s, k)
        BY DEF Paired
    <2>3. CASE s = r
        BY <1>2, <2>1, <2>2, <2>3 DEF FilePairedFor, Pending, Rests
    <2>4. CASE s # r
        BY <1>2, <2>1, <2>2, <2>4 DEF FilePairedFor, Pending, At, Arg
    <2> QED BY <2>3, <2>4
<1> QED BY <1>3, <1>4

(* What a request does to one file. *)
LEMMA OneFile ==
    ASSUME FilesPaired, TypeOK, NEW r \in Requests, NEW j \in Files,
           Alone(r), UNCHANGED invoice,
           \A k \in Files \ {j} : /\ file'[k] = file[k]
                                  /\ invoice_attachments'[k] = invoice_attachments[k]
                                  /\ ~Pending(r, k),
           DOMAIN file' = Files, DOMAIN invoice_attachments' = Files,
           At(r, "AttachmentAdd")' => Arg(r)' = j,
           FilePaired(j)', \A s \in Requests : FilePairedFor(s, j)'
    PROVE  FilesPaired'
<1> SUFFICES ASSUME NEW k \in Files \ {j}
             PROVE  FilePaired(k)' /\ \A s \in Requests : FilePairedFor(s, k)'
    BY DEF FilesPaired
<1>1. FilePaired(k) /\ \A s \in Requests : FilePairedFor(s, k)
    BY DEF FilesPaired
<1>2. FilePaired(k)'
    BY <1>1 DEF FilePaired, InvoiceIn
<1>3. ASSUME NEW s \in Requests PROVE FilePairedFor(s, k)'
    <2>1. Paired(s, k)' <=> Paired(s, k)
        BY DEF Paired, Sees, TypeOK, TablesOK
    <2>2. CASE s = r
        BY <1>1, <2>1, <2>2 DEF FilePairedFor, Alone
    <2>3. CASE s # r
        BY <1>1, <2>1, <2>3 DEF FilePairedFor, Pending, At, Arg, Alone
    <2> QED BY <2>2, <2>3
<1> QED BY <1>2, <1>3

(* A file, its link, and what request s sees of them. *)
LEMMA FileParts ==
    ASSUME FilesPaired, TypeOK, NEW k \in Files
    PROVE  /\ FilePaired(k) /\ \A s \in Requests : FilePairedFor(s, k)
           /\ file[k].by \in Requests \cup {NULL}
           /\ invoice_attachments[k].by \in Requests \cup {NULL}
           /\ invoice_attachments[k].val \in Invoices \cup {Absent, Gone}
           /\ DOMAIN file = Files /\ DOMAIN invoice_attachments = Files
           /\ \A s : Sees(file, s)[k] = IF file[k].by = s THEN file[k].new ELSE file[k].val
           /\ \A s : Sees(invoice_attachments, s)[k]
                     = IF invoice_attachments[k].by = s THEN invoice_attachments[k].new
                                                       ELSE invoice_attachments[k].val
BY DEF FilesPaired, TypeOK, TablesOK, Versions, Sees

(* A statement of r about file k is nothing to another request: r writes   *)
(* only what nobody else holds, and not what another is about to hang on.  *)
LEMMA OthersPaired ==
    ASSUME FilesPaired, TypeOK, NEW r \in Requests, Alone(r), UNCHANGED invoice,
           NEW k \in Files, DOMAIN file' = Files, DOMAIN invoice_attachments' = Files,
           \/ file'[k] = file[k]
           \/ /\ file'[k].val = file[k].val /\ file'[k].by = r
              /\ file[k].by \in {NULL, r},
           \/ invoice_attachments'[k] = invoice_attachments[k]
           \/ /\ invoice_attachments'[k].val = invoice_attachments[k].val
              /\ invoice_attachments'[k].by = r
              /\ invoice_attachments[k].by \in {NULL, r},
           \/ file'[k] = file[k] /\ invoice_attachments'[k] = invoice_attachments[k]
           \/ file[k].by \in {NULL, r} \/ Live(invoice_attachments[k].val)
    PROVE  \A s \in Requests \ {r} : FilePairedFor(s, k)'
<1> DEFINE f == file[k]
           a == invoice_attachments[k]
<1> SUFFICES ASSUME NEW s \in Requests \ {r} PROVE FilePairedFor(s, k)'
    OBVIOUS
<1>1. FilePairedFor(s, k) /\ DOMAIN file = Files /\ DOMAIN invoice_attachments = Files
    BY FileParts
<1>2. Sees(file', s)[k] = Sees(file, s)[k]
    BY <1>1, EntitiesAssumption DEF Sees
<1>3. Sees(invoice_attachments', s)[k] = Sees(invoice_attachments, s)[k]
    BY <1>1, EntitiesAssumption DEF Sees
<1>4. /\ At(s, "AttachmentAdd")' <=> At(s, "AttachmentAdd")
      /\ Pending(s, k)' <=> Pending(s, k)
      /\ Arg(s)' = Arg(s) /\ status'[s] = status[s]
    BY DEF Alone, At, Pending, Arg
<1>5. status'[s] = StatusOK => Pending(s, k)' \/ Paired(s, k)'
    BY <1>1, <1>2, <1>3, <1>4 DEF FilePairedFor, Paired
<1>6. CASE file'[k] = file[k] /\ invoice_attachments'[k] = invoice_attachments[k]
    BY <1>1, <1>4, <1>5, <1>6 DEF FilePairedFor
<1>7. CASE f.by \in {NULL, r} \/ Live(a.val)
    <2>1. ~(At(s, "AttachmentAdd") /\ Arg(s) = k)
        BY <1>1, <1>7, EntitiesAssumption DEF FilePairedFor
    <2>2. invoice_attachments'[k].by = s => invoice_attachments'[k] = invoice_attachments[k]
        OBVIOUS
    <2> QED BY <1>1, <1>4, <1>5, <2>1, <2>2 DEF FilePairedFor
<1> QED BY <1>6, <1>7

LEMMA FileAdded ==
    ASSUME Invariant, OwnBooks, FilesPaired, NEW r \in Requests, FileAdd(r), ~Fail(r)
    PROVE  FilesPaired'
<1>1. Alone(r) /\ UNCHANGED << invoice, invoice_attachments >>
    BY OwnParts, SideFrame DEF Side, FileAdd
<1>2. PICK k \in FreshIds(file) :
         /\ file' = Put(file, r, k, "stored")
         /\ ContinueWith(r, << Do("AttachmentAdd", k) >> \o Tail(script[r]))
    BY DEF FileAdd
<1> DEFINE f == file[k]
           a == invoice_attachments[k]
<1>3. At(r, "FileAdd")
    BY DEF FileAdd, Runs
<1>4. k \in Files /\ f.by = NULL /\ f.val = Absent
    BY OwnParts DEF FreshIds, Settled, TypeOK, TablesOK
<1>5. FilePaired(k) /\ FilePairedFor(r, k) /\ DOMAIN file = Files /\ DOMAIN invoice_attachments = Files
    BY <1>4, OwnParts, FileParts
<1>6. /\ DOMAIN file' = Files
      /\ file'[k] = [val |-> Absent, by |-> r, new |-> "stored"]
      /\ \A j \in Files \ {k} : file'[j] = file[j]
    BY <1>2, <1>4, <1>5 DEF Put
<1>7. Live("stored") /\ ~Live(Absent)
    BY EntitiesAssumption DEF FileRecord, Live
<1>8. ~Live(a.val) /\ a.by = NULL
    BY <1>4, <1>5, <1>7 DEF FilePaired
<1>9. At(r, "AttachmentAdd")' /\ Arg(r)' = k
    <2>1. Tail(script[r]) \in Seq(Statement) /\ Do("AttachmentAdd", k) \in Statement
        BY <1>3, <1>4, OwnParts, ScriptParts, DoType DEF At
    <2>2. script'[r] = << Do("AttachmentAdd", k) >> \o Tail(script[r])
        BY <1>2, OwnParts DEF ContinueWith
    <2>3. script'[r] # << >> /\ Head(script'[r]) = Do("AttachmentAdd", k)
        BY <2>1, <2>2
    <2> QED BY <2>3 DEF At, Arg, Do
<1>10. FilePaired(k)'
    BY <1>1, <1>6, <1>7, <1>8 DEF FilePaired
<1>11. FilePairedFor(r, k)'
    BY <1>1, <1>6, <1>7, <1>8, <1>9, EntitiesAssumption DEF FilePairedFor, Pending
<1>12. \A s \in Requests \ {r} : FilePairedFor(s, k)'
    BY <1>1, <1>4, <1>5, <1>6, OwnParts, OthersPaired
<1>13. \A j : ~Pending(r, j)
    BY <1>3 DEF Pending, At
<1> QED BY <1>1, <1>4, <1>5, <1>6, <1>9, <1>10, <1>11, <1>12, <1>13, OwnParts, OneFile

LEMMA AttachmentAdded ==
    ASSUME Invariant, OwnBooks, FilesPaired, NEW r \in Requests, AttachmentAdd(r), ~Fail(r)
    PROVE  FilesPaired'
<1>1. Alone(r) /\ UNCHANGED << invoice, file >>
    BY OwnParts, SideFrame DEF Side, AttachmentAdd
<1>2. /\ At(r, "AttachmentAdd") /\ script[r] # << >> /\ id[r] # NULL /\ Continue(r)
      /\ invoice_attachments' = Put(invoice_attachments, r, Arg(r), id[r])
    BY DEF AttachmentAdd, Runs, At
<1>3. PICK k \in Files : k = Arg(r)
    BY <1>2, Parts, Served, StatementArgument DEF Arg, At
<1> DEFINE f == file[k]
           a == invoice_attachments[k]
<1>4. FilePaired(k) /\ FilePairedFor(r, k) /\ DOMAIN file = Files /\ DOMAIN invoice_attachments = Files
    BY <1>3, OwnParts, FileParts
<1>5. f.by = r /\ Live(f.new) /\ a.by \in {NULL, r} /\ ~Live(a.val)
    BY <1>2, <1>3, <1>4 DEF FilePairedFor
<1>6. /\ DOMAIN invoice_attachments' = Files
      /\ invoice_attachments'[k] = [val |-> a.val, by |-> r, new |-> id[r]]
      /\ \A j \in Files \ {k} : invoice_attachments'[j] = invoice_attachments[j]
    BY <1>2, <1>3, <1>4 DEF Put
<1>7. id[r] \in Invoices /\ Live(id[r]) /\ Live(Sees(invoice, r)[id[r]])
    BY <1>2, HeadPrepared, EntitiesAssumption DEF At, Uses, Ready, Reached, Live
<1>8. Rests(r)'
    BY <1>2, OwnParts, TailRests DEF Continue
<1>9. FilePaired(k)'
    BY <1>1, <1>4, <1>5, <1>6, EntitiesAssumption DEF FilePaired
<1>10. FilePairedFor(r, k)'
    <2>1. Paired(r, k)'
        BY <1>1, <1>3, <1>4, <1>5, <1>6, <1>7 DEF Paired, Sees
    <2> QED BY <1>1, <1>6, <1>7, <1>8, <2>1 DEF FilePairedFor, Rests
<1>11. \A s \in Requests \ {r} : FilePairedFor(s, k)'
    <2>1. /\ DOMAIN file' = Files /\ file'[k] = f /\ f.by \in {NULL, r}
          /\ invoice_attachments'[k].val = a.val /\ invoice_attachments'[k].by = r
        BY <1>1, <1>4, <1>5, <1>6
    <2> HIDE DEF f, a
    <2> QED BY <1>1, <1>5, <1>6, <2>1, OwnParts, OthersPaired DEF f, a
<1>12. \A j \in Files \ {k} : ~Pending(r, j)
    BY <1>3 DEF Pending
<1> QED BY <1>1, <1>3, <1>4, <1>6, <1>8, <1>9, <1>10, <1>11, <1>12, OwnParts, OneFile DEF Rests

LEMMA AttachmentRemoved ==
    ASSUME Invariant, OwnBooks, FilesPaired, NEW r \in Requests, AttachmentRemove(r), ~Fail(r)
    PROVE  FilesPaired'
<1>1. Alone(r) /\ UNCHANGED << invoice, file >>
    BY OwnParts, SideFrame DEF Side, AttachmentRemove
<1>2. /\ At(r, "AttachmentRemove") /\ script[r] # << >>
      /\ ContinueWith(r, << Do("FileRemove", Arg(r)) >> \o Tail(script[r]))
    BY DEF AttachmentRemove, Runs, At
<1>3. PICK k \in Files : k = Arg(r)
    BY <1>2, Parts, Served, StatementArgument DEF Arg, At
<1> DEFINE f == file[k]
           a == invoice_attachments[k]
<1>4. /\ FilePaired(k) /\ FilePairedFor(r, k)
      /\ f.by \in Requests \cup {NULL} /\ a.by \in Requests \cup {NULL}
      /\ a.val \in Invoices \cup {Absent, Gone}
      /\ DOMAIN file = Files /\ DOMAIN invoice_attachments = Files
      /\ Sees(invoice_attachments, r)[k] = IF a.by = r THEN a.new ELSE a.val
    BY <1>3, OwnParts, FileParts
<1>5. At(r, "FileRemove")' /\ ~At(r, "AttachmentAdd")' /\ Arg(r)' = k
    <2>1. Tail(script[r]) \in Seq(Statement) /\ Do("FileRemove", k) \in Statement
        BY <1>2, <1>3, OwnParts, ScriptParts, DoType
    <2>2. script'[r] = << Do("FileRemove", k) >> \o Tail(script[r])
        BY <1>2, <1>3, OwnParts DEF ContinueWith
    <2>3. script'[r] # << >> /\ Head(script'[r]) = Do("FileRemove", k)
        BY <2>1, <2>2
    <2> QED BY <2>3 DEF At, Arg, Do
<1>6. \A j : ~Pending(r, j)
    BY <1>2 DEF Pending, At
<1>7. CASE Sees(invoice_attachments, r)[k] = id[r]
    <2>1. invoice_attachments' = Put(invoice_attachments, r, k, Gone)
        BY <1>3, <1>7 DEF AttachmentRemove
    <2>2. /\ DOMAIN invoice_attachments' = Files
          /\ invoice_attachments'[k] = [val |-> a.val, by |-> r, new |-> Gone]
          /\ \A j \in Files \ {k} : invoice_attachments'[j] = invoice_attachments[j]
        BY <1>3, <1>4, <2>1 DEF Put
    <2>3. Live(Sees(invoice_attachments, r)[k])
        <3>1. id[r] \in Invoices \cup {NULL}
            BY OwnParts
        <3> QED BY <1>7, <3>1, EntitiesAssumption DEF Live
    <2>4. a.by \in {NULL, r}
        <3>1. ASSUME NEW s \in Requests \ {r}, a.by = s PROVE FALSE
            <4>1. Live(a.val) /\ a.val = id[r]
                BY <1>4, <1>7, <2>3, <3>1
            <4>2. Holds(invoice_attachments, s, k)
                BY <1>4, <3>1, <4>1 DEF Holds
            <4> QED BY <1>2, <1>3, <4>1, <4>2 DEF AttachmentRemove, Runs, Blocked, Waits
        <3> QED BY <1>4, <3>1
    <2>5. f.by \in {NULL, r} /\ (a.by = r \/ Live(a.val))
        BY <1>4, <2>3, <2>4, EntitiesAssumption DEF FilePaired
    <2>6. FilePaired(k)'
        <3>1. ~Live(Gone)
            BY DEF Live
        <3> QED BY <1>1, <1>4, <2>2, <2>4, <2>5, <3>1, EntitiesAssumption DEF FilePaired, InvoiceIn
    <2>7. FilePairedFor(r, k)'
        BY <1>5, <2>2 DEF FilePairedFor, Pending, Live
    <2>8. \A s \in Requests \ {r} : FilePairedFor(s, k)'
        <3>1. /\ DOMAIN file' = Files /\ file'[k] = f
              /\ invoice_attachments'[k].val = a.val /\ invoice_attachments'[k].by = r
            BY <1>1, <1>4, <2>2
        <3> QED BY <1>1, <2>2, <2>4, <2>5, <3>1, OwnParts, OthersPaired
    <2> QED BY <1>1, <1>3, <1>4, <1>5, <1>6, <2>2, <2>6, <2>7, <2>8, OwnParts, OneFile
<1>8. CASE Sees(invoice_attachments, r)[k] # id[r]
    <2>1. UNCHANGED invoice_attachments
        BY <1>3, <1>8 DEF AttachmentRemove
    <2>2. FilePaired(k)'
        BY <1>1, <1>4, <2>1 DEF FilePaired, InvoiceIn
    <2>3. FilePairedFor(r, k)'
        BY <1>1, <1>4, <1>5, <2>1 DEF FilePairedFor, Pending
    <2>4. \A s \in Requests \ {r} : FilePairedFor(s, k)'
        BY <1>1, <1>4, <2>1, OwnParts, OthersPaired
    <2> QED BY <1>1, <1>3, <1>4, <1>5, <1>6, <2>1, <2>2, <2>3, <2>4, OwnParts, OneFile
<1> QED BY <1>7, <1>8

LEMMA FileRemoved ==
    ASSUME Invariant, OwnBooks, FilesPaired, NEW r \in Requests, FileRemove(r), ~Fail(r)
    PROVE  FilesPaired'
<1>1. Alone(r) /\ UNCHANGED << invoice, invoice_attachments >>
    BY OwnParts, SideFrame DEF Side, FileRemove
<1>2. At(r, "FileRemove") /\ script[r] # << >> /\ Continue(r)
    BY DEF FileRemove, Runs, At
<1>3. PICK k \in Files : k = Arg(r)
    BY <1>2, Parts, Served, StatementArgument DEF Arg, At
<1> DEFINE f == file[k]
           a == invoice_attachments[k]
           inUse == Live(Sees(invoice_attachments, r)[k])
<1>4. /\ FilePaired(k) /\ FilePairedFor(r, k)
      /\ f.by \in Requests \cup {NULL} /\ a.by \in Requests \cup {NULL}
      /\ DOMAIN file = Files /\ DOMAIN invoice_attachments = Files
      /\ Sees(file, r)[k] = IF f.by = r THEN f.new ELSE f.val
      /\ Sees(invoice_attachments, r)[k] = IF a.by = r THEN a.new ELSE a.val
    BY <1>3, OwnParts, FileParts
<1>5. Rests(r)'
    BY <1>2, OwnParts, TailRests DEF Continue
<1>6. \A j \in Files \ {k} : ~Pending(r, j)
    BY <1>3 DEF Pending
<1>7. CASE Live(Sees(file, r)[k]) /\ ~inUse
    <2>1. file' = Put(file, r, k, Gone)
        BY <1>3, <1>7 DEF FileRemove
    <2>2. /\ DOMAIN file' = Files /\ file'[k] = [val |-> f.val, by |-> r, new |-> Gone]
          /\ \A j \in Files \ {k} : file'[j] = file[j]
        BY <1>3, <1>4, <2>1 DEF Put
    <2>3. f.by \in {NULL, r}
        <3>1. ASSUME NEW s \in Requests \ {r}, f.by = s PROVE FALSE
            <4>1. Holds(file, s, k)
                BY <1>4, <1>7, <3>1 DEF Holds
            <4> QED BY <1>2, <1>3, <4>1 DEF FileRemove, Runs, Blocked, Waits
        <3> QED BY <1>4, <3>1
    <2>4. /\ a.by \in {NULL, r} /\ a.by = r => ~Live(a.new)
          /\ Live(f.val) => a.by = r
        BY <1>4, <1>7, <2>3, EntitiesAssumption DEF FilePaired
    <2>5. ~Live(Gone)
        BY DEF Live
    <2>6. FilePaired(k)'
        BY <1>1, <1>4, <2>2, <2>3, <2>4, EntitiesAssumption DEF FilePaired, InvoiceIn
    <2>7. FilePairedFor(r, k)'
        <3>1. ~Live(Sees(file', r)[k]) /\ Sees(invoice_attachments', r)[k] = Sees(invoice_attachments, r)[k]
            BY <1>1, <2>2, <2>5 DEF Sees
        <3>2. Paired(r, k)'
            BY <1>7, <3>1 DEF Paired
        <3> QED BY <1>1, <1>4, <1>5, <2>4, <3>2 DEF FilePairedFor, Rests
    <2>8. \A s \in Requests \ {r} : FilePairedFor(s, k)'
        <3>1. /\ DOMAIN invoice_attachments' = Files /\ invoice_attachments'[k] = a
              /\ file'[k].val = f.val /\ file'[k].by = r
            BY <1>1, <1>4, <2>2
        <3> QED BY <1>1, <2>2, <2>3, <3>1, OwnParts, OthersPaired
    <2> QED BY <1>1, <1>3, <1>4, <1>5, <1>6, <2>2, <2>6, <2>7, <2>8, OwnParts, OneFile DEF Rests
<1>8. CASE ~(Live(Sees(file, r)[k]) /\ ~inUse)
    <2>1. UNCHANGED file
        BY <1>3, <1>8 DEF FileRemove
    <2>2. FilePaired(k)'
        BY <1>1, <1>4, <2>1 DEF FilePaired, InvoiceIn
    <2>3. Paired(r, k)'
        <3>1. inUse => Live(Sees(file, r)[k])
            BY <1>4, EntitiesAssumption DEF FilePaired
        <3>2. Paired(r, k)
            BY <1>8, <3>1 DEF Paired
        <3> QED BY <1>1, <2>1, <3>2 DEF Paired
    <2>4. FilePairedFor(r, k)'
        BY <1>1, <1>4, <1>5, <2>1, <2>3 DEF FilePairedFor, Rests
    <2>5. \A s \in Requests \ {r} : FilePairedFor(s, k)'
        BY <1>1, <1>4, <2>1, OwnParts, OthersPaired
    <2> QED BY <1>1, <1>3, <1>4, <1>5, <1>6, <2>1, <2>2, <2>4, <2>5, OwnParts, OneFile DEF Rests
<1> QED BY <1>7, <1>8

(* What is about other things than files leaves the files as they are. *)
LEMMA FilesUntouched ==
    ASSUME Invariant, OwnBooks, FilesPaired, NEW r \in Requests, Alone(r),
           UNCHANGED << file, invoice_attachments >>, WritesOwnInvoice(r), Rests(r), Rests(r)'
    PROVE  FilesPaired'
<1>1. \A i \in Invoices : Live(invoice[i].val) => Live(invoice'[i].val)
    BY OwnParts, OwnInvoiceWritten DEF OwnBooks
<1>2. \A s \in Requests, i \in Invoices :
         Live(Sees(invoice, s)[i]) => Live(Sees(invoice', s)[i])
    BY OwnParts, OwnInvoiceWritten DEF OwnBooks
<1> QED BY <1>1, <1>2, OwnParts, FilesElsewhere DEF Alone

LEMMA FilesRead ==
    ASSUME Invariant, OwnBooks, FilesPaired, NEW r \in Requests, ~Fail(r),
           InvoiceList(r) \/ InvoiceRows(r) \/ GetNextInvoiceNumber(r) \/ CustomerList(r)
    PROVE  FilesPaired'
<1>1. Alone(r) /\ UNCHANGED << invoice, customer, file, invoice_attachments >>
    BY OwnParts, ListFrame DEF tables
<1>2. script[r] # << >> /\ Rests(r)
    BY DEF InvoiceList, InvoiceRows, GetNextInvoiceNumber, CustomerList, Runs, At, Rests
<1>3. Continue(r) => Rests(r)'
    BY <1>2, OwnParts, TailRests DEF Continue
<1>4. Rests(r)'
    <2>1. CASE InvoiceRows(r)
        BY <2>1, RowsScript, HandledIsPlain, NewRests
    <2>2. CASE GetNextInvoiceNumber(r)
        BY <1>3, <2>2, NumberScript, NewRests
    <2>3. CASE InvoiceList(r) \/ CustomerList(r)
        BY <1>3, <2>3 DEF InvoiceList, CustomerList
    <2> QED BY <2>1, <2>2, <2>3
<1> QED BY <1>1, <1>2, <1>4, NothingWritten, FilesUntouched

LEMMA FilesSaved ==
    ASSUME Invariant, OwnBooks, FilesPaired, NEW r \in Requests, ~Fail(r),
           InvoiceUpdate(r) \/ InvoiceInsert(r) \/ CustomerUpdate(r) \/ CustomerInsert(r)
    PROVE  FilesPaired'
<1>1. Alone(r) /\ Continue(r) /\ UNCHANGED << file, invoice_attachments >>
    BY OwnParts, SaveFrame
<1>2. script[r] # << >> /\ Rests(r)
    BY DEF InvoiceUpdate, InvoiceInsert, CustomerUpdate, CustomerInsert, Runs, At, Rests
<1>3. Rests(r)'
    BY <1>1, <1>2, OwnParts, TailRests DEF Continue
<1>4. WritesOwnInvoice(r)
    <2>1. CASE InvoiceUpdate(r) \/ InvoiceInsert(r)
        BY <2>1, OwnInvoiceUpdate, OwnInvoiceInsert
    <2>2. CASE CustomerUpdate(r) \/ CustomerInsert(r)
        BY <2>2 DEF CustomerUpdate, CustomerInsert, WritesOwnInvoice
    <2> QED BY <2>1, <2>2
<1> QED BY <1>1, <1>2, <1>3, <1>4, FilesUntouched

LEMMA FilesAside ==
    ASSUME Invariant, OwnBooks, FilesPaired, NEW r \in Requests, ~Fail(r),
           \/ InvoiceRowAdd(r) \/ InvoiceRowRemove(r) \/ InvoiceRowUpdate(r)
           \/ RUTGet(r) \/ RUTList(r) \/ RUTCreate(r) \/ RUTSave(r)
    PROVE  FilesPaired'
<1>1. Alone(r) /\ UNCHANGED << invoice, customer >>
    BY OwnParts, SideFrame DEF Side
<1>2. UNCHANGED << file, invoice_attachments >>
    BY DEF InvoiceRowAdd, InvoiceRowRemove, InvoiceRowUpdate, RUTGet, RUTList, RUTCreate,
        RUTSave, WriteRow, WriteRequest, MatchesNothing, tables
<1>3. script[r] # << >> /\ Rests(r)
    BY DEF InvoiceRowAdd, InvoiceRowRemove, InvoiceRowUpdate, RUTGet, RUTList, RUTCreate,
        RUTSave, Runs, At, Rests
<1>4. Continue(r) => Rests(r)'
    BY <1>3, OwnParts, TailRests DEF Continue
<1>5. Rests(r)'
    <2>1. CASE \/ InvoiceRowAdd(r) \/ InvoiceRowRemove(r) \/ InvoiceRowUpdate(r)
               \/ RUTGet(r) \/ RUTCreate(r) \/ RUTSave(r) \/ (RUTList(r) /\ Continue(r))
        BY <1>4, <2>1 DEF InvoiceRowAdd, InvoiceRowRemove, InvoiceRowUpdate, RUTGet, RUTCreate,
            RUTSave, WriteRow, WriteRequest, MatchesNothing
    <2>2. CASE RUTList(r) /\ ~Continue(r)
        <3>1. /\ Head(script[r]).op = "RUTList"
              /\ ContinueWith(r, << Do("RUTCreate", Arg(r)) >> \o Tail(script[r]))
            BY <2>2 DEF RUTList, Runs, At
        <3>2. script'[r] = << Do("RUTCreate", Arg(r)) >> \o Tail(script[r])
            BY <3>1, OwnParts DEF ContinueWith
        <3>3. Tail(script[r]) \in Seq(Statement) /\ Do("RUTCreate", Arg(r)) \in Statement
            BY <1>3, <3>1, Parts, Served, ScriptParts, StatementArgument, DoType DEF Arg
        <3>4. Head(script'[r]) = Do("RUTCreate", Arg(r))
            BY <3>2, <3>3
        <3> QED BY <3>4 DEF Rests, At, Do
    <2> QED BY <2>1, <2>2
<1> QED BY <1>1, <1>2, <1>3, <1>5, NothingWritten, FilesUntouched

LEMMA FilesEnd ==
    ASSUME Invariant, OwnBooks, FilesPaired, NEW r \in Requests, NEW commit \in BOOLEAN,
           EndTransaction(r, commit), script[r] = << >>, commit => status[r] <= 400
    PROVE  FilesPaired'
<1> SUFFICES ASSUME NEW k \in Files
             PROVE  FilePaired(k)' /\ \A s \in Requests : FilePairedFor(s, k)'
    BY DEF FilesPaired
<1> DEFINE f == file[k]
           a == invoice_attachments[k]
<1>1. /\ file' = Ended(file, r, commit)
      /\ invoice_attachments' = Ended(invoice_attachments, r, commit)
      /\ invoice' = Ended(invoice, r, commit) /\ script' = script
      /\ \A s \in Requests \ {r} : status'[s] = status[s]
    BY OwnParts DEF EndTransaction, TypeOK, ServingOK
<1>2. /\ FilePaired(k) /\ \A s \in Requests : FilePairedFor(s, k)
      /\ f.by \in Requests \cup {NULL} /\ a.by \in Requests \cup {NULL}
      /\ a.val \in Invoices \cup {Absent, Gone}
      /\ DOMAIN file = Files /\ DOMAIN invoice_attachments = Files
      /\ \A s : Sees(file, s)[k] = IF f.by = s THEN f.new ELSE f.val
      /\ \A s : Sees(invoice_attachments, s)[k] = IF a.by = s THEN a.new ELSE a.val
    BY OwnParts, FileParts
<1>3. a.new \in Invoices \cup {Absent, Gone}
    BY OwnParts DEF TypeOK, TablesOK, Versions
<1>4. /\ IF f.by # r THEN file'[k] = f
         ELSE file'[k] = Settled(IF commit THEN f.new ELSE f.val)
      /\ IF a.by # r THEN invoice_attachments'[k] = a
         ELSE invoice_attachments'[k] = Settled(IF commit THEN a.new ELSE a.val)
      /\ DOMAIN file' = Files /\ DOMAIN invoice_attachments' = Files
    BY <1>1, <1>2 DEF Ended
<1>5. /\ f.by = r => file'[k].by = NULL
      /\ a.by = r => invoice_attachments'[k].by = NULL
      /\ f.by # r => file'[k] = f
      /\ a.by # r => invoice_attachments'[k] = a
      /\ commit => /\ file'[k].val = Sees(file, r)[k]
                   /\ invoice_attachments'[k].val = Sees(invoice_attachments, r)[k]
      /\ ~commit => file'[k].val = f.val /\ invoice_attachments'[k].val = a.val
    BY <1>2, <1>4 DEF Settled
<1>6. /\ \A i \in Invoices : IF invoice[i].by # r THEN invoice'[i] = invoice[i]
             ELSE /\ invoice'[i].by = NULL
                  /\ invoice'[i].val = IF commit THEN invoice[i].new ELSE invoice[i].val
      /\ \A s \in Requests \ {r}, i \in Invoices :
            Live(Sees(invoice, s)[i]) => Live(Sees(invoice', s)[i])
    BY <1>1, OwnParts, OwnInvoiceEnded DEF OwnBooks
<1>7. \A i \in Invoices : /\ Live(invoice[i].val) => Live(invoice'[i].val)
                          /\ commit /\ Live(Sees(invoice, r)[i]) => Live(invoice'[i].val)
    BY <1>6, OwnParts, EntitiesAssumption DEF InvoicesNeverRemoved, Sees
<1>8. ~Pending(r, k) /\ ~At(r, "AttachmentAdd")
    BY DEF Pending, At
<1>9. commit => Paired(r, k)
    <2>1. commit => status[r] = StatusOK
        BY OwnParts DEF TypeOK, ServingOK, StatusOK, StatusInternalServerError
    <2> QED BY <1>2, <1>8, <2>1 DEF FilePairedFor
<1>10. Live(file'[k].val) <=> Live(invoice_attachments'[k].val)
    BY <1>2, <1>5, <1>9 DEF Paired, FilePaired
<1>11. Live(invoice_attachments'[k].val) => Live(invoice'[invoice_attachments'[k].val].val)
    <2>1. a.by = r /\ Live(a.new) => Live(Sees(invoice, r)[a.new])
        BY <1>2 DEF FilePairedFor
    <2>2. Live(a.val) => Live(invoice[a.val].val)
        BY <1>2 DEF FilePaired, InvoiceIn
    <2>3. /\ Live(a.val) => a.val \in Invoices
          /\ Live(a.new) => a.new \in Invoices
        BY <1>2, <1>3 DEF Live
    <2>4. invoice_attachments'[k].val \in {a.val, a.new}
        BY <1>2, <1>5
    <2>5. invoice_attachments'[k].val # a.val => commit /\ a.by = r
        BY <1>2, <1>5
    <2> QED BY <1>7, <2>1, <2>2, <2>3, <2>4, <2>5
<1>12. FilePaired(k)'
    BY <1>2, <1>5, <1>10, <1>11, EntitiesAssumption DEF FilePaired, InvoiceIn
<1>13. ASSUME NEW s \in Requests \ {r} PROVE FilePairedFor(s, k)'
    <2> DEFINE b == invoice_attachments'[k]
    <2>1. b.by = s /\ Live(b.new) => Live(Sees(invoice', s)[b.new])
        <3>1. b.by = s => b = a
            BY <1>5, EntitiesAssumption
        <3>2. a.by = s /\ Live(a.new) => Live(Sees(invoice, s)[a.new]) /\ a.new \in Invoices
            BY <1>2, <1>3 DEF FilePairedFor, Live
        <3> QED BY <1>6, <3>1, <3>2
    <2>2. /\ At(s, "AttachmentAdd")' <=> At(s, "AttachmentAdd")
          /\ Pending(s, k)' <=> Pending(s, k)
          /\ Arg(s)' = Arg(s) /\ status'[s] = status[s]
        BY <1>1 DEF At, Pending, Arg
    <2>3. Paired(s, k) => Paired(s, k)'
        <3>1. CASE f.by # r /\ a.by # r
            BY <1>2, <1>4, <1>5, <3>1 DEF Paired, Sees
        <3>2. CASE f.by = r \/ a.by = r
            <4>1. file'[k].by # s /\ invoice_attachments'[k].by # s
                BY <1>2, <1>5, <3>2, EntitiesAssumption DEF FilePaired
            <4>2. /\ Sees(file', s)[k] = file'[k].val
                  /\ Sees(invoice_attachments', s)[k] = invoice_attachments'[k].val
                BY <1>4, <4>1 DEF Sees
            <4> QED BY <1>10, <4>2 DEF Paired
        <3> QED BY <3>1, <3>2
    <2>4. At(s, "AttachmentAdd") /\ Arg(s) = k => file'[k] = f /\ invoice_attachments'[k] = a
        BY <1>2, <1>5, EntitiesAssumption DEF FilePairedFor
    <2> QED BY <1>2, <2>1, <2>2, <2>3, <2>4 DEF FilePairedFor
<1>14. FilePairedFor(r, k)'
    <2>1. file'[k].by # r /\ invoice_attachments'[k].by # r
        BY <1>5, EntitiesAssumption
    <2>2. Paired(r, k)'
        BY <1>4, <1>10, <2>1 DEF Paired, Sees
    <2>3. ~At(r, "AttachmentAdd")'
        BY <1>1 DEF At
    <2> QED BY <2>1, <2>2, <2>3 DEF FilePairedFor
<1> QED BY <1>12, <1>13, <1>14

LEMMA FilesNext == Invariant /\ OwnBooks /\ FilesPaired /\ [Next]_vars => FilesPaired'
<1> SUFFICES ASSUME Invariant, OwnBooks, FilesPaired, [Next]_vars PROVE FilesPaired'
    OBVIOUS
<1>1. CASE UNCHANGED vars
    BY <1>1 DEF vars, tables, hand, FilesPaired, FilePaired, FilePairedFor, Pending, Paired, At,
        Arg, InvoiceIn
<1>2. ASSUME NEW r \in Requests, StepOf(r) PROVE FilesPaired'
    <2>1. ASSUME NEW f \in Forms, Begin(r, f) PROVE FilesPaired'
        <3>1. script[r] = << >>
            BY <2>1, Parts DEF Begin, IdleHasNoScript
        <3>2. /\ UNCHANGED << file, invoice_attachments, invoice, status >>
              /\ script'[r] = Opening(f)
              /\ \A s \in Requests \ {r} : script'[s] = script[s]
            BY <2>1, Parts DEF Begin, tables, TypeOK, ServingOK
        <3>3. Rests(r)'
            <4>1. Opening(f) # << >> => Head(Opening(f)).op \in
                      {"RUTGet", "GetNextInvoiceNumber", "InvoiceList"}
                <5>1. CASE IsRut(f)
                    <6>1. f \in RutForm
                        BY <5>1, FormType DEF IsRut
                    <6>2. Do("RUTGet", f.rut) \in Statement
                        BY <6>1, DoType DEF RutForm, RutFlagForm, RutPostForm
                    <6>3. Head(<< Do("RUTGet", f.rut) >> \o InvoiceGet) = Do("RUTGet", f.rut)
                        BY <6>2, InvoiceGetType
                    <6> QED BY <5>1, <6>3 DEF Opening, Do
                <5>2. CASE ~IsRut(f)
                    BY <5>2 DEF Opening, InvoiceGet, Do
                <5> QED BY <5>1, <5>2
            <4> QED BY <3>2, <4>1 DEF Rests, At
        <3>4. Rests(r)
            BY <3>1 DEF Rests, At
        <3> QED BY <3>2, <3>3, <3>4, Parts, FilesElsewhere
    <2>2. CASE \E commit \in BOOLEAN : /\ script[r] = << >> /\ EndTransaction(r, commit)
                                       /\ commit => status[r] <= 400
        BY <2>2, FilesEnd
    <2>3. CASE Fail(r)
        <3>1. /\ UNCHANGED << file, invoice_attachments, invoice >>
              /\ script'[r] = << >> /\ status'[r] # StatusOK
              /\ \A s \in Requests \ {r} : script'[s] = script[s] /\ status'[s] = status[s]
            BY <2>3, Parts DEF Fail, tables, TypeOK, ServingOK, StatusOK,
                StatusInternalServerError
        <3>2. Rests(r)'
            BY <3>1 DEF Rests, At
        <3> QED BY <3>1, <3>2, Parts, FilesElsewhere
    <2>4. CASE ~Fail(r) /\ Step(r) /\ ~CommitOrRollback(r)
        BY <2>4, StatementCases, FilesRead, FilesSaved, FilesAside, FileAdded, AttachmentAdded,
            AttachmentRemoved, FileRemoved DEF Side
    <2> QED BY <1>2, <2>1, <2>2, <2>3, <2>4 DEF StepOf
<1> QED BY <1>1, <1>2, StepCases

(* Every stored file hangs on an invoice and every attachment has its      *)
(* file, also when requests attach and detach the same files at the same   *)
(* time, and fail half way (models/invoice.go:338-386).                    *)
THEOREM FilesAreAttached == Spec => []FilesAttached
<1>1. Init => FilesPaired
    <2> SUFFICES ASSUME Init PROVE FilesPaired
        OBVIOUS
    <2>1. /\ \A k \in Files : /\ file[k] = Settled(Absent)
                              /\ invoice_attachments[k] = Settled(Absent)
          /\ DOMAIN file = Files /\ DOMAIN invoice_attachments = Files
          /\ \A r \in Requests : script[r] = << >>
        BY DEF Init, EmptyTable
    <2>2. \A k \in Files : FilePaired(k)
        BY <2>1 DEF Settled, FilePaired, Live
    <2>3. \A k \in Files, r \in Requests : FilePairedFor(r, k)
        <3>1. \A k \in Files, r \in Requests : Paired(r, k)
            BY <2>1 DEF Paired, Sees, Settled
        <3> QED BY <2>1, <3>1, EntitiesAssumption DEF FilePairedFor, Settled, At
    <2> QED BY <2>2, <2>3 DEF FilesPaired
<1>2. Invariant /\ FilesPaired => FilesAttached
    <2> SUFFICES ASSUME Invariant, FilesPaired, NEW k \in Files
                 PROVE  /\ Live(file[k].val) <=> Live(invoice_attachments[k].val)
                        /\ Live(file[k].val) => invoice_attachments[k].val \in CommittedInvoices
        BY DEF FilesAttached
    <2>1. FilePaired(k) /\ invoice_attachments[k].val \in Invoices \cup {Absent, Gone}
        BY Parts, FileParts
    <2> QED BY <2>1 DEF FilePaired, CommittedInvoices, Live
<1> QED BY <1>1, <1>2, FilesNext, OwnBooksHold, InvariantHolds, PTL DEF Spec

=============================================================================
