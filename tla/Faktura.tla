------------------------------ MODULE Faktura ------------------------------
(***************************************************************************)
(* The invoicing program as a set of concurrent HTTP requests over one     *)
(* PostgreSQL database.  Each request is a transaction: it begins, runs    *)
(* the statements of its handler one by one, and is committed or rolled    *)
(* back by the middleware.  Statements of different requests interleave.   *)
(***************************************************************************)
EXTENDS RutViews

CONSTANTS
    Forms,      \* the requests that may arrive
    Faults      \* TRUE: a statement or a COMMIT may fail for outside reasons

ASSUME FakturaAssumption == Forms \subseteq Form /\ NULL \notin Forms

VARIABLES
    customer, invoice, invoice_row, rut_requests, file, invoice_attachments,
    form,       \* the request that is served, NULL when there is none
    script,     \* the statements its handler still has to run
    status,     \* statusResponseWriter.statusCode
    id,         \* invoice.ID of the invoice in hand, NULL while it is 0
    inv,        \* the invoice in hand
    rows,       \* its Rows
    rut         \* the ROT/RUT request in hand

tables == << customer, invoice, invoice_row, rut_requests, file, invoice_attachments >>
hand   == << id, inv, rows, rut >>
vars   == << tables, form, script, status, hand >>

StatusOK == 200
StatusInternalServerError == 500

-----------------------------------------------------------------------------
(* The state of requests. *)

Active(r) == form[r] # NULL

At(r, op) == script[r] # << >> /\ Head(script[r]).op = op

Arg(r) == Head(script[r]).on

(* The statement succeeded, and the handler goes on with the next one. *)
Continue(r) ==
    /\ script' = [script EXCEPT ![r] = Tail(@)]
    /\ UNCHANGED << form, status >>

ContinueWith(r, statements) ==
    /\ script' = [script EXCEPT ![r] = statements]
    /\ UNCHANGED << form, status >>

(* The handler returns an error: HandleError answers 500. *)
Fail(r) ==
    /\ script' = [script EXCEPT ![r] = << >>]
    /\ status' = [status EXCEPT ![r] = StatusInternalServerError]
    /\ UNCHANGED << tables, form, hand >>

(* The row that request r is about to write is locked by request s, or the *)
(* number it is about to insert is in an insert that s has not committed.  *)
Waits(r, s) ==
    \/ At(r, "CustomerSave") /\ Holds(customer, s, inv[r].customer)
    \/ At(r, "InvoiceSave") /\ Holds(invoice, s, id[r])
    \/ /\ At(r, "InvoiceSave") /\ id[r] = NULL
       /\ \E i \in Invoices : /\ invoice[i].by = s
                              /\ invoice[i].val = Absent
                              /\ invoice[i].new.number = inv[r].number
    \/ At(r, "RUTSave") /\ Holds(rut_requests, s, Arg(r))
    \/ At(r, "RowUpdate") /\ Holds(invoice_row, s, Arg(r).row)
    \/ /\ At(r, "RowRemove") /\ Holds(invoice_row, s, Arg(r))
       /\ invoice_row[Arg(r)].val.invoice = id[r]
    \/ /\ At(r, "AttachmentRemove") /\ Holds(invoice_attachments, s, Arg(r))
       /\ invoice_attachments[Arg(r)].val = id[r]
    \/ At(r, "FileRemove") /\ Holds(file, s, Arg(r))

Blocked(r) == \E s \in Requests \ {r} : Waits(r, s)

(* Request r is about to run statement op, and nothing makes it wait. *)
Runs(r, op) == At(r, op) /\ ~Blocked(r)

-----------------------------------------------------------------------------
(* Middleware: TransactionMiddleware around every handler. *)

(* InvoiceGet: the invoice, then its rows. *)
InvoiceGet == << Do("InvoiceList", NULL), Do("InvoiceRows", NULL) >>

(* What every handler of a request does first. *)
Opening(f) ==
    IF IsRut(f) THEN << Do("RUTGet", f.rut) >> \o InvoiceGet
    ELSE IF f.invoice = NULL THEN << Do("GetNextInvoiceNumber", f.company) >>
    ELSE InvoiceGet

Begin(r, f) ==
    /\ ~Active(r)
    /\ form'   = [form EXCEPT ![r] = f]
    /\ script' = [script EXCEPT ![r] = Opening(f)]
    /\ id'     = [id EXCEPT ![r] = IF IsRut(f) THEN NULL ELSE f.invoice]
    /\ UNCHANGED << tables, status, inv, rows, rut >>

(* Everything the transaction wrote is committed or dropped, and nothing   *)
(* of the request is left.                                                 *)
EndTransaction(r, commit) ==
    /\ customer'            = Ended(customer, r, commit)
    /\ invoice'             = Ended(invoice, r, commit)
    /\ invoice_row'         = Ended(invoice_row, r, commit)
    /\ rut_requests'        = Ended(rut_requests, r, commit)
    /\ file'                = Ended(file, r, commit)
    /\ invoice_attachments' = Ended(invoice_attachments, r, commit)
    /\ form'   = [form EXCEPT ![r] = NULL]
    /\ status' = [status EXCEPT ![r] = StatusOK]
    /\ id'     = [id EXCEPT ![r] = NULL]
    /\ inv'    = [inv EXCEPT ![r] = ZeroInvoice]
    /\ rows'   = [rows EXCEPT ![r] = NoRows]
    /\ rut'    = [rut EXCEPT ![r] = ZeroRut]
    /\ UNCHANGED script

(* Mutants: errors commit too, or leave the transaction open. *)
CommitAlways(r) ==
    Active(r) /\ script[r] = << >> /\ EndTransaction(r, TRUE)

CommitOrLeave(r) ==
    /\ Active(r) /\ script[r] = << >> /\ status[r] <= 400
    /\ EndTransaction(r, TRUE)

(* All statuscodes above 400 imply errors, which roll back. *)
CommitOrRollback(r) ==
    /\ Active(r) /\ script[r] = << >>
    /\ EndTransaction(r, status[r] <= 400)

(* The COMMIT itself fails: that is logged, and the answer is the same. *)
CommitFails(r) ==
    /\ Faults
    /\ Active(r) /\ script[r] = << >> /\ status[r] <= 400
    /\ EndTransaction(r, FALSE)

(* A statement fails: connection lost, query cancelled, disk full. *)
StatementFails(r) ==
    /\ Faults
    /\ script[r] # << >>
    /\ Fail(r)

(* PostgreSQL gives an error to a request that waits in a cycle. *)
DeadlockDetected(r) ==
    /\ \E S \in SUBSET Requests :
          /\ r \in S
          /\ \A s \in S : /\ \E u \in S : Waits(s, u)
                          /\ \E u \in S : Waits(u, s)
    /\ Fail(r)

-----------------------------------------------------------------------------
(* models/invoice.go *)

(* Mutant: deleted invoices are found. *)
VisibleDeleted(r, x) ==
    /\ Live(x)
    /\ IF IsRut(form[r]) THEN ~x.is_offer
       ELSE x.is_offer = form[r].is_offer /\ x.company = form[r].company

(* InvoiceGet, first query: of the session's company and of the right kind *)
(* for the pages of views/invoice, any that is not deleted for RUTList.    *)
Visible(r, x) ==
    /\ Live(x) /\ ~x.is_deleted
    /\ IF IsRut(form[r]) THEN ~x.is_offer
       ELSE x.is_offer = form[r].is_offer /\ x.company = form[r].company

InvoiceList(r) ==
    /\ Runs(r, "InvoiceList")
    /\ LET x == Sees(invoice, r)[id[r]] IN
       IF id[r] # NULL /\ Visible(r, x)
       THEN /\ inv' = [inv EXCEPT ![r] = x]
            /\ Continue(r)
            /\ UNCHANGED << tables, id, rows, rut >>
       ELSE Fail(r)

RowsOf(r) ==
    [k \in Rows |-> LET x == Sees(invoice_row, r)[k] IN
                    IF Live(x) /\ x.invoice = id[r] THEN x ELSE Absent]

(* InvoiceGet, second query, and what each handler makes of the result. *)
InvoiceRows(r) ==
    /\ Runs(r, "InvoiceRows")
    /\ LET f == form[r]
           read == RowsOf(r) IN
       \/ f.op = "flag" /\ ~ValidFlag(f) /\ Fail(r)
       \/ /\ f.op = "flag" /\ ValidFlag(f)
          /\ inv'  = [inv EXCEPT ![r] = Flagged(f, @)]
          /\ rows' = [rows EXCEPT ![r] = read]
          /\ \E s \in FlagScripts(f, inv[r], read) : ContinueWith(r, s)
          /\ UNCHANGED << tables, id, rut >>
       \/ /\ f.op = "post"
          /\ inv'  = [inv EXCEPT ![r] = Posted(f, @)]
          /\ rows' = [rows EXCEPT ![r] = read]
          /\ \E s \in PostScripts(f, inv[r], read) : ContinueWith(r, s)
          /\ UNCHANGED << tables, id, rut >>
       \/ /\ f.op = "attach"
          /\ rows' = [rows EXCEPT ![r] = read]
          /\ ContinueWith(r, FileScript(f))
          /\ UNCHANGED << tables, id, inv, rut >>
       \/ /\ f.op = "rut_flag"
          /\ rut'  = [rut EXCEPT ![r] = RutFlagged(f, @)]
          /\ rows' = [rows EXCEPT ![r] = read]
          /\ \E s \in RutSaveScripts(f, read) : ContinueWith(r, s)
          /\ UNCHANGED << tables, id, inv >>
       \/ /\ f.op = "rut_post"
          /\ rut'  = [rut EXCEPT ![r] = RutPosted(f, @)]
          /\ rows' = [rows EXCEPT ![r] = HoursPosted(f, read)]
          /\ \E s \in RutPostScripts(f, rut[r], HoursPosted(f, read)) :
                ContinueWith(r, s)
          /\ UNCHANGED << tables, id, inv >>

(* Numbers the query can answer with: one above each invoice or offer of   *)
(* the company, deleted ones included, and the company's first number.     *)
NumberCandidates(r, c) ==
    {1, FirstNumber[c]} \cup
    {Sees(invoice, r)[i].number + 1 :
        i \in {j \in Invoices : /\ Live(Sees(invoice, r)[j])
                                /\ Sees(invoice, r)[j].company = c}}

IsNextNumber(r, c, n) ==
    /\ n \in NumberCandidates(r, c)
    /\ \A m \in NumberCandidates(r, c) : m <= n

GetNextInvoiceNumber(r) ==
    /\ Runs(r, "GetNextInvoiceNumber")
    /\ \E n \in NumberCandidates(r, Arg(r)) :
          /\ IsNextNumber(r, Arg(r), n)
          /\ \/ /\ form[r].op = "flag"
                /\ inv' = [inv EXCEPT ![r] = ConvertedInvoice(@, id[r], n)]
                /\ id'  = [id EXCEPT ![r] = NULL]
                /\ Continue(r)
                /\ UNCHANGED << tables, rows, rut >>
             \/ LET f == form[r]
                    blank == NewInvoice(f, n) IN
                /\ f.op = "post"
                /\ inv'  = [inv EXCEPT ![r] = Posted(f, blank)]
                /\ \E s \in PostScripts(f, blank, NoRows) : ContinueWith(r, s)
                /\ UNCHANGED << tables, id, rows, rut >>

(* Mutant: an UPDATE that forgets a column. *)
UpdatedWithoutDates(old, new) ==
    [new EXCEPT !.number    = old.number,   !.company  = old.company,
                !.is_offer  = old.is_offer, !.offer_id = old.offer_id,
                !.date_paid = old.date_paid]

(* InvoiceSave.  The foreign keys of customer_id and company_id refuse 0.  *)
(* These are the columns that its UPDATE sets ...                          *)
UpdatedInvoice(old, new) ==
    [new EXCEPT !.number   = old.number,   !.company  = old.company,
                !.is_offer = old.is_offer, !.offer_id = old.offer_id]

(* ... and these the columns that its INSERT leaves to their defaults. *)
InsertedInvoice(new) ==
    [new EXCEPT !.is_invoiced = FALSE, !.is_paid = FALSE, !.is_deleted = FALSE,
                !.date_invoiced = FALSE, !.date_paid = FALSE]

(* Mutant: no UNIQUE constraint. *)
NumberNeverTaken(r, n) == FALSE

(* invoice.number is UNIQUE, over all companies. *)
NumberTaken(r, n) ==
    \E i \in Invoices : Live(Sees(invoice, r)[i]) /\ Sees(invoice, r)[i].number = n

InvoiceUpdate(r) ==
    /\ Runs(r, "InvoiceSave") /\ id[r] # NULL
    /\ LET old == Sees(invoice, r)[id[r]] IN
       IF inv[r].customer = NULL THEN Fail(r)
       ELSE /\ invoice' = IF Live(old)
                          THEN Put(invoice, r, id[r], UpdatedInvoice(old, inv[r]))
                          ELSE invoice
            /\ Continue(r)
            /\ UNCHANGED << customer, invoice_row, rut_requests, file,
                            invoice_attachments, hand >>

InvoiceInsert(r) ==
    /\ Runs(r, "InvoiceSave") /\ id[r] = NULL
    /\ IF \/ inv[r].customer = NULL \/ inv[r].company = NULL
          \/ NumberTaken(r, inv[r].number) \/ FreshIds(invoice) = {}
       THEN Fail(r)
       ELSE \E i \in FreshIds(invoice) :
              /\ invoice' = Put(invoice, r, i, InsertedInvoice(inv[r]))
              /\ id' = [id EXCEPT ![r] = i]
              /\ Continue(r)
              /\ UNCHANGED << customer, invoice_row, rut_requests, file,
                              invoice_attachments, inv, rows, rut >>

WriteRow(r, k, x) ==
    /\ invoice_row' = Put(invoice_row, r, k, x)
    /\ Continue(r)
    /\ UNCHANGED << customer, invoice, rut_requests, file, invoice_attachments, hand >>

(* A statement that matches no row succeeds. *)
MatchesNothing(r) == Continue(r) /\ UNCHANGED << tables, hand >>

(* Mutant: the error of an INSERT is dropped. *)
InvoiceRowAddUnchecked(r) ==
    /\ Runs(r, "RowAdd")
    /\ IF id[r] = NULL \/ FreshIds(invoice_row) = {} THEN MatchesNothing(r)
       ELSE \E k \in FreshIds(invoice_row) :
              WriteRow(r, k, [invoice |-> id[r], kind |-> Arg(r).kind,
                              text |-> Arg(r).text, hours |-> NULL])

(* rot_rut_hours is not among the columns of the INSERT. *)
InvoiceRowAdd(r) ==
    /\ Runs(r, "RowAdd")
    /\ IF id[r] = NULL \/ FreshIds(invoice_row) = {} THEN Fail(r)
       ELSE \E k \in FreshIds(invoice_row) :
              WriteRow(r, k, [invoice |-> id[r], kind |-> Arg(r).kind,
                              text |-> Arg(r).text, hours |-> NULL])

InvoiceRowRemove(r) ==
    /\ Runs(r, "RowRemove")
    /\ LET old == Sees(invoice_row, r)[Arg(r)] IN
       IF Live(old) /\ old.invoice = id[r]
       THEN WriteRow(r, Arg(r), Gone)
       ELSE MatchesNothing(r)

InvoiceRowUpdate(r) ==
    /\ Runs(r, "RowUpdate")
    /\ LET old == Sees(invoice_row, r)[Arg(r).row]
           new == Arg(r).data IN
       IF Live(old)
       THEN WriteRow(r, Arg(r).row, [invoice |-> old.invoice, kind |-> new.kind,
                                     text |-> new.text, hours |-> new.hours])
       ELSE MatchesNothing(r)

-----------------------------------------------------------------------------
(* models/customer.go *)

(* Mutant: any customer can be selected. *)
CustomerListAnyCompany(r) ==
    /\ Runs(r, "CustomerList")
    /\ IF Live(Sees(customer, r)[Arg(r)])
       THEN /\ inv' = [inv EXCEPT ![r].customer = Arg(r)]
            /\ Continue(r)
            /\ UNCHANGED << tables, id, rows, rut >>
       ELSE Fail(r)

(* The selected customer must be one of the session's company. *)
CustomerList(r) ==
    /\ Runs(r, "CustomerList")
    /\ LET x == Sees(customer, r)[Arg(r)] IN
       IF Live(x) /\ x.company = form[r].company
       THEN /\ inv' = [inv EXCEPT ![r].customer = Arg(r)]
            /\ Continue(r)
            /\ UNCHANGED << tables, id, rows, rut >>
       ELSE Fail(r)

CustomerUpdate(r) ==
    /\ Runs(r, "CustomerSave") /\ inv[r].customer # NULL
    /\ customer' = LET old == Sees(customer, r)[inv[r].customer] IN
                   IF Live(old)
                   THEN Put(customer, r, inv[r].customer,
                            [company |-> old.company, text |-> Arg(r)])
                   ELSE customer
    /\ Continue(r)
    /\ UNCHANGED << invoice, invoice_row, rut_requests, file, invoice_attachments, hand >>

(* The CompanyID of the customer in hand is set for a new invoice only:    *)
(* InvoiceList does not select it, and the foreign key refuses 0.          *)
CustomerInsert(r) ==
    /\ Runs(r, "CustomerSave") /\ inv[r].customer = NULL
    /\ IF form[r].invoice # NULL \/ FreshIds(customer) = {}
       THEN Fail(r)
       ELSE \E k \in FreshIds(customer) :
              /\ customer' = Put(customer, r, k,
                                 [company |-> form[r].company, text |-> Arg(r)])
              /\ inv' = [inv EXCEPT ![r].customer = k]
              /\ Continue(r)
              /\ UNCHANGED << invoice, invoice_row, rut_requests, file,
                              invoice_attachments, id, rows, rut >>

-----------------------------------------------------------------------------
(* models/file.go and the attachments of models/invoice.go *)

FileAdd(r) ==
    /\ Runs(r, "FileAdd")
    /\ IF FreshIds(file) = {} THEN Fail(r)
       ELSE \E k \in FreshIds(file) :
              /\ file' = Put(file, r, k, "stored")
              /\ ContinueWith(r, << Do("AttachmentAdd", k) >> \o Tail(script[r]))
              /\ UNCHANGED << customer, invoice, invoice_row, rut_requests,
                              invoice_attachments, hand >>

AttachmentAdd(r) ==
    /\ Runs(r, "AttachmentAdd")
    /\ IF id[r] = NULL THEN Fail(r)
       ELSE /\ invoice_attachments' = Put(invoice_attachments, r, Arg(r), id[r])
            /\ Continue(r)
            /\ UNCHANGED << customer, invoice, invoice_row, rut_requests, file, hand >>

(* Mutant: the file is left behind. *)
AttachmentRemoveOnly(r) ==
    /\ Runs(r, "AttachmentRemove")
    /\ invoice_attachments' =
          IF Sees(invoice_attachments, r)[Arg(r)] = id[r]
          THEN Put(invoice_attachments, r, Arg(r), Gone)
          ELSE invoice_attachments
    /\ Continue(r)
    /\ UNCHANGED << customer, invoice, invoice_row, rut_requests, file, hand >>

(* InvoiceRemoveAttachment: the link, if it is one of this invoice ... *)
AttachmentRemove(r) ==
    /\ Runs(r, "AttachmentRemove")
    /\ invoice_attachments' =
          IF Sees(invoice_attachments, r)[Arg(r)] = id[r]
          THEN Put(invoice_attachments, r, Arg(r), Gone)
          ELSE invoice_attachments
    /\ ContinueWith(r, << Do("FileRemove", Arg(r)) >> \o Tail(script[r]))
    /\ UNCHANGED << customer, invoice, invoice_row, rut_requests, file, hand >>

(* ... and the file, if it is no longer in use. *)
FileRemove(r) ==
    /\ Runs(r, "FileRemove")
    /\ file' = IF /\ Live(Sees(file, r)[Arg(r)])
                  /\ ~Live(Sees(invoice_attachments, r)[Arg(r)])
               THEN Put(file, r, Arg(r), Gone)
               ELSE file
    /\ Continue(r)
    /\ UNCHANGED << customer, invoice, invoice_row, rut_requests, invoice_attachments, hand >>

-----------------------------------------------------------------------------
(* models/rut.go *)

(* RUTGet: the request, if its invoice is one of the session's company. *)
RUTGet(r) ==
    /\ Runs(r, "RUTGet")
    /\ LET x == Sees(rut_requests, r)[Arg(r)] IN
       IF Live(x) /\ Sees(invoice, r)[x.invoice].company = form[r].company
       THEN /\ rut' = [rut EXCEPT ![r] = x]
            /\ id'  = [id EXCEPT ![r] = x.invoice]
            /\ Continue(r)
            /\ UNCHANGED << tables, inv, rows >>
       ELSE Fail(r)

(* Mutant: the search without the type. *)
AnyExists(r, type) ==
    \E k \in RutIds : LET x == Sees(rut_requests, r)[k] IN
        Live(x) /\ x.invoice = id[r]

RequestExists(r, type) ==
    \E k \in RutIds : LET x == Sees(rut_requests, r)[k] IN
        Live(x) /\ x.invoice = id[r] /\ x.type = type

(* Only create a RUT-request if we don't already have one. *)
RUTList(r) ==
    /\ Runs(r, "RUTList")
    /\ IF RequestExists(r, Arg(r))
       THEN Continue(r)
       ELSE ContinueWith(r, << Do("RUTCreate", Arg(r)) >> \o Tail(script[r]))
    /\ UNCHANGED << tables, hand >>

WriteRequest(r, k, x) ==
    /\ rut_requests' = Put(rut_requests, r, k, x)
    /\ Continue(r)
    /\ UNCHANGED << customer, invoice, invoice_row, file, invoice_attachments, hand >>

RUTCreate(r) ==
    /\ Runs(r, "RUTCreate")
    /\ IF FreshIds(rut_requests) = {} THEN Fail(r)
       ELSE \E k \in FreshIds(rut_requests) :
              WriteRequest(r, k, [invoice |-> id[r], type |-> Arg(r),
                                  status |-> RUTPending,
                                  date_sent |-> FALSE, date_paid |-> FALSE,
                                  requested |-> NULL, received |-> NULL])

RUTSave(r) ==
    /\ Runs(r, "RUTSave")
    /\ LET old == Sees(rut_requests, r)[Arg(r)] IN
       IF Live(old)
       THEN WriteRequest(r, Arg(r),
                         [rut[r] EXCEPT !.invoice = old.invoice, !.type = old.type])
       ELSE MatchesNothing(r)

-----------------------------------------------------------------------------
Init ==
    /\ customer            = EmptyTable(Customers)
    /\ invoice             = EmptyTable(Invoices)
    /\ invoice_row         = EmptyTable(Rows)
    /\ rut_requests        = EmptyTable(RutIds)
    /\ file                = EmptyTable(Files)
    /\ invoice_attachments = EmptyTable(Files)
    /\ form   = [r \in Requests |-> NULL]
    /\ script = [r \in Requests |-> << >>]
    /\ status = [r \in Requests |-> StatusOK]
    /\ id     = [r \in Requests |-> NULL]
    /\ inv    = [r \in Requests |-> ZeroInvoice]
    /\ rows   = [r \in Requests |-> NoRows]
    /\ rut    = [r \in Requests |-> ZeroRut]

(* One statement of the handler of request r, or the end of its transaction. *)
Step(r) ==
    \/ InvoiceList(r) \/ InvoiceRows(r) \/ GetNextInvoiceNumber(r)
    \/ InvoiceUpdate(r) \/ InvoiceInsert(r)
    \/ InvoiceRowAdd(r) \/ InvoiceRowRemove(r) \/ InvoiceRowUpdate(r)
    \/ CustomerList(r) \/ CustomerUpdate(r) \/ CustomerInsert(r)
    \/ FileAdd(r) \/ AttachmentAdd(r) \/ AttachmentRemove(r) \/ FileRemove(r)
    \/ RUTGet(r) \/ RUTList(r) \/ RUTCreate(r) \/ RUTSave(r)
    \/ CommitOrRollback(r)

Next ==
    \E r \in Requests :
        \/ \E f \in Forms : Begin(r, f)
        \/ Step(r)
        \/ DeadlockDetected(r)
        \/ StatementFails(r)
        \/ CommitFails(r)

Spec == Init /\ [][Next]_vars

(* A handler keeps running, PostgreSQL serves the requests that wait for a *)
(* row in the order they came, and it looks for deadlocks.                 *)
Fairness ==
    \A r \in Requests : SF_vars(Step(r)) /\ WF_vars(DeadlockDetected(r))

FairSpec == Spec /\ Fairness

=============================================================================
