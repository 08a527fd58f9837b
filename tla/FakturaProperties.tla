-------------------------- MODULE FakturaProperties --------------------------
(***************************************************************************)
(* What the program of Faktura.tla promises.                               *)
(***************************************************************************)
EXTENDS Faktura

(* Every variable holds a value of its type. *)
TablesOK ==
    /\ customer            \in [Customers -> Versions(CustomerRecord)]
    /\ invoice             \in [Invoices -> Versions(InvoiceRecord)]
    /\ invoice_row         \in [Rows -> Versions(RowRecord)]
    /\ rut_requests        \in [RutIds -> Versions(RutRecord)]
    /\ file                \in [Files -> Versions(FileRecord)]
    /\ invoice_attachments \in [Files -> Versions(Invoices)]

ServingOK ==
    /\ form   \in [Requests -> Forms \cup {NULL}]
    /\ script \in [Requests -> Seq(Statement)]
    /\ status \in [Requests -> {StatusOK, StatusInternalServerError}]

HandOK ==
    /\ id     \in [Requests -> Invoices \cup {NULL}]
    /\ inv    \in [Requests -> LocalInvoice]
    /\ rows   \in [Requests -> LocalRows]
    /\ rut    \in [Requests -> LocalRut]

TypeOK == TablesOK /\ ServingOK /\ HandOK

-----------------------------------------------------------------------------
(* The committed rows, which is what any page shows. *)

InvoiceIn(i) == invoice[i].val
RowIn(k)     == invoice_row[k].val
RequestIn(k) == rut_requests[k].val

CommittedInvoices == {i \in Invoices : Live(InvoiceIn(i))}
CommittedRows     == {k \in Rows : Live(RowIn(k))}
CommittedRequests == {k \in RutIds : Live(RequestIn(k))}

Store == << Committed(customer), Committed(invoice), Committed(invoice_row),
            Committed(rut_requests), Committed(file), Committed(invoice_attachments) >>

-----------------------------------------------------------------------------
(* Between concurrent requests. *)

(* createROTRUTFromInvoice looks for a request before it inserts one, and  *)
(* nothing in the schema keeps two from being stored.  However often and   *)
(* however simultaneously an invoice is flagged as paid, it has at most    *)
(* one request of each type (views/invoice/flag.go:162-180).               *)
OneRequestPerType ==
    \A k, l \in CommittedRequests :
        /\ RequestIn(k).invoice = RequestIn(l).invoice
        /\ RequestIn(k).type = RequestIn(l).type
        => k = l

(* Why it is so: a handler looks for a request, and makes one, only while  *)
(* it has the invoice's row locked.  AskInvariant is inductive with TypeOK.*)

AsksAt(r) == {n \in DOMAIN script[r] : script[r][n].op \in {"RUTList", "RUTCreate"}}

IdleHasNoScript == \A r \in Requests : ~Active(r) => script[r] = << >>

(* Whoever comes to InvoiceRows has found the invoice. *)
Reached(r) == id[r] \in Invoices /\ Live(Sees(invoice, r)[id[r]])

Found(r) ==
    \A n \in DOMAIN script[r] :
        script[r][n].op = "InvoiceRows" =>
            IF n = 1 THEN Reached(r) ELSE script[r][n - 1].op = "InvoiceList"

FoundBeforeRows == \A r \in Requests : Found(r)

(* InvoiceSave, which takes the lock, comes just before the RUTLists. *)
Locks(r) ==
    \A n \in AsksAt(r) :
        \/ At(r, "InvoiceSave") /\ Reached(r) /\ 2..n \subseteq AsksAt(r)
        \/ /\ id[r] \in Invoices /\ invoice[id[r]].by = r
           /\ 1..n \subseteq AsksAt(r)

AsksUnderLock == \A r \in Requests : Locks(r)

InvoicesNeverRemoved ==
    \A i \in Invoices : invoice[i].by # NULL => Live(invoice[i].new)

(* The invoice and type of request k, committed or not. *)
Stored(k) == Live(rut_requests[k].val) \/ rut_requests[k].by # NULL

Key(k) ==
    LET x == IF Live(rut_requests[k].val) THEN rut_requests[k].val
             ELSE rut_requests[k].new
    IN << x.invoice, x.type >>

KeysFixed ==
    \A k \in RutIds : rut_requests[k].by # NULL =>
        /\ Live(rut_requests[k].new)
        /\ Key(k) = << rut_requests[k].new.invoice, rut_requests[k].new.type >>

NewRequestsUnderLock ==
    \A k \in RutIds :
        rut_requests[k].by # NULL /\ ~Live(rut_requests[k].val)
        => invoice[rut_requests[k].new.invoice].by = rut_requests[k].by

Fresh(r) ==
    \A n \in DOMAIN script[r] :
        script[r][n].op = "RUTCreate" =>
            /\ n = 1
            /\ \A k \in RutIds : Stored(k) => Key(k) # << id[r], script[r][n].on >>

SearchIsFresh == \A r \in Requests : Fresh(r)

KeysUnique == \A k, l \in RutIds : Stored(k) /\ Stored(l) /\ Key(k) = Key(l) => k = l

AskInvariant ==
    /\ IdleHasNoScript /\ FoundBeforeRows /\ AsksUnderLock
    /\ InvoicesNeverRemoved /\ KeysFixed /\ NewRequestsUnderLock
    /\ SearchIsFresh /\ KeysUnique

(* A request to the tax agency comes into being together with the payment  *)
(* it rests on: in the commit that shows it, its invoice is paid, on a     *)
(* known date, and applicable (views/invoice/flag.go:72-75, 96-101).       *)
BackedByPayment(k) ==
    LET x == InvoiceIn(RequestIn(k).invoice) IN
    x.is_paid /\ x.date_paid /\ x.rut_applicable

RequestedWhenPaid ==
    [][\A k \in RutIds :
          ~Live(RequestIn(k)) /\ Live(RequestIn(k)') => BackedByPayment(k)']_vars

(* No type of work is forgotten: when an invoice was flagged as paid, there *)
(* is a request for every type among the rows the handler read, whether it *)
(* made it or found it (views/invoice/flag.go:147-182).                    *)
EveryTypeRequested ==
    [][\A r \in Requests :
          /\ Active(r) /\ ~Active(r)' /\ Store' # Store
          /\ form[r].op = "flag"
          => \A type \in RequestTypes(form[r], inv[r], rows[r]) :
                \E k \in RutIds : /\ Live(RequestIn(k)')
                                  /\ RequestIn(k)'.invoice = id[r]
                                  /\ RequestIn(k)'.type = type]_vars

(* What pages show changes only when a request ends that was answered      *)
(* without an error: nothing is kept of a request that failed half-way,    *)
(* and nothing of one that still runs (models/transaction.go:171-196).     *)
NothingKeptOfAFailure ==
    [][Store' # Store =>
          \E r \in Requests : /\ Active(r) /\ script[r] = << >> /\ status[r] < 400
                              /\ ~Active(r)']_vars

(* A new invoice or offer becomes visible with all the rows its form gave, *)
(* and an invoice made from an offer with as many as the offer had when it *)
(* was read, or not at all (views/invoice/view.go:188-201, flag.go:103-125). *)
RowCount(i) == Cardinality({k \in CommittedRows : RowIn(k).invoice = i})

AppearsWhole ==
    [][\A r \in Requests, i \in Invoices :
          /\ invoice[i].by = r /\ ~Live(InvoiceIn(i)) /\ Live(InvoiceIn(i)')
          => RowCount(i)' =
                IF form[r].op = "post" THEN Len(form[r].add)
                ELSE Cardinality(Present(rows[r]))]_vars

(* An invoice that names an offer appears in the commit that accepts that  *)
(* offer, for the same company and customer (views/invoice/flag.go:80-115). *)
MatchesOffer(i) ==
    LET x == InvoiceIn(i)
        o == InvoiceIn(x.offer_id) IN
    /\ ~x.is_offer /\ x.status = StatusInitial
    /\ o.is_offer /\ o.status = StatusAccepted
    /\ o.company = x.company /\ o.customer = x.customer

MadeFromAcceptedOffer ==
    [][\A i \in Invoices :
          ~Live(InvoiceIn(i)) /\ Live(InvoiceIn(i)') /\ InvoiceIn(i)'.offer_id # NULL
          => MatchesOffer(i)']_vars

(* export.go:74 and the pages format date_paid and date_invoiced of a paid *)
(* or invoiced invoice without looking: whatever copies of a row overwrite *)
(* each other, a flag that is set has its date (flag.go:69-75).            *)
FlagsHaveDates ==
    \A i \in CommittedInvoices :
        /\ InvoiceIn(i).is_paid => InvoiceIn(i).date_paid
        /\ InvoiceIn(i).is_invoiced => InvoiceIn(i).date_invoiced

(* Every stored file hangs on an invoice, and every attachment has its     *)
(* file: detaching leaves neither an orphan nor a dangling link, also when *)
(* two requests detach the same file (models/invoice.go:338-386).          *)
FilesAttached ==
    \A k \in Files :
        /\ Live(file[k].val) <=> Live(invoice_attachments[k].val)
        /\ Live(file[k].val) => invoice_attachments[k].val \in CommittedInvoices

(* Every request comes to its end, even when requests wait for each        *)
(* other's rows in a cycle (views/invoice/view.go:309-314 walks a map).    *)
EveryRequestEnds == \A r \in Requests : Active(r) ~> ~Active(r)

(* The committed invoices and requests change as the books of Register.tla *)
(* may: whatever runs at the same time, a commit enters one document with  *)
(* the next free number of its company, or asks for types of work that     *)
(* nobody asked for before, or does neither (models/company.go:80-95 reads *)
(* the next number; the UNIQUE number of migrations/000001 settles races). *)
DocumentsShown ==
    [i \in Invoices |->
        IF i \in CommittedInvoices
        THEN [number |-> InvoiceIn(i).number, company |-> InvoiceIn(i).company,
              is_offer |-> InvoiceIn(i).is_offer, offer_id |-> InvoiceIn(i).offer_id]
        ELSE NULL]

RequestsShown ==
    [k \in RutIds |->
        IF k \in CommittedRequests
        THEN [invoice |-> RequestIn(k).invoice, type |-> RequestIn(k).type]
        ELSE NULL]

Books == INSTANCE Register WITH
    documents <- DocumentsShown, requests <- RequestsShown

ImplementsRegister == Books!Spec

(* The customer of an invoice is one of the invoice's own company, however *)
(* customers are selected and changed (views/invoice/view.go:151-180).     *)
OwnCustomers ==
    \A i \in CommittedInvoices :
        LET k == InvoiceIn(i).customer IN
        /\ Live(customer[k].val)
        /\ customer[k].val.company = InvoiceIn(i).company

-----------------------------------------------------------------------------
(* What the code says of the rows of a sent invoice.  It does not keep it  *)
(* when requests overlap; Overtaken.tla says what it does keep.            *)

(* Only allow updates to invoices we haven't sent yet (view.go:195): the   *)
(* rows of an invoice that stays invoiced keep their content and number.   *)
Works(k) == << RowIn(k).invoice, RowIn(k).kind, RowIn(k).text >>

SentRowsFrozen ==
    [][\A k \in Rows : \A i \in CommittedInvoices :
          /\ InvoiceIn(i).is_invoiced /\ InvoiceIn(i)'.is_invoiced
          => /\ Live(RowIn(k)) /\ RowIn(k).invoice = i
                => Live(RowIn(k)') /\ Works(k)' = Works(k)
             /\ Live(RowIn(k)') /\ RowIn(k)'.invoice = i
                => Live(RowIn(k))]_vars
=============================================================================
