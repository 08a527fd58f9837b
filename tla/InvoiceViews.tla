---------------------------- MODULE InvoiceViews ----------------------------
(***************************************************************************)
(* What the handlers of views/invoice do between their SQL statements:     *)
(* from the form and from what they read, the invoice they are going to    *)
(* save and the statements they are going to run, in order.  A handler     *)
(* that walks a Go map has one script for every order of the walk.         *)
(***************************************************************************)
EXTENDS Entities, SequencesExt

InvoiceSaveStmt == << Do("InvoiceSave", NULL) >>

Content(row) == [kind |-> row.kind, text |-> row.text, hours |-> row.hours]

(* The rows of the invoice in hand, without those that are not its own. *)
Present(rows) == {k \in Rows : rows[k] # Absent}

-----------------------------------------------------------------------------
(* Flag.HandlePost: the flag is one that this kind of document has. *)
ValidFlag(f) ==
    f.flag \in {"deleted"} \cup (IF f.is_offer THEN OfferFlags ELSE InvoiceFlags)

(* The status an offer gets with a flag. *)
StatusOf ==
    [offered |-> StatusOffered, accepted |-> StatusAccepted, rejected |-> StatusRejected]

(* Mutant: revoking a payment also clears its date. *)
FlaggedClearingDate(f, inv) ==
    [inv EXCEPT
        !.is_invoiced = IF f.flag = "invoiced" THEN ~f.revoke ELSE @,
        !.is_paid     = IF f.flag = "paid" THEN ~f.revoke ELSE @,
        !.date_paid   = IF f.flag = "paid" THEN ~f.revoke ELSE @]

(* The flag and its date are set whatever the state of the invoice was. *)
Flagged(f, inv) ==
    [inv EXCEPT
        !.is_invoiced   = IF f.flag = "invoiced" THEN ~f.revoke ELSE @,
        !.date_invoiced = @ \/ f.flag = "invoiced",
        !.is_paid       = IF f.flag = "paid" THEN ~f.revoke ELSE @,
        !.date_paid     = @ \/ f.flag = "paid",
        !.is_deleted    = IF f.flag = "deleted" THEN ~f.revoke ELSE @,
        !.status        = IF f.flag \in OfferFlags THEN StatusOf[f.flag] ELSE @]

ServiceTypes(rows) == {rows[k].kind : k \in Present(rows)} \cap Types

(* Mutant: requests when a payment is revoked. *)
RequestTypesWhenRevoked(f, inv, rows) ==
    IF f.flag = "paid" /\ inv.rut_applicable THEN ServiceTypes(rows) ELSE {}

(* createROTRUTFromInvoice asks for one request of each type among rows. *)
RequestTypes(f, inv, rows) ==
    IF f.flag = "paid" /\ ~f.revoke /\ inv.rut_applicable
    THEN ServiceTypes(rows)
    ELSE {}

(* Mutant: any answer to the offer makes an invoice. *)
ConvertsAny(f) == f.create

(* An accepted offer can be turned into an invoice with the same rows. *)
Converts(f) == f.flag = "accepted" /\ f.create

(* Mutant: the invoice is saved after its requests. *)
FlagScriptsSaveLast(f, inv, rows) ==
    { ForEach(types, "RUTList") \o InvoiceSaveStmt :
        types \in SetToSeqs(RequestTypes(f, inv, rows)) }

(* The new invoice is inserted, with the rows of the offer. *)
Conversion(f, rows, copied) ==
       << Do("GetNextInvoiceNumber", f.company) >> \o InvoiceSaveStmt
    \o [n \in 1..Len(copied) |->
           Do("RowAdd", [kind |-> rows[copied[n]].kind, text |-> rows[copied[n]].text])]

FlagScripts(f, inv, rows) ==
    {    InvoiceSaveStmt
      \o ForEach(types, "RUTList")
      \o If(Converts(f), Conversion(f, rows, copied)) :
      types \in SetToSeqs(RequestTypes(f, inv, rows)),
      copied \in SetToSeqs(Present(rows)) }

(* newInv: a copy of the offer, to be inserted as invoice number n. *)
ConvertedInvoice(offer, id, n) ==
    [offer EXCEPT !.number = n, !.status = StatusInitial,
                  !.is_offer = FALSE, !.offer_id = id]

-----------------------------------------------------------------------------
(* View.HandlePost for a new document. *)
NewInvoice(f, n) ==
    [ZeroInvoice EXCEPT !.number = n, !.company = f.company, !.is_offer = f.is_offer]

(* The form selects another customer ... *)
SelectsCustomer(f, inv) == f.customer_id # NULL /\ f.customer_id # inv.customer

(* ... or carries customer fields and no customer id: a new customer. *)
RenewsCustomer(f, inv) ==
    f.customer_id = NULL /\ f.customer # NULL /\ inv.customer # NULL

Posted(f, inv) ==
    [inv EXCEPT !.date_invoiced  = @ \/ f.date,
                !.rut_applicable = IF f.rut = NULL THEN @ ELSE f.rut,
                !.customer       = IF RenewsCustomer(f, inv) THEN NULL ELSE @]

(* The statements are run only if something but the rows was posted. *)
Updates(f, inv) ==
    \/ f.invoice = NULL \/ f.touch \/ f.date \/ f.rut # NULL
    \/ SelectsCustomer(f, inv) \/ RenewsCustomer(f, inv)

(* updateRows: new rows, then deletes, then the changed rows in the order  *)
(* of a Go map.  A moved row is written back as it was read; an edited one *)
(* loses its hours, which the form does not carry.                         *)
ChangedRows(f, rows) ==
    ((f.move \cap Present(rows)) \cup f.edit) \ ToSet(f.drop)

ChangedRow(f, rows, k) ==
    Do("RowUpdate",
       [row  |-> k,
        data |-> IF k \in f.edit
                 THEN [kind |-> f.data.kind, text |-> f.data.text, hours |-> NULL]
                 ELSE Content(rows[k])])

RowScript(f, rows, changed) ==
    ForEach(f.add, "RowAdd") \o ForEach(f.drop, "RowRemove")
    \o [n \in 1..Len(changed) |-> ChangedRow(f, rows, changed[n])]

FileScript(f) == [n \in 1..f.attach |-> Do("FileAdd", NULL)]

(* Mutant: no check. *)
RowsAlwaysOpen(inv) == TRUE

(* The customer, then the invoice. *)
SaveScript(f, inv) ==
       If(SelectsCustomer(f, inv), << Do("CustomerList", f.customer_id) >>)
    \o If(f.customer # NULL, << Do("CustomerSave", f.customer) >>)
    \o If(Updates(f, inv), InvoiceSaveStmt)

(* Only allow updates to invoices we haven't sent yet: the rows are left   *)
(* alone when the invoice that was read is invoiced.                       *)
RowsOpen(inv) == ~inv.is_invoiced

PostScripts(f, inv, rows) ==
    {    SaveScript(f, inv)
      \o If(RowsOpen(inv), RowScript(f, rows, changed))
      \o FileScript(f)
      \o ForEach(f.detach, "AttachmentRemove") :
      changed \in SetToSeqs(ChangedRows(f, rows)) }

=============================================================================
