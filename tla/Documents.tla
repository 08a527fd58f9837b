----------------------------- MODULE Documents -----------------------------
(***************************************************************************)
(* The life of one invoice and its ROT/RUT requests, with amounts.         *)
(* Handlers run one after the other here, each from its first read to its  *)
(* commit: what happens between them is the matter of Faktura, where       *)
(* amounts are model values.  What the pages and the files say, Exports,   *)
(* is a function of the state after any of these steps.  That a document   *)
(* is deleted is left out: it only takes it from the lists.                *)
(***************************************************************************)
EXTENDS Exports

CONSTANTS
    NewRows,        (* rows that a form brings                               *)
    Numbers,        (* identity numbers that a form brings                   *)
    Sums,           (* sums that a form asks for, in kr; 0 when it has none  *)
    HoursGiven,     (* hours that a form brings                              *)
    MaxRows         (* bound on the rows of the invoice                      *)

ASSUME DocumentsAssumption ==
    /\ \A row \in NewRows : row \in Row /\ row.hours = NULL
    /\ Numbers \subseteq PNR
    /\ Sums \subseteq Int
    /\ HoursGiven \subseteq Int
    /\ MaxRows \in Nat

VARIABLES
    invoice,        (* the invoice with its rows and the number of its       *)
                    (* customer, NULL before it is created                   *)
    rut             (* its request of each type, NULL where there is none    *)

vars == << invoice, rut >>

-----------------------------------------------------------------------------
(* A new request: status 0, and no sum until somebody posts one. *)
NewRequestNoStatus == [status |-> NULL, requested_sum |-> NULL]

NewRequest == [status |-> "pending", requested_sum |-> NULL]

(* createROTRUTFromInvoice: one request for each type of work that has none. *)
Requested(rows) ==
    [type \in Types |->
        IF rut[type] = NULL /\ \E k \in DOMAIN rows : OfType(type, rows[k])
        THEN NewRequest ELSE rut[type]]

(* The rows of an invoice that was sent are not written by its own form.   *)
RowsOpen == ~invoice.is_invoiced

WithoutRow(rows, k) ==
    [n \in 1 .. Len(rows) - 1 |-> IF n < k THEN rows[n] ELSE rows[n + 1]]

-----------------------------------------------------------------------------
Init ==
    /\ invoice = NULL
    /\ rut = [type \in Types |-> NULL]

(* View.HandlePost: its customer, whether it is applicable for ROT/RUT,    *)
(* and its rows, which are left alone once the invoice is sent.            *)
PostNew(number, applicable, rows) ==
    /\ invoice = NULL
    /\ invoice' = [rows |-> rows, rut_applicable |-> applicable, pnr |-> number,
                   is_invoiced |-> FALSE, is_paid |-> FALSE, date_paid |-> FALSE]
    /\ UNCHANGED rut

Post(number, applicable, rows) ==
    /\ invoice # NULL
    /\ invoice' = [invoice EXCEPT !.pnr = number, !.rut_applicable = applicable,
                                  !.rows = IF RowsOpen THEN rows ELSE @]
    /\ UNCHANGED rut

(* The row lists that a form with one change leaves behind.  A row that is *)
(* added or edited has no hours: InvoiceRowAdd stores none, and the row of *)
(* the page has no field for them.                                         *)
Added(rows) ==
    IF Len(rows) < MaxRows THEN { Append(rows, row) : row \in NewRows } ELSE {}

Edited(rows) == { [rows EXCEPT ![k] = row] : k \in DOMAIN rows, row \in NewRows }

Removed(rows) == { WithoutRow(rows, k) : k \in DOMAIN rows }

(* View.HandlePost of another invoice, one that is open, with a form that  *)
(* names a row of this one: InvoiceRowUpdate goes by the id of the row and *)
(* nothing else, so it is written even when this invoice is sent.          *)
PostElsewhere(rows) ==
    /\ invoice # NULL
    /\ invoice' = [invoice EXCEPT !.rows = rows]
    /\ UNCHANGED rut

(* Flag.HandleGet of the invoice.  The dates stay when a flag is revoked,  *)
(* that of the sending is read by nobody here.                             *)
FlagInvoiced(val) ==
    /\ invoice # NULL
    /\ invoice' = [invoice EXCEPT !.is_invoiced = val]
    /\ UNCHANGED rut

FlagPaid(val) ==
    /\ invoice # NULL
    /\ invoice' = [invoice EXCEPT !.is_paid = val, !.date_paid = TRUE]
    /\ rut' = IF invoice.rut_applicable /\ val THEN Requested(invoice.rows) ELSE rut

(* rut.View.HandlePost: the sum and the hours that were filled in.  They   *)
(* are stored, by RUTSave, while the request is pending.                   *)
PostRequest(type, sum, rows) ==
    /\ rut[type] # NULL
    /\ IF rut[type].status = "pending"
       THEN /\ rut' = [rut EXCEPT ![type].requested_sum = sum]
            /\ invoice' = [invoice EXCEPT !.rows = rows]
       ELSE UNCHANGED vars

WithHours(rows) ==
    { [rows EXCEPT ![k].hours = hours] : k \in DOMAIN rows, hours \in HoursGiven }

(* rut.Flag.HandlePost with "sent"; the later states of a request are none *)
(* of what the pages and files say.                                        *)
FlagSent(type) ==
    /\ rut[type] # NULL
    /\ rut' = [rut EXCEPT ![type].status = "sent"]
    /\ UNCHANGED invoice

-----------------------------------------------------------------------------
Next ==
    \/ \E number \in Numbers, applicable \in BOOLEAN, rows \in {<< >>} \cup Added(<< >>) :
          PostNew(number, applicable, rows)
    \/ /\ invoice # NULL
       /\ \/ \E number \in Numbers, applicable \in BOOLEAN :
                Post(number, applicable, invoice.rows)
          \/ \E rows \in Added(invoice.rows) \cup Edited(invoice.rows) \cup Removed(invoice.rows) :
                Post(invoice.pnr, invoice.rut_applicable, rows)
          \/ \E rows \in Edited(invoice.rows) : PostElsewhere(rows)
          \/ \E val \in BOOLEAN : FlagInvoiced(val) \/ FlagPaid(val)
          \/ \E type \in Types : FlagSent(type)
          \/ \E type \in Types, sum \in Sums,
                rows \in {invoice.rows} \cup WithHours(invoice.rows) :
                PostRequest(type, sum, rows)

Spec == Init /\ [][Next]_vars
=============================================================================
