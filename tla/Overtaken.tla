----------------------------- MODULE Overtaken -----------------------------
(***************************************************************************)
(* What overlapping requests can do to each other's documents.  A handler  *)
(* decides on what it has read and saves every column of it; nothing tells *)
(* it that somebody else has saved the same row meanwhile.  The promises   *)
(* below are broken by such a save, and by no other: the specification of  *)
(* Faktura.tla is extended with a history variable, which remembers of     *)
(* each request the rows that others have changed since it began, and a    *)
(* promise may be broken only by a commit that rests on such a row.        *)
(***************************************************************************)
EXTENDS FakturaProperties

VARIABLE overtaken  \* for each request, the invoices, rows and ROT/RUT requests

hvars == << vars, overtaken >>

(* The rows of table that another request than r changes in this step. *)
Changed(table, r) ==
    {k \in DOMAIN table : table[k].by # r /\ table[k].val # table'[k].val}

Remember ==
    overtaken' =
        [r \in Requests |->
            IF Active(r)'
            THEN overtaken[r] \cup Changed(invoice, r) \cup Changed(invoice_row, r)
                              \cup Changed(rut_requests, r)
            ELSE {}]

HInit == Init /\ overtaken = [r \in Requests |-> {}]

HNext == Next /\ Remember

HSpec == HInit /\ [][HNext]_hvars

-----------------------------------------------------------------------------
(* The date of a payment is lost only by the save of a copy of the invoice *)
(* that was overtaken: no handler clears it, and export.go:74 formats it   *)
(* for any request to the agency (models/invoice.go:553-577, flag.go:72).  *)
PaymentDateKept ==
    [][\A i \in CommittedInvoices :
          InvoiceIn(i).date_paid /\ ~InvoiceIn(i)'.date_paid
          => i \in overtaken[invoice[i].by]]_hvars

(* What is deleted is found by no query any more (models/invoice.go:432):  *)
(* a deleted invoice is changed, or brought back, only by a request that   *)
(* had found it before and was overtaken by the deletion.                  *)
DeletedStays ==
    [][\A i \in CommittedInvoices :
          InvoiceIn(i).is_deleted /\ InvoiceIn(i)' # InvoiceIn(i)
          => i \in overtaken[invoice[i].by]]_hvars

(* Only allow changes if RUT request is not already sent (rut.go:115): a   *)
(* request that was sent is pending again, or asks for another sum, only   *)
(* by the save of a copy that was overtaken.                               *)
SentRequestStays ==
    [][\A k \in CommittedRequests :
          /\ RequestIn(k).status # RUTPending
          /\ \/ RequestIn(k)'.status = RUTPending
             \/ RequestIn(k)'.requested # RequestIn(k).requested
          => k \in overtaken[rut_requests[k].by]]_hvars

(* Only allow updates to invoices we haven't sent yet (view.go:195).  What *)
(* is written in the rows of an invoice that stays sent changes only by    *)
(* - a request that read the invoice, or the row, before somebody else     *)
(*   changed it,                                                           *)
(* - or the post of another invoice that names the row: InvoiceRowUpdate   *)
(*   looks at the id of the row alone (models/invoice.go:580-591).         *)
SentRows(i) == {k \in CommittedRows : RowIn(k).invoice = i}

Rewritten(i, k) ==
    \/ (k \in SentRows(i)) # (k \in SentRows(i))'
    \/ k \in SentRows(i) /\ Works(k)' # Works(k)

NamedElsewhere(r, i, k) ==
    form[r].op = "post" /\ form[r].invoice # i /\ k \in form[r].edit

SentRowsStay ==
    [][\A i \in CommittedInvoices, k \in Rows :
          /\ InvoiceIn(i).is_invoiced /\ InvoiceIn(i)'.is_invoiced
          /\ Rewritten(i, k)
          => LET r == invoice_row[k].by IN
             \/ {i, k} \cap overtaken[r] # {}
             \/ NamedElsewhere(r, i, k)]_hvars
=============================================================================
