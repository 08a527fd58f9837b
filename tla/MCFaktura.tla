----------------------------- MODULE MCFaktura -----------------------------
(***************************************************************************)
(* Small sets of requests for the checks of Faktura.tla.  A cfg gives      *)
(* Forms one of the sets below: each of them is one kind of traffic.       *)
(***************************************************************************)
EXTENDS FakturaProperties, TLC

CONSTANTS c1, c2, text, h, s

MCFirstNumber == [c \in Companies |-> IF c = c1 THEN 1 ELSE 3]

Symmetry ==
    Permutations(Requests) \cup Permutations(Customers) \cup Permutations(Invoices)
    \cup Permutations(Rows) \cup Permutations(RutIds) \cup Permutations(Files)

-----------------------------------------------------------------------------
Row(kind) == [kind |-> kind, text |-> text]

(* A post that changes nothing yet: the forms below fill in what they post. *)
NoPost(i) ==
    [op |-> "post", company |-> c1, is_offer |-> FALSE, invoice |-> i,
     touch |-> FALSE, date |-> FALSE, rut |-> NULL,
     customer_id |-> NULL, customer |-> NULL,
     move |-> {}, edit |-> {}, data |-> Row("plain"),
     add |-> << >>, drop |-> << >>, attach |-> 0, detach |-> << >>]

Create(kinds) ==
    [NoPost(NULL) EXCEPT !.rut = TRUE, !.customer = text, !.add = kinds]

CreateOffer(kinds) == [Create(kinds) EXCEPT !.is_offer = TRUE]

SetFlag(i, flag, revoke) ==
    [op |-> "flag", company |-> c1, is_offer |-> FALSE, invoice |-> i,
     flag |-> flag, revoke |-> revoke, create |-> FALSE]

SetRutFlag(q, flag) ==
    [op |-> "rut_flag", company |-> c1, rut |-> q, flag |-> flag, amount |-> s]

PostRut(q) ==
    [op |-> "rut_post", company |-> c1, rut |-> q, sum |-> s,
     hours |-> Rows, worked |-> h]

-----------------------------------------------------------------------------
(* Payments, and the ROT/RUT requests that come out of them, of an invoice *)
(* that may be deleted meanwhile; what is posted of a request is its sum.  *)
RutForms ==
    { Create(<< Row("RUT") >>) }
    \cup { [NoPost(i) EXCEPT !.rut = FALSE] : i \in Invoices }
    \cup { SetFlag(i, "paid", revoke) : i \in Invoices, revoke \in BOOLEAN }
    \cup { SetFlag(i, "deleted", FALSE) : i \in Invoices }
    \cup { SetRutFlag(q, "sent") : q \in RutIds }
    \cup { [PostRut(q) EXCEPT !.hours = {}] : q \in RutIds }

(* Attachments of an invoice. *)
FileForms ==
    { [Create(<< >>) EXCEPT !.attach = 1] }
    \cup { [op |-> "attach", company |-> c1, is_offer |-> FALSE, invoice |-> i,
            attach |-> 1] : i \in Invoices }
    \cup { [NoPost(i) EXCEPT !.attach = 1, !.detach = << k >>] : i \in Invoices, k \in Files }
    \cup { [NoPost(i) EXCEPT !.detach = << k, k >>] : i \in Invoices, k \in Files }

(* One invoice with both types of work, paid again and again, while a post *)
(* removes its rows and another one writes them, its customer and itself.  *)
PayForms ==
    { Create(<< Row("RUT"), Row("ROT") >>) }
    \cup { SetFlag(i, "paid", revoke) : i \in Invoices, revoke \in BOOLEAN }
    \cup { [NoPost(i) EXCEPT !.drop = SetToSeq(Rows)] : i \in Invoices }
    \cup { [NoPost(i) EXCEPT !.customer_id = k, !.customer = text, !.move = Rows] :
             i \in Invoices, k \in Customers }

(* A row edited while the invoice is sent. *)
SendForms ==
    { Create(<< Row("RUT") >>) }
    \cup { SetFlag(i, "invoiced", FALSE) : i \in Invoices }
    \cup { [NoPost(i) EXCEPT !.edit = {k}] : i \in Invoices, k \in Rows }

(* Two companies that number their invoices and offers, and invoices made  *)
(* from offers, up to the requests that come out of them.                  *)
OfferFlag(i, flag, create) ==
    [SetFlag(i, flag, FALSE) EXCEPT !.is_offer = TRUE, !.create = create]

BookForms ==
    { CreateOffer(<< Row("RUT"), Row("plain") >>), [Create(<< >>) EXCEPT !.company = c2] }
    \cup { OfferFlag(i, flag, TRUE) : i \in Invoices, flag \in {"accepted", "rejected"} }
    \cup { SetFlag(i, "paid", FALSE) : i \in Invoices }
    \cup { SetRutFlag(q, "sent") : q \in RutIds }

(* Two companies and their customers. *)
OwnForms ==
    UNION { { [Create(<< >>) EXCEPT !.company = c],
              [NoPost(NULL) EXCEPT !.company = c, !.touch = TRUE] } : c \in Companies }
    \cup { [NoPost(i) EXCEPT !.company = c, !.customer_id = k, !.customer = data] :
             i \in Invoices \cup {NULL}, c \in Companies, k \in Customers,
             data \in Texts \cup {NULL} }

(* Both of these records that belong to an invoice. *)
RecordForms == OwnForms \cup FileForms
=============================================================================
