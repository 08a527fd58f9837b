---------------------------- MODULE MCOvertaken ----------------------------
(***************************************************************************)
(* The traffic of MCFaktura.tla for the checks of Overtaken.tla, and one   *)
(* kind more: an invoice, its rows and its ROT/RUT request, beside another *)
(* invoice whose post may name a row of the first.                         *)
(***************************************************************************)
EXTENDS Overtaken, MCFaktura

CONSTANT i1     \* the invoice that is sent and paid

(* The invoices are no longer alike, since only one of them is sent. *)
SentSymmetry == Permutations(Requests)

(* A row is edited in the post of either invoice, dropped and added in     *)
(* that of its own, and saved back with the hours of the request.          *)
SentForms ==
    { Create(<< Row("RUT") >>) }
    \cup { [NoPost(NULL) EXCEPT !.customer_id = k] : k \in Customers }
    \cup { SetFlag(i1, flag, FALSE) : flag \in {"invoiced", "paid"} }
    \cup { [NoPost(i) EXCEPT !.edit = {k}] : i \in Invoices, k \in Rows }
    \cup { [NoPost(i1) EXCEPT !.drop = << k >>, !.add = << Row("plain") >>] : k \in Rows }
    \cup { PostRut(q) : q \in RutIds }
=============================================================================
