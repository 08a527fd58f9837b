------------------------------ MODULE Entities ------------------------------
(***************************************************************************)
(* The records the program stores (models/*.go, migrations/*.sql) and the  *)
(* forms its pages post.  Ids are model values; a text stands for all the  *)
(* free-form columns of a record; a date is TRUE when the column is not    *)
(* NULL.                                                                   *)
(***************************************************************************)
EXTENDS Integers, Sequences, FiniteSets, RowVersions

CONSTANTS
    Companies, Customers, Invoices, Rows, RutIds, Files,    \* ids
    Texts, Hours, Sums,                                     \* data
    FirstNumber     \* company.invoice_number: the first number to give out

-----------------------------------------------------------------------------
(* InvoiceStatus, of an offer. *)
StatusInitial  == 0
StatusOffered  == 1
StatusAccepted == 2
StatusRejected == 3

(* RUTStatus. *)
RUTPending  == 0
RUTSent     == 1
RUTPaid     == 2
RUTRejected == 3

Types == {"RUT", "ROT"}
Kinds == Types \cup {"plain"}

CustomerRecord == [company : Companies, text : Texts]

InvoiceRecord ==
    [number : Nat, company : Companies, customer : Customers,
     is_offer : BOOLEAN, offer_id : Invoices \cup {NULL}, status : 0..3,
     is_invoiced : BOOLEAN, is_paid : BOOLEAN, is_deleted : BOOLEAN,
     rut_applicable : BOOLEAN, date_invoiced : BOOLEAN, date_paid : BOOLEAN]

(* kind: the ROT/RUT service type of a row that is_rot_rut, or "plain". *)
RowRecord ==
    [invoice : Invoices, kind : Kinds, text : Texts, hours : Hours \cup {NULL}]

RutRecord ==
    [invoice : Invoices, type : Types, status : 0..3,
     date_sent : BOOLEAN, date_paid : BOOLEAN,
     requested : Sums \cup {NULL}, received : Sums \cup {NULL}]

FileRecord == {"stored"}

(* The marks NULL, Absent and Gone are nothing that can be stored, and     *)
(* NULL is no entry of the books of Register.tla either.                   *)
ASSUME EntitiesAssumption ==
    /\ FirstNumber \in [Companies -> Nat]
    /\ IsFiniteSet(Rows)
    /\ NULL \notin Requests \cup Customers \cup Invoices \cup {Absent, Gone}
    /\ NULL \notin [number : Nat, company : Companies, is_offer : BOOLEAN,
                    offer_id : Invoices \cup {NULL}]
    /\ NULL \notin [invoice : Invoices, type : Types]
    /\ \A mark \in {Absent, Gone} :
          /\ mark \notin CustomerRecord /\ mark \notin InvoiceRecord
          /\ mark \notin RowRecord /\ mark \notin RutRecord
          /\ mark \notin FileRecord /\ mark \notin Invoices

-----------------------------------------------------------------------------
(* The Go values a handler holds between two statements. *)

(* models.Invoice and models.RUT: an id that is still 0 is NULL here. *)
LocalInvoice ==
    [number : Nat, company : Companies \cup {NULL},
     customer : Customers \cup {NULL}, is_offer : BOOLEAN,
     offer_id : Invoices \cup {NULL}, status : 0..3,
     is_invoiced : BOOLEAN, is_paid : BOOLEAN, is_deleted : BOOLEAN,
     rut_applicable : BOOLEAN, date_invoiced : BOOLEAN, date_paid : BOOLEAN]

LocalRut ==
    [invoice : Invoices \cup {NULL}, type : Types, status : 0..3,
     date_sent : BOOLEAN, date_paid : BOOLEAN,
     requested : Sums \cup {NULL}, received : Sums \cup {NULL}]

LocalRows == [Rows -> RowRecord \cup {Absent}]

(* The zero values of the structs. *)
ZeroInvoice ==
    [number |-> 0, company |-> NULL, customer |-> NULL, is_offer |-> FALSE,
     offer_id |-> NULL, status |-> StatusInitial, is_invoiced |-> FALSE,
     is_paid |-> FALSE, is_deleted |-> FALSE, rut_applicable |-> FALSE,
     date_invoiced |-> FALSE, date_paid |-> FALSE]

ZeroRut ==
    [invoice |-> NULL, type |-> "RUT", status |-> RUTPending, date_sent |-> FALSE,
     date_paid |-> FALSE, requested |-> NULL, received |-> NULL]

NoRows == [k \in Rows |-> Absent]

-----------------------------------------------------------------------------
(* The requests that change something, with what their forms carry. *)

InvoiceFlags == {"invoiced", "paid"}
OfferFlags   == {"offered", "accepted", "rejected"}
FlagNames    == InvoiceFlags \cup OfferFlags \cup {"deleted"}

RowData == [kind : Kinds, text : Texts]

FlagForm ==
    [op : {"flag"}, company : Companies, is_offer : BOOLEAN,
     invoice : Invoices, flag : FlagNames, revoke : BOOLEAN, create : BOOLEAN]

(* touch: one of name, additional_info and date_due is posted.             *)
(* move: the rows whose position changes; edit: the rows the form replaces *)
(* by data; add, drop: new and deleted rows; attach, detach: files.        *)
PostForm ==
    [op : {"post"}, company : Companies, is_offer : BOOLEAN,
     invoice : Invoices \cup {NULL}, touch : BOOLEAN, date : BOOLEAN,
     rut : BOOLEAN \cup {NULL},
     customer_id : Customers \cup {NULL}, customer : Texts \cup {NULL},
     move : SUBSET Rows, edit : SUBSET Rows, data : RowData,
     add : Seq(RowData), drop : Seq(Rows), attach : Nat, detach : Seq(Files)]

AttachForm ==
    [op : {"attach"}, company : Companies, is_offer : BOOLEAN,
     invoice : Invoices, attach : Nat]

RutFlagForm ==
    [op : {"rut_flag"}, company : Companies, rut : RutIds,
     flag : {"sent", "paid", "rejected"}, amount : Sums]

RutPostForm ==
    [op : {"rut_post"}, company : Companies, rut : RutIds,
     sum : Sums, hours : SUBSET Rows, worked : Hours]

InvoiceForm == FlagForm \cup PostForm \cup AttachForm
RutForm     == RutFlagForm \cup RutPostForm
Form        == InvoiceForm \cup RutForm

IsRut(f) == f.op \in {"rut_flag", "rut_post"}

-----------------------------------------------------------------------------
(* The SQL statements a handler issues, with their argument. *)

Do(op, on) == [op |-> op, on |-> on]

RowContent == [kind : Kinds, text : Texts, hours : Hours \cup {NULL}]
RowImage   == [row : Rows, data : RowContent]

Statement ==
         [op : {"InvoiceList", "InvoiceRows", "InvoiceSave", "FileAdd"}, on : {NULL}]
    \cup [op : {"GetNextInvoiceNumber"}, on : Companies]
    \cup [op : {"CustomerList"}, on : Customers]
    \cup [op : {"CustomerSave"}, on : Texts]
    \cup [op : {"RUTGet", "RUTSave"}, on : RutIds]
    \cup [op : {"RUTList", "RUTCreate"}, on : Types]
    \cup [op : {"RowAdd"}, on : RowData]
    \cup [op : {"RowRemove"}, on : Rows]
    \cup [op : {"RowUpdate"}, on : RowImage]
    \cup [op : {"AttachmentAdd", "AttachmentRemove", "FileRemove"}, on : Files]

(* The statements are run only if the condition holds. *)
If(condition, statements) == IF condition THEN statements ELSE << >>

(* The same statement for every element of a sequence of arguments. *)
ForEach(args, op) == [n \in 1..Len(args) |-> Do(op, args[n])]

=============================================================================
