---------------------------- MODULE FakturaTypes ----------------------------
(***************************************************************************)
(* Lemmas: the operators of Faktura.tla are well typed, and each of its    *)
(* actions keeps the types.                                                *)
(***************************************************************************)
EXTENDS FakturaProperties, SequenceTheorems, FiniteSetTheorems, TLAPS

(* A record of an INSERT, UPDATE or DELETE keeps a table well typed. *)
LEMMA PutType ==
    ASSUME NEW S, NEW I, NEW t \in [I -> Versions(S)],
           NEW r \in Requests, NEW k, NEW x \in S \cup {Gone}
    PROVE  Put(t, r, k, x) \in [I -> Versions(S)]
BY DEF Put, Versions

(* The end of a transaction keeps a table well typed. *)
LEMMA EndedType ==
    ASSUME NEW S, NEW I, NEW t \in [I -> Versions(S)], NEW r, NEW commit \in BOOLEAN
    PROVE  Ended(t, r, commit) \in [I -> Versions(S)]
BY DEF Ended, Versions, Settled

(* What a statement finds in a row, when it finds one, is a record. *)
LEMMA SeesType ==
    ASSUME NEW S, NEW I, NEW t \in [I -> Versions(S)], NEW r, NEW k \in I,
           Live(Sees(t, r)[k])
    PROVE  Sees(t, r)[k] \in S
BY DEF Sees, Versions, Live

(* The argument of a statement is what the statement acts on. *)
LEMMA StatementArgument ==
    ASSUME NEW s \in Statement
    PROVE  /\ s.op = "GetNextInvoiceNumber" => s.on \in Companies
           /\ s.op = "CustomerList" => s.on \in Customers
           /\ s.op = "CustomerSave" => s.on \in Texts
           /\ s.op \in {"RUTGet", "RUTSave"} => s.on \in RutIds
           /\ s.op \in {"RUTList", "RUTCreate"} => s.on \in Types
           /\ s.op = "RowAdd" => s.on \in RowData
           /\ s.op = "RowRemove" => s.on \in Rows
           /\ s.op = "RowUpdate" => s.on \in RowImage
           /\ s.op \in {"AttachmentAdd", "AttachmentRemove", "FileRemove"} => s.on \in Files
BY DEF Statement

-----------------------------------------------------------------------------
(* The scripts of handlers are sequences of statements. *)

LEMMA FunctionIsSeq ==
    ASSUME NEW S, NEW n \in Nat, NEW q \in [1..n -> S]
    PROVE  q \in Seq(S)
BY SeqDef

LEMMA OrdersType ==
    ASSUME NEW S, IsFiniteSet(S), NEW q \in SetToSeqs(S)
    PROVE  q \in Seq(S)
<1>1. Cardinality(S) \in Nat
    BY FS_CardinalityType
<1>2. q \in [1..Cardinality(S) -> S]
    BY DEF SetToSeqs
<1> QED BY <1>1, <1>2, FunctionIsSeq

(* The statements that neither search for nor make ROT/RUT requests, and do *)
(* not end the reading of an invoice.                                      *)
Plain == {s \in Statement : s.op \notin {"RUTList", "RUTCreate", "InvoiceRows"}}

LEMMA PlainIsScript == Seq(Plain) \subseteq Seq(Statement)
BY SeqMonotonic DEF Plain

(* The statements of the scripts that handlers compute: the others belong  *)
(* to the opening, or are put before the rest of a script.                 *)
Issued ==
    {s \in Statement : s.op \notin {"RUTGet", "RUTSave", "AttachmentAdd", "FileRemove"}}

Handled == Plain \cap Issued

(* Those of the handlers of views/rut. *)
RutHandled == {s \in Plain : s.op \in {"RUTSave", "RowUpdate"}}

LEMMA HandledIsPlain ==
    /\ Seq(RutHandled) \subseteq Seq(Plain)
    /\ Seq(Handled) \subseteq Seq(Plain) /\ Seq(Handled) \subseteq Seq(Issued)
    /\ Seq(Issued) \subseteq Seq(Statement) /\ Seq(Plain) \subseteq Seq(Statement)
BY SeqMonotonic DEF RutHandled, Handled, Issued, Plain

LEMMA ForEachType ==
    ASSUME NEW S, NEW T, NEW args \in Seq(T), NEW op, \A x \in T : Do(op, x) \in S
    PROVE  ForEach(args, op) \in Seq(S)
<1>1. Len(args) \in Nat /\ \A n \in 1..Len(args) : args[n] \in T
    BY LenProperties, ElementOfSeq
<1>2. ForEach(args, op) \in [1..Len(args) -> S]
    BY <1>1 DEF ForEach
<1> QED BY <1>1, <1>2, FunctionIsSeq

LEMMA IfType ==
    ASSUME NEW S, NEW condition, NEW q, condition => q \in Seq(S)
    PROVE  If(condition, q) \in Seq(S)
BY EmptySeq DEF If

(* Statements by the type of their argument. *)
LEMMA DoType ==
    /\ \A op \in {"InvoiceList", "InvoiceSave", "FileAdd"} : Do(op, NULL) \in Plain
    /\ Do("InvoiceRows", NULL) \in Statement
    /\ \A c \in Companies : Do("GetNextInvoiceNumber", c) \in Plain
    /\ \A k \in Customers : Do("CustomerList", k) \in Plain
    /\ \A x \in Texts : Do("CustomerSave", x) \in Plain
    /\ \A op \in {"RUTGet", "RUTSave"}, k \in RutIds : Do(op, k) \in Plain
    /\ \A op \in {"RUTList", "RUTCreate"}, type \in Types : Do(op, type) \in Statement
    /\ \A x \in RowData : Do("RowAdd", x) \in Plain
    /\ \A k \in Rows : Do("RowRemove", k) \in Plain
    /\ \A x \in RowImage : Do("RowUpdate", x) \in Plain
    /\ \A op \in {"AttachmentAdd", "AttachmentRemove", "FileRemove"}, k \in Files :
          Do(op, k) \in Plain
    /\ Plain \subseteq Statement
BY DEF Do, Statement, Plain

LEMMA HandledType ==
    /\ \A op \in {"InvoiceSave", "FileAdd"} : Do(op, NULL) \in Handled
    /\ \A c \in Companies : Do("GetNextInvoiceNumber", c) \in Handled
    /\ \A k \in Customers : Do("CustomerList", k) \in Handled
    /\ \A x \in Texts : Do("CustomerSave", x) \in Handled
    /\ \A k \in RutIds : Do("RUTSave", k) \in RutHandled
    /\ \A type \in Types : Do("RUTList", type) \in Issued
    /\ \A x \in RowData : Do("RowAdd", x) \in Handled
    /\ \A k \in Rows : Do("RowRemove", k) \in Handled
    /\ \A x \in RowImage : Do("RowUpdate", x) \in RutHandled /\ Do("RowUpdate", x) \in Handled
    /\ \A k \in Files : Do("AttachmentRemove", k) \in Handled
BY DEF Do, Statement, Plain, Issued, Handled, RutHandled

LEMMA InvoiceGetType == InvoiceGet \in Seq(Statement)
<1>1. << Do("InvoiceList", NULL), Do("InvoiceRows", NULL) >> \in Seq(Statement)
    BY DoType
<1> QED BY <1>1 DEF InvoiceGet

LEMMA OpeningType ==
    ASSUME NEW f \in Form
    PROVE  Opening(f) \in Seq(Statement)
<1>1. CASE IsRut(f)
    <2>1. f.rut \in RutIds
        BY <1>1 DEF Form, InvoiceForm, RutForm, FlagForm, PostForm, AttachForm,
                    RutFlagForm, RutPostForm, IsRut
    <2>2. << Do("RUTGet", f.rut) >> \in Seq(Statement)
        BY <2>1, DoType
    <2>3. << Do("RUTGet", f.rut) >> \o InvoiceGet \in Seq(Statement)
        BY <2>2, InvoiceGetType, ConcatProperties
    <2> QED BY <1>1, <2>3 DEF Opening
<1>2. CASE ~IsRut(f)
    <2>1. f.company \in Companies
        BY <1>2 DEF Form, InvoiceForm, RutForm, FlagForm, PostForm, AttachForm,
                    RutFlagForm, RutPostForm, IsRut
    <2>2. << Do("GetNextInvoiceNumber", f.company) >> \in Seq(Statement)
        BY <2>1, DoType
    <2> QED BY <1>2, <2>2, InvoiceGetType DEF Opening
<1> QED BY <1>1, <1>2

LEMMA PresentFinite ==
    ASSUME NEW rws \in LocalRows
    PROVE  IsFiniteSet(Present(rws)) /\ Present(rws) \subseteq Rows
BY EntitiesAssumption, FS_Subset DEF Present

(* The content of a row that is present. *)
LEMMA PresentType ==
    ASSUME NEW rws \in LocalRows, NEW k \in Present(rws)
    PROVE  rws[k] \in RowRecord
BY DEF Present, LocalRows

LEMMA TypesFinite == IsFiniteSet(Types)
<1>1. IsFiniteSet({"RUT"} \cup {"ROT"})
    BY FS_Singleton, FS_Union
<1> QED BY <1>1, Types = {"RUT"} \cup {"ROT"} DEF Types

LEMMA ConversionType ==
    ASSUME NEW f \in FlagForm, NEW rws \in LocalRows, NEW copied \in SetToSeqs(Present(rws))
    PROVE  Conversion(f, rws, copied) \in Seq(Handled)
<1> DEFINE RowAdds == [n \in 1..Len(copied) |->
               Do("RowAdd", [kind |-> rws[copied[n]].kind, text |-> rws[copied[n]].text])]
<1>1. copied \in Seq(Present(rws))
    BY PresentFinite, OrdersType
<1>2. Len(copied) \in Nat /\ \A n \in 1..Len(copied) : copied[n] \in Present(rws)
    BY <1>1, LenProperties, ElementOfSeq
<1>3. \A k \in Present(rws) : [kind |-> rws[k].kind, text |-> rws[k].text] \in RowData
    BY PresentType DEF RowRecord, RowData
<1>4. RowAdds \in Seq(Handled)
    BY <1>2, <1>3, HandledType, FunctionIsSeq
<1>5. << Do("GetNextInvoiceNumber", f.company) >> \in Seq(Handled)
    BY HandledType DEF FlagForm
<1>6. InvoiceSaveStmt \in Seq(Handled)
    BY HandledType DEF InvoiceSaveStmt
<1>7. Conversion(f, rws, copied)
      = << Do("GetNextInvoiceNumber", f.company) >> \o InvoiceSaveStmt \o RowAdds
    BY DEF Conversion
<1> HIDE DEF RowAdds
<1> QED BY <1>4, <1>5, <1>6, <1>7, ConcatProperties

LEMMA RUTListsType ==
    ASSUME NEW f, NEW x, NEW rws, NEW types \in SetToSeqs(RequestTypes(f, x, rws))
    PROVE  types \in Seq(Types) /\ ForEach(types, "RUTList") \in Seq(Issued)
<1>1. RequestTypes(f, x, rws) \subseteq Types
    BY DEF RequestTypes, ServiceTypes
<1>2. IsFiniteSet(RequestTypes(f, x, rws))
    BY <1>1, TypesFinite, FS_Subset
<1>3. types \in Seq(Types)
    BY <1>1, <1>2, OrdersType, SeqMonotonic
<1> QED BY <1>3, HandledType, ForEachType

LEMMA FlagScriptsType ==
    ASSUME NEW f \in FlagForm, NEW x, NEW rws \in LocalRows, NEW q \in FlagScripts(f, x, rws)
    PROVE  q \in Seq(Issued)
<1>1. PICK types \in SetToSeqs(RequestTypes(f, x, rws)), copied \in SetToSeqs(Present(rws)) :
         q = InvoiceSaveStmt \o ForEach(types, "RUTList")
             \o If(Converts(f), Conversion(f, rws, copied))
    BY DEF FlagScripts
<1>2. InvoiceSaveStmt \in Seq(Issued)
    BY HandledType DEF InvoiceSaveStmt, Handled
<1>3. If(Converts(f), Conversion(f, rws, copied)) \in Seq(Issued)
    BY ConversionType, HandledIsPlain, IfType
<1> QED BY <1>1, <1>2, <1>3, RUTListsType, ConcatProperties

LEMMA RowScriptType ==
    ASSUME NEW f \in PostForm, NEW rws \in LocalRows,
           NEW changed \in SetToSeqs(ChangedRows(f, rws))
    PROVE  RowScript(f, rws, changed) \in Seq(Handled)
<1> DEFINE Changes == [n \in 1..Len(changed) |-> ChangedRow(f, rws, changed[n])]
<1>1. ForEach(f.add, "RowAdd") \in Seq(Handled)
    BY HandledType, ForEachType DEF PostForm
<1>2. ForEach(f.drop, "RowRemove") \in Seq(Handled)
    BY HandledType, ForEachType DEF PostForm
<1>3. Changes \in Seq(Handled)
    <2>1. ChangedRows(f, rws) \subseteq Rows
        BY PresentFinite DEF ChangedRows, PostForm
    <2>2. \A k \in ChangedRows(f, rws) : k \in f.edit \/ k \in Present(rws)
        BY DEF ChangedRows
    <2>3. ASSUME NEW k \in ChangedRows(f, rws) PROVE ChangedRow(f, rws, k) \in Handled
        <3>1. CASE k \in f.edit
            <4>1. [row |-> k, data |-> [kind |-> f.data.kind, text |-> f.data.text,
                                        hours |-> NULL]] \in RowImage
                BY <2>1 DEF PostForm, RowData, RowImage, RowContent
            <4> QED BY <3>1, <4>1, HandledType DEF ChangedRow
        <3>2. CASE k \notin f.edit
            <4>1. [row |-> k, data |-> Content(rws[k])] \in RowImage
                BY <2>1, <2>2, <3>2, PresentType DEF RowRecord, RowImage, RowContent, Content
            <4> QED BY <3>2, <4>1, HandledType DEF ChangedRow
        <3> QED BY <3>1, <3>2
    <2>4. changed \in Seq(ChangedRows(f, rws))
        BY <2>1, EntitiesAssumption, FS_Subset, OrdersType
    <2>5. Len(changed) \in Nat /\ \A n \in 1..Len(changed) : changed[n] \in ChangedRows(f, rws)
        BY <2>4, LenProperties, ElementOfSeq
    <2> QED BY <2>3, <2>5, FunctionIsSeq
<1>4. RowScript(f, rws, changed)
      = ForEach(f.add, "RowAdd") \o ForEach(f.drop, "RowRemove") \o Changes
    BY DEF RowScript
<1> HIDE DEF Changes
<1> QED BY <1>1, <1>2, <1>3, <1>4, ConcatProperties

LEMMA FileScriptType ==
    ASSUME NEW f, f.attach \in Nat
    PROVE  FileScript(f) \in Seq(Handled)
<1>1. FileScript(f) \in [1..f.attach -> Handled]
    BY HandledType DEF FileScript
<1> QED BY <1>1, FunctionIsSeq

LEMMA PostScriptsType ==
    ASSUME NEW f \in PostForm, NEW x, NEW rws \in LocalRows, NEW q \in PostScripts(f, x, rws)
    PROVE  q \in Seq(Handled)
<1>1. PICK changed \in SetToSeqs(ChangedRows(f, rws)) :
         q = SaveScript(f, x) \o If(RowsOpen(x), RowScript(f, rws, changed))
             \o FileScript(f) \o ForEach(f.detach, "AttachmentRemove")
    BY DEF PostScripts
<1>2. If(SelectsCustomer(f, x), << Do("CustomerList", f.customer_id) >>) \in Seq(Handled)
    <2>1. SelectsCustomer(f, x) => << Do("CustomerList", f.customer_id) >> \in Seq(Handled)
        BY HandledType DEF SelectsCustomer, PostForm
    <2> QED BY <2>1, IfType
<1>3. If(f.customer # NULL, << Do("CustomerSave", f.customer) >>) \in Seq(Handled)
    <2>1. f.customer # NULL => << Do("CustomerSave", f.customer) >> \in Seq(Handled)
        BY HandledType DEF PostForm
    <2> QED BY <2>1, IfType
<1>4. If(Updates(f, x), InvoiceSaveStmt) \in Seq(Handled)
    <2>1. InvoiceSaveStmt \in Seq(Handled)
        BY HandledType DEF InvoiceSaveStmt
    <2> QED BY <2>1, IfType
<1>5. If(RowsOpen(x), RowScript(f, rws, changed)) \in Seq(Handled)
    BY RowScriptType, IfType
<1>6. FileScript(f) \in Seq(Handled)
    BY FileScriptType DEF PostForm
<1>7. ForEach(f.detach, "AttachmentRemove") \in Seq(Handled)
    BY HandledType, ForEachType DEF PostForm
<1>8. SaveScript(f, x) \in Seq(Handled)
    BY <1>2, <1>3, <1>4, ConcatProperties DEF SaveScript
<1> QED BY <1>1, <1>5, <1>6, <1>7, <1>8, ConcatProperties

LEMMA RutSaveScriptsType ==
    ASSUME NEW f \in RutForm, NEW rws \in LocalRows, NEW q \in RutSaveScripts(f, rws)
    PROVE  q \in Seq(RutHandled)
<1> DEFINE W == {k \in Present(rws) : rws[k].hours # NULL}
           Saves(worked) == [n \in 1..Len(worked) |->
               Do("RowUpdate", [row |-> worked[n], data |-> Content(rws[worked[n]])])]
<1>1. PICK worked \in SetToSeqs(W) : q = << Do("RUTSave", f.rut) >> \o Saves(worked)
    BY DEF RutSaveScripts
<1>2. worked \in Seq(Present(rws))
    BY PresentFinite, FS_Subset, OrdersType, SeqMonotonic
<1>3. Len(worked) \in Nat /\ \A n \in 1..Len(worked) : worked[n] \in Present(rws)
    BY <1>2, LenProperties, ElementOfSeq
<1>4. \A k \in Present(rws) : [row |-> k, data |-> Content(rws[k])] \in RowImage
    BY PresentFinite, PresentType DEF RowRecord, RowImage, RowContent, Content
<1>5. Saves(worked) \in Seq(RutHandled)
    BY <1>3, <1>4, HandledType, FunctionIsSeq
<1>6. << Do("RUTSave", f.rut) >> \in Seq(RutHandled)
    BY HandledType DEF RutForm, RutFlagForm, RutPostForm
<1> HIDE DEF Saves
<1> QED BY <1>1, <1>5, <1>6, ConcatProperties

-----------------------------------------------------------------------------
(* What a handler computes from a form and what it has read is well typed. *)

LEMMA FormType ==
    ASSUME NEW f \in Forms
    PROVE  /\ f \in Form /\ f # NULL /\ f.company \in Companies
           /\ f.op = "flag" => f \in FlagForm
           /\ f.op = "post" => f \in PostForm
           /\ f.op = "attach" => f \in AttachForm
           /\ f.op \in {"rut_flag", "rut_post"} => f \in RutForm
           /\ f.op = "rut_flag" => f \in RutFlagForm
           /\ f.op = "rut_post" => f \in RutPostForm
           /\ f.op \in {"flag", "post", "attach", "rut_flag", "rut_post"}
           /\ ~IsRut(f) => f.invoice \in Invoices \cup {NULL}
BY FakturaAssumption
   DEF Form, InvoiceForm, RutForm, FlagForm, PostForm, AttachForm, RutFlagForm,
       RutPostForm, IsRut

LEMMA StatusTypes ==
    /\ StatusInitial \in 0..3 /\ RUTPending \in 0..3
    /\ \A flag \in OfferFlags : StatusOf[flag] \in 0..3
    /\ \A flag \in {"sent", "paid", "rejected"} : RUTStatusOf[flag] \in 0..3
BY DEF StatusInitial, StatusOffered, StatusAccepted, StatusRejected, RUTPending, RUTSent,
       RUTPaid, RUTRejected, OfferFlags, StatusOf, RUTStatusOf

LEMMA FlaggedType ==
    ASSUME NEW f \in FlagForm, NEW x \in LocalInvoice
    PROVE  Flagged(f, x) \in LocalInvoice
<1> DEFINE a == IF f.flag = "invoiced" THEN ~f.revoke ELSE x.is_invoiced
           b == x.date_invoiced \/ f.flag = "invoiced"
           c == IF f.flag = "paid" THEN ~f.revoke ELSE x.is_paid
           d == x.date_paid \/ f.flag = "paid"
           e == IF f.flag = "deleted" THEN ~f.revoke ELSE x.is_deleted
           n == IF f.flag \in OfferFlags THEN StatusOf[f.flag] ELSE x.status
<1>1. /\ x.is_invoiced \in BOOLEAN /\ x.is_paid \in BOOLEAN /\ x.is_deleted \in BOOLEAN
      /\ x.date_invoiced \in BOOLEAN /\ x.date_paid \in BOOLEAN /\ x.status \in 0..3
      /\ f.revoke \in BOOLEAN
    BY DEF LocalInvoice, FlagForm
<1>2. /\ a \in BOOLEAN /\ b \in BOOLEAN /\ c \in BOOLEAN /\ d \in BOOLEAN /\ e \in BOOLEAN
    BY <1>1
<1>3. n \in 0..3
    BY <1>1, StatusTypes
<1>4. Flagged(f, x) = [x EXCEPT !.is_invoiced = a, !.date_invoiced = b, !.is_paid = c,
                                !.date_paid = d, !.is_deleted = e, !.status = n]
    BY DEF Flagged
<1> HIDE DEF a, b, c, d, e, n
<1> QED BY <1>2, <1>3, <1>4 DEF LocalInvoice

LEMMA PostedType ==
    ASSUME NEW f \in PostForm, NEW x \in LocalInvoice
    PROVE  Posted(f, x) \in LocalInvoice
<1> DEFINE a == x.date_invoiced \/ f.date
           b == IF f.rut = NULL THEN x.rut_applicable ELSE f.rut
           k == IF RenewsCustomer(f, x) THEN NULL ELSE x.customer
<1>1. a \in BOOLEAN /\ b \in BOOLEAN /\ k \in Customers \cup {NULL}
    BY DEF LocalInvoice, PostForm
<1>2. Posted(f, x) = [x EXCEPT !.date_invoiced = a, !.rut_applicable = b, !.customer = k]
    BY DEF Posted
<1> HIDE DEF a, b, k
<1> QED BY <1>1, <1>2 DEF LocalInvoice

LEMMA NewInvoiceType ==
    ASSUME NEW f \in PostForm, NEW n \in Nat
    PROVE  NewInvoice(f, n) \in LocalInvoice
BY StatusTypes DEF NewInvoice, ZeroInvoice, PostForm, LocalInvoice

LEMMA ConvertedType ==
    ASSUME NEW x \in LocalInvoice, NEW i \in Invoices \cup {NULL}, NEW n \in Nat
    PROVE  ConvertedInvoice(x, i, n) \in LocalInvoice
BY StatusTypes DEF ConvertedInvoice, LocalInvoice

LEMMA RutFlaggedType ==
    ASSUME NEW f \in RutFlagForm, NEW x \in LocalRut
    PROVE  RutFlagged(f, x) \in LocalRut
BY StatusTypes DEF RutFlagged, RutFlagForm, LocalRut

LEMMA RutPostedType ==
    ASSUME NEW f \in RutPostForm, NEW x \in LocalRut
    PROVE  RutPosted(f, x) \in LocalRut
BY DEF RutPosted, RutPostForm, LocalRut

LEMMA HoursPostedType ==
    ASSUME NEW f \in RutPostForm, NEW rws \in LocalRows
    PROVE  HoursPosted(f, rws) \in LocalRows
BY DEF HoursPosted, RutPostForm, LocalRows, RowRecord

LEMMA RutPostScriptsType ==
    ASSUME NEW f \in RutPostForm, NEW x, NEW rws \in LocalRows,
           NEW q \in RutPostScripts(f, x, rws)
    PROVE  q \in Seq(RutHandled)
BY RutSaveScriptsType, EmptySeq DEF RutPostScripts, RutForm

(* The zero values with which a request starts. *)
LEMMA ZeroTypes ==
    ZeroInvoice \in LocalInvoice /\ ZeroRut \in LocalRut /\ NoRows \in LocalRows
<1>1. ZeroInvoice \in LocalInvoice
    BY StatusTypes DEF ZeroInvoice, LocalInvoice
<1>2. ZeroRut \in LocalRut
    BY StatusTypes DEF ZeroRut, LocalRut, Types
<1>3. NoRows \in LocalRows
    BY DEF NoRows, LocalRows
<1> QED BY <1>1, <1>2, <1>3

-----------------------------------------------------------------------------
(* The parts of a step. *)

(* A request that has a statement to run is served a form, and the         *)
(* statement is one of Statement.                                          *)
LEMMA Served ==
    ASSUME TypeOK, IdleHasNoScript, NEW r \in Requests, script[r] # << >>
    PROVE  /\ form[r] \in Forms
           /\ Head(script[r]) \in Statement
           /\ Tail(script[r]) \in Seq(Statement)
<1>1. script[r] \in Seq(Statement)
    BY DEF TypeOK, ServingOK
<1>2. form[r] \in Forms
    BY DEF TypeOK, ServingOK, IdleHasNoScript, Active
<1> QED BY <1>1, <1>2, HeadTailProperties

LEMMA ContinueWithType ==
    ASSUME TypeOK, IdleHasNoScript, NEW r \in Requests, script[r] # << >>,
           NEW q \in Seq(Statement), ContinueWith(r, q)
    PROVE  ServingOK' /\ IdleHasNoScript'
<1>1. ServingOK'
    BY DEF TypeOK, ServingOK, ContinueWith
<1>2. Active(r)
    BY DEF IdleHasNoScript
<1>3. IdleHasNoScript'
    BY <1>2 DEF TypeOK, ServingOK, IdleHasNoScript, Active, ContinueWith
<1> QED BY <1>1, <1>3

LEMMA ContinueType ==
    ASSUME TypeOK, IdleHasNoScript, NEW r \in Requests, script[r] # << >>, Continue(r)
    PROVE  ServingOK' /\ IdleHasNoScript'
<1>1. ContinueWith(r, Tail(script[r]))
    BY DEF Continue, ContinueWith
<1> QED BY <1>1, Served, ContinueWithType

LEMMA FailType ==
    ASSUME TypeOK, IdleHasNoScript, NEW r \in Requests, script[r] # << >>, Fail(r)
    PROVE  TypeOK' /\ IdleHasNoScript'
<1>1. TablesOK' /\ HandOK'
    BY DEF TypeOK, TablesOK, HandOK, Fail, tables, hand
<1>2. ServingOK'
    BY EmptySeq DEF TypeOK, ServingOK, Fail, StatusInternalServerError
<1>3. IdleHasNoScript'
    BY DEF TypeOK, ServingOK, IdleHasNoScript, Active, Fail
<1> QED BY <1>1, <1>2, <1>3 DEF TypeOK

LEMMA EndType ==
    ASSUME TypeOK, IdleHasNoScript, NEW r \in Requests, script[r] = << >>,
           NEW commit \in BOOLEAN, EndTransaction(r, commit)
    PROVE  TypeOK' /\ IdleHasNoScript'
<1>1. TablesOK'
    BY EndedType DEF TypeOK, TablesOK, EndTransaction
<1>2. ServingOK'
    BY DEF TypeOK, ServingOK, EndTransaction
<1>3. HandOK'
    BY ZeroTypes DEF TypeOK, HandOK, EndTransaction
<1>4. IdleHasNoScript'
    BY DEF TypeOK, ServingOK, IdleHasNoScript, Active, EndTransaction
<1> QED BY <1>1, <1>2, <1>3, <1>4 DEF TypeOK

LEMMA RowsOfType ==
    ASSUME TypeOK, NEW r \in Requests
    PROVE  RowsOf(r) \in LocalRows
<1>1. \A k \in Rows : Live(Sees(invoice_row, r)[k]) => Sees(invoice_row, r)[k] \in RowRecord
    BY SeesType DEF TypeOK, TablesOK
<1> QED BY <1>1 DEF RowsOf, LocalRows

LEMMA NumberType ==
    ASSUME TypeOK, NEW r \in Requests, NEW c \in Companies
    PROVE  NumberCandidates(r, c) \subseteq Nat
<1>1. ASSUME NEW i \in Invoices, Live(Sees(invoice, r)[i])
      PROVE  Sees(invoice, r)[i].number + 1 \in Nat
    <2>1. Sees(invoice, r)[i] \in InvoiceRecord
        BY <1>1, SeesType DEF TypeOK, TablesOK
    <2> QED BY <2>1 DEF InvoiceRecord
<1>2. FirstNumber[c] \in Nat
    BY EntitiesAssumption
<1> QED BY <1>1, <1>2 DEF NumberCandidates

LEMMA SavedTypes ==
    ASSUME NEW x \in LocalInvoice, x.customer # NULL
    PROVE  /\ \A old \in InvoiceRecord : UpdatedInvoice(old, x) \in InvoiceRecord
           /\ x.company # NULL => InsertedInvoice(x) \in InvoiceRecord
BY DEF LocalInvoice, InvoiceRecord, UpdatedInvoice, InsertedInvoice

-----------------------------------------------------------------------------
(* Each action keeps the types. *)

LEMMA BeginType ==
    ASSUME TypeOK, IdleHasNoScript, NEW r \in Requests, NEW f \in Forms, Begin(r, f)
    PROVE  TypeOK' /\ IdleHasNoScript'
<1>1. Opening(f) \in Seq(Statement)
    BY FormType, OpeningType
<1>2. TablesOK'
    BY DEF TypeOK, TablesOK, Begin, tables
<1>3. ServingOK'
    BY <1>1 DEF TypeOK, ServingOK, Begin
<1>4. HandOK'
    <2>1. (IF IsRut(f) THEN NULL ELSE f.invoice) \in Invoices \cup {NULL}
        BY FormType
    <2> QED BY <2>1 DEF TypeOK, HandOK, Begin
<1>5. IdleHasNoScript'
    BY FormType DEF TypeOK, ServingOK, IdleHasNoScript, Active, Begin
<1> QED BY <1>2, <1>3, <1>4, <1>5 DEF TypeOK

LEMMA InvoiceListType ==
    ASSUME TypeOK, IdleHasNoScript, NEW r \in Requests, InvoiceList(r)
    PROVE  TypeOK' /\ IdleHasNoScript'
<1>1. script[r] # << >>
    BY DEF InvoiceList, Runs, At
<1> DEFINE x == Sees(invoice, r)[id[r]]
<1>2. CASE id[r] # NULL /\ Visible(r, x)
    <2>1. x \in InvoiceRecord
        BY <1>2, SeesType DEF TypeOK, TablesOK, HandOK, Visible
    <2>2. x \in LocalInvoice
        BY <2>1 DEF InvoiceRecord, LocalInvoice
    <2>3. /\ inv' = [inv EXCEPT ![r] = x]
          /\ Continue(r)
          /\ UNCHANGED << tables, id, rows, rut >>
        BY <1>2 DEF InvoiceList
    <2>4. ServingOK' /\ IdleHasNoScript'
        BY <1>1, <2>3, ContinueType
    <2>5. HandOK'
        BY <2>2, <2>3 DEF TypeOK, HandOK
    <2>6. TablesOK'
        BY <2>3 DEF TypeOK, TablesOK, tables
    <2> QED BY <2>4, <2>5, <2>6 DEF TypeOK
<1>3. CASE ~(id[r] # NULL /\ Visible(r, x))
    BY <1>1, <1>3, FailType DEF InvoiceList
<1> QED BY <1>2, <1>3

LEMMA InvoiceRowsType ==
    ASSUME TypeOK, IdleHasNoScript, NEW r \in Requests, InvoiceRows(r)
    PROVE  TypeOK' /\ IdleHasNoScript'
<1>1. script[r] # << >>
    BY DEF InvoiceRows, Runs, At
<1> DEFINE f == form[r]
           read == RowsOf(r)
<1>2. f \in Forms /\ read \in LocalRows /\ inv[r] \in LocalInvoice /\ rut[r] \in LocalRut
    BY <1>1, Served, RowsOfType DEF TypeOK, HandOK
<1>3. CASE f.op = "flag" /\ ~ValidFlag(f) /\ Fail(r)
    BY <1>1, <1>3, FailType
<1>4. CASE /\ f.op = "flag" /\ ValidFlag(f)
           /\ inv'  = [inv EXCEPT ![r] = Flagged(f, @)]
           /\ rows' = [rows EXCEPT ![r] = read]
           /\ \E s \in FlagScripts(f, inv[r], read) : ContinueWith(r, s)
           /\ UNCHANGED << tables, id, rut >>
    <2>1. f \in FlagForm
        BY <1>2, <1>4, FormType
    <2>2. Flagged(f, inv[r]) \in LocalInvoice
        BY <1>2, <2>1, FlaggedType
    <2>3. PICK q \in FlagScripts(f, inv[r], read) : ContinueWith(r, q)
        BY <1>4
    <2>4. q \in Seq(Statement)
        BY <1>2, <2>1, FlagScriptsType, HandledIsPlain
    <2>5. ServingOK' /\ IdleHasNoScript'
        BY <1>1, <2>3, <2>4, ContinueWithType
    <2>6. HandOK' /\ TablesOK'
        BY <1>2, <1>4, <2>2 DEF TypeOK, HandOK, TablesOK, tables
    <2> QED BY <2>5, <2>6 DEF TypeOK
<1>5. CASE /\ f.op = "post"
           /\ inv'  = [inv EXCEPT ![r] = Posted(f, @)]
           /\ rows' = [rows EXCEPT ![r] = read]
           /\ \E s \in PostScripts(f, inv[r], read) : ContinueWith(r, s)
           /\ UNCHANGED << tables, id, rut >>
    <2>1. f \in PostForm
        BY <1>2, <1>5, FormType
    <2>2. Posted(f, inv[r]) \in LocalInvoice
        BY <1>2, <2>1, PostedType
    <2>3. PICK q \in PostScripts(f, inv[r], read) : ContinueWith(r, q)
        BY <1>5
    <2>4. q \in Seq(Statement)
        BY <1>2, <2>1, HandledIsPlain, PostScriptsType
    <2>5. ServingOK' /\ IdleHasNoScript'
        BY <1>1, <2>3, <2>4, ContinueWithType
    <2>6. HandOK' /\ TablesOK'
        BY <1>2, <1>5, <2>2 DEF TypeOK, HandOK, TablesOK, tables
    <2> QED BY <2>5, <2>6 DEF TypeOK
<1>6. CASE /\ f.op = "attach"
           /\ rows' = [rows EXCEPT ![r] = read]
           /\ ContinueWith(r, FileScript(f))
           /\ UNCHANGED << tables, id, inv, rut >>
    <2>1. f.attach \in Nat
        BY <1>2, <1>6, FormType DEF AttachForm
    <2>2. ServingOK' /\ IdleHasNoScript'
        BY <1>1, <1>6, <2>1, FileScriptType, HandledIsPlain, ContinueWithType
    <2>3. HandOK' /\ TablesOK'
        BY <1>2, <1>6 DEF TypeOK, HandOK, TablesOK, tables
    <2> QED BY <2>2, <2>3 DEF TypeOK
<1>7. CASE /\ f.op = "rut_flag"
           /\ rut'  = [rut EXCEPT ![r] = RutFlagged(f, @)]
           /\ rows' = [rows EXCEPT ![r] = read]
           /\ \E s \in RutSaveScripts(f, read) : ContinueWith(r, s)
           /\ UNCHANGED << tables, id, inv >>
    <2>1. f \in RutForm /\ f \in RutFlagForm
        BY <1>2, <1>7, FormType
    <2>2. RutFlagged(f, rut[r]) \in LocalRut
        BY <1>2, <2>1, RutFlaggedType
    <2>3. PICK q \in RutSaveScripts(f, read) : ContinueWith(r, q)
        BY <1>7
    <2>4. q \in Seq(Statement)
        BY <1>2, <2>1, HandledIsPlain, RutSaveScriptsType
    <2>5. ServingOK' /\ IdleHasNoScript'
        BY <1>1, <2>3, <2>4, ContinueWithType
    <2>6. HandOK' /\ TablesOK'
        BY <1>2, <1>7, <2>2 DEF TypeOK, HandOK, TablesOK, tables
    <2> QED BY <2>5, <2>6 DEF TypeOK
<1>8. CASE /\ f.op = "rut_post"
           /\ rut'  = [rut EXCEPT ![r] = RutPosted(f, @)]
           /\ rows' = [rows EXCEPT ![r] = HoursPosted(f, read)]
           /\ \E s \in RutPostScripts(f, rut[r], HoursPosted(f, read)) : ContinueWith(r, s)
           /\ UNCHANGED << tables, id, inv >>
    <2>1. f \in RutPostForm
        BY <1>2, <1>8, FormType
    <2>2. RutPosted(f, rut[r]) \in LocalRut /\ HoursPosted(f, read) \in LocalRows
        BY <1>2, <2>1, RutPostedType, HoursPostedType
    <2>3. PICK q \in RutPostScripts(f, rut[r], HoursPosted(f, read)) : ContinueWith(r, q)
        BY <1>8
    <2>4. q \in Seq(Statement)
        BY <2>1, <2>2, HandledIsPlain, RutPostScriptsType
    <2>5. ServingOK' /\ IdleHasNoScript'
        BY <1>1, <2>3, <2>4, ContinueWithType
    <2>6. HandOK' /\ TablesOK'
        BY <1>2, <1>8, <2>2 DEF TypeOK, HandOK, TablesOK, tables
    <2> QED BY <2>5, <2>6 DEF TypeOK
<1> QED BY <1>3, <1>4, <1>5, <1>6, <1>7, <1>8 DEF InvoiceRows

LEMMA GetNextInvoiceNumberType ==
    ASSUME TypeOK, IdleHasNoScript, NEW r \in Requests, GetNextInvoiceNumber(r)
    PROVE  TypeOK' /\ IdleHasNoScript'
<1>1. script[r] # << >> /\ Head(script[r]).op = "GetNextInvoiceNumber"
    BY DEF GetNextInvoiceNumber, Runs, At
<1> DEFINE f == form[r]
<1>2. f \in Forms /\ Arg(r) \in Companies
    BY <1>1, Served, StatementArgument DEF Arg
<1>3. PICK n \in NumberCandidates(r, Arg(r)) :
         \/ /\ f.op = "flag"
            /\ inv' = [inv EXCEPT ![r] = ConvertedInvoice(@, id[r], n)]
            /\ id'  = [id EXCEPT ![r] = NULL]
            /\ Continue(r)
            /\ UNCHANGED << tables, rows, rut >>
         \/ /\ f.op = "post"
            /\ inv'  = [inv EXCEPT ![r] = Posted(f, NewInvoice(f, n))]
            /\ \E s \in PostScripts(f, NewInvoice(f, n), NoRows) : ContinueWith(r, s)
            /\ UNCHANGED << tables, id, rows, rut >>
    BY DEF GetNextInvoiceNumber
<1>4. n \in Nat
    BY <1>2, NumberType
<1>5. CASE /\ f.op = "flag"
           /\ inv' = [inv EXCEPT ![r] = ConvertedInvoice(@, id[r], n)]
           /\ id'  = [id EXCEPT ![r] = NULL]
           /\ Continue(r)
           /\ UNCHANGED << tables, rows, rut >>
    <2>1. ConvertedInvoice(inv[r], id[r], n) \in LocalInvoice
        BY <1>4, ConvertedType DEF TypeOK, HandOK
    <2>2. ServingOK' /\ IdleHasNoScript'
        BY <1>1, <1>5, ContinueType
    <2>3. HandOK' /\ TablesOK'
        BY <1>5, <2>1 DEF TypeOK, HandOK, TablesOK, tables
    <2> QED BY <2>2, <2>3 DEF TypeOK
<1>6. CASE /\ f.op = "post"
           /\ inv'  = [inv EXCEPT ![r] = Posted(f, NewInvoice(f, n))]
           /\ \E s \in PostScripts(f, NewInvoice(f, n), NoRows) : ContinueWith(r, s)
           /\ UNCHANGED << tables, id, rows, rut >>
    <2>1. f \in PostForm
        BY <1>2, <1>6, FormType
    <2>2. Posted(f, NewInvoice(f, n)) \in LocalInvoice
        BY <1>4, <2>1, PostedType, NewInvoiceType
    <2>3. PICK q \in PostScripts(f, NewInvoice(f, n), NoRows) : ContinueWith(r, q)
        BY <1>6
    <2>4. q \in Seq(Statement)
        BY <2>1, ZeroTypes, HandledIsPlain, PostScriptsType
    <2>5. ServingOK' /\ IdleHasNoScript'
        BY <1>1, <2>3, <2>4, ContinueWithType
    <2>6. HandOK' /\ TablesOK'
        BY <1>6, <2>2 DEF TypeOK, HandOK, TablesOK, tables
    <2> QED BY <2>5, <2>6 DEF TypeOK
<1> QED BY <1>3, <1>5, <1>6

LEMMA InvoiceUpdateType ==
    ASSUME TypeOK, IdleHasNoScript, NEW r \in Requests, InvoiceUpdate(r)
    PROVE  TypeOK' /\ IdleHasNoScript'
<1>1. script[r] # << >>
    BY DEF InvoiceUpdate, Runs, At
<1>2. CASE inv[r].customer = NULL
    BY <1>1, <1>2, FailType DEF InvoiceUpdate
<1>3. CASE inv[r].customer # NULL
    <2> DEFINE old == Sees(invoice, r)[id[r]]
    <2>1. id[r] \in Invoices /\ inv[r] \in LocalInvoice
        BY DEF TypeOK, HandOK, InvoiceUpdate
    <2>2. ASSUME Live(old)
          PROVE  Put(invoice, r, id[r], UpdatedInvoice(old, inv[r]))
                 \in [Invoices -> Versions(InvoiceRecord)]
        <3>1. old \in InvoiceRecord
            BY <2>1, <2>2, SeesType DEF TypeOK, TablesOK
        <3> QED BY <1>3, <2>1, <3>1, SavedTypes, PutType DEF TypeOK, TablesOK
    <2>3. TablesOK'
        BY <1>3, <2>2 DEF TypeOK, TablesOK, InvoiceUpdate
    <2>4. ServingOK' /\ IdleHasNoScript'
        BY <1>1, <1>3, ContinueType DEF InvoiceUpdate
    <2>5. HandOK'
        BY <1>3 DEF TypeOK, HandOK, InvoiceUpdate, hand
    <2> QED BY <2>3, <2>4, <2>5 DEF TypeOK
<1> QED BY <1>2, <1>3

LEMMA InvoiceInsertType ==
    ASSUME TypeOK, IdleHasNoScript, NEW r \in Requests, InvoiceInsert(r)
    PROVE  TypeOK' /\ IdleHasNoScript'
<1>1. script[r] # << >>
    BY DEF InvoiceInsert, Runs, At
<1>2. CASE Fail(r)
    BY <1>1, <1>2, FailType
<1>3. CASE ~Fail(r)
    <2>1. /\ inv[r].customer # NULL /\ inv[r].company # NULL
          /\ \E i \in FreshIds(invoice) :
                /\ invoice' = Put(invoice, r, i, InsertedInvoice(inv[r]))
                /\ id' = [id EXCEPT ![r] = i]
                /\ Continue(r)
                /\ UNCHANGED << customer, invoice_row, rut_requests, file,
                                invoice_attachments, inv, rows, rut >>
        BY <1>3 DEF InvoiceInsert
    <2>2. PICK i \in FreshIds(invoice) :
                /\ invoice' = Put(invoice, r, i, InsertedInvoice(inv[r]))
                /\ id' = [id EXCEPT ![r] = i]
                /\ Continue(r)
                /\ UNCHANGED << customer, invoice_row, rut_requests, file,
                                invoice_attachments, inv, rows, rut >>
        BY <2>1
    <2>3. i \in Invoices
        BY DEF TypeOK, TablesOK, FreshIds
    <2>4. InsertedInvoice(inv[r]) \in InvoiceRecord
        BY <2>1, SavedTypes DEF TypeOK, HandOK
    <2>5. TablesOK'
        BY <2>2, <2>4, PutType DEF TypeOK, TablesOK
    <2>6. ServingOK' /\ IdleHasNoScript'
        BY <1>1, <2>2, ContinueType
    <2>7. HandOK'
        BY <2>2, <2>3 DEF TypeOK, HandOK
    <2> QED BY <2>5, <2>6, <2>7 DEF TypeOK
<1> QED BY <1>2, <1>3

LEMMA WriteRowType ==
    ASSUME TypeOK, IdleHasNoScript, NEW r \in Requests, script[r] # << >>,
           NEW k, NEW x \in RowRecord \cup {Gone}, WriteRow(r, k, x)
    PROVE  TypeOK' /\ IdleHasNoScript'
<1>1. TablesOK'
    BY PutType DEF TypeOK, TablesOK, WriteRow
<1>2. ServingOK' /\ IdleHasNoScript'
    BY ContinueType DEF WriteRow
<1>3. HandOK'
    BY DEF TypeOK, HandOK, WriteRow, hand
<1> QED BY <1>1, <1>2, <1>3 DEF TypeOK

LEMMA MatchesNothingType ==
    ASSUME TypeOK, IdleHasNoScript, NEW r \in Requests, script[r] # << >>, MatchesNothing(r)
    PROVE  TypeOK' /\ IdleHasNoScript'
<1>1. TablesOK' /\ HandOK'
    BY DEF TypeOK, TablesOK, HandOK, MatchesNothing, tables, hand
<1>2. ServingOK' /\ IdleHasNoScript'
    BY ContinueType DEF MatchesNothing
<1> QED BY <1>1, <1>2 DEF TypeOK

LEMMA InvoiceRowAddType ==
    ASSUME TypeOK, IdleHasNoScript, NEW r \in Requests, InvoiceRowAdd(r)
    PROVE  TypeOK' /\ IdleHasNoScript'
<1>1. script[r] # << >> /\ Head(script[r]).op = "RowAdd"
    BY DEF InvoiceRowAdd, Runs, At
<1>2. CASE id[r] = NULL \/ FreshIds(invoice_row) = {}
    BY <1>1, <1>2, FailType DEF InvoiceRowAdd
<1>3. CASE ~(id[r] = NULL \/ FreshIds(invoice_row) = {})
    <2> DEFINE x == [invoice |-> id[r], kind |-> Arg(r).kind, text |-> Arg(r).text,
                     hours |-> NULL]
    <2>1. PICK k \in FreshIds(invoice_row) : WriteRow(r, k, x)
        BY <1>3 DEF InvoiceRowAdd
    <2>2. Arg(r) \in RowData
        BY <1>1, Served, StatementArgument DEF Arg
    <2>3. id[r] \in Invoices
        BY <1>3 DEF TypeOK, HandOK
    <2>4. x \in RowRecord
        BY <2>2, <2>3 DEF RowData, RowRecord
    <2> QED BY <1>1, <2>1, <2>4, WriteRowType
<1> QED BY <1>2, <1>3

LEMMA InvoiceRowRemoveType ==
    ASSUME TypeOK, IdleHasNoScript, NEW r \in Requests, InvoiceRowRemove(r)
    PROVE  TypeOK' /\ IdleHasNoScript'
<1>1. script[r] # << >>
    BY DEF InvoiceRowRemove, Runs, At
<1>2. WriteRow(r, Arg(r), Gone) \/ MatchesNothing(r)
    BY DEF InvoiceRowRemove
<1> QED BY <1>1, <1>2, WriteRowType, MatchesNothingType

LEMMA InvoiceRowUpdateType ==
    ASSUME TypeOK, IdleHasNoScript, NEW r \in Requests, InvoiceRowUpdate(r)
    PROVE  TypeOK' /\ IdleHasNoScript'
<1>1. script[r] # << >> /\ Head(script[r]).op = "RowUpdate"
    BY DEF InvoiceRowUpdate, Runs, At
<1> DEFINE old == Sees(invoice_row, r)[Arg(r).row]
           new == Arg(r).data
           x == [invoice |-> old.invoice, kind |-> new.kind, text |-> new.text,
                 hours |-> new.hours]
<1>2. CASE Live(old)
    <2>1. Arg(r) \in RowImage
        BY <1>1, Served, StatementArgument DEF Arg
    <2>2. old \in RowRecord
        BY <1>2, <2>1, SeesType DEF TypeOK, TablesOK, RowImage
    <2>3. x \in RowRecord
        BY <2>1, <2>2 DEF RowImage, RowContent, RowRecord
    <2>4. WriteRow(r, Arg(r).row, x)
        BY <1>2 DEF InvoiceRowUpdate
    <2> QED BY <1>1, <2>3, <2>4, WriteRowType
<1>3. CASE ~Live(old)
    BY <1>1, <1>3, MatchesNothingType DEF InvoiceRowUpdate
<1> QED BY <1>2, <1>3

LEMMA CustomerListType ==
    ASSUME TypeOK, IdleHasNoScript, NEW r \in Requests, CustomerList(r)
    PROVE  TypeOK' /\ IdleHasNoScript'
<1>1. script[r] # << >> /\ Head(script[r]).op = "CustomerList"
    BY DEF CustomerList, Runs, At
<1>2. CASE Fail(r)
    BY <1>1, <1>2, FailType
<1>3. CASE ~Fail(r)
    <2>1. /\ inv' = [inv EXCEPT ![r].customer = Arg(r)]
          /\ Continue(r)
          /\ UNCHANGED << tables, id, rows, rut >>
        BY <1>3 DEF CustomerList
    <2>2. Arg(r) \in Customers
        BY <1>1, Served, StatementArgument DEF Arg
    <2>3. [inv[r] EXCEPT !.customer = Arg(r)] \in LocalInvoice
        BY <2>2 DEF TypeOK, HandOK, LocalInvoice
    <2>5. HandOK' /\ TablesOK'
        BY <2>1, <2>3 DEF TypeOK, HandOK, TablesOK, tables
    <2>4. ServingOK' /\ IdleHasNoScript'
        BY <1>1, <2>1, ContinueType
    <2> QED BY <2>4, <2>5 DEF TypeOK
<1> QED BY <1>2, <1>3

LEMMA CustomerUpdateType ==
    ASSUME TypeOK, IdleHasNoScript, NEW r \in Requests, CustomerUpdate(r)
    PROVE  TypeOK' /\ IdleHasNoScript'
<1>1. script[r] # << >> /\ Head(script[r]).op = "CustomerSave"
    BY DEF CustomerUpdate, Runs, At
<1> DEFINE k == inv[r].customer
           old == Sees(customer, r)[k]
<1>2. Arg(r) \in Texts
    BY <1>1, Served, StatementArgument DEF Arg
<1>3. k \in Customers
    BY DEF TypeOK, HandOK, LocalInvoice, CustomerUpdate
<1>4. ASSUME Live(old)
      PROVE  Put(customer, r, k, [company |-> old.company, text |-> Arg(r)])
             \in [Customers -> Versions(CustomerRecord)]
    <2>1. old \in CustomerRecord
        BY <1>3, <1>4, SeesType DEF TypeOK, TablesOK
    <2>2. [company |-> old.company, text |-> Arg(r)] \in CustomerRecord
        BY <1>2, <2>1 DEF CustomerRecord
    <2> QED BY <2>2, PutType DEF TypeOK, TablesOK
<1>5. TablesOK'
    BY <1>4 DEF TypeOK, TablesOK, CustomerUpdate
<1>6. ServingOK' /\ IdleHasNoScript'
    BY <1>1, ContinueType DEF CustomerUpdate
<1>7. HandOK'
    BY DEF TypeOK, HandOK, CustomerUpdate, hand
<1> QED BY <1>5, <1>6, <1>7 DEF TypeOK

LEMMA CustomerInsertType ==
    ASSUME TypeOK, IdleHasNoScript, NEW r \in Requests, CustomerInsert(r)
    PROVE  TypeOK' /\ IdleHasNoScript'
<1>1. script[r] # << >> /\ Head(script[r]).op = "CustomerSave"
    BY DEF CustomerInsert, Runs, At
<1>2. CASE Fail(r)
    BY <1>1, <1>2, FailType
<1>3. CASE ~Fail(r)
    <2> DEFINE x == [company |-> form[r].company, text |-> Arg(r)]
    <2>1. PICK k \in FreshIds(customer) :
              /\ customer' = Put(customer, r, k, x)
              /\ inv' = [inv EXCEPT ![r].customer = k]
              /\ Continue(r)
              /\ UNCHANGED << invoice, invoice_row, rut_requests, file,
                              invoice_attachments, id, rows, rut >>
        BY <1>3 DEF CustomerInsert
    <2>2. x \in CustomerRecord
        BY <1>1, Served, StatementArgument, FormType DEF Arg, CustomerRecord
    <2>3. k \in Customers
        BY DEF TypeOK, TablesOK, FreshIds
    <2>4. TablesOK'
        BY <2>1, <2>2, PutType DEF TypeOK, TablesOK
    <2>5. HandOK'
        <3>1. [inv[r] EXCEPT !.customer = k] \in LocalInvoice
            BY <2>3 DEF TypeOK, HandOK, LocalInvoice
        <3> QED BY <2>1, <3>1 DEF TypeOK, HandOK
    <2>6. ServingOK' /\ IdleHasNoScript'
        BY <1>1, <2>1, ContinueType
    <2> QED BY <2>4, <2>5, <2>6 DEF TypeOK
<1> QED BY <1>2, <1>3

LEMMA FileAddType ==
    ASSUME TypeOK, IdleHasNoScript, NEW r \in Requests, FileAdd(r)
    PROVE  TypeOK' /\ IdleHasNoScript'
<1>1. script[r] # << >>
    BY DEF FileAdd, Runs, At
<1>2. CASE FreshIds(file) = {}
    BY <1>1, <1>2, FailType DEF FileAdd
<1>3. CASE FreshIds(file) # {}
    <2>1. PICK k \in FreshIds(file) :
              /\ file' = Put(file, r, k, "stored")
              /\ ContinueWith(r, << Do("AttachmentAdd", k) >> \o Tail(script[r]))
              /\ UNCHANGED << customer, invoice, invoice_row, rut_requests,
                              invoice_attachments, hand >>
        BY <1>3 DEF FileAdd
    <2>2. k \in Files
        BY DEF TypeOK, TablesOK, FreshIds
    <2>3. << Do("AttachmentAdd", k) >> \in Seq(Statement)
        BY <2>2, DoType
    <2>4. << Do("AttachmentAdd", k) >> \o Tail(script[r]) \in Seq(Statement)
        BY <1>1, <2>3, Served, ConcatProperties
    <2>5. ServingOK' /\ IdleHasNoScript'
        BY <1>1, <2>1, <2>4, ContinueWithType
    <2>6. TablesOK'
        BY <2>1, PutType DEF TypeOK, TablesOK, FileRecord
    <2>7. HandOK'
        BY <2>1 DEF TypeOK, HandOK, hand
    <2> QED BY <2>5, <2>6, <2>7 DEF TypeOK
<1> QED BY <1>2, <1>3

LEMMA AttachmentAddType ==
    ASSUME TypeOK, IdleHasNoScript, NEW r \in Requests, AttachmentAdd(r)
    PROVE  TypeOK' /\ IdleHasNoScript'
<1>1. script[r] # << >>
    BY DEF AttachmentAdd, Runs, At
<1>2. CASE id[r] = NULL
    BY <1>1, <1>2, FailType DEF AttachmentAdd
<1>3. CASE id[r] # NULL
    <2>1. id[r] \in Invoices
        BY <1>3 DEF TypeOK, HandOK
    <2>2. TablesOK'
        BY <1>3, <2>1, PutType DEF TypeOK, TablesOK, AttachmentAdd
    <2>3. ServingOK' /\ IdleHasNoScript'
        BY <1>1, <1>3, ContinueType DEF AttachmentAdd
    <2>4. HandOK'
        BY <1>3 DEF TypeOK, HandOK, AttachmentAdd, hand
    <2> QED BY <2>2, <2>3, <2>4 DEF TypeOK
<1> QED BY <1>2, <1>3

LEMMA AttachmentRemoveType ==
    ASSUME TypeOK, IdleHasNoScript, NEW r \in Requests, AttachmentRemove(r)
    PROVE  TypeOK' /\ IdleHasNoScript'
<1>1. script[r] # << >> /\ Head(script[r]).op = "AttachmentRemove"
    BY DEF AttachmentRemove, Runs, At
<1>2. Arg(r) \in Files
    BY <1>1, Served, StatementArgument DEF Arg
<1>3. << Do("FileRemove", Arg(r)) >> \in Seq(Statement)
    BY <1>2, DoType
<1>4. << Do("FileRemove", Arg(r)) >> \o Tail(script[r]) \in Seq(Statement)
    BY <1>1, <1>3, Served, ConcatProperties
<1>5. ServingOK' /\ IdleHasNoScript'
    BY <1>1, <1>4, ContinueWithType DEF AttachmentRemove
<1>6. Put(invoice_attachments, r, Arg(r), Gone) \in [Files -> Versions(Invoices)]
    BY PutType DEF TypeOK, TablesOK
<1>7. TablesOK'
    BY <1>6 DEF TypeOK, TablesOK, AttachmentRemove
<1>8. HandOK'
    BY DEF TypeOK, HandOK, AttachmentRemove, hand
<1> QED BY <1>5, <1>7, <1>8 DEF TypeOK

LEMMA FileRemoveType ==
    ASSUME TypeOK, IdleHasNoScript, NEW r \in Requests, FileRemove(r)
    PROVE  TypeOK' /\ IdleHasNoScript'
<1>1. script[r] # << >>
    BY DEF FileRemove, Runs, At
<1>2. Put(file, r, Arg(r), Gone) \in [Files -> Versions(FileRecord)]
    BY PutType DEF TypeOK, TablesOK
<1>3. TablesOK'
    BY <1>2 DEF TypeOK, TablesOK, FileRemove
<1>4. ServingOK' /\ IdleHasNoScript'
    BY <1>1, ContinueType DEF FileRemove
<1>5. HandOK'
    BY DEF TypeOK, HandOK, FileRemove, hand
<1> QED BY <1>3, <1>4, <1>5 DEF TypeOK

LEMMA RUTGetType ==
    ASSUME TypeOK, IdleHasNoScript, NEW r \in Requests, RUTGet(r)
    PROVE  TypeOK' /\ IdleHasNoScript'
<1>1. script[r] # << >> /\ Head(script[r]).op = "RUTGet"
    BY DEF RUTGet, Runs, At
<1> DEFINE x == Sees(rut_requests, r)[Arg(r)]
<1>2. CASE Fail(r)
    BY <1>1, <1>2, FailType
<1>3. CASE ~Fail(r)
    <2>1. /\ Live(x)
          /\ rut' = [rut EXCEPT ![r] = x]
          /\ id'  = [id EXCEPT ![r] = x.invoice]
          /\ Continue(r)
          /\ UNCHANGED << tables, inv, rows >>
        BY <1>3 DEF RUTGet
    <2>2. Arg(r) \in RutIds
        BY <1>1, Served, StatementArgument DEF Arg
    <2>3. x \in RutRecord
        BY <2>1, <2>2, SeesType DEF TypeOK, TablesOK
    <2>4. x \in LocalRut /\ x.invoice \in Invoices
        BY <2>3 DEF RutRecord, LocalRut
    <2>5. HandOK' /\ TablesOK'
        BY <2>1, <2>4 DEF TypeOK, HandOK, TablesOK, tables
    <2>6. ServingOK' /\ IdleHasNoScript'
        BY <1>1, <2>1, ContinueType
    <2> QED BY <2>5, <2>6 DEF TypeOK
<1> QED BY <1>2, <1>3

LEMMA RUTListType ==
    ASSUME TypeOK, IdleHasNoScript, NEW r \in Requests, RUTList(r)
    PROVE  TypeOK' /\ IdleHasNoScript'
<1>1. script[r] # << >> /\ Head(script[r]).op = "RUTList"
    BY DEF RUTList, Runs, At
<1>2. Arg(r) \in Types
    BY <1>1, Served, StatementArgument DEF Arg
<1>3. << Do("RUTCreate", Arg(r)) >> \in Seq(Statement)
    BY <1>2, DoType
<1>4. << Do("RUTCreate", Arg(r)) >> \o Tail(script[r]) \in Seq(Statement)
    BY <1>1, <1>3, Served, ConcatProperties
<1>5. ServingOK' /\ IdleHasNoScript'
    BY <1>1, <1>4, ContinueType, ContinueWithType DEF RUTList
<1>6. TablesOK' /\ HandOK'
    BY DEF TypeOK, TablesOK, HandOK, RUTList, tables, hand
<1> QED BY <1>5, <1>6 DEF TypeOK

LEMMA WriteRequestType ==
    ASSUME TypeOK, IdleHasNoScript, NEW r \in Requests, script[r] # << >>,
           NEW k, NEW x \in RutRecord, WriteRequest(r, k, x)
    PROVE  TypeOK' /\ IdleHasNoScript'
<1>1. TablesOK'
    BY PutType DEF TypeOK, TablesOK, WriteRequest
<1>2. ServingOK' /\ IdleHasNoScript'
    BY ContinueType DEF WriteRequest
<1>3. HandOK'
    BY DEF TypeOK, HandOK, WriteRequest, hand
<1> QED BY <1>1, <1>2, <1>3 DEF TypeOK

(* The handler has the invoice in hand: AsksUnderLock. *)
LEMMA RUTCreateType ==
    ASSUME TypeOK, IdleHasNoScript, AsksUnderLock, NEW r \in Requests, RUTCreate(r)
    PROVE  TypeOK' /\ IdleHasNoScript'
<1>1. script[r] # << >> /\ Head(script[r]).op = "RUTCreate"
    BY DEF RUTCreate, Runs, At
<1>2. CASE FreshIds(rut_requests) = {}
    BY <1>1, <1>2, FailType DEF RUTCreate
<1>3. CASE FreshIds(rut_requests) # {}
    <2> DEFINE x == [invoice |-> id[r], type |-> Arg(r), status |-> RUTPending,
                     date_sent |-> FALSE, date_paid |-> FALSE,
                     requested |-> NULL, received |-> NULL]
    <2>1. PICK k \in FreshIds(rut_requests) : WriteRequest(r, k, x)
        BY <1>3 DEF RUTCreate
    <2>2. Arg(r) \in Types
        BY <1>1, Served, StatementArgument DEF Arg
    <2>3. script[r] \in Seq(Statement)
        BY DEF TypeOK, ServingOK
    <2>4. 1 \in DOMAIN script[r] /\ script[r][1] = Head(script[r])
        BY <1>1, <2>3
    <2>5. id[r] \in Invoices
        BY <1>1, <2>4 DEF AsksUnderLock, Locks, Reached, AsksAt
    <2>6. x \in RutRecord
        BY <2>2, <2>5, StatusTypes DEF RutRecord
    <2> QED BY <1>1, <2>1, <2>6, WriteRequestType
<1> QED BY <1>2, <1>3

LEMMA RUTSaveType ==
    ASSUME TypeOK, IdleHasNoScript, NEW r \in Requests, RUTSave(r)
    PROVE  TypeOK' /\ IdleHasNoScript'
<1>1. script[r] # << >> /\ Head(script[r]).op = "RUTSave"
    BY DEF RUTSave, Runs, At
<1> DEFINE old == Sees(rut_requests, r)[Arg(r)]
           x == [rut[r] EXCEPT !.invoice = old.invoice, !.type = old.type]
<1>2. CASE Live(old)
    <2>1. Arg(r) \in RutIds
        BY <1>1, Served, StatementArgument DEF Arg
    <2>2. old \in RutRecord
        BY <1>2, <2>1, SeesType DEF TypeOK, TablesOK
    <2>3. x \in RutRecord
        BY <2>2 DEF TypeOK, HandOK, LocalRut, RutRecord
    <2>4. WriteRequest(r, Arg(r), x)
        BY <1>2 DEF RUTSave
    <2> QED BY <1>1, <2>3, <2>4, WriteRequestType
<1>3. CASE ~Live(old)
    BY <1>1, <1>3, MatchesNothingType DEF RUTSave
<1> QED BY <1>2, <1>3

=============================================================================
