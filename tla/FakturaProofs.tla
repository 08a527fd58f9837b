---------------------------- MODULE FakturaProofs ----------------------------
(***************************************************************************)
(* For any number of concurrent requests and any set of forms, the state   *)
(* keeps its types and no invoice gets two requests of the same type.      *)
(***************************************************************************)
EXTENDS FakturaTypes

Invariant == TypeOK /\ AskInvariant

-----------------------------------------------------------------------------
(* What a step of request r does to the invoices ... *)

WritesInvoice(r) ==
    \/ UNCHANGED invoice
    \/ \E i \in Invoices, x \in InvoiceRecord :
          /\ invoice[i].by \in {NULL, r}
          /\ invoice' = Put(invoice, r, i, x)

(* Nobody loses a lock, or sight of an invoice. *)
LEMMA InvoiceWritten ==
    ASSUME TypeOK, InvoicesNeverRemoved, NEW r \in Requests, WritesInvoice(r)
    PROVE  /\ InvoicesNeverRemoved'
           /\ \A i \in Invoices, s \in Requests : invoice[i].by = s => invoice'[i].by = s
           /\ \A i \in Invoices, s \in Requests \ {r} :
                 Live(Sees(invoice, s)[i]) => Live(Sees(invoice', s)[i])
<1>1. CASE UNCHANGED invoice
    BY <1>1 DEF InvoicesNeverRemoved
<1>2. ASSUME NEW i \in Invoices, NEW x \in InvoiceRecord, invoice[i].by \in {NULL, r},
             invoice' = Put(invoice, r, i, x)
      PROVE  /\ InvoicesNeverRemoved'
             /\ \A j \in Invoices, s \in Requests : invoice[j].by = s => invoice'[j].by = s
             /\ \A j \in Invoices, s \in Requests \ {r} :
                   Live(Sees(invoice, s)[j]) => Live(Sees(invoice', s)[j])
    <2>1. Live(x)
        BY EntitiesAssumption DEF Live
    <2>2. invoice' = [invoice EXCEPT ![i] = [val |-> invoice[i].val, by |-> r, new |-> x]]
        BY <1>2 DEF Put
    <2>3. DOMAIN invoice = Invoices /\ DOMAIN invoice' = Invoices
        BY <2>2 DEF TypeOK, TablesOK
    <2>4. \A j \in Invoices : IF j = i
              THEN invoice'[j] = [val |-> invoice[i].val, by |-> r, new |-> x]
              ELSE invoice'[j] = invoice[j]
        BY <2>2, <2>3
    <2>5. InvoicesNeverRemoved'
        BY <2>1, <2>4 DEF InvoicesNeverRemoved
    <2>6. \A j \in Invoices, s \in Requests : invoice[j].by = s => invoice'[j].by = s
        BY <1>2, <2>4, EntitiesAssumption
    <2>7. ASSUME NEW j \in Invoices, NEW s \in Requests \ {r}, Live(Sees(invoice, s)[j])
          PROVE  Live(Sees(invoice', s)[j])
        <3>1. CASE j = i
            BY <1>2, <2>3, <2>4, <2>7, <3>1, EntitiesAssumption DEF Sees
        <3>2. CASE j # i
            BY <2>3, <2>4, <2>7, <3>2 DEF Sees
        <3> QED BY <3>1, <3>2
    <2> QED BY <2>5, <2>6, <2>7
<1> QED BY <1>1, <1>2 DEF WritesInvoice

LEMMA InvoiceEnded ==
    ASSUME TypeOK, InvoicesNeverRemoved, NEW r \in Requests, NEW commit \in BOOLEAN,
           invoice' = Ended(invoice, r, commit)
    PROVE  /\ InvoicesNeverRemoved'
           /\ \A i \in Invoices, s \in Requests \ {r} :
                 invoice[i].by = s => invoice'[i].by = s
           /\ \A i \in Invoices, s \in Requests \ {r} :
                 Live(Sees(invoice, s)[i]) => Live(Sees(invoice', s)[i])
<1>1. DOMAIN invoice = Invoices /\ DOMAIN invoice' = Invoices
    BY DEF TypeOK, TablesOK, Ended
<1>2. \A i \in Invoices :
         IF invoice[i].by # r THEN invoice'[i] = invoice[i]
         ELSE /\ invoice'[i].by = NULL
              /\ invoice'[i].val = IF commit THEN invoice[i].new ELSE invoice[i].val
    BY <1>1 DEF Ended, Settled
<1>3. \A i \in Invoices : invoice[i].by = r => Live(invoice[i].new)
    BY EntitiesAssumption DEF InvoicesNeverRemoved
<1>4. InvoicesNeverRemoved'
    BY <1>2 DEF InvoicesNeverRemoved
<1>5. ASSUME NEW i \in Invoices, NEW s \in Requests \ {r}, Live(Sees(invoice, s)[i])
      PROVE  Live(Sees(invoice', s)[i])
    <2>1. CASE invoice[i].by # r
        BY <1>1, <1>2, <1>5, <2>1 DEF Sees
    <2>2. CASE invoice[i].by = r
        BY <1>1, <1>2, <1>3, <1>5, <2>2, EntitiesAssumption DEF Sees
    <2> QED BY <2>1, <2>2
<1> QED BY <1>2, <1>4, <1>5

-----------------------------------------------------------------------------
(* ... and what it does to the ROT/RUT requests. *)

SavesRequest(r) ==
    \/ UNCHANGED rut_requests
    \/ \E k \in RutIds, x \in RutRecord :
          LET old == Sees(rut_requests, r)[k] IN
          /\ rut_requests[k].by \in {NULL, r}
          /\ Live(old) /\ x.invoice = old.invoice /\ x.type = old.type
          /\ rut_requests' = Put(rut_requests, r, k, x)

(* The requests that are new, with their invoices, stay as they are. *)
NewOnesStay ==
    \A k \in RutIds :
        rut_requests'[k].by # NULL /\ ~Live(rut_requests'[k].val) =>
            /\ ~Live(rut_requests[k].val)
            /\ rut_requests'[k].by = rut_requests[k].by
            /\ rut_requests'[k].new.invoice = rut_requests[k].new.invoice

KeysStay == \A k \in RutIds : Stored(k)' => Stored(k) /\ Key(k)' = Key(k)

LEMMA RequestSaved ==
    ASSUME TypeOK, KeysFixed, NEW r \in Requests, SavesRequest(r)
    PROVE  KeysFixed' /\ NewOnesStay /\ KeysStay
<1>1. CASE UNCHANGED rut_requests
    BY <1>1 DEF KeysFixed, NewOnesStay, KeysStay, Stored, Key
<1>2. ASSUME NEW k \in RutIds, NEW x \in RutRecord,
             rut_requests[k].by \in {NULL, r},
             Live(Sees(rut_requests, r)[k]),
             x.invoice = Sees(rut_requests, r)[k].invoice,
             x.type = Sees(rut_requests, r)[k].type,
             rut_requests' = Put(rut_requests, r, k, x)
      PROVE  KeysFixed' /\ NewOnesStay /\ KeysStay
    <2> DEFINE row == rut_requests[k]
    <2>1. Live(x)
        BY EntitiesAssumption DEF Live
    <2>2. r # NULL
        BY EntitiesAssumption
    <2>3. DOMAIN rut_requests = RutIds
        BY DEF TypeOK, TablesOK
    <2>4. \A l \in RutIds : IF l = k
              THEN rut_requests'[l] = [val |-> row.val, by |-> r, new |-> x]
              ELSE rut_requests'[l] = rut_requests[l]
        BY <1>2, <2>3 DEF Put
    <2>5. Sees(rut_requests, r)[k] = IF row.by = r THEN row.new ELSE row.val
        BY <2>3 DEF Sees
    <2>6. Stored(k) /\ Key(k) = << x.invoice, x.type >>
        BY <1>2, <2>2, <2>5 DEF Stored, Key, KeysFixed
    <2>7. Key(k)' = Key(k)
        BY <2>4, <2>6 DEF Key
    <2>8. KeysFixed'
        BY <2>1, <2>4, <2>6, <2>7 DEF KeysFixed, Key
    <2>9. KeysStay
        BY <2>4, <2>6, <2>7 DEF KeysStay, Stored, Key
    <2>10. row.by = NULL => Live(row.val)
        BY <1>2, <2>2, <2>5
    <2>11. row.by = r => x.invoice = row.new.invoice
        BY <1>2, <2>5
    <2>12. NewOnesStay
        BY <1>2, <2>4, <2>10, <2>11 DEF NewOnesStay
    <2> QED BY <2>8, <2>9, <2>12
<1> QED BY <1>1, <1>2 DEF SavesRequest

LEMMA RequestEnded ==
    ASSUME TypeOK, KeysFixed, NEW r \in Requests, NEW commit \in BOOLEAN,
           rut_requests' = Ended(rut_requests, r, commit)
    PROVE  /\ KeysFixed' /\ NewOnesStay /\ KeysStay
           /\ \A k \in RutIds : rut_requests'[k].by # r
<1>1. DOMAIN rut_requests = RutIds
    BY DEF TypeOK, TablesOK
<1>2. \A k \in RutIds :
         IF rut_requests[k].by # r THEN rut_requests'[k] = rut_requests[k]
         ELSE /\ rut_requests'[k].by = NULL
              /\ rut_requests'[k].val = IF commit THEN rut_requests[k].new
                                                  ELSE rut_requests[k].val
    BY <1>1 DEF Ended, Settled
<1>3. r # NULL
    BY EntitiesAssumption
<1>4. KeysFixed'
    BY <1>2 DEF KeysFixed, Key
<1>5. NewOnesStay
    BY <1>2 DEF NewOnesStay
<1>6. KeysStay
    <2> SUFFICES ASSUME NEW k \in RutIds, Stored(k)'
                 PROVE  Stored(k) /\ Key(k)' = Key(k)
        BY DEF KeysStay
    <2>1. CASE rut_requests[k].by # r
        BY <1>2, <2>1 DEF Stored, Key
    <2>2. CASE rut_requests[k].by = r
        BY <1>2, <1>3, <2>2 DEF Stored, Key, KeysFixed
    <2> QED BY <2>1, <2>2
<1> QED BY <1>2, <1>3, <1>4, <1>5, <1>6

-----------------------------------------------------------------------------
(* A step of request r, on the tables and on the scripts of the others. *)

Serves(r) ==
    \/ WritesInvoice(r) /\ SavesRequest(r)
    \/ \E commit \in BOOLEAN : /\ invoice' = Ended(invoice, r, commit)
                               /\ rut_requests' = Ended(rut_requests, r, commit)

ServesOnly(r) ==
    \A s \in Requests \ {r} : script'[s] = script[s] /\ id'[s] = id[s]

(* What another request relies on. *)
LeavesOthers(r) ==
    \A i \in Invoices, s \in Requests \ {r} :
        /\ invoice[i].by = s => invoice'[i].by = s
        /\ Live(Sees(invoice, s)[i]) => Live(Sees(invoice', s)[i])

(* A request that is not yet committed names an invoice. *)
LEMMA NewNamesInvoice ==
    ASSUME TypeOK, KeysFixed, NEW k \in RutIds, rut_requests[k].by # NULL
    PROVE  rut_requests[k].by \in Requests /\ rut_requests[k].new.invoice \in Invoices
<1>1. rut_requests[k] \in Versions(RutRecord)
    BY DEF TypeOK, TablesOK
<1>2. Live(rut_requests[k].new)
    BY DEF KeysFixed
<1>3. rut_requests[k].new \in RutRecord
    BY <1>1, <1>2 DEF Versions, Live
<1> QED BY <1>1, <1>3 DEF Versions, RutRecord

LEMMA TablesStay ==
    ASSUME Invariant, NEW r \in Requests, Serves(r)
    PROVE  /\ InvoicesNeverRemoved' /\ KeysFixed' /\ NewRequestsUnderLock' /\ KeysUnique'
           /\ KeysStay /\ LeavesOthers(r)
<1>1. TypeOK /\ InvoicesNeverRemoved /\ KeysFixed /\ NewRequestsUnderLock /\ KeysUnique
    BY DEF Invariant, AskInvariant
<1>2. /\ InvoicesNeverRemoved' /\ LeavesOthers(r)
      /\ KeysFixed' /\ NewOnesStay /\ KeysStay
    <2>1. CASE WritesInvoice(r) /\ SavesRequest(r)
        BY <1>1, <2>1, InvoiceWritten, RequestSaved DEF LeavesOthers
    <2>2. ASSUME NEW commit \in BOOLEAN, invoice' = Ended(invoice, r, commit),
                 rut_requests' = Ended(rut_requests, r, commit)
          PROVE  /\ InvoicesNeverRemoved' /\ LeavesOthers(r)
                 /\ KeysFixed' /\ NewOnesStay /\ KeysStay
        BY <1>1, <2>2, InvoiceEnded, RequestEnded DEF LeavesOthers
    <2> QED BY <2>1, <2>2 DEF Serves
<1>3. NewRequestsUnderLock'
    <2> SUFFICES ASSUME NEW k \in RutIds, rut_requests'[k].by # NULL,
                        ~Live(rut_requests'[k].val)
                 PROVE  invoice'[rut_requests'[k].new.invoice].by = rut_requests'[k].by
        BY DEF NewRequestsUnderLock
    <2> DEFINE i == rut_requests[k].new.invoice
               s == rut_requests[k].by
    <2>1. /\ ~Live(rut_requests[k].val) /\ rut_requests'[k].by = s
          /\ rut_requests'[k].new.invoice = i
        BY <1>2 DEF NewOnesStay
    <2>2. invoice[i].by = s
        BY <1>1, <2>1 DEF NewRequestsUnderLock
    <2>3. i \in Invoices /\ s \in Requests
        BY <1>1, <2>1, NewNamesInvoice
    <2>4. invoice'[i].by = s
        <3>1. CASE WritesInvoice(r) /\ SavesRequest(r)
            BY <1>1, <2>2, <2>3, <3>1, InvoiceWritten
        <3>2. CASE \E commit \in BOOLEAN : /\ invoice' = Ended(invoice, r, commit)
                                           /\ rut_requests' = Ended(rut_requests, r, commit)
            <4>1. s # r
                BY <1>1, <2>1, <3>2, RequestEnded
            <4> QED BY <1>2, <2>2, <2>3, <4>1 DEF LeavesOthers
        <3> QED BY <3>1, <3>2 DEF Serves
    <2> QED BY <2>1, <2>4
<1>4. KeysUnique'
    BY <1>1, <1>2 DEF KeysUnique, KeysStay
<1> QED BY <1>2, <1>3, <1>4

LEMMA OthersStay ==
    ASSUME Invariant, NEW r \in Requests, ServesOnly(r), LeavesOthers(r),
           NEW s \in Requests \ {r}
    PROVE  /\ Found(s)' /\ Locks(s)'
           /\ KeysStay => Fresh(s)'
<1>1. Found(s) /\ Locks(s) /\ Fresh(s)
    BY DEF Invariant, AskInvariant, FoundBeforeRows, AsksUnderLock, SearchIsFresh
<1>2. script'[s] = script[s] /\ id'[s] = id[s]
    BY DEF ServesOnly
<1>3. Reached(s) => Reached(s)'
    BY <1>2 DEF Reached, LeavesOthers
<1>4. Found(s)'
    BY <1>1, <1>2, <1>3 DEF Found
<1>5. AsksAt(s)' = AsksAt(s) /\ (At(s, "InvoiceSave")' <=> At(s, "InvoiceSave"))
    BY <1>2 DEF AsksAt, At
<1>6. id[s] \in Invoices /\ invoice[id[s]].by = s
      => id'[s] \in Invoices /\ invoice'[id'[s]].by = s
    BY <1>2 DEF LeavesOthers
<1>7. Locks(s)'
    BY <1>1, <1>2, <1>3, <1>5, <1>6 DEF Locks
<1>8. KeysStay => Fresh(s)'
    BY <1>1, <1>2 DEF Fresh, KeysStay
<1> QED BY <1>4, <1>7, <1>8

(* What remains to be shown of a step of r: its types and its own script. *)
LEMMA StepStays ==
    ASSUME Invariant, NEW r \in Requests, Serves(r), ServesOnly(r),
           TypeOK', IdleHasNoScript', Found(r)', Locks(r)', Fresh(r)'
    PROVE  Invariant'
<1>1. /\ InvoicesNeverRemoved' /\ KeysFixed' /\ NewRequestsUnderLock' /\ KeysUnique'
      /\ KeysStay /\ LeavesOthers(r)
    BY TablesStay
<1>2. \A s \in Requests \ {r} : Found(s)' /\ Locks(s)' /\ Fresh(s)'
    BY <1>1, OthersStay
<1>3. FoundBeforeRows' /\ AsksUnderLock' /\ SearchIsFresh'
    BY <1>2 DEF FoundBeforeRows, AsksUnderLock, SearchIsFresh
<1> QED BY <1>1, <1>3 DEF Invariant, AskInvariant

-----------------------------------------------------------------------------
(* A step of request r, on its own script. *)

OwnInvariant(r) == Found(r) /\ Locks(r) /\ Fresh(r)

(* A script that asks for no ROT/RUT request, and looks for the invoice    *)
(* before it reads the rows.                                               *)
Quiet(q) ==
    \A n \in DOMAIN q :
        /\ q[n].op \notin {"RUTList", "RUTCreate"}
        /\ q[n].op = "InvoiceRows" => n > 1 /\ q[n - 1].op = "InvoiceList"

LEMMA QuietSuffices ==
    ASSUME NEW r \in Requests, Quiet(script[r])'
    PROVE  OwnInvariant(r)'
<1>1. AsksAt(r)' = {}
    BY DEF AsksAt, Quiet
<1>2. Found(r)'
    BY DEF Found, Quiet
<1>3. Locks(r)'
    BY <1>1 DEF Locks
<1>4. Fresh(r)'
    BY DEF Fresh, Quiet
<1> QED BY <1>2, <1>3, <1>4 DEF OwnInvariant

LEMMA PlainIsQuiet ==
    ASSUME NEW q \in Seq(Plain)
    PROVE  Quiet(q)
<1>1. \A n \in DOMAIN q : q[n] \in Plain
    BY LenProperties, ElementOfSeq
<1> QED BY <1>1 DEF Quiet, Plain

(* A quiet script stays so behind a statement that is no question. *)
LEMMA ReplacedIsQuiet ==
    ASSUME NEW q \in Seq(Statement), Quiet(q), NEW d \in Plain
    PROVE  Quiet(<< d >> \o q)
<1>1. d.op \notin {"RUTList", "RUTCreate", "InvoiceRows"}
    BY DEF Plain
<1>2. /\ << d >> \o q \in Seq(Statement) /\ Len(<< d >> \o q) = Len(q) + 1
      /\ (<< d >> \o q)[1] = d
      /\ \A n \in 1..Len(q) : (<< d >> \o q)[n + 1] = q[n]
    BY DEF Plain
<1> SUFFICES ASSUME NEW n \in DOMAIN (<< d >> \o q)
             PROVE  /\ (<< d >> \o q)[n].op \notin {"RUTList", "RUTCreate"}
                    /\ (<< d >> \o q)[n].op = "InvoiceRows"
                       => n > 1 /\ (<< d >> \o q)[n - 1].op = "InvoiceList"
    BY DEF Quiet
<1>3. CASE n = 1
    BY <1>1, <1>2, <1>3
<1>4. CASE n # 1
    <2>1. n - 1 \in 1..Len(q) /\ n = (n - 1) + 1 /\ Len(q) \in Nat
        BY <1>2, <1>4
    <2>2. (<< d >> \o q)[n] = q[n - 1]
        BY <1>2, <2>1
    <2>3. /\ q[n - 1].op \notin {"RUTList", "RUTCreate"}
          /\ q[n - 1].op = "InvoiceRows" => n - 1 > 1 /\ q[(n - 1) - 1].op = "InvoiceList"
        <3>1. n - 1 \in DOMAIN q
            BY <2>1
        <3> QED BY <3>1 DEF Quiet
    <2>4. ASSUME n - 1 > 1 PROVE (<< d >> \o q)[n - 1] = q[(n - 1) - 1]
        <3>1. (n - 1) - 1 \in 1..Len(q) /\ n - 1 = ((n - 1) - 1) + 1
            BY <2>1, <2>4
        <3> QED BY <1>2, <3>1
    <2> QED BY <2>1, <2>2, <2>3, <2>4
<1> QED BY <1>3, <1>4

LEMMA OpeningIsQuiet ==
    ASSUME NEW f \in Form
    PROVE  Quiet(Opening(f))
<1>1. CASE IsRut(f)
    <2>1. Opening(f) = << Do("RUTGet", f.rut) >> \o InvoiceGet
        BY <1>1 DEF Opening
    <2>2. Do("RUTGet", f.rut) \in Plain
        BY <1>1, DoType DEF Form, InvoiceForm, RutForm, FlagForm, PostForm, AttachForm,
                            RutFlagForm, RutPostForm, IsRut
    <2>3. Quiet(InvoiceGet)
        BY DEF InvoiceGet, Quiet, Do
    <2> QED BY <2>1, <2>2, <2>3, InvoiceGetType, ReplacedIsQuiet
<1>2. CASE ~IsRut(f) /\ f.invoice = NULL
    <2>1. Opening(f) = << Do("GetNextInvoiceNumber", f.company) >>
        BY <1>2 DEF Opening
    <2> QED BY <2>1 DEF Quiet, Do
<1>3. CASE ~IsRut(f) /\ f.invoice # NULL
    <2>1. Opening(f) = << Do("InvoiceList", NULL), Do("InvoiceRows", NULL) >>
        BY <1>3 DEF Opening, InvoiceGet
    <2> QED BY <2>1 DEF Quiet, Do
<1> QED BY <1>1, <1>2, <1>3

(* The script of a request, by its head and its tail. *)
LEMMA ScriptParts ==
    ASSUME TypeOK, NEW r \in Requests, script[r] # << >>
    PROVE  /\ script[r] \in Seq(Statement)
           /\ 1 \in DOMAIN script[r] /\ script[r][1] = Head(script[r])
           /\ Tail(script[r]) \in Seq(Statement)
           /\ \A n \in DOMAIN Tail(script[r]) :
                 /\ n \in Nat \ {0} /\ n + 1 \in DOMAIN script[r]
                 /\ Tail(script[r])[n] = script[r][n + 1]
                 /\ \A m \in 1..n : m \in DOMAIN Tail(script[r])
<1>1. script[r] \in Seq(Statement)
    BY DEF TypeOK, ServingOK
<1>2. /\ Len(script[r]) \in Nat /\ Len(script[r]) >= 1
      /\ DOMAIN script[r] = 1..Len(script[r])
      /\ script[r][1] = Head(script[r])
    BY <1>1
<1>3. /\ Tail(script[r]) \in Seq(Statement)
      /\ DOMAIN Tail(script[r]) = 1..(Len(script[r]) - 1)
      /\ \A n \in 1..(Len(script[r]) - 1) : Tail(script[r])[n] = script[r][n + 1]
    BY <1>1
<1> HIDE <1>1
<1> QED BY <1>1, <1>2, <1>3

(* A statement that is no question leaves a quiet script behind it. *)
LEMMA TailIsQuiet ==
    ASSUME TypeOK, NEW r \in Requests, OwnInvariant(r), script[r] # << >>,
           Head(script[r]).op \notin {"RUTList", "RUTCreate", "InvoiceList"},
           Head(script[r]).op = "InvoiceSave" => id[r] = NULL
    PROVE  Quiet(Tail(script[r]))
<1> SUFFICES ASSUME NEW n \in DOMAIN Tail(script[r])
             PROVE  /\ Tail(script[r])[n].op \notin {"RUTList", "RUTCreate"}
                    /\ Tail(script[r])[n].op = "InvoiceRows"
                       => n > 1 /\ Tail(script[r])[n - 1].op = "InvoiceList"
    BY DEF Quiet
<1>1. /\ n \in Nat \ {0} /\ n + 1 \in DOMAIN script[r]
      /\ Tail(script[r])[n] = script[r][n + 1]
      /\ script[r][1] = Head(script[r])
    BY ScriptParts
<1>2. n + 1 \notin AsksAt(r)
    <2> SUFFICES ASSUME n + 1 \in AsksAt(r) PROVE FALSE
        OBVIOUS
    <2>1. CASE At(r, "InvoiceSave") /\ Reached(r)
        BY <2>1, EntitiesAssumption DEF At, Reached
    <2>2. CASE 1..(n + 1) \subseteq AsksAt(r)
        <3>1. 1 \in AsksAt(r)
            BY <1>1, <2>2
        <3> QED BY <1>1, <3>1 DEF AsksAt
    <2> QED BY <2>1, <2>2 DEF OwnInvariant, Locks
<1>3. ASSUME Tail(script[r])[n].op = "InvoiceRows"
      PROVE  n > 1 /\ Tail(script[r])[n - 1].op = "InvoiceList"
    <2>1. script[r][n].op = "InvoiceList"
        <3>1. n + 1 # 1 /\ (n + 1) - 1 = n
            BY <1>1
        <3> QED BY <1>1, <1>3, <3>1 DEF OwnInvariant, Found
    <2>2. n > 1
        BY <1>1, <2>1
    <2>3. n - 1 \in DOMAIN Tail(script[r]) /\ (n - 1) + 1 = n
        BY <1>1, <2>2, ScriptParts
    <2>4. Tail(script[r])[n - 1] = script[r][(n - 1) + 1]
        BY <2>3, ScriptParts
    <2> QED BY <2>1, <2>2, <2>3, <2>4
<1> QED BY <1>1, <1>2, <1>3 DEF AsksAt

-----------------------------------------------------------------------------
(* The scripts that do ask. *)

(* Only the flag of a payment asks, and it makes no invoice of an offer. *)
LEMMA AskingIsPaying ==
    ASSUME NEW f, NEW x, NEW rws, NEW types \in SetToSeqs(RequestTypes(f, x, rws)),
           Len(types) # 0
    PROVE  f.flag = "paid" /\ ~f.revoke /\ x.rut_applicable /\ ~Converts(f)
<1>1. RequestTypes(f, x, rws) # {}
    <2>1. RequestTypes(f, x, rws) \subseteq Types
        BY DEF RequestTypes, ServiceTypes
    <2>2. types \in Seq(RequestTypes(f, x, rws))
        BY <2>1, TypesFinite, FS_Subset, OrdersType
    <2>3. Len(types) \in Nat /\ \A n \in 1..Len(types) : types[n] \in RequestTypes(f, x, rws)
        BY <2>2, LenProperties, ElementOfSeq
    <2> QED BY <2>3
<1> QED BY <1>1 DEF RequestTypes, Converts

(* Flagging saves the invoice, asks, and does nothing more of the kind; a  *)
(* script that asks does nothing else.                                     *)
LEMMA FlagShape ==
    ASSUME NEW f \in FlagForm, NEW x, NEW rws \in LocalRows, NEW q \in FlagScripts(f, x, rws)
    PROVE  /\ q \in Seq(Statement) /\ q # << >> /\ Head(q).op = "InvoiceSave"
           /\ \E m \in Nat :
                 /\ 2..m \subseteq DOMAIN q
                 /\ \A n \in 2..m : q[n].op = "RUTList"
                 /\ \A n \in DOMAIN q \ 2..m :
                       q[n].op \notin {"RUTList", "RUTCreate", "InvoiceRows"}
                 /\ 2..m # {} => /\ DOMAIN q = 1..m
                                 /\ f.flag = "paid" /\ ~f.revoke /\ x.rut_applicable
<1>1. PICK types \in SetToSeqs(RequestTypes(f, x, rws)), copied \in SetToSeqs(Present(rws)) :
         q = InvoiceSaveStmt \o ForEach(types, "RUTList")
             \o If(Converts(f), Conversion(f, rws, copied))
    BY DEF FlagScripts
<1> DEFINE A == InvoiceSaveStmt
           L == ForEach(types, "RUTList")
           C == If(Converts(f), Conversion(f, rws, copied))
<1>2. /\ A \in Seq(Statement) /\ Len(A) = 1 /\ A[1].op = "InvoiceSave"
    BY DoType DEF InvoiceSaveStmt, Do
<1>3. L \in Seq(Statement) /\ \A n \in 1..Len(L) : L[n].op = "RUTList"
    <2>1. types \in Seq(Types) /\ L \in Seq(Statement)
        BY RUTListsType, HandledIsPlain
    <2>2. Len(types) \in Nat
        BY <2>1, LenProperties
    <2>3. Len(L) = Len(types)
        BY <2>2 DEF ForEach
    <2> QED BY <2>1, <2>3 DEF ForEach, Do
<1>4. Len(L) # 0 => /\ f.flag = "paid" /\ ~f.revoke /\ x.rut_applicable
                    /\ Len(C) = 0
    <2>1. Len(types) \in Nat
        BY RUTListsType, LenProperties
    <2>2. Len(L) = Len(types)
        BY <2>1 DEF ForEach
    <2> QED BY <2>2, AskingIsPaying DEF If
<1>5. /\ C \in Seq(Statement)
      /\ \A n \in 1..Len(C) : C[n].op \notin {"RUTList", "RUTCreate", "InvoiceRows"}
    <2>1. C \in Seq(Plain)
        BY ConversionType, HandledIsPlain, IfType
    <2>2. \A n \in 1..Len(C) : C[n] \in Plain
        BY <2>1, LenProperties, ElementOfSeq
    <2> QED BY <2>1, <2>2, PlainIsScript DEF Plain
<1>6. q = (A \o L) \o C
    BY <1>1
<1> HIDE DEF A, L, C
<1>7. /\ A \o L \in Seq(Statement) /\ Len(A \o L) = 1 + Len(L)
      /\ (A \o L)[1] = A[1]
      /\ \A n \in 2..(1 + Len(L)) : (A \o L)[n] = L[n - 1]
      /\ Len(L) \in Nat /\ Len(C) \in Nat
    <2>1. /\ A \o L \in Seq(Statement) /\ Len(A \o L) = 1 + Len(L)
          /\ \A n \in 1..(1 + Len(L)) : (A \o L)[n] = IF n <= 1 THEN A[n] ELSE L[n - 1]
        BY <1>2, <1>3, ConcatProperties
    <2>2. Len(L) \in Nat /\ Len(C) \in Nat
        BY <1>3, <1>5, LenProperties
    <2> QED BY <2>1, <2>2
<1>8. /\ q \in Seq(Statement) /\ DOMAIN q = 1..(1 + Len(L) + Len(C))
      /\ q[1] = A[1]
      /\ \A n \in 2..(1 + Len(L)) : q[n] = L[n - 1]
      /\ \A n \in (2 + Len(L))..(1 + Len(L) + Len(C)) : q[n] = C[n - (1 + Len(L))]
    <2>1. /\ q \in Seq(Statement) /\ Len(q) = Len(A \o L) + Len(C)
          /\ \A n \in 1..(Len(A \o L) + Len(C)) :
                q[n] = IF n <= Len(A \o L) THEN (A \o L)[n] ELSE C[n - Len(A \o L)]
        <3> DEFINE AL == A \o L
        <3>1. q = AL \o C /\ AL \in Seq(Statement)
            BY <1>6, <1>7
        <3> HIDE DEF AL
        <3>2. /\ AL \o C \in Seq(Statement) /\ Len(AL \o C) = Len(AL) + Len(C)
              /\ \A n \in 1..(Len(AL) + Len(C)) :
                    (AL \o C)[n] = IF n <= Len(AL) THEN AL[n] ELSE C[n - Len(AL)]
            BY <1>5, <3>1, ConcatProperties
        <3> QED BY <3>1, <3>2 DEF AL
    <2>2. DOMAIN q = 1..Len(q)
        BY <2>1, LenProperties
    <2> QED BY <1>7, <2>1, <2>2
<1>9. q # << >> /\ Head(q).op = "InvoiceSave"
    BY <1>2, <1>7, <1>8
<1>10. \A n \in 2..(1 + Len(L)) : q[n].op = "RUTList"
    <2>1. \A n \in 2..(1 + Len(L)) : n - 1 \in 1..Len(L)
        BY <1>7
    <2> QED BY <1>3, <1>8, <2>1
<1>11. \A n \in DOMAIN q \ 2..(1 + Len(L)) :
          q[n].op \notin {"RUTList", "RUTCreate", "InvoiceRows"}
    <2> SUFFICES ASSUME NEW n \in DOMAIN q \ 2..(1 + Len(L))
                 PROVE  q[n].op \notin {"RUTList", "RUTCreate", "InvoiceRows"}
        OBVIOUS
    <2>1. CASE n = 1
        BY <1>2, <1>8, <2>1
    <2>2. CASE n # 1
        <3>1. /\ n \in (2 + Len(L))..(1 + Len(L) + Len(C))
              /\ n - (1 + Len(L)) \in 1..Len(C)
            BY <1>7, <1>8, <2>2
        <3> QED BY <1>5, <1>8, <3>1
    <2> QED BY <2>1, <2>2
<1>12. 2..(1 + Len(L)) # {} => /\ DOMAIN q = 1..(1 + Len(L))
                               /\ f.flag = "paid" /\ ~f.revoke /\ x.rut_applicable
    <2>1. 2..(1 + Len(L)) # {} => Len(L) # 0
        BY <1>7
    <2>2. ASSUME Len(L) # 0 PROVE DOMAIN q = 1..(1 + Len(L))
        <3>1. 1 + Len(L) + Len(C) = 1 + Len(L)
            BY <1>4, <1>7, <2>2
        <3> QED BY <1>8, <3>1
    <2> QED BY <1>4, <2>1, <2>2, Zenon
<1>13. 1 + Len(L) \in Nat /\ 2..(1 + Len(L)) \subseteq DOMAIN q
    BY <1>7, <1>8
<1> QED BY <1>8, <1>9, <1>10, <1>11, <1>12, <1>13, Zenon

LEMMA FlagStays ==
    ASSUME NEW f \in FlagForm, NEW x, NEW rws \in LocalRows, NEW q \in FlagScripts(f, x, rws),
           NEW r \in Requests, Reached(r)', script'[r] = q
    PROVE  OwnInvariant(r)'
<1>1. q # << >> /\ Head(q).op = "InvoiceSave"
    BY FlagShape
<1>2. PICK m \in Nat :
         /\ 2..m \subseteq DOMAIN q
         /\ \A n \in 2..m : q[n].op = "RUTList"
         /\ \A n \in DOMAIN q \ 2..m : q[n].op \notin {"RUTList", "RUTCreate", "InvoiceRows"}
    BY FlagShape
<1>3. AsksAt(r)' = 2..m
    BY <1>2 DEF AsksAt
<1>4. At(r, "InvoiceSave")'
    BY <1>1 DEF At
<1>5. Locks(r)'
    BY <1>3, <1>4 DEF Locks
<1>6. Found(r)' /\ Fresh(r)'
    BY <1>2 DEF Found, Fresh
<1> QED BY <1>5, <1>6 DEF OwnInvariant

(* InvoiceSave takes the lock under which the rest of the script asks. *)
LEMMA SavedStays ==
    ASSUME TypeOK, NEW r \in Requests, OwnInvariant(r), At(r, "InvoiceSave"),
           script'[r] = Tail(script[r]), id'[r] = id[r],
           Reached(r) => invoice'[id[r]].by = r
    PROVE  OwnInvariant(r)'
<1>1. script[r] # << >> /\ Head(script[r]).op = "InvoiceSave"
    BY DEF At
<1>2. \A n \in DOMAIN Tail(script[r]) :
         /\ n \in Nat \ {0} /\ n + 1 \in DOMAIN script[r]
         /\ Tail(script[r])[n] = script[r][n + 1]
         /\ \A m \in 1..n : m \in DOMAIN Tail(script[r])
    BY <1>1, ScriptParts
<1>3. script[r][1].op = "InvoiceSave" /\ 1 \notin AsksAt(r)
    BY <1>1, ScriptParts DEF AsksAt
<1>4. \A n \in DOMAIN Tail(script[r]) : n \in AsksAt(r)' <=> n + 1 \in AsksAt(r)
    BY <1>2 DEF AsksAt
<1>5. AsksAt(r)' \subseteq DOMAIN Tail(script[r])
    BY DEF AsksAt
<1>6. Locks(r)'
    <2> SUFFICES ASSUME NEW n \in AsksAt(r)'
                 PROVE  /\ id[r] \in Invoices /\ invoice'[id[r]].by = r
                        /\ 1..n \subseteq AsksAt(r)'
        BY DEF Locks
    <2>1. n \in DOMAIN Tail(script[r]) /\ n \in Nat \ {0} /\ n + 1 \in AsksAt(r)
        BY <1>2, <1>4, <1>5
    <2>2. Reached(r) /\ 2..(n + 1) \subseteq AsksAt(r)
        <3>1. ~(1..(n + 1) \subseteq AsksAt(r))
            BY <1>3, <2>1
        <3> QED BY <2>1, <3>1 DEF OwnInvariant, Locks
    <2>3. ASSUME NEW m \in 1..n PROVE m \in AsksAt(r)'
        <3>1. m + 1 \in 2..(n + 1) /\ m \in DOMAIN Tail(script[r])
            BY <1>2, <2>1
        <3> QED BY <1>4, <2>2, <3>1
    <2> QED BY <2>2, <2>3 DEF Reached
<1>7. Found(r)'
    <2> SUFFICES ASSUME NEW n \in DOMAIN Tail(script[r]),
                        Tail(script[r])[n].op = "InvoiceRows"
                 PROVE  IF n = 1 THEN Reached(r)'
                        ELSE Tail(script[r])[n - 1].op = "InvoiceList"
        BY DEF Found
    <2>1. n + 1 # 1 /\ (n + 1) - 1 = n
        BY <1>2
    <2>2. script[r][n].op = "InvoiceList"
        BY <1>2, <2>1 DEF OwnInvariant, Found
    <2>3. n # 1
        BY <1>3, <2>2
    <2>4. n - 1 \in DOMAIN Tail(script[r]) /\ (n - 1) + 1 = n
        BY <1>2, <2>3
    <2> QED BY <1>2, <2>2, <2>3, <2>4
<1>8. Fresh(r)'
    <2> SUFFICES ASSUME NEW n \in DOMAIN Tail(script[r]),
                        Tail(script[r])[n].op = "RUTCreate"
                 PROVE  FALSE
        BY DEF Fresh
    <2>1. n + 1 \in DOMAIN script[r] /\ script[r][n + 1].op = "RUTCreate" /\ n + 1 # 1
        BY <1>2
    <2> QED BY <2>1 DEF OwnInvariant, Fresh
<1> QED BY <1>6, <1>7, <1>8 DEF OwnInvariant

(* A question that was answered leaves the next ones under the same lock. *)
LEMMA AnsweredStays ==
    ASSUME TypeOK, NEW r \in Requests, OwnInvariant(r), script[r] # << >>,
           Head(script[r]).op \in {"RUTList", "RUTCreate"},
           script'[r] = Tail(script[r]), id'[r] = id[r], UNCHANGED invoice
    PROVE  OwnInvariant(r)'
<1>1. \A n \in DOMAIN Tail(script[r]) :
         /\ n \in Nat \ {0} /\ n + 1 \in DOMAIN script[r]
         /\ Tail(script[r])[n] = script[r][n + 1]
         /\ \A m \in 1..n : m \in DOMAIN Tail(script[r])
    BY ScriptParts
<1>2. script[r][1].op \in {"RUTList", "RUTCreate"} /\ ~At(r, "InvoiceSave")
    BY ScriptParts DEF At
<1>3. \A n \in DOMAIN Tail(script[r]) : n \in AsksAt(r)' <=> n + 1 \in AsksAt(r)
    BY <1>1 DEF AsksAt
<1>4. AsksAt(r)' \subseteq DOMAIN Tail(script[r])
    BY DEF AsksAt
<1>5. Locks(r)'
    <2> SUFFICES ASSUME NEW n \in AsksAt(r)'
                 PROVE  /\ id[r] \in Invoices /\ invoice[id[r]].by = r
                        /\ 1..n \subseteq AsksAt(r)'
        BY DEF Locks
    <2>1. n \in DOMAIN Tail(script[r]) /\ n \in Nat \ {0} /\ n + 1 \in AsksAt(r)
        BY <1>1, <1>3, <1>4
    <2>2. /\ id[r] \in Invoices /\ invoice[id[r]].by = r
          /\ 1..(n + 1) \subseteq AsksAt(r)
        BY <1>2, <2>1 DEF OwnInvariant, Locks
    <2>3. ASSUME NEW m \in 1..n PROVE m \in AsksAt(r)'
        <3>1. m + 1 \in 1..(n + 1) /\ m \in DOMAIN Tail(script[r])
            BY <1>1, <2>1
        <3> QED BY <1>3, <2>2, <3>1
    <2> QED BY <2>2, <2>3
<1>6. Found(r)'
    <2> SUFFICES ASSUME NEW n \in DOMAIN Tail(script[r]),
                        Tail(script[r])[n].op = "InvoiceRows"
                 PROVE  IF n = 1 THEN Reached(r)'
                        ELSE Tail(script[r])[n - 1].op = "InvoiceList"
        BY DEF Found
    <2>1. n + 1 # 1 /\ (n + 1) - 1 = n
        BY <1>1
    <2>2. script[r][n].op = "InvoiceList"
        BY <1>1, <2>1 DEF OwnInvariant, Found
    <2>3. n # 1
        BY <1>2, <2>2
    <2>4. n - 1 \in DOMAIN Tail(script[r]) /\ (n - 1) + 1 = n
        BY <1>1, <2>3
    <2> QED BY <1>1, <2>2, <2>3, <2>4
<1>7. Fresh(r)'
    <2> SUFFICES ASSUME NEW n \in DOMAIN Tail(script[r]),
                        Tail(script[r])[n].op = "RUTCreate"
                 PROVE  FALSE
        BY DEF Fresh
    <2>1. n + 1 \in DOMAIN script[r] /\ script[r][n + 1].op = "RUTCreate" /\ n + 1 # 1
        BY <1>1
    <2> QED BY <2>1 DEF OwnInvariant, Fresh
<1> QED BY <1>5, <1>6, <1>7 DEF OwnInvariant

(* Under the lock, the search sees every request of its invoice there is, *)
(* also those that are not committed.                                     *)
LEMMA SearchSeesAll ==
    ASSUME Invariant, NEW r \in Requests, NEW type, id[r] \in Invoices,
           invoice[id[r]].by = r, ~RequestExists(r, type),
           NEW k \in RutIds, Stored(k)
    PROVE  Key(k) # << id[r], type >>
<1> SUFFICES ASSUME Key(k) = << id[r], type >> PROVE FALSE
    OBVIOUS
<1>1. /\ TypeOK /\ KeysFixed /\ NewRequestsUnderLock
      /\ Sees(rut_requests, r)[k] = IF rut_requests[k].by = r THEN rut_requests[k].new
                                    ELSE rut_requests[k].val
    BY DEF Invariant, AskInvariant, TypeOK, TablesOK, Sees
<1>2. r # NULL
    BY EntitiesAssumption
<1>3. CASE rut_requests[k].by = r
    <2>1. Live(rut_requests[k].new) /\ Key(k) = << rut_requests[k].new.invoice,
                                                   rut_requests[k].new.type >>
        BY <1>1, <1>2, <1>3 DEF KeysFixed
    <2> QED BY <1>1, <1>3, <2>1 DEF RequestExists
<1>4. CASE rut_requests[k].by # r /\ Live(rut_requests[k].val)
    BY <1>1, <1>4 DEF RequestExists, Key
<1>5. CASE rut_requests[k].by # r /\ ~Live(rut_requests[k].val)
    <2>1. rut_requests[k].by # NULL
        BY <1>5 DEF Stored
    <2>2. rut_requests[k].new.invoice = id[r]
        BY <1>5 DEF Key
    <2> QED BY <1>1, <1>5, <2>1, <2>2 DEF NewRequestsUnderLock
<1> QED BY <1>3, <1>4, <1>5

LEMMA RUTListStays ==
    ASSUME Invariant, NEW r \in Requests, RUTList(r)
    PROVE  OwnInvariant(r)' /\ Serves(r) /\ ServesOnly(r)
<1>1. TypeOK /\ OwnInvariant(r)
    BY DEF Invariant, AskInvariant, FoundBeforeRows, AsksUnderLock, SearchIsFresh, OwnInvariant
<1>2. script[r] # << >> /\ Head(script[r]).op = "RUTList"
    BY DEF RUTList, Runs, At
<1>3. id[r] \in Invoices /\ invoice[id[r]].by = r
    <2>1. 1 \in AsksAt(r)
        BY <1>1, <1>2, ScriptParts DEF AsksAt
    <2> QED BY <1>1, <1>2, <2>1 DEF OwnInvariant, Locks, At
<1>4. Serves(r)
    BY DEF RUTList, tables, Serves, WritesInvoice, SavesRequest
<1>5. ServesOnly(r)
    BY <1>1 DEF RUTList, Continue, ContinueWith, hand, ServesOnly, TypeOK, ServingOK
<1>6. CASE RequestExists(r, Arg(r))
    <2>1. script'[r] = Tail(script[r])
        BY <1>1, <1>6 DEF RUTList, Continue, TypeOK, ServingOK
    <2>2. id'[r] = id[r] /\ UNCHANGED invoice
        BY DEF RUTList, hand, tables
    <2> QED BY <1>1, <1>2, <1>4, <1>5, <2>1, <2>2, AnsweredStays
<1>7. CASE ~RequestExists(r, Arg(r))
    <2> DEFINE d == Do("RUTCreate", Arg(r))
               q == << d >> \o Tail(script[r])
    <2>1. script'[r] = q /\ id'[r] = id[r] /\ UNCHANGED << invoice, rut_requests >>
        BY <1>1, <1>7 DEF RUTList, ContinueWith, hand, tables, TypeOK, ServingOK
    <2>2. d.op = "RUTCreate" /\ d.on = Arg(r)
        BY DEF Do
    <2>3. script[r] \in Seq(Statement) /\ script[r][1].op = "RUTList"
        BY <1>1, <1>2, ScriptParts
    <2>4. /\ DOMAIN q = DOMAIN script[r] /\ q[1] = d
          /\ \A n \in DOMAIN q : n \in Nat \ {0} /\ (n # 1 => q[n] = script[r][n])
        <3>1. d \in Statement
            BY <1>1, <1>2, Served, StatementArgument, DoType DEF Arg, Invariant, AskInvariant
        <3> HIDE DEF d
        <3> QED BY <1>2, <2>3, <3>1
    <2> HIDE DEF q
    <2>5. AsksAt(r)' = AsksAt(r)
        BY <2>1, <2>2, <2>3, <2>4 DEF AsksAt
    <2>6. \A n \in AsksAt(r) : 1..n \subseteq AsksAt(r)
        BY <1>1, <1>2 DEF OwnInvariant, Locks, At
    <2>7. Locks(r)'
        BY <1>3, <2>1, <2>5, <2>6 DEF Locks
    <2>8. Found(r)'
        <3> SUFFICES ASSUME NEW n \in DOMAIN q, q[n].op = "InvoiceRows"
                     PROVE  n # 1 /\ q[n - 1].op = "InvoiceList"
            BY <2>1 DEF Found
        <3>1. n # 1 /\ q[n] = script[r][n] /\ n \in DOMAIN script[r]
            BY <2>2, <2>4
        <3>2. script[r][n - 1].op = "InvoiceList"
            BY <1>1, <3>1 DEF OwnInvariant, Found
        <3>3. n - 1 # 1
            BY <2>3, <3>2
        <3>4. n - 1 \in DOMAIN q
            BY <2>3, <2>4, <3>1
        <3> QED BY <2>4, <3>1, <3>2, <3>3, <3>4
    <2>9. Fresh(r)'
        <3>1. \A n \in DOMAIN q : q[n].op = "RUTCreate" => n = 1
            BY <1>1, <2>4 DEF OwnInvariant, Fresh
        <3>2. \A k \in RutIds : Stored(k) => Key(k) # << id[r], Arg(r) >>
            BY <1>3, <1>7, SearchSeesAll
        <3>3. \A k \in RutIds : Stored(k)' => Key(k)' # << id'[r], q[1].on >>
            BY <2>1, <2>2, <2>4, <3>2 DEF Stored, Key
        <3> QED BY <2>1, <3>1, <3>3 DEF Fresh
    <2> QED BY <1>4, <1>5, <2>7, <2>8, <2>9 DEF OwnInvariant
<1> QED BY <1>6, <1>7

(* The request that is made is the only one of its invoice and type. *)
LEMMA RUTCreateStays ==
    ASSUME Invariant, NEW r \in Requests, RUTCreate(r), FreshIds(rut_requests) # {}
    PROVE  Invariant'
<1>1. /\ TypeOK /\ IdleHasNoScript /\ AsksUnderLock /\ OwnInvariant(r)
      /\ InvoicesNeverRemoved /\ KeysFixed /\ NewRequestsUnderLock /\ KeysUnique
    BY DEF Invariant, AskInvariant, FoundBeforeRows, AsksUnderLock, SearchIsFresh, OwnInvariant
<1>2. script[r] # << >> /\ Head(script[r]).op = "RUTCreate"
    BY DEF RUTCreate, Runs, At
<1> DEFINE x == [invoice |-> id[r], type |-> Arg(r), status |-> RUTPending,
                 date_sent |-> FALSE, date_paid |-> FALSE,
                 requested |-> NULL, received |-> NULL]
<1>3. PICK k \in FreshIds(rut_requests) : WriteRequest(r, k, x)
    BY DEF RUTCreate
<1>4. /\ rut_requests' = Put(rut_requests, r, k, x)
      /\ UNCHANGED << invoice, id >>
      /\ script' = [script EXCEPT ![r] = Tail(@)]
    BY <1>3 DEF WriteRequest, Continue, hand
<1>5. TypeOK' /\ IdleHasNoScript'
    BY <1>1, RUTCreateType
<1>6. 1 \in DOMAIN script[r] /\ script[r][1] = Head(script[r])
    BY <1>1, <1>2, ScriptParts
<1>7. id[r] \in Invoices /\ invoice[id[r]].by = r
    <2>1. 1 \in AsksAt(r)
        BY <1>2, <1>6 DEF AsksAt
    <2> QED BY <1>1, <1>2, <2>1 DEF OwnInvariant, Locks, At
<1>8. \A l \in RutIds : Stored(l) => Key(l) # << id[r], Arg(r) >>
    BY <1>1, <1>2, <1>6 DEF OwnInvariant, Fresh, Arg
<1>9. x \in RutRecord
    BY <1>1, <1>2, <1>7, Served, StatementArgument, StatusTypes DEF Arg, RutRecord
<1>10. Live(x) /\ r # NULL /\ ~Live(Absent)
    BY <1>9, EntitiesAssumption DEF Live
<1>11. /\ k \in RutIds
       /\ rut_requests[k].val = Absent /\ rut_requests[k].by = NULL
    BY <1>1 DEF FreshIds, Settled, TypeOK, TablesOK
<1>12. \A l \in RutIds : IF l = k
           THEN rut_requests'[l] = [val |-> Absent, by |-> r, new |-> x]
           ELSE rut_requests'[l] = rut_requests[l]
    BY <1>1, <1>4, <1>11 DEF Put, TypeOK, TablesOK
<1>13. x.invoice = id[r] /\ x.type = Arg(r)
    OBVIOUS
<1> HIDE DEF x
<1>14. Stored(k)' /\ Key(k)' = << id[r], Arg(r) >>
    BY <1>10, <1>11, <1>12, <1>13 DEF Stored, Key
<1>15. \A l \in RutIds \ {k} : (Stored(l)' <=> Stored(l)) /\ Key(l)' = Key(l)
    BY <1>12 DEF Stored, Key
<1>16. KeysFixed'
    BY <1>1, <1>10, <1>12, <1>13, <1>14, <1>15 DEF KeysFixed
<1>17. KeysUnique'
    BY <1>1, <1>8, <1>14, <1>15 DEF KeysUnique
<1>18. NewRequestsUnderLock'
    BY <1>1, <1>4, <1>7, <1>12, <1>13 DEF NewRequestsUnderLock
<1>19. InvoicesNeverRemoved'
    BY <1>1, <1>4 DEF InvoicesNeverRemoved
<1>20. OwnInvariant(r)'
    <2>1. script'[r] = Tail(script[r]) /\ id'[r] = id[r]
        BY <1>1, <1>4 DEF TypeOK, ServingOK
    <2> QED BY <1>1, <1>2, <1>4, <2>1, AnsweredStays
<1>21. ASSUME NEW s \in Requests \ {r} PROVE Found(s)' /\ Locks(s)' /\ Fresh(s)'
    <2>1. ServesOnly(r) /\ LeavesOthers(r)
        BY <1>1, <1>4 DEF ServesOnly, LeavesOthers, TypeOK, ServingOK
    <2>2. Found(s)' /\ Locks(s)'
        BY <2>1, OthersStay
    <2>3. Found(s) /\ Locks(s) /\ Fresh(s) /\ script'[s] = script[s] /\ id'[s] = id[s]
        BY <2>1 DEF Invariant, AskInvariant, FoundBeforeRows, AsksUnderLock, SearchIsFresh,
                    ServesOnly
    <2>4. ASSUME NEW n \in DOMAIN script[s], script[s][n].op = "RUTCreate"
          PROVE  id[s] # id[r]
        <3>1. n = 1 /\ n \in AsksAt(s)
            BY <2>3, <2>4 DEF Fresh, AsksAt
        <3>2. script[s] # << >> /\ 1 \in DOMAIN script[s] /\ script[s][1] = Head(script[s])
            BY <1>1, <2>4, ScriptParts
        <3>3. ~At(s, "InvoiceSave")
            BY <2>4, <3>1, <3>2 DEF At
        <3>4. invoice[id[s]].by = s
            BY <2>3, <3>1, <3>3 DEF Locks
        <3> QED BY <1>7, <3>4
    <2>5. Fresh(s)'
        BY <1>14, <1>15, <2>3, <2>4 DEF Fresh
    <2> QED BY <2>2, <2>5
<1>22. FoundBeforeRows' /\ AsksUnderLock' /\ SearchIsFresh'
    BY <1>20, <1>21 DEF FoundBeforeRows, AsksUnderLock, SearchIsFresh, OwnInvariant
<1> QED BY <1>5, <1>16, <1>17, <1>18, <1>19, <1>22 DEF Invariant, AskInvariant

-----------------------------------------------------------------------------
(* Each action keeps the invariant. *)

LEMMA Parts ==
    ASSUME Invariant
    PROVE  /\ TypeOK /\ IdleHasNoScript /\ AsksUnderLock
           /\ \A r \in Requests : OwnInvariant(r)
BY DEF Invariant, AskInvariant, FoundBeforeRows, AsksUnderLock, SearchIsFresh, OwnInvariant

LEMMA QuietStepStays ==
    ASSUME Invariant, NEW r \in Requests, Serves(r), ServesOnly(r),
           TypeOK', IdleHasNoScript', Quiet(script[r])'
    PROVE  Invariant'
BY QuietSuffices, StepStays DEF OwnInvariant

LEMMA FailStays ==
    ASSUME Invariant, NEW r \in Requests, script[r] # << >>, Fail(r)
    PROVE  Invariant'
<1>1. TypeOK' /\ IdleHasNoScript'
    BY Parts, FailType
<1>2. Quiet(script[r])'
    BY Parts, EmptySeq, PlainIsQuiet DEF Fail, TypeOK, ServingOK
<1>3. ServesOnly(r)
    BY Parts DEF Fail, ServesOnly, TypeOK, ServingOK, hand
<1>4. Serves(r)
    BY DEF Fail, Serves, WritesInvoice, SavesRequest, tables
<1> QED BY <1>1, <1>2, <1>3, <1>4, QuietStepStays

(* A statement that changes only what no question depends on. *)
ServesOthers(r) == \A s \in Requests \ {r} : id'[s] = id[s]

LEMMA ContinueStays ==
    ASSUME Invariant, NEW r \in Requests, Continue(r), ServesOthers(r), Serves(r),
           script[r] # << >>,
           Head(script[r]).op \notin {"RUTList", "RUTCreate", "InvoiceList"},
           Head(script[r]).op = "InvoiceSave" => id[r] = NULL,
           TypeOK', IdleHasNoScript'
    PROVE  Invariant'
<1>1. script'[r] = Tail(script[r]) /\ ServesOnly(r)
    BY Parts DEF Continue, ServesOnly, ServesOthers, TypeOK, ServingOK
<1>2. Quiet(script[r])'
    BY <1>1, Parts, TailIsQuiet
<1> QED BY <1>1, <1>2, QuietStepStays

LEMMA InsteadStays ==
    ASSUME Invariant, NEW r \in Requests, NEW d \in Plain,
           ContinueWith(r, << d >> \o Tail(script[r])), ServesOthers(r), Serves(r),
           script[r] # << >>,
           Head(script[r]).op \notin {"RUTList", "RUTCreate", "InvoiceList", "InvoiceSave"},
           TypeOK', IdleHasNoScript'
    PROVE  Invariant'
<1>1. script'[r] = << d >> \o Tail(script[r]) /\ ServesOnly(r)
    BY Parts DEF ContinueWith, ServesOnly, ServesOthers, TypeOK, ServingOK
<1>2. Quiet(script[r])'
    BY <1>1, Parts, Served, TailIsQuiet, ReplacedIsQuiet
<1> QED BY <1>1, <1>2, QuietStepStays

LEMMA PlainStays ==
    ASSUME Invariant, NEW r \in Requests, NEW q \in Seq(Plain),
           ContinueWith(r, q), ServesOthers(r), Serves(r), TypeOK', IdleHasNoScript'
    PROVE  Invariant'
<1>1. script'[r] = q /\ ServesOnly(r)
    BY Parts DEF ContinueWith, ServesOnly, ServesOthers, TypeOK, ServingOK
<1> QED BY <1>1, PlainIsQuiet, QuietStepStays

LEMMA NothingAsked ==
    ASSUME NEW r \in Requests, UNCHANGED << invoice, rut_requests >>
    PROVE  Serves(r)
BY DEF Serves, WritesInvoice, SavesRequest

LEMMA FreeToWrite ==
    ASSUME NEW S, NEW I, NEW t \in [I -> Versions(S)], NEW r \in Requests, NEW k \in I,
           Live(Sees(t, r)[k]), \A s \in Requests \ {r} : ~Holds(t, s, k)
    PROVE  t[k].by \in {NULL, r}
BY DEF Versions, Sees, Holds

LEMMA BeginStays ==
    ASSUME Invariant, NEW r \in Requests, NEW f \in Forms, Begin(r, f)
    PROVE  Invariant'
<1>1. TypeOK' /\ IdleHasNoScript'
    BY Parts, BeginType
<1>2. Quiet(script[r])'
    BY Parts, FormType, OpeningIsQuiet DEF Begin, TypeOK, ServingOK
<1>3. ServesOnly(r)
    BY Parts DEF Begin, ServesOnly, TypeOK, ServingOK, HandOK
<1>4. Serves(r)
    BY NothingAsked DEF Begin, tables
<1> QED BY <1>1, <1>2, <1>3, <1>4, QuietStepStays

LEMMA EndStays ==
    ASSUME Invariant, NEW r \in Requests, NEW commit \in BOOLEAN, script[r] = << >>,
           EndTransaction(r, commit)
    PROVE  Invariant'
<1>1. TypeOK' /\ IdleHasNoScript'
    BY Parts, EndType
<1>2. Quiet(script[r])'
    BY EmptySeq, PlainIsQuiet DEF EndTransaction
<1>3. ServesOnly(r)
    BY Parts DEF EndTransaction, ServesOnly, TypeOK, HandOK
<1>4. Serves(r)
    BY DEF EndTransaction, Serves
<1> QED BY <1>1, <1>2, <1>3, <1>4, QuietStepStays

LEMMA InvoiceListStays ==
    ASSUME Invariant, NEW r \in Requests, InvoiceList(r)
    PROVE  Invariant'
<1>1. script[r] # << >> /\ Head(script[r]).op = "InvoiceList"
    BY DEF InvoiceList, Runs, At
<1>2. CASE Fail(r)
    BY <1>1, <1>2, FailStays
<1>3. CASE ~Fail(r)
    <2>1. /\ id[r] # NULL /\ Visible(r, Sees(invoice, r)[id[r]])
          /\ Continue(r) /\ UNCHANGED << tables, id >>
        BY <1>3 DEF InvoiceList
    <2>2. TypeOK' /\ IdleHasNoScript'
        BY Parts, InvoiceListType
    <2>3. ServesOnly(r) /\ script'[r] = Tail(script[r])
        BY <2>1, Parts DEF Continue, ServesOnly, TypeOK, ServingOK
    <2>4. Serves(r)
        BY <2>1, NothingAsked DEF tables
    <2>5. Reached(r)'
        BY <2>1, Parts DEF Visible, Reached, tables, TypeOK, HandOK
    <2>6. \A n \in DOMAIN Tail(script[r]) :
             /\ n \in Nat \ {0} /\ n + 1 \in DOMAIN script[r]
             /\ Tail(script[r])[n] = script[r][n + 1]
             /\ script[r][1].op = "InvoiceList"
             /\ \A m \in 1..n : m \in DOMAIN Tail(script[r])
        BY <1>1, Parts, ScriptParts
    <2>7. \A n \in DOMAIN Tail(script[r]) : n + 1 \notin AsksAt(r)
        <3> SUFFICES ASSUME NEW n \in DOMAIN Tail(script[r]), n + 1 \in AsksAt(r)
                     PROVE  FALSE
            OBVIOUS
        <3>1. ~At(r, "InvoiceSave")
            BY <1>1 DEF At
        <3>2. 1..(n + 1) \subseteq AsksAt(r)
            BY <3>1, Parts DEF OwnInvariant, Locks
        <3>3. 1 \in 1..(n + 1)
            BY <2>6
        <3> QED BY <2>6, <3>2, <3>3 DEF AsksAt
    <2>8. AsksAt(r)' = {}
        BY <2>3, <2>6, <2>7 DEF AsksAt
    <2>9. Locks(r)' /\ Fresh(r)'
        BY <2>8 DEF Locks, Fresh, AsksAt
    <2>10. Found(r)'
        <3> SUFFICES ASSUME NEW n \in DOMAIN Tail(script[r]),
                            Tail(script[r])[n].op = "InvoiceRows", n # 1
                     PROVE  Tail(script[r])[n - 1].op = "InvoiceList"
            BY <2>3, <2>5 DEF Found
        <3>1. n + 1 # 1 /\ (n + 1) - 1 = n
            BY <2>6
        <3>2. script[r][n].op = "InvoiceList"
            BY <2>6, <3>1, Parts DEF OwnInvariant, Found
        <3>3. n - 1 \in DOMAIN Tail(script[r]) /\ (n - 1) + 1 = n
            BY <2>6
        <3> QED BY <2>6, <3>2, <3>3
    <2> QED BY <2>2, <2>3, <2>4, <2>9, <2>10, StepStays
<1> QED BY <1>2, <1>3

LEMMA InvoiceRowsStays ==
    ASSUME Invariant, NEW r \in Requests, InvoiceRows(r)
    PROVE  Invariant'
<1>1. script[r] # << >> /\ Head(script[r]).op = "InvoiceRows"
    BY DEF InvoiceRows, Runs, At
<1>2. TypeOK' /\ IdleHasNoScript'
    BY Parts, InvoiceRowsType
<1> DEFINE f == form[r]
           read == RowsOf(r)
<1>3. f \in Forms /\ read \in LocalRows
    BY <1>1, Parts, Served, RowsOfType
<1>4. CASE Fail(r)
    BY <1>1, <1>4, FailStays
<1>5. CASE ~Fail(r)
    <2>1. /\ UNCHANGED tables /\ UNCHANGED id
          /\ \/ f.op = "flag" /\ \E q \in FlagScripts(f, inv[r], read) : ContinueWith(r, q)
             \/ f.op = "post" /\ \E q \in PostScripts(f, inv[r], read) : ContinueWith(r, q)
             \/ f.op = "attach" /\ ContinueWith(r, FileScript(f))
             \/ f.op = "rut_flag" /\ \E q \in RutSaveScripts(f, read) : ContinueWith(r, q)
             \/ f.op = "rut_post" /\ \E q \in RutPostScripts(f, rut[r], HoursPosted(f, read)) :
                                        ContinueWith(r, q)
        BY <1>5 DEF InvoiceRows
    <2>2. Serves(r) /\ ServesOthers(r)
        BY <2>1, NothingAsked DEF tables, ServesOthers
    <2>3. ASSUME f.op = "flag", NEW q \in FlagScripts(f, inv[r], read), ContinueWith(r, q)
          PROVE  Invariant'
        <3>1. Reached(r)
            <4>1. 1 \in DOMAIN script[r] /\ script[r][1].op = "InvoiceRows"
                BY <1>1, Parts, ScriptParts
            <4> QED BY <4>1, Parts DEF OwnInvariant, Found
        <3>2. Reached(r)'
            BY <2>1, <3>1 DEF Reached, tables
        <3>3. script'[r] = q /\ ServesOnly(r)
            BY <2>2, <2>3, Parts DEF ContinueWith, ServesOnly, ServesOthers, TypeOK, ServingOK
        <3>4. f \in FlagForm
            BY <1>3, <2>3, FormType
        <3>5. OwnInvariant(r)'
            BY <1>3, <2>3, <3>2, <3>3, <3>4, FlagStays
        <3> QED BY <1>2, <2>2, <3>3, <3>5, StepStays DEF OwnInvariant
    <2>4. ASSUME NEW q \in Seq(Plain), ContinueWith(r, q)
          PROVE  Invariant'
        BY <1>2, <2>2, <2>4, PlainStays
    <2>5. CASE f.op = "post" /\ \E q \in PostScripts(f, inv[r], read) : ContinueWith(r, q)
        BY <1>3, <2>4, <2>5, FormType, PostScriptsType,
           HandledIsPlain
    <2>6. CASE f.op = "attach" /\ ContinueWith(r, FileScript(f))
        <3>1. f.attach \in Nat
            BY <1>3, <2>6, FormType DEF AttachForm
        <3> QED BY <2>4, <2>6, <3>1, FileScriptType,
           HandledIsPlain
    <2>7. CASE f.op = "rut_flag" /\ \E q \in RutSaveScripts(f, read) : ContinueWith(r, q)
        BY <1>3, <2>4, <2>7, FormType, RutSaveScriptsType,
           HandledIsPlain
    <2>8. CASE f.op = "rut_post" /\ \E q \in RutPostScripts(f, rut[r], HoursPosted(f, read)) :
                                      ContinueWith(r, q)
        BY <1>3, <2>4, <2>8, FormType, HoursPostedType, RutPostScriptsType,
           HandledIsPlain
    <2> QED BY <2>1, <2>3, <2>5, <2>6, <2>7, <2>8
<1> QED BY <1>4, <1>5

LEMMA GetNextInvoiceNumberStays ==
    ASSUME Invariant, NEW r \in Requests, GetNextInvoiceNumber(r)
    PROVE  Invariant'
<1>1. script[r] # << >> /\ Head(script[r]).op = "GetNextInvoiceNumber"
    BY DEF GetNextInvoiceNumber, Runs, At
<1>2. TypeOK' /\ IdleHasNoScript'
    BY Parts, GetNextInvoiceNumberType
<1> DEFINE f == form[r]
<1>3. f \in Forms /\ Arg(r) \in Companies
    BY <1>1, Parts, Served, StatementArgument DEF Arg
<1>4. PICK n \in NumberCandidates(r, Arg(r)) :
         \/ /\ id' = [id EXCEPT ![r] = NULL] /\ Continue(r)
            /\ UNCHANGED tables
         \/ /\ f.op = "post"
            /\ \E q \in PostScripts(f, NewInvoice(f, n), NoRows) : ContinueWith(r, q)
            /\ UNCHANGED << tables, id >>
    BY DEF GetNextInvoiceNumber
<1>5. Serves(r) /\ ServesOthers(r)
    BY <1>4, Parts, NothingAsked DEF tables, ServesOthers, TypeOK, HandOK
<1>6. CASE Continue(r)
    BY <1>1, <1>2, <1>5, <1>6, ContinueStays
<1>7. ASSUME f.op = "post", NEW q \in PostScripts(f, NewInvoice(f, n), NoRows),
             ContinueWith(r, q)
      PROVE  Invariant'
    <2>1. q \in Seq(Plain)
        BY <1>3, <1>7, ZeroTypes, FormType, PostScriptsType,
           HandledIsPlain
    <2> QED BY <1>2, <1>5, <1>7, <2>1, PlainStays
<1> QED BY <1>4, <1>6, <1>7

LEMMA InvoiceUpdateStays ==
    ASSUME Invariant, NEW r \in Requests, InvoiceUpdate(r)
    PROVE  Invariant'
<1>1. At(r, "InvoiceSave") /\ script[r] # << >> /\ id[r] \in Invoices /\ ~Blocked(r)
    BY Parts DEF InvoiceUpdate, Runs, At, TypeOK, HandOK
<1>2. TypeOK' /\ IdleHasNoScript'
    BY Parts, InvoiceUpdateType
<1>3. CASE inv[r].customer = NULL
    BY <1>1, <1>3, FailStays DEF InvoiceUpdate
<1>4. CASE inv[r].customer # NULL
    <2> DEFINE old == Sees(invoice, r)[id[r]]
               new == UpdatedInvoice(old, inv[r])
    <2>1. /\ invoice' = IF Live(old) THEN Put(invoice, r, id[r], new) ELSE invoice
          /\ Continue(r) /\ UNCHANGED << rut_requests, id >>
        BY <1>4 DEF InvoiceUpdate, hand
    <2>2. ASSUME Live(old) PROVE invoice[id[r]].by \in {NULL, r} /\ new \in InvoiceRecord
        <3>1. old \in InvoiceRecord /\ invoice \in [Invoices -> Versions(InvoiceRecord)]
            BY <1>1, <2>2, Parts, SeesType DEF TypeOK, TablesOK
        <3>2. \A s \in Requests \ {r} : ~Holds(invoice, s, id[r])
            BY <1>1 DEF Blocked, Waits
        <3> QED BY <1>1, <1>4, <2>2, <3>1, <3>2, Parts, FreeToWrite, SavedTypes
                DEF TypeOK, HandOK
    <2>3. Serves(r)
        BY <1>1, <2>1, <2>2 DEF Serves, WritesInvoice, SavesRequest
    <2>4. /\ script'[r] = Tail(script[r]) /\ id'[r] = id[r] /\ ServesOnly(r)
        BY <2>1, Parts DEF Continue, ServesOnly, TypeOK, ServingOK
    <2>5. Reached(r) => invoice'[id[r]].by = r
        <3>1. Reached(r) => invoice' = Put(invoice, r, id[r], new)
            BY <2>1 DEF Reached
        <3> QED BY <1>1, <3>1, Parts DEF Put, TypeOK, TablesOK
    <2>6. OwnInvariant(r)'
        BY <1>1, <2>4, <2>5, Parts, SavedStays
    <2> QED BY <1>2, <2>3, <2>4, <2>6, StepStays DEF OwnInvariant
<1> QED BY <1>3, <1>4

LEMMA InvoiceInsertStays ==
    ASSUME Invariant, NEW r \in Requests, InvoiceInsert(r)
    PROVE  Invariant'
<1>1. script[r] # << >> /\ Head(script[r]).op = "InvoiceSave" /\ id[r] = NULL
    BY DEF InvoiceInsert, Runs, At
<1>2. TypeOK' /\ IdleHasNoScript'
    BY Parts, InvoiceInsertType
<1>3. CASE Fail(r)
    BY <1>1, <1>3, FailStays
<1>4. CASE ~Fail(r)
    <2> DEFINE new == InsertedInvoice(inv[r])
    <2>1. /\ inv[r].customer # NULL /\ inv[r].company # NULL
          /\ \E i \in FreshIds(invoice) :
                /\ invoice' = Put(invoice, r, i, new)
                /\ id' = [id EXCEPT ![r] = i]
                /\ Continue(r) /\ UNCHANGED rut_requests
        BY <1>4 DEF InvoiceInsert
    <2>2. PICK i \in FreshIds(invoice) :
                /\ invoice' = Put(invoice, r, i, new)
                /\ id' = [id EXCEPT ![r] = i]
                /\ Continue(r) /\ UNCHANGED rut_requests
        BY <2>1
    <2>3. i \in Invoices /\ invoice[i].by = NULL
        BY Parts DEF FreshIds, Settled, TypeOK, TablesOK
    <2>4. new \in InvoiceRecord
        BY <2>1, Parts, SavedTypes DEF TypeOK, HandOK
    <2>5. Serves(r)
        BY <2>2, <2>3, <2>4 DEF Serves, WritesInvoice, SavesRequest
    <2>6. ServesOthers(r)
        BY <2>2, Parts DEF ServesOthers, TypeOK, HandOK
    <2> QED BY <1>1, <1>2, <2>2, <2>5, <2>6, ContinueStays
<1> QED BY <1>3, <1>4

(* The statements on rows, customers and files. *)
LEMMA SideStays ==
    ASSUME Invariant, NEW r \in Requests, NEW op, At(r, op),
           op \notin {"RUTList", "RUTCreate", "InvoiceList", "InvoiceSave"},
           ~Fail(r) => Continue(r) /\ UNCHANGED << invoice, rut_requests, id >>,
           TypeOK', IdleHasNoScript'
    PROVE  Invariant'
<1>1. script[r] # << >> /\ Head(script[r]).op = op
    BY DEF At
<1>2. CASE Fail(r)
    BY <1>1, <1>2, FailStays
<1>3. CASE ~Fail(r)
    <2>1. Serves(r) /\ ServesOthers(r)
        BY <1>3, NothingAsked DEF ServesOthers
    <2> QED BY <1>1, <1>3, <2>1, ContinueStays
<1> QED BY <1>2, <1>3

LEMMA InvoiceRowAddStays ==
    ASSUME Invariant, NEW r \in Requests, InvoiceRowAdd(r)
    PROVE  Invariant'
<1>1. TypeOK' /\ IdleHasNoScript'
    BY Parts, InvoiceRowAddType
<1>2. ~Fail(r) => Continue(r) /\ UNCHANGED << invoice, rut_requests, id >>
    BY DEF InvoiceRowAdd, WriteRow, MatchesNothing, tables, hand
<1>3. At(r, "RowAdd")
    BY DEF InvoiceRowAdd, Runs
<1> QED BY <1>1, <1>2, <1>3, SideStays

LEMMA InvoiceRowRemoveStays ==
    ASSUME Invariant, NEW r \in Requests, InvoiceRowRemove(r)
    PROVE  Invariant'
<1>1. TypeOK' /\ IdleHasNoScript'
    BY Parts, InvoiceRowRemoveType
<1>2. ~Fail(r) => Continue(r) /\ UNCHANGED << invoice, rut_requests, id >>
    BY DEF InvoiceRowRemove, WriteRow, MatchesNothing, tables, hand
<1>3. At(r, "RowRemove")
    BY DEF InvoiceRowRemove, Runs
<1> QED BY <1>1, <1>2, <1>3, SideStays

LEMMA InvoiceRowUpdateStays ==
    ASSUME Invariant, NEW r \in Requests, InvoiceRowUpdate(r)
    PROVE  Invariant'
<1>1. TypeOK' /\ IdleHasNoScript'
    BY Parts, InvoiceRowUpdateType
<1>2. ~Fail(r) => Continue(r) /\ UNCHANGED << invoice, rut_requests, id >>
    BY DEF InvoiceRowUpdate, WriteRow, MatchesNothing, tables, hand
<1>3. At(r, "RowUpdate")
    BY DEF InvoiceRowUpdate, Runs
<1> QED BY <1>1, <1>2, <1>3, SideStays

LEMMA CustomerListStays ==
    ASSUME Invariant, NEW r \in Requests, CustomerList(r)
    PROVE  Invariant'
<1>1. TypeOK' /\ IdleHasNoScript'
    BY Parts, CustomerListType
<1>2. ~Fail(r) => Continue(r) /\ UNCHANGED << invoice, rut_requests, id >>
    BY DEF CustomerList, WriteRow, MatchesNothing, tables, hand
<1>3. At(r, "CustomerList")
    BY DEF CustomerList, Runs
<1> QED BY <1>1, <1>2, <1>3, SideStays

LEMMA CustomerUpdateStays ==
    ASSUME Invariant, NEW r \in Requests, CustomerUpdate(r)
    PROVE  Invariant'
<1>1. TypeOK' /\ IdleHasNoScript'
    BY Parts, CustomerUpdateType
<1>2. ~Fail(r) => Continue(r) /\ UNCHANGED << invoice, rut_requests, id >>
    BY DEF CustomerUpdate, WriteRow, MatchesNothing, tables, hand
<1>3. At(r, "CustomerSave")
    BY DEF CustomerUpdate, Runs
<1> QED BY <1>1, <1>2, <1>3, SideStays

LEMMA CustomerInsertStays ==
    ASSUME Invariant, NEW r \in Requests, CustomerInsert(r)
    PROVE  Invariant'
<1>1. TypeOK' /\ IdleHasNoScript'
    BY Parts, CustomerInsertType
<1>2. ~Fail(r) => Continue(r) /\ UNCHANGED << invoice, rut_requests, id >>
    BY DEF CustomerInsert, WriteRow, MatchesNothing, tables, hand
<1>3. At(r, "CustomerSave")
    BY DEF CustomerInsert, Runs
<1> QED BY <1>1, <1>2, <1>3, SideStays

LEMMA AttachmentAddStays ==
    ASSUME Invariant, NEW r \in Requests, AttachmentAdd(r)
    PROVE  Invariant'
<1>1. TypeOK' /\ IdleHasNoScript'
    BY Parts, AttachmentAddType
<1>2. ~Fail(r) => Continue(r) /\ UNCHANGED << invoice, rut_requests, id >>
    BY DEF AttachmentAdd, WriteRow, MatchesNothing, tables, hand
<1>3. At(r, "AttachmentAdd")
    BY DEF AttachmentAdd, Runs
<1> QED BY <1>1, <1>2, <1>3, SideStays

LEMMA FileRemoveStays ==
    ASSUME Invariant, NEW r \in Requests, FileRemove(r)
    PROVE  Invariant'
<1>1. TypeOK' /\ IdleHasNoScript'
    BY Parts, FileRemoveType
<1>2. ~Fail(r) => Continue(r) /\ UNCHANGED << invoice, rut_requests, id >>
    BY DEF FileRemove, WriteRow, MatchesNothing, tables, hand
<1>3. At(r, "FileRemove")
    BY DEF FileRemove, Runs
<1> QED BY <1>1, <1>2, <1>3, SideStays

LEMMA FileAddStays ==
    ASSUME Invariant, NEW r \in Requests, FileAdd(r)
    PROVE  Invariant'
<1>1. script[r] # << >> /\ Head(script[r]).op = "FileAdd"
    BY DEF FileAdd, Runs, At
<1>2. TypeOK' /\ IdleHasNoScript'
    BY Parts, FileAddType
<1>3. CASE Fail(r)
    BY <1>1, <1>3, FailStays
<1>4. CASE ~Fail(r)
    <2>1. PICK k \in FreshIds(file) :
             /\ ContinueWith(r, << Do("AttachmentAdd", k) >> \o Tail(script[r]))
             /\ UNCHANGED << invoice, rut_requests, id >>
        BY <1>4 DEF FileAdd, hand
    <2>2. Do("AttachmentAdd", k) \in Plain
        BY Parts, DoType DEF FreshIds, TypeOK, TablesOK
    <2>3. Serves(r) /\ ServesOthers(r)
        BY <2>1, NothingAsked DEF ServesOthers
    <2> QED BY <1>1, <1>2, <2>1, <2>2, <2>3, InsteadStays
<1> QED BY <1>3, <1>4

LEMMA AttachmentRemoveStays ==
    ASSUME Invariant, NEW r \in Requests, AttachmentRemove(r)
    PROVE  Invariant'
<1>1. script[r] # << >> /\ Head(script[r]).op = "AttachmentRemove"
    BY DEF AttachmentRemove, Runs, At
<1>2. TypeOK' /\ IdleHasNoScript'
    BY Parts, AttachmentRemoveType
<1>3. /\ ContinueWith(r, << Do("FileRemove", Arg(r)) >> \o Tail(script[r]))
      /\ UNCHANGED << invoice, rut_requests, id >>
    BY DEF AttachmentRemove, hand
<1>4. Do("FileRemove", Arg(r)) \in Plain
    BY <1>1, Parts, Served, StatementArgument, DoType DEF Arg
<1>5. Serves(r) /\ ServesOthers(r)
    BY <1>3, NothingAsked DEF ServesOthers
<1> QED BY <1>1, <1>2, <1>3, <1>4, <1>5, InsteadStays

LEMMA RUTGetStays ==
    ASSUME Invariant, NEW r \in Requests, RUTGet(r)
    PROVE  Invariant'
<1>1. script[r] # << >> /\ Head(script[r]).op = "RUTGet"
    BY DEF RUTGet, Runs, At
<1>2. TypeOK' /\ IdleHasNoScript'
    BY Parts, RUTGetType
<1>3. CASE Fail(r)
    BY <1>1, <1>3, FailStays
<1>4. CASE ~Fail(r)
    <2>1. /\ Continue(r) /\ UNCHANGED << invoice, rut_requests >>
          /\ id' = [id EXCEPT ![r] = Sees(rut_requests, r)[Arg(r)].invoice]
        BY <1>4 DEF RUTGet, tables
    <2>2. Serves(r) /\ ServesOthers(r)
        BY <2>1, Parts, NothingAsked DEF ServesOthers, TypeOK, HandOK
    <2> QED BY <1>1, <1>2, <2>1, <2>2, ContinueStays
<1> QED BY <1>3, <1>4

LEMMA RUTSaveSaves ==
    ASSUME Invariant, NEW r \in Requests, RUTSave(r)
    PROVE  SavesRequest(r) /\ Continue(r) /\ UNCHANGED << invoice, id >>
<1>1. At(r, "RUTSave") /\ script[r] # << >> /\ Head(script[r]).op = "RUTSave" /\ ~Blocked(r)
    BY DEF RUTSave, Runs, At
<1> DEFINE old == Sees(rut_requests, r)[Arg(r)]
           x == [rut[r] EXCEPT !.invoice = old.invoice, !.type = old.type]
<1>2. CASE Live(old)
    <2>1. /\ rut_requests' = Put(rut_requests, r, Arg(r), x)
          /\ Continue(r) /\ UNCHANGED << invoice, id >>
        BY <1>2 DEF RUTSave, WriteRequest, hand
    <2>2. Arg(r) \in RutIds
        BY <1>1, Parts, Served, StatementArgument DEF Arg
    <2>3. old \in RutRecord
        BY <1>2, <2>2, Parts, SeesType DEF TypeOK, TablesOK
    <2>4. x \in RutRecord /\ x.invoice = old.invoice /\ x.type = old.type
        BY <2>3, Parts DEF TypeOK, HandOK, LocalRut, RutRecord
    <2>5. rut_requests[Arg(r)].by \in {NULL, r}
        <3>1. \A s \in Requests \ {r} : ~Holds(rut_requests, s, Arg(r))
            BY <1>1 DEF Blocked, Waits
        <3> QED BY <1>2, <2>2, <3>1, Parts, FreeToWrite DEF TypeOK, TablesOK
    <2> QED BY <1>2, <2>1, <2>2, <2>4, <2>5 DEF SavesRequest
<1>3. CASE ~Live(old)
    BY <1>3 DEF RUTSave, MatchesNothing, tables, hand, SavesRequest
<1> QED BY <1>2, <1>3

LEMMA RUTSaveStays ==
    ASSUME Invariant, NEW r \in Requests, RUTSave(r)
    PROVE  Invariant'
<1>1. script[r] # << >> /\ Head(script[r]).op = "RUTSave"
    BY DEF RUTSave, Runs, At
<1>2. TypeOK' /\ IdleHasNoScript'
    BY Parts, RUTSaveType
<1>3. SavesRequest(r) /\ Continue(r) /\ UNCHANGED << invoice, id >>
    BY RUTSaveSaves
<1>4. Serves(r) /\ ServesOthers(r)
    BY <1>3 DEF Serves, WritesInvoice, ServesOthers
<1> QED BY <1>1, <1>2, <1>3, <1>4, ContinueStays

LEMMA WaitsIsServed ==
    ASSUME NEW r, NEW s, Waits(r, s)
    PROVE  script[r] # << >>
BY DEF Waits, At

-----------------------------------------------------------------------------
(* The inductive invariant, and what follows from it. *)

LEMMA InitHolds == Init => Invariant
<1> SUFFICES ASSUME Init PROVE Invariant
    OBVIOUS
<1>1. \A S, I : EmptyTable(I) \in [I -> Versions(S)]
    BY DEF EmptyTable, Versions, Settled
<1>2. TablesOK
    BY <1>1 DEF Init, TablesOK
<1>3. ServingOK
    BY EmptySeq DEF Init, ServingOK
<1>4. HandOK
    BY ZeroTypes DEF Init, HandOK
<1>5. \A r \in Requests : script[r] = << >>
    BY DEF Init
<1>6. \A r \in Requests : Quiet(script[r])
    <2>1. << >> \in Seq(Plain)
        BY EmptySeq
    <2> QED BY <1>5, <2>1, PlainIsQuiet
<1>7. \A r \in Requests : Found(r) /\ Locks(r) /\ Fresh(r)
    <2> SUFFICES ASSUME NEW r \in Requests PROVE Found(r) /\ Locks(r) /\ Fresh(r)
        OBVIOUS
    <2>1. AsksAt(r) = {}
        BY <1>6 DEF AsksAt, Quiet
    <2>2. Found(r) /\ Fresh(r)
        BY <1>6 DEF Found, Fresh, Quiet
    <2>3. Locks(r)
        BY <2>1 DEF Locks
    <2> QED BY <2>2, <2>3
<1>8. ~Live(Absent)
    BY DEF Live
<1>9. InvoicesNeverRemoved
    BY DEF Init, EmptyTable, Settled, InvoicesNeverRemoved
<1>10. \A k \in RutIds : ~Stored(k) /\ rut_requests[k].by = NULL
    BY <1>8 DEF Init, EmptyTable, Settled, Stored
<1>11. KeysFixed /\ NewRequestsUnderLock /\ KeysUnique
    BY <1>10 DEF KeysFixed, NewRequestsUnderLock, KeysUnique
<1> QED BY <1>2, <1>3, <1>4, <1>5, <1>7, <1>9, <1>11
        DEF Invariant, TypeOK, AskInvariant, IdleHasNoScript, FoundBeforeRows,
            AsksUnderLock, SearchIsFresh

LEMMA NextHolds == Invariant /\ [Next]_vars => Invariant'
<1> SUFFICES ASSUME Invariant, [Next]_vars PROVE Invariant'
    OBVIOUS
<1>1. CASE UNCHANGED vars
    BY <1>1 DEF vars, tables, hand, Invariant, TypeOK, TablesOK, ServingOK, HandOK,
        AskInvariant, IdleHasNoScript, Active, FoundBeforeRows, Found, Reached,
        AsksUnderLock, Locks, AsksAt, At, InvoicesNeverRemoved, Stored, Key, KeysFixed,
        NewRequestsUnderLock, SearchIsFresh, Fresh, KeysUnique
<1>2. ASSUME NEW r \in Requests, NEW f \in Forms, Begin(r, f) PROVE Invariant'
    BY <1>2, BeginStays
<1>3. ASSUME NEW r \in Requests, Step(r) PROVE Invariant'
    <2>1. CASE InvoiceList(r)
        BY <2>1, InvoiceListStays
    <2>2. CASE InvoiceRows(r)
        BY <2>2, InvoiceRowsStays
    <2>3. CASE GetNextInvoiceNumber(r)
        BY <2>3, GetNextInvoiceNumberStays
    <2>4. CASE InvoiceUpdate(r)
        BY <2>4, InvoiceUpdateStays
    <2>5. CASE InvoiceInsert(r)
        BY <2>5, InvoiceInsertStays
    <2>6. CASE InvoiceRowAdd(r)
        BY <2>6, InvoiceRowAddStays
    <2>7. CASE InvoiceRowRemove(r)
        BY <2>7, InvoiceRowRemoveStays
    <2>8. CASE InvoiceRowUpdate(r)
        BY <2>8, InvoiceRowUpdateStays
    <2>9. CASE CustomerList(r)
        BY <2>9, CustomerListStays
    <2>10. CASE CustomerUpdate(r)
        BY <2>10, CustomerUpdateStays
    <2>11. CASE CustomerInsert(r)
        BY <2>11, CustomerInsertStays
    <2>12. CASE FileAdd(r)
        BY <2>12, FileAddStays
    <2>13. CASE AttachmentAdd(r)
        BY <2>13, AttachmentAddStays
    <2>14. CASE AttachmentRemove(r)
        BY <2>14, AttachmentRemoveStays
    <2>15. CASE FileRemove(r)
        BY <2>15, FileRemoveStays
    <2>16. CASE RUTGet(r)
        BY <2>16, RUTGetStays
    <2>17. CASE RUTList(r)
        BY <2>17, Parts, RUTListType, RUTListStays, StepStays DEF OwnInvariant
    <2>18. CASE RUTCreate(r) /\ FreshIds(rut_requests) # {}
        BY <2>18, RUTCreateStays
    <2>19. CASE RUTCreate(r) /\ FreshIds(rut_requests) = {}
        BY <2>19, FailStays DEF RUTCreate, Runs, At
    <2>20. CASE RUTSave(r)
        BY <2>20, RUTSaveStays
    <2>21. CASE CommitOrRollback(r)
        <3>1. (status[r] <= 400) \in BOOLEAN
            OBVIOUS
        <3> DEFINE commit == status[r] <= 400
        <3>2. commit \in BOOLEAN /\ script[r] = << >> /\ EndTransaction(r, commit)
            BY <2>21, <3>1 DEF CommitOrRollback
        <3> HIDE DEF commit
        <3> QED BY <3>2, EndStays
    <2> QED BY <1>3, <2>1, <2>2, <2>3, <2>4, <2>5, <2>6, <2>7, <2>8, <2>9, <2>10, <2>11,
               <2>12, <2>13, <2>14, <2>15, <2>16, <2>17, <2>18, <2>19, <2>20, <2>21
            DEF Step
<1>4. ASSUME NEW r \in Requests, DeadlockDetected(r) PROVE Invariant'
    BY <1>4, WaitsIsServed, FailStays DEF DeadlockDetected
<1>5. ASSUME NEW r \in Requests, StatementFails(r) PROVE Invariant'
    BY <1>5, FailStays DEF StatementFails
<1>6. ASSUME NEW r \in Requests, CommitFails(r) PROVE Invariant'
    BY <1>6, EndStays DEF CommitFails
<1> QED BY <1>1, <1>2, <1>3, <1>4, <1>5, <1>6 DEF Next

LEMMA InvariantHolds == Spec => []Invariant
<1> QED BY InitHolds, NextHolds, PTL DEF Spec

(* Whatever requests come, at whatever time, and whatever fails, every     *)
(* table, every script and every value in a handler's hand has its type;   *)
(* in particular no ROT/RUT request is stored for an invoice id of 0.      *)
THEOREM TypeCorrect == Spec => []TypeOK
<1>1. Invariant => TypeOK
    BY DEF Invariant
<1> QED BY <1>1, InvariantHolds, PTL

(* The argument why no invoice gets two requests of a type: AskInvariant,  *)
(* which says that who asks holds the invoice's lock, is an invariant.     *)
THEOREM AskCorrect == Spec => []AskInvariant
<1>1. Invariant => AskInvariant
    BY DEF Invariant
<1> QED BY <1>1, InvariantHolds, PTL

(* However many requests flag the same invoice as paid at the same time,   *)
(* it has at most one committed ROT/RUT request of each type.              *)
THEOREM OneRequestPerTypeCorrect == Spec => []OneRequestPerType
<1>1. Invariant => OneRequestPerType
    BY DEF Invariant, AskInvariant, KeysUnique, OneRequestPerType, CommittedRequests,
           RequestIn, Stored, Key
<1> QED BY <1>1, InvariantHolds, PTL

=============================================================================
