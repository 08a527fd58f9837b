--------------------------- MODULE DocumentsProofs ---------------------------
(***************************************************************************)
(* Proofs about documents, for any rows, numbers and sums: their types,    *)
(* the export that a page offers, and what the amounts of all rows come to *)
(* on the print, the page, the vouchers and the file for the tax agency.   *)
(*                                                                         *)
(* A sum over rows is a recursive function, of which the provers know only *)
(* its defining equation, once a function that satisfies it is shown to    *)
(* exist (StepsTaken).  From there a property of all rows is one of each   *)
(* row, carried along the partial sums (UpTo).                             *)
(***************************************************************************)
EXTENDS DocumentsProperties, TLAPS, WellFoundedInduction

(* Rows and requests that a form leaves behind.                            *)
LEMMA RowsWithoutRow ==
    ASSUME NEW rows \in Seq(Row), NEW k \in DOMAIN rows
    PROVE  WithoutRow(rows, k) \in Seq(Row)
<1>1. Len(rows) - 1 \in Nat
  OBVIOUS
<1>2. WithoutRow(rows, k) \in [1 .. Len(rows) - 1 -> Row]
  BY DEF WithoutRow
<1> QED
  BY <1>1, <1>2

LEMMA RowWithHours ==
    ASSUME NEW row \in Row, NEW hours \in Int
    PROVE  [row EXCEPT !.hours = hours] \in Row
  BY DEF Row

LEMMA RowsWithHours ==
    ASSUME NEW rows \in Seq(Row), NEW new \in WithHours(rows)
    PROVE  new \in Seq(Row)
<1>1. PICK k \in DOMAIN rows, hours \in HoursGiven : new = [rows EXCEPT ![k].hours = hours]
  BY DEF WithHours
<1>2. hours \in Int
  BY <1>1, DocumentsAssumption
<1>3. [rows[k] EXCEPT !.hours = hours] \in Row
  BY <1>1, <1>2, RowWithHours
<1> QED
  BY <1>1, <1>3

LEMMA RowsEdited ==
    ASSUME NEW rows \in Seq(Row),
           NEW new \in Added(rows) \cup Edited(rows) \cup Removed(rows)
    PROVE  new \in Seq(Row)
<1>1. CASE new \in Added(rows)
  BY <1>1, DocumentsAssumption DEF Added
<1>2. CASE new \in Edited(rows)
  BY <1>2, DocumentsAssumption DEF Edited
<1>3. CASE new \in Removed(rows)
  BY <1>3, RowsWithoutRow DEF Removed
<1> QED
  BY <1>1, <1>2, <1>3

LEMMA TypeOfRequested ==
    ASSUME TypeOK, NEW rows
    PROVE  Requested(rows) \in [Types -> Request \cup {NULL}]
<1>1. NewRequest \in Request
  BY DEF NewRequest, Request
<1> QED
  BY <1>1 DEF Requested, TypeOK

LEMMA TypeInit == Init => TypeOK
  BY DEF Init, TypeOK

(* One post of an invoice that exists, one flag, one post of a request.    *)
LEMMA TypeOfPost ==
    ASSUME TypeOK, invoice # NULL, NEW number \in PNR, NEW applicable \in BOOLEAN,
           NEW rows \in Seq(Row), Post(number, applicable, rows)
    PROVE  TypeOK'
  BY DEF TypeOK, Invoice, Post

LEMMA TypeOfPostElsewhere ==
    ASSUME TypeOK, NEW rows \in Seq(Row), PostElsewhere(rows)
    PROVE  TypeOK'
  BY DEF TypeOK, Invoice, PostElsewhere

LEMMA TypeOfFlag ==
    ASSUME TypeOK, invoice # NULL, NEW val \in BOOLEAN, FlagInvoiced(val) \/ FlagPaid(val)
    PROVE  TypeOK'
<1>1. CASE FlagInvoiced(val)
  BY <1>1 DEF TypeOK, Invoice, FlagInvoiced
<1>2. CASE FlagPaid(val)
  <2>1. rut' \in [Types -> Request \cup {NULL}]
    BY <1>2, TypeOfRequested DEF FlagPaid, TypeOK
  <2>2. invoice' \in Invoice
    BY <1>2 DEF TypeOK, Invoice, FlagPaid
  <2> QED
    BY <2>1, <2>2 DEF TypeOK
<1> QED
  BY <1>1, <1>2

LEMMA TypeOfPostRequest ==
    ASSUME TypeOK, invoice # NULL, NEW type \in Types, NEW sum \in Int, NEW rows \in Seq(Row),
           PostRequest(type, sum, rows)
    PROVE  TypeOK'
<1>1. CASE rut[type].status = "pending"
  <2>1. [rut[type] EXCEPT !.requested_sum = sum] \in Request
    BY DEF TypeOK, Request, PostRequest
  <2>2. rut' = [rut EXCEPT ![type] = [rut[type] EXCEPT !.requested_sum = sum]]
    BY <1>1 DEF PostRequest
  <2>3. invoice' \in Invoice
    BY <1>1 DEF TypeOK, Invoice, PostRequest
  <2> QED
    BY <2>1, <2>2, <2>3 DEF TypeOK
<1>2. CASE rut[type].status # "pending"
  BY <1>2 DEF TypeOK, PostRequest, vars
<1> QED
  BY <1>1, <1>2

LEMMA TypeOfFlagSent ==
    ASSUME TypeOK, NEW type \in Types, FlagSent(type)
    PROVE  TypeOK'
<1>1. [rut[type] EXCEPT !.status = "sent"] \in Request
  BY DEF TypeOK, Request, FlagSent
<1>2. rut' = [rut EXCEPT ![type] = [rut[type] EXCEPT !.status = "sent"]]
  BY DEF FlagSent
<1> QED
  BY <1>1, <1>2 DEF TypeOK, FlagSent

LEMMA TypeOfPostNew ==
    ASSUME TypeOK, NEW number \in PNR, NEW applicable \in BOOLEAN, NEW rows \in Seq(Row),
           PostNew(number, applicable, rows)
    PROVE  TypeOK'
  BY DEF TypeOK, Invoice, PostNew

(* A step of Next, with where its forms come from.                         *)
LEMMA FormsTyped ==
    /\ Numbers \subseteq PNR
    /\ Sums \subseteq Int
    /\ << >> \in Seq(Row)
  BY DocumentsAssumption

LEMMA Steps ==
    ASSUME TypeOK, Next
    PROVE  \/ \E number \in PNR, applicable \in BOOLEAN, rows \in Seq(Row) :
                 \/ PostNew(number, applicable, rows)
                 \/ invoice # NULL /\ Post(number, applicable, rows)
           \/ \E rows \in Seq(Row) : PostElsewhere(rows)
           \/ \E val \in BOOLEAN : invoice # NULL /\ (FlagInvoiced(val) \/ FlagPaid(val))
           \/ \E type \in Types : FlagSent(type)
           \/ \E type \in Types, sum \in Int, rows \in Seq(Row) :
                 invoice # NULL /\ PostRequest(type, sum, rows)
<1>1. ASSUME NEW number \in Numbers, NEW applicable \in BOOLEAN,
             NEW rows \in {<< >>} \cup Added(<< >>), PostNew(number, applicable, rows)
      PROVE  number \in PNR /\ rows \in Seq(Row)
  BY <1>1, FormsTyped, RowsEdited
<1>2. invoice # NULL =>
          invoice.rows \in Seq(Row) /\ invoice.pnr \in PNR /\ invoice.rut_applicable \in BOOLEAN
  BY DEF TypeOK, Invoice
<1>3. ASSUME invoice # NULL,
             NEW rows \in Added(invoice.rows) \cup Edited(invoice.rows) \cup Removed(invoice.rows)
      PROVE  rows \in Seq(Row)
  BY <1>2, <1>3, RowsEdited
<1>4. ASSUME invoice # NULL, NEW rows \in {invoice.rows} \cup WithHours(invoice.rows)
      PROVE  rows \in Seq(Row)
  BY <1>2, <1>4, RowsWithHours
<1> QED
  BY <1>1, <1>2, <1>3, <1>4, FormsTyped DEF Next

LEMMA TypeStep == TypeOK /\ [Next]_vars => TypeOK'
<1> SUFFICES ASSUME TypeOK, [Next]_vars
             PROVE  TypeOK'
  OBVIOUS
<1>1. CASE Next
  BY <1>1, Steps, TypeOfPostNew, TypeOfPost, TypeOfPostElsewhere, TypeOfFlag, TypeOfFlagSent, TypeOfPostRequest
<1>2. CASE UNCHANGED vars
  BY <1>2 DEF vars, TypeOK
<1> QED
  BY <1>1, <1>2

(* An invoice keeps rows with prices and counts, and its requests are      *)
(* pending or sent, in every state.                                        *)
THEOREM TypeCorrect == Spec => []TypeOK
<1>1. Init => TypeOK
  BY TypeInit
<1>2. TypeOK /\ [Next]_vars => TypeOK'
  BY TypeStep
<1> QED
  BY <1>1, <1>2, PTL DEF Spec

-----------------------------------------------------------------------------
(* A request is made when its invoice is paid, and the date of that stays. *)
RequestsDated ==
    \A type \in Types : rut[type] # NULL => invoice # NULL /\ invoice.date_paid

LEMMA DatedStep == TypeOK /\ RequestsDated /\ [Next]_vars => RequestsDated'
<1> SUFFICES ASSUME TypeOK, RequestsDated, [Next]_vars
             PROVE  RequestsDated'
  OBVIOUS
<1>1. TypeOK'
  BY TypeStep
<1>2. ASSUME NEW number \in PNR, NEW applicable \in BOOLEAN, NEW rows \in Seq(Row),
             PostNew(number, applicable, rows)
      PROVE  RequestsDated'
  BY <1>2 DEF RequestsDated, PostNew
<1>3. ASSUME invoice # NULL
      PROVE  invoice \in Invoice
  BY <1>3 DEF TypeOK
<1>4. ASSUME invoice # NULL, invoice' \in Invoice, invoice'.date_paid = invoice.date_paid,
             \A type \in Types : rut'[type] # NULL => rut[type] # NULL
      PROVE  RequestsDated'
  BY <1>4, ExportsAssumption DEF RequestsDated
<1>5. ASSUME NEW number \in PNR, NEW applicable \in BOOLEAN, NEW rows \in Seq(Row),
             invoice # NULL, Post(number, applicable, rows)
      PROVE  RequestsDated'
  <2>1. invoice' \in Invoice /\ invoice'.date_paid = invoice.date_paid
    BY <1>3, <1>5 DEF Post, Invoice
  <2> QED
    BY <1>4, <1>5, <2>1 DEF Post
<1>6. ASSUME NEW rows \in Seq(Row), PostElsewhere(rows)
       PROVE  RequestsDated'
  <2>1. /\ invoice # NULL /\ invoice' \in Invoice
        /\ invoice'.date_paid = invoice.date_paid
    BY <1>3, <1>6 DEF PostElsewhere, Invoice
  <2> QED
    BY <1>4, <1>6, <2>1 DEF PostElsewhere
<1>7. ASSUME NEW val \in BOOLEAN, invoice # NULL, FlagInvoiced(val)
      PROVE  RequestsDated'
  <2>1. invoice' \in Invoice /\ invoice'.date_paid = invoice.date_paid
    BY <1>3, <1>7 DEF FlagInvoiced, Invoice
  <2> QED
    BY <1>4, <1>7, <2>1 DEF FlagInvoiced
<1>8. ASSUME NEW val \in BOOLEAN, invoice # NULL, FlagPaid(val)
      PROVE  RequestsDated'
  <2>1. invoice' \in Invoice /\ invoice'.date_paid
    BY <1>3, <1>8 DEF FlagPaid, Invoice
  <2> QED
    BY <2>1, ExportsAssumption DEF RequestsDated
<1>9. ASSUME NEW type \in Types, FlagSent(type)
      PROVE  RequestsDated'
  BY <1>9 DEF FlagSent, RequestsDated, TypeOK
<1>10. ASSUME NEW type \in Types, NEW sum \in Int, NEW rows \in Seq(Row),
             invoice # NULL, PostRequest(type, sum, rows)
      PROVE  RequestsDated'
  <2>1. CASE rut[type].status = "pending"
    <3>1. invoice' \in Invoice /\ invoice'.date_paid = invoice.date_paid
      BY <1>3, <1>10, <2>1 DEF PostRequest, Invoice
    <3>2. \A t \in Types : rut'[t] # NULL => rut[t] # NULL
      BY <1>10, <2>1 DEF PostRequest, TypeOK
    <3> QED
      BY <1>4, <1>10, <3>1, <3>2
  <2>2. CASE rut[type].status # "pending"
    BY <1>10, <2>2 DEF PostRequest, vars, RequestsDated
  <2> QED
    BY <2>1, <2>2
<1>11. CASE Next
  BY <1>11, <1>2, <1>5, <1>6, <1>7, <1>8, <1>9, <1>10, Steps
<1>12. CASE UNCHANGED vars
  BY <1>12 DEF vars, RequestsDated
<1> QED
  BY <1>11, <1>12

(* With a sum, a customer and a date of payment, the file is made unless   *)
(* one of the services or the number is refused.                           *)
LEMMA ExportIsMade == TypeOK /\ RequestsDated => OfferedExportIsMade
<1> SUFFICES ASSUME TypeOK, RequestsDated,
                    invoice # NULL, rut["RUT"] # NULL, CanExport("RUT", rut["RUT"], invoice)
             PROVE  \/ ExportFile("RUT", rut["RUT"], invoice).answer = "file"
                    \/ /\ ExportFile("RUT", rut["RUT"], invoice).answer = "error"
                       /\ \/ \E k \in DOMAIN invoice.rows :
                                invoice.rows[k].service \in NotImplemented
                          \/ NumberRefused(invoice.pnr)
  BY DEF OfferedExportIsMade, Exists, Rows
<1>1. invoice.date_paid
  BY DEF RequestsDated, Types
<1>2. rut["RUT"].requested_sum # NULL
  BY DEF CanExport
<1> QED
  BY <1>1, <1>2 DEF ExportFile, Refused, WorkRefused

(* Where the page of a request offers the file, fetching it makes it, or   *)
(* names what it refuses; no date and no sum is missing (export.go:74).    *)
THEOREM OfferedExportsAreMade == Spec => []OfferedExportIsMade
<1>1. Init => TypeOK /\ RequestsDated
  BY TypeInit DEF Init, RequestsDated
<1>2. TypeOK /\ RequestsDated /\ [Next]_vars => (TypeOK /\ RequestsDated)'
  BY TypeStep, DatedStep
<1> QED
  BY <1>1, <1>2, ExportIsMade, PTL DEF Spec

-----------------------------------------------------------------------------
(* What the customer pays for a row and what the agency pays for it are    *)
(* its price, whatever work it is and whatever it costs (invoice.go:259).  *)
LEMMA RowIsShared ==
    ASSUME NEW row \in Row
    PROVE  RowTotals(row, TRUE, TRUE).Customer + RowTotals(row, TRUE, TRUE).ROTRUT
               = RowTotals(row, TRUE, TRUE).Incl
<1>1. row.cost \in Int /\ row.count \in Int /\ Tenth \in Int
  BY TotalsAssumption DEF Row
<1>2. PriceInclRUT(row) * row.count + ROTRUTOfRow(row) = TotalOfRow(row)
  <2>1. CASE ~IsWork(row)
    BY <1>1, <2>1 DEF PriceInclRUT, ROTRUTOfRow, TotalOfRow, Ore
  <2>2. CASE IsWork(row) /\ IsROT(row)
    BY <1>1, <2>2 DEF PriceInclRUT, ROTRUTOfRow, TotalOfRow, Ore
  <2>3. CASE IsWork(row) /\ ~IsROT(row)
    BY <1>1, <2>3 DEF PriceInclRUT, ROTRUTOfRow, TotalOfRow, Ore
  <2> QED
    BY <2>1, <2>2, <2>3
<1> QED
  BY <1>2 DEF RowTotals

-----------------------------------------------------------------------------
(* Induction and recursion up to n, stated with sets and functions.        *)

LEMMA UpTo ==
    ASSUME NEW n \in Nat, NEW S, 0 \in S,
           \A k \in 0 .. n - 1 : k \in S => k + 1 \in S
    PROVE  0 .. n \subseteq S
<1> DEFINE T == (0 .. n) \ S
           R == OpToRel(<, Nat)
<1>1. SUFFICES ASSUME T # {} PROVE FALSE
  OBVIOUS
<1>2. T \subseteq Nat
  OBVIOUS
<1>3. \A x \in T, y \in T : y < x => << y, x >> \in R
  BY <1>2, Zenon DEF OpToRel
<1>4. PICK x \in T : \A y \in T : << y, x >> \notin R
  <2> HIDE DEF R, T
  <2>1. IsWellFoundedOn(R, Nat)
    BY NatLessThanWellFounded DEF R
  <2> QED
    BY <1>1, <1>2, <2>1, WFMin
<1>5. \A y \in T : ~(y < x)
  BY <1>3, <1>4
<1>6. x # 0 /\ x \in 0 .. n /\ x \notin S
  OBVIOUS
<1>7. x - 1 \in 0 .. n - 1 /\ x - 1 < x /\ x - 1 \in 0 .. n
  BY <1>6
<1>8. x - 1 \in S
  BY <1>5, <1>7
<1> QED
  BY <1>6, <1>7, <1>8

(* Steps that each lead from X to X can be taken one after the other.      *)
Follows(s, n, X, x0, step) ==
    s \in [0 .. n -> X] /\ s[0] = x0 /\ \A k \in 1 .. n : s[k] = step[k][s[k - 1]]

LEMMA StepsTaken ==
    ASSUME NEW n \in Nat, NEW X, NEW x0 \in X, NEW step \in [1 .. n -> [X -> X]]
    PROVE  \E s : Follows(s, n, X, x0, step)
<1> DEFINE Taken(s, m) == s[0] = x0 /\ \A k \in 1 .. m : s[k] = step[k][s[k - 1]]
           S == { m \in 0 .. n : \E s \in [0 .. m -> X] : Taken(s, m) }
<1>1. 0 \in S
  <2> DEFINE t == [k \in 0 .. 0 |-> x0]
  <2>1. t \in [0 .. 0 -> X] /\ Taken(t, 0) /\ 0 \in 0 .. n
    OBVIOUS
  <2> HIDE DEF t, Taken
  <2> QED
    BY <2>1
<1>2. ASSUME NEW m \in 0 .. n - 1, m \in S PROVE m + 1 \in S
  <2>1. PICK s \in [0 .. m -> X] : Taken(s, m)
    BY <1>2
  <2> DEFINE t == [k \in 0 .. m + 1 |-> IF k = m + 1 THEN step[m + 1][s[m]] ELSE s[k]]
  <2>2. m + 1 \in 1 .. n /\ m \in 0 .. m
    OBVIOUS
  <2>3. step[m + 1] \in [X -> X] /\ s[m] \in X
    BY <2>2
  <2>4. step[m + 1][s[m]] \in X
    BY <2>3
  <2>5. t \in [0 .. m + 1 -> X]
    BY <2>4
  <2>6. t[0] = x0
    BY <2>1
  <2>7. ASSUME NEW k \in 1 .. m + 1 PROVE t[k] = step[k][t[k - 1]]
    <3>1. CASE k = m + 1
      <4>1. k - 1 = m /\ k - 1 # m + 1 /\ k - 1 \in 0 .. m + 1 /\ k \in 0 .. m + 1
        BY <3>1
      <4>2. t[k - 1] = s[m]
        BY <4>1
      <4>3. t[k] = step[m + 1][s[m]]
        BY <3>1, <4>1
      <4> HIDE DEF t
      <4> QED
        BY <3>1, <4>2, <4>3
    <3>2. CASE k # m + 1
      <4>1. k \in 1 .. m /\ k - 1 # m + 1 /\ k - 1 \in 0 .. m + 1 /\ k \in 0 .. m + 1
        BY <3>2
      <4>2. t[k] = s[k] /\ t[k - 1] = s[k - 1]
        BY <3>2, <4>1
      <4> QED
        BY <2>1, <4>1, <4>2
    <3> QED
      BY <3>1, <3>2
  <2>8. m + 1 \in 0 .. n
    OBVIOUS
  <2> HIDE DEF t
  <2> QED
    BY <2>5, <2>6, <2>7, <2>8
<1>3. 0 .. n \subseteq S
  <2> HIDE DEF S
  <2> QED
    BY <1>1, <1>2, UpTo
<1>4. n \in S
  <2> HIDE DEF S
  <2> QED
    BY <1>3
<1> QED
  BY <1>4 DEF Follows

-----------------------------------------------------------------------------
(* Sums of amounts.                                                        *)

(* The sums of the first k amounts.                                        *)
Partial(s, amounts) ==
    /\ s \in [0 .. Len(amounts) -> Int]
    /\ s[0] = 0
    /\ \A k \in 1 .. Len(amounts) : s[k] = s[k - 1] + amounts[k]

LEMMA SumIsPartial ==
    ASSUME NEW a \in Seq(Int)
    PROVE  \E s : Partial(s, a) /\ SumOf(a) = s[Len(a)]
<1> DEFINE n    == Len(a)
           sum  == CHOOSE s : s = [k \in 0 .. n |-> IF k = 0 THEN 0 ELSE s[k - 1] + a[k]]
           step == [k \in 1 .. n |-> [x \in Int |-> x + a[k]]]
<1>1. n \in Nat /\ \A k \in 1 .. n : a[k] \in Int
  OBVIOUS
<1>2. step \in [1 .. n -> [Int -> Int]]
  BY <1>1
<1>3. PICK s : Follows(s, n, Int, 0, step)
  <2>1. 0 \in Int /\ n \in Nat
    BY <1>1
  <2> HIDE DEF step, n
  <2> QED
    BY <1>2, <2>1, StepsTaken, Zenon
<1>4. ASSUME NEW k \in 1 .. n PROVE s[k] = s[k - 1] + a[k]
  <2>1. k - 1 \in 0 .. n
    BY <1>1
  <2>2. s[k - 1] \in Int /\ a[k] \in Int
    BY <1>1, <1>3, <2>1 DEF Follows
  <2>3. step[k][s[k - 1]] = s[k - 1] + a[k]
    BY <2>2
  <2> HIDE DEF step
  <2> QED
    BY <1>3, <2>3 DEF Follows
<1>5. s = [k \in 0 .. n |-> IF k = 0 THEN 0 ELSE s[k - 1] + a[k]]
  <2> HIDE DEF step
  <2> QED
    BY <1>1, <1>3, <1>4 DEF Follows
<1>6. sum = [k \in 0 .. n |-> IF k = 0 THEN 0 ELSE sum[k - 1] + a[k]]
  BY <1>5
<1>7. SumOf(a) = sum[n]
  BY DEF SumOf
<1> HIDE DEF sum
<1>8. sum[0] = 0 /\ \A k \in 1 .. n : sum[k] = sum[k - 1] + a[k]
  BY <1>1, <1>6
<1>9. 0 .. n \subseteq {k \in 0 .. n : sum[k] \in Int}
  <2> DEFINE S == {k \in 0 .. n : sum[k] \in Int}
  <2>1. 0 \in S
    BY <1>1, <1>8
  <2>2. \A k \in 0 .. n - 1 : k \in S => k + 1 \in S
    <3> TAKE k \in 0 .. n - 1
    <3>1. k + 1 \in 1 .. n /\ k + 1 \in 0 .. n /\ (k + 1) - 1 = k
      BY <1>1
    <3> QED
      BY <1>1, <1>8, <3>1
  <2> HIDE DEF S, n
  <2> QED
    BY <1>1, <2>1, <2>2, UpTo DEF S
<1>10. sum \in [0 .. n -> Int]
  BY <1>6, <1>9
<1> QED
  BY <1>7, <1>8, <1>10 DEF Partial

LEMMA SumIsInt ==
    ASSUME NEW a \in Seq(Int)
    PROVE  SumOf(a) \in Int
<1>1. PICK s : Partial(s, a) /\ SumOf(a) = s[Len(a)]
  BY SumIsPartial
<1> QED
  BY <1>1 DEF Partial

(* Amounts that are two others together, and amounts that differ by given  *)
(* bounds at most.                                                         *)
AddUp(a, b, c, n) ==
    /\ n \in Nat /\ a \in Seq(Int) /\ b \in Seq(Int) /\ c \in Seq(Int)
    /\ Len(a) = n /\ Len(b) = n /\ Len(c) = n
    /\ \A k \in 1 .. n : a[k] + b[k] = c[k]

Near(a, b, c, n) ==
    /\ n \in Nat /\ a \in Seq(Int) /\ b \in Seq(Int) /\ c \in Seq(Int)
    /\ Len(a) = n /\ Len(b) = n /\ Len(c) = n
    /\ \A k \in 1 .. n : -c[k] <= a[k] - b[k] /\ a[k] - b[k] <= c[k]

(* So have their sums.                                                     *)
LEMMA SumsAdd ==
    ASSUME NEW n, NEW a, NEW b, NEW c, AddUp(a, b, c, n)
    PROVE  SumOf(a) + SumOf(b) = SumOf(c)
<1>0. /\ n \in Nat /\ a \in Seq(Int) /\ b \in Seq(Int) /\ c \in Seq(Int)
      /\ Len(a) = n /\ Len(b) = n /\ Len(c) = n
      /\ \A k \in 1 .. n : a[k] \in Int /\ b[k] \in Int /\ a[k] + b[k] = c[k]
  BY DEF AddUp
<1>1. PICK p : Partial(p, a) /\ SumOf(a) = p[n]
  BY <1>0, SumIsPartial
<1>2. PICK q : Partial(q, b) /\ SumOf(b) = q[n]
  BY <1>0, SumIsPartial
<1>3. PICK s : Partial(s, c) /\ SumOf(c) = s[n]
  BY <1>0, SumIsPartial
<1> DEFINE S == {k \in 0 .. n : p[k] + q[k] = s[k]}
<1>4. 0 \in S
  BY <1>0, <1>1, <1>2, <1>3 DEF Partial
<1>5. ASSUME NEW k \in 0 .. n - 1, k \in S PROVE k + 1 \in S
  <2>1. k + 1 \in 1 .. n /\ k + 1 \in 0 .. n /\ (k + 1) - 1 = k /\ k \in 0 .. n
    BY <1>0
  <2>2. /\ p[k + 1] = p[k] + a[k + 1] /\ q[k + 1] = q[k] + b[k + 1]
        /\ s[k + 1] = s[k] + c[k + 1] /\ p[k] \in Int /\ q[k] \in Int /\ s[k] \in Int
    BY <1>0, <1>1, <1>2, <1>3, <2>1 DEF Partial
  <2>3. a[k + 1] \in Int /\ b[k + 1] \in Int /\ a[k + 1] + b[k + 1] = c[k + 1]
    BY <1>0, <2>1
  <2> QED
    BY <1>5, <2>1, <2>2, <2>3
<1>6. n \in S
  <2> HIDE DEF S
  <2>1. 0 .. n \subseteq S
    BY <1>0, <1>4, <1>5, UpTo
  <2> QED
    BY <1>0, <2>1
<1> QED
  BY <1>1, <1>2, <1>3, <1>6

LEMMA SumsNear ==
    ASSUME NEW n, NEW a, NEW b, NEW c, Near(a, b, c, n)
    PROVE  -SumOf(c) <= SumOf(a) - SumOf(b) /\ SumOf(a) - SumOf(b) <= SumOf(c)
<1>0. /\ n \in Nat /\ a \in Seq(Int) /\ b \in Seq(Int) /\ c \in Seq(Int)
      /\ Len(a) = n /\ Len(b) = n /\ Len(c) = n
      /\ \A k \in 1 .. n : /\ a[k] \in Int /\ b[k] \in Int /\ c[k] \in Int
                           /\ -c[k] <= a[k] - b[k] /\ a[k] - b[k] <= c[k]
  BY DEF Near
<1>1. PICK p : Partial(p, a) /\ SumOf(a) = p[n]
  BY <1>0, SumIsPartial
<1>2. PICK q : Partial(q, b) /\ SumOf(b) = q[n]
  BY <1>0, SumIsPartial
<1>3. PICK s : Partial(s, c) /\ SumOf(c) = s[n]
  BY <1>0, SumIsPartial
<1> DEFINE S == {k \in 0 .. n : -s[k] <= p[k] - q[k] /\ p[k] - q[k] <= s[k]}
<1>4. 0 \in S
  BY <1>0, <1>1, <1>2, <1>3 DEF Partial
<1>5. ASSUME NEW k \in 0 .. n - 1, k \in S PROVE k + 1 \in S
  <2>1. k + 1 \in 1 .. n /\ k + 1 \in 0 .. n /\ (k + 1) - 1 = k /\ k \in 0 .. n
    BY <1>0
  <2>2. /\ p[k + 1] = p[k] + a[k + 1] /\ q[k + 1] = q[k] + b[k + 1]
        /\ s[k + 1] = s[k] + c[k + 1] /\ p[k] \in Int /\ q[k] \in Int /\ s[k] \in Int
    BY <1>0, <1>1, <1>2, <1>3, <2>1 DEF Partial
  <2>3. /\ a[k + 1] \in Int /\ b[k + 1] \in Int /\ c[k + 1] \in Int
        /\ -c[k + 1] <= a[k + 1] - b[k + 1] /\ a[k + 1] - b[k + 1] <= c[k + 1]
    BY <1>0, <2>1
  <2> QED
    BY <1>5, <2>1, <2>2, <2>3
<1>6. n \in S
  <2> HIDE DEF S
  <2>1. 0 .. n \subseteq S
    BY <1>0, <1>4, <1>5, UpTo
  <2> QED
    BY <1>0, <2>1
<1> QED
  BY <1>1, <1>2, <1>3, <1>6

(* The partial sums of given amounts are determined.                       *)
LEMMA PartialIsSum ==
    ASSUME NEW a \in Seq(Int), NEW p, Partial(p, a)
    PROVE  SumOf(a) = p[Len(a)]
<1> DEFINE n == Len(a)
<1>1. PICK q : Partial(q, a) /\ SumOf(a) = q[n]
  BY SumIsPartial
<1> DEFINE S == {k \in 0 .. n : p[k] = q[k]}
<1>2. 0 \in S /\ n \in Nat
  BY <1>1 DEF Partial
<1>3. ASSUME NEW k \in 0 .. n - 1, k \in S PROVE k + 1 \in S
  <2>1. k + 1 \in 1 .. n /\ k + 1 \in 0 .. n /\ (k + 1) - 1 = k /\ k \in 0 .. n
    BY <1>2
  <2>2. p[k + 1] = p[k] + a[k + 1] /\ q[k + 1] = q[k] + a[k + 1]
    BY <1>1, <2>1 DEF Partial
  <2> QED
    BY <1>3, <2>1, <2>2
<1>4. n \in S
  <2> HIDE DEF S, n
  <2>1. 0 .. n \subseteq S
    BY <1>2, <1>3, UpTo
  <2> QED
    BY <1>2, <2>1
<1> QED
  BY <1>1, <1>4

-----------------------------------------------------------------------------
(* Division and rounding, for a divisor b > 0.                             *)

LEMMA Division ==
    ASSUME NEW a \in Int, NEW b \in Nat \ {0}
    PROVE  /\ a \div b \in Int /\ a % b \in 0 .. b - 1
           /\ a = b * (a \div b) + (a % b)
  OBVIOUS

LEMMA QuotientOfNat ==
    ASSUME NEW a \in Nat, NEW b \in Nat \ {0}
    PROVE  a \div b \in Nat
<1>1. PICK q \in Int, m \in 0 .. b - 1 : q = a \div b /\ a = b * q + m
  BY Division
<1>2. ASSUME q < 0 PROVE FALSE
  <2>1. PICK n \in Nat : q = -n - 1
    <3>1. -q - 1 \in Nat
      BY <1>2
    <3>2. q = -(-q - 1) - 1
      OBVIOUS
    <3> QED
      BY <3>1, <3>2
  <2>2. b * n >= 0 /\ b * q = -(b * n) - b
    BY <2>1
  <2>3. PICK bn \in Nat, bq \in Int : bn = b * n /\ bq = b * q
    BY <2>2
  <2> QED
    BY <1>1, <2>2, <2>3
<1> QED
  BY <1>1, <1>2

(* The quotient of a number between two multiples.                         *)
LEMMA Quotient ==
    ASSUME NEW a \in Int, NEW b \in Nat \ {0}, NEW q \in Int, NEW m \in 0 .. b - 1,
           a = b * q + m
    PROVE  a \div b = q /\ a % b = m
  OBVIOUS

(* A division that rounds is off by half a unit at most.                   *)
LEMMA RoundDivIsNear ==
    ASSUME NEW a \in Int, NEW b \in Nat \ {0}
    PROVE  /\ RoundDiv(a, b) \in Int
           /\ -b <= 2 * (b * RoundDiv(a, b) - a) /\ 2 * (b * RoundDiv(a, b) - a) <= b
<1>1. 2 * b \in Nat \ {0}
  OBVIOUS
<1>2. CASE a < 0
  <2> DEFINE x == 2 * (-a) + b
             q == x \div (2 * b)
             m == x % (2 * b)
  <2>1. x \in Int
    OBVIOUS
  <2>2. q \in Int /\ m \in 0 .. 2 * b - 1 /\ x = (2 * b) * q + m
    <3> HIDE DEF x
    <3> QED
      BY <1>1, <2>1, Division
  <2>3. RoundDiv(a, b) = -q
    BY <1>2 DEF RoundDiv
  <2> HIDE DEF q, m
  <2>4. PICK z \in Int : z = b * q
    BY <2>2
  <2>5. (2 * b) * q = 2 * z /\ b * (-q) = -z
    BY <2>2, <2>4
  <2>6. 2 * (-a) + b = 2 * z + m
    BY <2>2, <2>5
  <2>7. 2 * (-z - a) = m - b
    BY <2>2, <2>6
  <2> QED
    BY <2>2, <2>3, <2>5, <2>7
<1>3. CASE ~(a < 0)
  <2> DEFINE x == 2 * a + b
             q == x \div (2 * b)
             m == x % (2 * b)
  <2>1. x \in Int
    OBVIOUS
  <2>2. q \in Int /\ m \in 0 .. 2 * b - 1 /\ x = (2 * b) * q + m
    <3> HIDE DEF x
    <3> QED
      BY <1>1, <2>1, Division
  <2>3. RoundDiv(a, b) = q
    BY <1>3 DEF RoundDiv
  <2>4. b * q \in Int /\ (2 * b) * q = 2 * (b * q)
    BY <2>2
  <2> HIDE DEF q, m
  <2> QED
    BY <2>2, <2>3, <2>4
<1> QED
  BY <1>2, <1>3

LEMMA RoundBankIsNear ==
    ASSUME NEW a \in Int, NEW b \in Nat \ {0}
    PROVE  /\ RoundBank(a, b) \in Int
           /\ RoundBank(a, b) \in {a \div b, a \div b + 1}
           /\ -b <= 2 * (b * RoundBank(a, b) - a) /\ 2 * (b * RoundBank(a, b) - a) <= b
<1> DEFINE q == a \div b
           m == a % b
<1>1. q \in Int /\ m \in 0 .. b - 1 /\ a = b * q + m
  BY Division
<1>2. \/ RoundBank(a, b) = q /\ 2 * m <= b
      \/ RoundBank(a, b) = q + 1 /\ 2 * m >= b
  <2> HIDE DEF q, m
  <2>1. RoundBank(a, b) = IF 2 * m > b \/ (2 * m = b /\ q % 2 = 1) THEN q + 1 ELSE q
    BY DEF RoundBank, q, m
  <2> QED
    BY <1>1, <2>1
<1>3. PICK z \in Int : z = b * q
  BY <1>1
<1> HIDE DEF q, m
<1>4. b * (q + 1) = z + b
  BY <1>1, <1>3
<1>5. CASE RoundBank(a, b) = q /\ 2 * m <= b
  BY <1>1, <1>3, <1>5 DEF q
<1>6. CASE RoundBank(a, b) = q + 1 /\ 2 * m >= b
  <2>1. 2 * (b * RoundBank(a, b) - a) = 2 * (b - m)
    BY <1>1, <1>3, <1>4, <1>6
  <2> QED
    BY <1>1, <1>6, <2>1 DEF q
<1> QED
  BY <1>2, <1>5, <1>6

(* Cutting off leaves the multiple below, or the one above of what is < 0. *)
LEMMA IntPartIsNear ==
    ASSUME NEW a \in Int, NEW b \in Nat \ {0}
    PROVE  IntPart(a, b) \in {a \div b, a \div b + 1}
<1>1. CASE a < 0
  <2>0. PICK x \in Int : x = -a
    OBVIOUS
  <2> DEFINE q == x \div b
             m == x % b
  <2>1. q \in Int /\ m \in 0 .. b - 1 /\ -a = b * q + m
    BY <2>0, Division
  <2>2. IntPart(a, b) = -q
    BY <1>1, <2>0 DEF IntPart
  <2> HIDE DEF q, m
  <2>3. PICK z \in Int : z = b * q
    BY <2>1
  <2>4. b * (-q) = -z /\ b * (-q - 1) = -z - b
    BY <2>1, <2>3
  <2>5. CASE m = 0
    <3>1. a = b * (-q) + 0 /\ 0 \in 0 .. b - 1 /\ -q \in Int
      BY <2>1, <2>3, <2>4, <2>5
    <3>2. a \div b = -q
      BY <3>1, Quotient
    <3> QED
      BY <2>2, <3>2
  <2>6. CASE m # 0
    <3>1. a = b * (-q - 1) + (b - m) /\ b - m \in 0 .. b - 1 /\ -q - 1 \in Int
      BY <2>1, <2>3, <2>4, <2>6
    <3>2. a \div b = -q - 1
      BY <3>1, Quotient
    <3> QED
      BY <2>1, <2>2, <3>2
  <2> QED
    BY <2>5, <2>6
<1>2. CASE ~(a < 0)
  BY <1>2 DEF IntPart
<1> QED
  BY <1>1, <1>2

(* An amount that is known up to e, and rounded half away from zero, is    *)
(* where it is rounded half to even, but for an amount near a half.        *)
LEMMA ShownIsNear ==
    ASSUME NEW a \in Int, NEW e \in Nat, NEW b \in Nat \ {0},
           NEW s \in RoundDiv(a - e, b) .. RoundDiv(a + e, b)
    PROVE  /\ s \in Int
           /\ -(b + 2 * e) <= 2 * (b * s - a) /\ 2 * (b * s - a) <= b + 2 * e
<1>1. PICK low \in Int : /\ low = RoundDiv(a - e, b)
                         /\ -b <= 2 * (b * low - (a - e))
  BY RoundDivIsNear
<1>2. PICK high \in Int : /\ high = RoundDiv(a + e, b)
                          /\ 2 * (b * high - (a + e)) <= b
  BY RoundDivIsNear
<1>3. s \in Int /\ low <= s /\ s <= high
  BY <1>1, <1>2
<1>4. PICK bl \in Int, bs \in Int, bh \in Int : bl = b * low /\ bs = b * s /\ bh = b * high
  BY <1>3
<1>5. bl <= bs /\ bs <= bh
  <2>1. b * (s - low) >= 0 /\ b * (high - s) >= 0
    BY <1>3
  <2>2. b * (s - low) = b * s - b * low /\ b * (high - s) = b * high - b * s
    BY <1>3
  <2> QED
    BY <1>4, <2>1, <2>2
<1> QED
  BY <1>1, <1>2, <1>3, <1>4, <1>5

LEMMA ShownAsPrinted ==
    ASSUME NEW a \in Int, NEW e \in Nat, NEW b \in Nat \ {0},
           NEW s \in RoundDiv(a - e, b) .. RoundDiv(a + e, b), s # RoundBank(a, b)
    PROVE  /\ Abs(2 * (a % b) - b) <= 2 * e
           /\ Abs(b * (s - RoundBank(a, b))) <= b + e
<1>1. s \in Int /\ -(b + 2 * e) <= 2 * (b * s - a) /\ 2 * (b * s - a) <= b + 2 * e
  BY ShownIsNear
<1>2. PICK p \in Int : /\ p = RoundBank(a, b)
                       /\ -b <= 2 * (b * p - a) /\ 2 * (b * p - a) <= b
  BY RoundBankIsNear
<1>3. PICK q \in Int, m \in 0 .. b - 1 : q = a \div b /\ m = a % b /\ a = b * q + m
  BY Division
<1>4. PICK bs \in Int, bp \in Int, bq \in Int : bs = b * s /\ bp = b * p /\ bq = b * q
  BY <1>1
<1>5. Abs(bs - bp) <= b + e
  <2>1. -(b + e) <= bs - bp /\ bs - bp <= b + e
    BY <1>1, <1>2, <1>4
  <2> QED
    BY <2>1 DEF Abs
<1>6. b * (s - p) = bs - bp
  BY <1>1, <1>4
<1>7. ASSUME NEW n \in Int, NEW bn \in Int, bn = b * n, bn - b < bs, bs < bn + b
      PROVE  s = n
  <2>1. b * (s - (n + 1)) = bs - bn - b /\ b * ((n - 1) - s) = bn - b - bs
    BY <1>1, <1>4, <1>7
  <2>2. ~(s - (n + 1) >= 0)
    <3>1. s - (n + 1) >= 0 => b * (s - (n + 1)) >= 0
      BY <1>1
    <3> QED
      BY <1>4, <1>7, <2>1, <3>1
  <2>3. ~((n - 1) - s >= 0)
    <3>1. (n - 1) - s >= 0 => b * ((n - 1) - s) >= 0
      BY <1>1
    <3> QED
      BY <1>4, <1>7, <2>1, <3>1
  <2> QED
    BY <1>1, <2>2, <2>3
<1>8. b * (q + 1) = bq + b
  BY <1>4
<1>9. ~(2 * m - b > 2 * e)
  <2> SUFFICES ASSUME 2 * m - b > 2 * e PROVE FALSE
    OBVIOUS
  <2>1. p = q + 1
    BY <1>2, <1>3 DEF RoundBank
  <2>2. bq < bs /\ bs < bq + 2 * b
    BY <1>1, <1>3, <1>4
  <2>3. PICK n \in Int, bn \in Int : n = q + 1 /\ bn = bq + b
    OBVIOUS
  <2>4. bn = b * n /\ bn - b < bs /\ bs < bn + b
    BY <1>8, <2>2, <2>3
  <2>5. s = n
    BY <1>7, <2>4
  <2> QED
    BY <1>2, <2>1, <2>3, <2>5
<1>10. ~(2 * m - b < -(2 * e))
  <2> SUFFICES ASSUME 2 * m - b < -(2 * e) PROVE FALSE
    OBVIOUS
  <2>1. p = q
    BY <1>2, <1>3 DEF RoundBank
  <2>2. bq - b < bs /\ bs < bq + b
    BY <1>1, <1>3, <1>4
  <2>3. s = q
    BY <1>4, <1>7, <2>2
  <2> QED
    BY <1>2, <2>1, <2>3
<1>11. Abs(2 * m - b) <= 2 * e
  BY <1>9, <1>10 DEF Abs
<1> QED
  BY <1>2, <1>3, <1>5, <1>6, <1>11

(* What an error in a price becomes for several pieces.                    *)
LEMMA ErrorTimes ==
    ASSUME NEW e \in Int, NEW h \in Nat, NEW c \in Int, -h <= e, e <= h
    PROVE  -(h * Abs(c)) <= e * c /\ e * c <= h * Abs(c)
<1>1. CASE c < 0
  <2>1. Abs(c) = -c /\ -c \in Nat
    BY <1>1 DEF Abs
  <2>2. (h - e) * (-c) >= 0 /\ (h + e) * (-c) >= 0
    BY <2>1
  <2>3. (h - e) * (-c) = h * (-c) + e * c /\ (h + e) * (-c) = h * (-c) - e * c
    OBVIOUS
  <2> QED
    BY <2>1, <2>2, <2>3
<1>2. CASE ~(c < 0)
  <2>1. Abs(c) = c /\ c \in Nat
    BY <1>2 DEF Abs
  <2>2. (h - e) * c >= 0 /\ (h + e) * c >= 0
    BY <2>1
  <2>3. (h - e) * c = h * c - e * c /\ (h + e) * c = h * c + e * c
    OBVIOUS
  <2> QED
    BY <2>1, <2>2, <2>3
<1> QED
  BY <1>1, <1>2

-----------------------------------------------------------------------------
(* The amounts of one row.                                                 *)

LEMMA RatesOfVAT ==
    ASSUME NEW vat \in VATTypes
    PROVE  /\ VATAmount[vat] \in {25, 12, 60, 0} /\ VATLabel[vat] \in {25, 12, 6, 0}
           /\ 100 + VATAmount[vat] \in Nat \ {0} /\ 100 + VATLabel[vat] \in Nat \ {0}
           /\ vat \in Rates \/ vat = 3
<1>1. vat = 0 \/ vat = 1 \/ vat = 2 \/ vat = 3
  BY DEF VATTypes
<1>2. VATAmount[vat] \in {25, 12, 60, 0} /\ VATLabel[vat] \in {25, 12, 6, 0}
  BY <1>1 DEF VATTypes, VATAmount, VATLabel
<1> QED
  BY <1>1, <1>2 DEF Rates

(* An amount without its VAT is off by half a unit, one of the agency by   *)
(* half a unit per piece: x is price without the VAT in b hundredths, and  *)
(* x is total without it.                                                  *)
PriceWithoutVAT(b, x, price) ==
    -b <= 2 * (b * x - 100 * price) /\ 2 * (b * x - 100 * price) <= b

TotalWithoutVAT(b, x, total) ==
    -(50 * b) <= b * x - 100 * total /\ b * x - 100 * total <= 50 * b

LEMMA ExcludingIsNear ==
    ASSUME NEW p \in Int, NEW vat \in VATTypes
    PROVE  /\ Excluding(p, vat) \in Int
           /\ PriceWithoutVAT(100 + VATAmount[vat], Excluding(p, vat), p)
<1> DEFINE b == 100 + VATAmount[vat]
<1>1. b \in Nat \ {0} /\ 100 * p \in Int
  BY RatesOfVAT
<1>2. PICK a \in Int : a = 100 * p
  BY <1>1
<1>3. Excluding(p, vat) = RoundDiv(a, b)
  BY <1>2 DEF Excluding
<1> HIDE DEF b
<1>4. /\ RoundDiv(a, b) \in Int
      /\ -b <= 2 * (b * RoundDiv(a, b) - a) /\ 2 * (b * RoundDiv(a, b) - a) <= b
  BY <1>1, RoundDivIsNear
<1> QED
  BY <1>2, <1>3, <1>4 DEF b, PriceWithoutVAT

LEMMA TotalExcludingIsNear ==
    ASSUME NEW t \in Int, NEW vat \in VATTypes
    PROVE  /\ TotalExcluding(t, vat) \in Int
           /\ TotalWithoutVAT(100 + VATAmount[vat], TotalExcluding(t, vat), t)
<1> DEFINE b == 100 + VATAmount[vat]
<1>1. b \in Nat \ {0}
  BY RatesOfVAT
<1>2. PICK q : q = RoundDiv(t, b)
  OBVIOUS
<1>3. TotalExcluding(t, vat) = 100 * q
  BY <1>2 DEF TotalExcluding
<1> HIDE DEF b
<1>4. /\ q \in Int /\ -b <= 2 * (b * q - t) /\ 2 * (b * q - t) <= b
  BY <1>1, <1>2, RoundDivIsNear
<1>5. PICK z \in Int : z = b * q
  BY <1>1, <1>4
<1>6. b * (100 * q) = 100 * z
  BY <1>1, <1>4, <1>5
<1> QED
  BY <1>1, <1>3, <1>4, <1>5, <1>6 DEF b, TotalWithoutVAT

LEMMA AmountsAreInt ==
    ASSUME NEW row \in Row
    PROVE  /\ row.cost \in Int /\ row.count \in Int /\ row.vat \in VATTypes
           /\ Tenth \in Nat \ {0} /\ Ore \in Nat \ {0}
           /\ PriceInclRUT(row) \in Int /\ ROTRUTOfRow(row) \in Int
           /\ TotalOfRow(row) \in Int /\ ExclOfRow(row) \in Int
           /\ VATOfCustomer(row) \in Int
           /\ TotalExcluding(ROTRUTOfRow(row), row.vat) \in Int
<1>1. /\ row.cost \in Int /\ row.count \in Int /\ row.vat \in VATTypes
      /\ Tenth \in Nat \ {0} /\ Ore \in Nat \ {0}
  BY TotalsAssumption DEF Row, Ore
<1>2. PriceInclRUT(row) \in Int
  BY <1>1 DEF PriceInclRUT
<1>3. ROTRUTOfRow(row) \in Int
  BY <1>1, <1>2 DEF ROTRUTOfRow
<1>4. TotalOfRow(row) \in Int
  BY <1>1 DEF TotalOfRow
<1>5. ExclOfRow(row) \in Int
  <2>1. row.cost * Ore \in Int
    BY <1>1
  <2>2. Excluding(row.cost * Ore, row.vat) \in Int
    BY <1>1, <2>1, ExcludingIsNear
  <2> QED
    BY <1>1, <2>2 DEF ExclOfRow
<1>6. VATOfCustomer(row) \in Int
  <2>1. Excluding(PriceInclRUT(row), row.vat) \in Int
    BY <1>1, <1>2, ExcludingIsNear
  <2> QED
    BY <1>1, <1>2, <2>1 DEF VATOfCustomer
<1>7. TotalExcluding(ROTRUTOfRow(row), row.vat) \in Int
  BY <1>1, <1>3, TotalExcludingIsNear
<1> QED
  BY <1>1, <1>2, <1>3, <1>4, <1>5, <1>6, <1>7

TotalsType ==
    [Total : Int, Incl : Int, Excl : Int, VAT : [Rates -> Int], Customer : Int,
     ROTRUT : Int, TotalVAT : [Rates -> Int], ROTRUTVAT : [Rates -> Int]]

LEMMA RowTotalsTyped ==
    ASSUME NEW row \in Row, NEW v \in BOOLEAN, NEW w \in BOOLEAN
    PROVE  RowTotals(row, v, w) \in TotalsType
<1>1. ShownTotal(row, v, w) \in Int
  BY AmountsAreInt DEF ShownTotal
<1>2. VATOfRow(row, v, w) \in Int
  BY AmountsAreInt DEF VATOfRow
<1>3. \A vat, amount : amount \in Int => AtRate(vat, amount) \in [Rates -> Int]
  BY DEF AtRate
<1>4. PriceInclRUT(row) * row.count \in Int
  BY AmountsAreInt
<1>5. ROTRUTOfRow(row) - TotalExcluding(ROTRUTOfRow(row), row.vat) \in Int
  BY AmountsAreInt
<1>6. /\ AtRate(row.vat, VATOfRow(row, v, w)) \in [Rates -> Int]
      /\ AtRate(row.vat, ExclOfRow(row)) \in [Rates -> Int]
      /\ AtRate(row.vat, ROTRUTOfRow(row) - TotalExcluding(ROTRUTOfRow(row), row.vat))
            \in [Rates -> Int]
  BY <1>2, <1>3, <1>5, AmountsAreInt
<1> QED
  BY <1>1, <1>4, <1>6, AmountsAreInt DEF RowTotals, TotalsType

LEMMA ZeroTotalsTyped == ZeroTotals \in TotalsType
<1>1. AtRate(0, 0) \in [Rates -> Int]
  BY DEF AtRate
<1> QED
  BY <1>1 DEF ZeroTotals, TotalsType

LEMMA AddTyped ==
    ASSUME NEW a \in TotalsType, NEW b \in TotalsType
    PROVE  Add(a, b) \in TotalsType
<1>1. \A x, y \in [Rates -> Int] : AddRates(x, y) \in [Rates -> Int]
  BY DEF AddRates
<1> QED
  BY <1>1 DEF Add, TotalsType

-----------------------------------------------------------------------------
(* The totals of a document are the sums of what its rows come to.         *)

Accumulates(s, rows, v, w) ==
    /\ s \in [0 .. Len(rows) -> TotalsType]
    /\ s[0] = ZeroTotals
    /\ \A k \in 1 .. Len(rows) : s[k] = Add(s[k - 1], RowTotals(rows[k], v, w))

LEMMA TotalsAccumulate ==
    ASSUME NEW rows \in Seq(Row), NEW v \in BOOLEAN, NEW w \in BOOLEAN
    PROVE  \E s : Accumulates(s, rows, v, w) /\ Totals(rows, v, w) = s[Len(rows)]
<1> DEFINE n    == Len(rows)
           sum  == CHOOSE s : s = [k \in 0 .. n |->
                      IF k = 0 THEN ZeroTotals ELSE Add(s[k - 1], RowTotals(rows[k], v, w))]
           step == [k \in 1 .. n |-> [x \in TotalsType |-> Add(x, RowTotals(rows[k], v, w))]]
<1>1. n \in Nat /\ \A k \in 1 .. n : rows[k] \in Row
  OBVIOUS
<1>2. \A k \in 1 .. n : RowTotals(rows[k], v, w) \in TotalsType
  BY <1>1, RowTotalsTyped
<1>3. step \in [1 .. n -> [TotalsType -> TotalsType]]
  BY <1>2, AddTyped
<1>4. PICK s : Follows(s, n, TotalsType, ZeroTotals, step)
  <2>1. ZeroTotals \in TotalsType /\ n \in Nat
    BY <1>1, ZeroTotalsTyped
  <2> HIDE DEF step, n
  <2> QED
    BY <1>3, <2>1, StepsTaken, Zenon
<1>5. ASSUME NEW k \in 1 .. n PROVE s[k] = Add(s[k - 1], RowTotals(rows[k], v, w))
  <2>1. k - 1 \in 0 .. n
    BY <1>1
  <2>2. s[k - 1] \in TotalsType
    BY <1>4, <2>1 DEF Follows
  <2>3. step[k][s[k - 1]] = Add(s[k - 1], RowTotals(rows[k], v, w))
    BY <2>2
  <2> HIDE DEF step
  <2> QED
    BY <1>4, <2>3 DEF Follows
<1>6. s = [k \in 0 .. n |->
             IF k = 0 THEN ZeroTotals ELSE Add(s[k - 1], RowTotals(rows[k], v, w))]
  <2> HIDE DEF step
  <2> QED
    BY <1>1, <1>4, <1>5 DEF Follows
<1>7. sum = [k \in 0 .. n |->
               IF k = 0 THEN ZeroTotals ELSE Add(sum[k - 1], RowTotals(rows[k], v, w))]
  BY <1>6
<1>8. Totals(rows, v, w) = sum[n]
  BY DEF Totals
<1> HIDE DEF sum
<1>9. /\ sum[0] = ZeroTotals
      /\ \A k \in 1 .. n : sum[k] = Add(sum[k - 1], RowTotals(rows[k], v, w))
  BY <1>1, <1>7
<1>10. 0 .. n \subseteq {k \in 0 .. n : sum[k] \in TotalsType}
  <2> DEFINE S == {k \in 0 .. n : sum[k] \in TotalsType}
  <2>1. 0 \in S
    BY <1>1, <1>9, ZeroTotalsTyped
  <2>2. ASSUME NEW k \in 0 .. n - 1, k \in S PROVE k + 1 \in S
    <3>1. k + 1 \in 1 .. n /\ k + 1 \in 0 .. n /\ (k + 1) - 1 = k
      BY <1>1
    <3>2. sum[k + 1] = Add(sum[k], RowTotals(rows[k + 1], v, w))
      BY <1>9, <3>1
    <3> QED
      BY <1>2, <2>2, <3>1, <3>2, AddTyped
  <2> HIDE DEF S, n
  <2> QED
    BY <1>1, <2>1, <2>2, UpTo DEF S
<1>11. sum \in [0 .. n -> TotalsType]
  BY <1>7, <1>10
<1> QED
  BY <1>8, <1>9, <1>11 DEF Accumulates

LEMMA TotalsTyped ==
    ASSUME NEW rows \in Seq(Row), NEW v \in BOOLEAN, NEW w \in BOOLEAN
    PROVE  Totals(rows, v, w) \in TotalsType
<1>1. PICK s : Accumulates(s, rows, v, w) /\ Totals(rows, v, w) = s[Len(rows)]
  BY TotalsAccumulate
<1> QED
  BY <1>1 DEF Accumulates

(* One amount of totals; r is the rate of VAT for those that have one.     *)
(* Owed is all VAT at a rate, and Missing what the sale voucher misses.    *)
Amounts == {"Total", "Incl", "Customer", "ROTRUT", "Owed", "TotalVAT", "Missing"}

SoldAt(t, r) == t.VAT[r] + t.ROTRUTVAT[r] + t.TotalVAT[r]

AmountOf(t, f, r) ==
    CASE f = "Total"     -> t.Total
      [] f = "Incl"      -> t.Incl
      [] f = "Customer"  -> t.Customer
      [] f = "ROTRUT"    -> t.ROTRUT
      [] f = "Owed"      -> t.VAT[r] + t.ROTRUTVAT[r]
      [] f = "TotalVAT"  -> t.TotalVAT[r]
      [] f = "Missing"   -> t.Customer + t.ROTRUT - SoldAt(t, 0) - SoldAt(t, 1) - SoldAt(t, 2)

LEMMA AmountsAdd ==
    ASSUME NEW x \in TotalsType, NEW y \in TotalsType, NEW f \in Amounts, NEW r \in Rates
    PROVE  /\ AmountOf(x, f, r) \in Int
           /\ AmountOf(Add(x, y), f, r) = AmountOf(x, f, r) + AmountOf(y, f, r)
           /\ AmountOf(ZeroTotals, f, r) = 0
<1>1. CASE f \in {"Total", "Incl", "Customer", "ROTRUT"}
  BY <1>1 DEF AmountOf, Amounts, TotalsType, Add, ZeroTotals
<1>2. CASE f \in {"Owed", "TotalVAT"}
  BY <1>2 DEF AmountOf, Amounts, TotalsType, Add, AddRates, ZeroTotals, AtRate
<1>3. CASE f = "Missing"
  <2>1. ASSUME NEW q \in Rates
        PROVE  /\ SoldAt(x, q) \in Int /\ SoldAt(y, q) \in Int
               /\ SoldAt(Add(x, y), q) = SoldAt(x, q) + SoldAt(y, q)
               /\ SoldAt(ZeroTotals, q) = 0
    <3>1. /\ x.VAT[q] \in Int /\ x.ROTRUTVAT[q] \in Int /\ x.TotalVAT[q] \in Int
          /\ y.VAT[q] \in Int /\ y.ROTRUTVAT[q] \in Int /\ y.TotalVAT[q] \in Int
      BY DEF TotalsType
    <3>2. /\ Add(x, y).VAT[q] = x.VAT[q] + y.VAT[q]
          /\ Add(x, y).ROTRUTVAT[q] = x.ROTRUTVAT[q] + y.ROTRUTVAT[q]
          /\ Add(x, y).TotalVAT[q] = x.TotalVAT[q] + y.TotalVAT[q]
      BY DEF Add, AddRates
    <3>3. ZeroTotals.VAT[q] = 0 /\ ZeroTotals.ROTRUTVAT[q] = 0 /\ ZeroTotals.TotalVAT[q] = 0
      BY DEF ZeroTotals, AtRate
    <3> QED
      BY <3>1, <3>2, <3>3 DEF SoldAt
  <2>2. /\ x.Customer \in Int /\ x.ROTRUT \in Int /\ y.Customer \in Int /\ y.ROTRUT \in Int
        /\ Add(x, y).Customer = x.Customer + y.Customer
        /\ Add(x, y).ROTRUT = x.ROTRUT + y.ROTRUT
        /\ ZeroTotals.Customer = 0 /\ ZeroTotals.ROTRUT = 0
    BY DEF TotalsType, Add, ZeroTotals
  <2>3. 0 \in Rates /\ 1 \in Rates /\ 2 \in Rates
    BY DEF Rates
  <2>4. \A t : AmountOf(t, f, r) =
                 t.Customer + t.ROTRUT - SoldAt(t, 0) - SoldAt(t, 1) - SoldAt(t, 2)
    BY <1>3 DEF AmountOf
  <2>5. /\ SoldAt(x, 0) \in Int /\ SoldAt(x, 1) \in Int /\ SoldAt(x, 2) \in Int
        /\ SoldAt(y, 0) \in Int /\ SoldAt(y, 1) \in Int /\ SoldAt(y, 2) \in Int
        /\ SoldAt(Add(x, y), 0) = SoldAt(x, 0) + SoldAt(y, 0)
        /\ SoldAt(Add(x, y), 1) = SoldAt(x, 1) + SoldAt(y, 1)
        /\ SoldAt(Add(x, y), 2) = SoldAt(x, 2) + SoldAt(y, 2)
        /\ SoldAt(ZeroTotals, 0) = 0 /\ SoldAt(ZeroTotals, 1) = 0 /\ SoldAt(ZeroTotals, 2) = 0
    BY <2>1, <2>3
  <2> QED
    BY <2>2, <2>4, <2>5
<1> QED
  BY <1>1, <1>2, <1>3 DEF Amounts

LEMMA StepsAreSum ==
    ASSUME NEW n \in Nat, NEW a \in [1 .. n -> Int], NEW p \in [0 .. n -> Int],
           p[0] = 0, \A k \in 1 .. n : p[k] = p[k - 1] + a[k]
    PROVE  a \in Seq(Int) /\ Len(a) = n /\ SumOf(a) = p[n]
<1>1. a \in Seq(Int) /\ Len(a) = n
  OBVIOUS
<1>2. Partial(p, a)
  BY <1>1 DEF Partial
<1> QED
  BY <1>1, <1>2, PartialIsSum

LEMMA TotalsAreSums ==
    ASSUME NEW rows \in Seq(Row), NEW v \in BOOLEAN, NEW w \in BOOLEAN,
           NEW f \in Amounts, NEW r \in Rates
    PROVE  LET a == [k \in 1 .. Len(rows) |-> AmountOf(RowTotals(rows[k], v, w), f, r)]
           IN  /\ a \in Seq(Int) /\ Len(a) = Len(rows)
               /\ AmountOf(Totals(rows, v, w), f, r) = SumOf(a)
<1> DEFINE n    == Len(rows)
           t(k) == RowTotals(rows[k], v, w)
           a    == [k \in 1 .. n |-> AmountOf(t(k), f, r)]
<1>1. PICK s : Accumulates(s, rows, v, w) /\ Totals(rows, v, w) = s[n]
  BY TotalsAccumulate
<1>2. n \in Nat /\ \A k \in 1 .. n : t(k) \in TotalsType
  BY RowTotalsTyped
<1>3. /\ \A k \in 0 .. n : s[k] \in TotalsType
      /\ s[0] = ZeroTotals
      /\ \A k \in 1 .. n : s[k] = Add(s[k - 1], t(k)) /\ s[k - 1] \in TotalsType
  BY <1>1, <1>2 DEF Accumulates
<1> DEFINE p == [k \in 0 .. n |-> AmountOf(s[k], f, r)]
<1> HIDE DEF n, t
<1>4. a \in [1 .. n -> Int] /\ p \in [0 .. n -> Int]
  BY <1>2, <1>3, AmountsAdd
<1>5. p[0] = 0
  <2>1. 0 \in 0 .. n /\ ZeroTotals \in TotalsType
    BY <1>2, ZeroTotalsTyped
  <2> QED
    BY <1>3, <2>1, AmountsAdd
<1>6. ASSUME NEW k \in 1 .. n PROVE p[k] = p[k - 1] + a[k]
  <2>1. k \in 0 .. n /\ k - 1 \in 0 .. n
    BY <1>2
  <2>2. AmountOf(Add(s[k - 1], t(k)), f, r) = AmountOf(s[k - 1], f, r) + AmountOf(t(k), f, r)
    BY <1>2, <1>3, AmountsAdd
  <2> QED
    BY <1>3, <2>1, <2>2
<1>7. p[n] = AmountOf(s[n], f, r)
  BY <1>2
<1>8. a \in Seq(Int) /\ Len(a) = n /\ SumOf(a) = p[n]
  <2> HIDE DEF a, p
  <2> QED
    BY <1>2, <1>4, <1>5, <1>6, StepsAreSum
<1> QED
  BY <1>1, <1>7, <1>8 DEF n, t

-----------------------------------------------------------------------------
(* The sums of a printed document.                                         *)

LEMMA SharesAddUp ==
    ASSUME NEW rows \in Seq(Row)
    PROVE  LET totals == Totals(rows, TRUE, TRUE)
           IN  /\ totals.Total = totals.Customer
               /\ totals.Customer + totals.ROTRUT = totals.Incl
<1> DEFINE n == Len(rows)
           t(k) == RowTotals(rows[k], TRUE, TRUE)
           sum(f) == [k \in 1 .. n |-> AmountOf(t(k), f, 0)]
           T == Totals(rows, TRUE, TRUE)
<1>1. \A f \in Amounts : /\ sum(f) \in Seq(Int) /\ Len(sum(f)) = n
                         /\ AmountOf(T, f, 0) = SumOf(sum(f))
  <2>1. 0 \in Rates /\ TRUE \in BOOLEAN
    BY DEF Rates
  <2> QED
    BY <2>1, TotalsAreSums
<1>2. /\ T.Total = AmountOf(T, "Total", 0) /\ T.Customer = AmountOf(T, "Customer", 0)
      /\ T.ROTRUT = AmountOf(T, "ROTRUT", 0) /\ T.Incl = AmountOf(T, "Incl", 0)
      /\ {"Total", "Customer", "ROTRUT", "Incl"} \subseteq Amounts
  BY DEF AmountOf, Amounts
<1>3. \A k \in 1 .. n : /\ AmountOf(t(k), "Total", 0) = AmountOf(t(k), "Customer", 0)
                        /\ AmountOf(t(k), "Customer", 0) + AmountOf(t(k), "ROTRUT", 0)
                              = AmountOf(t(k), "Incl", 0)
  <2> TAKE k \in 1 .. n
  <2>1. rows[k] \in Row
    OBVIOUS
  <2>2. t(k).Total = t(k).Customer
    BY DEF RowTotals, ShownTotal
  <2>3. t(k).Customer + t(k).ROTRUT = t(k).Incl
    BY <2>1, RowIsShared
  <2> HIDE DEF t
  <2> QED
    BY <2>2, <2>3 DEF AmountOf
<1>4. sum("Total") = sum("Customer")
  BY <1>3
<1> DEFINE c == sum("Customer")
           r == sum("ROTRUT")
           i == sum("Incl")
<1>5. \A k \in 1 .. n : c[k] + r[k] = i[k]
  BY <1>3
<1>6. SumOf(c) + SumOf(r) = SumOf(i)
  <2>1. n \in Nat
    OBVIOUS
  <2>2. /\ c \in Seq(Int) /\ Len(c) = n /\ r \in Seq(Int) /\ Len(r) = n
        /\ i \in Seq(Int) /\ Len(i) = n
    BY <1>1, <1>2
  <2> HIDE DEF c, r, i, n
  <2>3. AddUp(c, r, i, n)
    BY <1>5, <2>1, <2>2 DEF AddUp
  <2> QED
    BY <2>3, SumsAdd
<1> HIDE DEF T
<1>7. /\ T.Total = SumOf(sum("Total")) /\ T.Customer = SumOf(c)
      /\ T.ROTRUT = SumOf(r) /\ T.Incl = SumOf(i)
  BY <1>1, <1>2
<1> HIDE DEF sum
<1> QED
  BY <1>4, <1>6, <1>7 DEF T

(* The error of the page's doubles is a number, whatever the rows.         *)
LEMMA SumOfNat ==
    ASSUME NEW c \in Seq(Int), \A k \in 1 .. Len(c) : c[k] \in Nat
    PROVE  SumOf(c) \in Nat
<1>1. SumOf(c) \in Int
  BY SumIsInt
<1>2. PICK n \in Nat : n = Len(c)
  OBVIOUS
<1>3. Near(c, c, c, n)
  BY <1>2 DEF Near
<1>4. -SumOf(c) <= SumOf(c) - SumOf(c)
  BY <1>3, SumsNear
<1> QED
  BY <1>1, <1>4

LEMMA DoubleErrorIsNat ==
    ASSUME NEW rows \in Seq(Row)
    PROVE  DoubleError(rows) \in Nat
<1> DEFINE n == Len(rows)
           c == [k \in 1 .. n |-> Abs(TotalOfRow(rows[k]))]
<1>1. n \in Nat /\ DOMAIN rows = 1 .. n /\ \A k \in 1 .. n : rows[k] \in Row
  OBVIOUS
<1>2. ASSUME NEW k \in 1 .. n
      PROVE  Abs(TotalOfRow(rows[k])) \in Nat
  <2>1. TotalOfRow(rows[k]) \in Int
    BY <1>1, AmountsAreInt
  <2> QED
    BY <2>1 DEF Abs
<1>3. DoubleError(rows) = ((n + 16) * SumOf(c)) \div Mantissa + n + 1
  BY <1>1 DEF DoubleError, SumOfRows
<1>4. c \in Seq(Int) /\ Len(c) = n
  <2>1. \A k \in 1 .. n : Abs(TotalOfRow(rows[k])) \in Int
    BY <1>2
  <2> HIDE DEF n
  <2> QED
    BY <1>1, <2>1
<1>5. \A k \in 1 .. n : c[k] \in Nat
  BY <1>2
<1> HIDE DEF c, n
<1>6. PICK sum \in Nat : sum = SumOf(c)
  BY <1>4, <1>5, SumOfNat
<1>7. PICK x \in Nat : x = (n + 16) * sum
  BY <1>1
<1>8. x \div Mantissa \in Nat
  BY TotalsAssumption, QuotientOfNat
<1> QED
  BY <1>1, <1>3, <1>6, <1>7, <1>8

LEMMA RowsTyped == TypeOK /\ Exists => invoice.rows \in Seq(Row)
  BY DEF TypeOK, Exists, Invoice

LEMMA KrIsPositive == 100 * Ore \in Nat \ {0} /\ Ore \in Nat
  BY TotalsAssumption DEF Ore

(* The amounts that a customer is asked for are one, for any rows, and     *)
(* with what the agency pays they are the price (pdf.go:116, sie.go:57).   *)
THEOREM CustomerIsAskedForOneAmount == Spec => []OneAmountToPay
<1>1. TypeOK => OneAmountToPay
  <2> SUFFICES ASSUME TypeOK, Exists PROVE OneAmountToPay
    BY DEF OneAmountToPay
  <2> DEFINE T == Totals(invoice.rows, TRUE, TRUE)
             print == Printout(invoice)
  <2>1. T.Total = T.Customer /\ T.Customer + T.ROTRUT = T.Incl
    BY RowsTyped, SharesAddUp
  <2>2. T.Total \in Int /\ T.Customer \in Int /\ T.ROTRUT \in Int /\ T.Incl \in Int
    BY RowsTyped, TotalsTyped DEF TotalsType
  <2>3. /\ print.total = Written(T.Total)
        /\ print.totalinclrut = Written(T.Incl - T.ROTRUT)
        /\ print.due = T.Incl - T.ROTRUT
    BY DEF Printout
  <2>4. SaleVoucher(invoice)[1].Belopp = T.Customer
    <3> DEFINE line == Transaction(1510, T.Customer)
    <3>1. SaleVoucher(invoice)[1] = line
      <4> HIDE DEF line
      <4> QED
        BY DEF SaleVoucher, line
    <3> QED
      BY <3>1 DEF Transaction
  <2> HIDE DEF T, print
  <2>5. T.Incl - T.ROTRUT = T.Total
    BY <2>1, <2>2
  <2>6. Abs(100 * Ore * Written(T.Total) - T.Total) <= 50 * Ore
    <3>1. PICK b \in Nat \ {0} : b = 100 * Ore /\ b = 2 * (50 * Ore)
      BY KrIsPositive
    <3>2. PICK w \in Int : w = Written(T.Total) /\ -b <= 2 * (b * w - T.Total)
                                             /\ 2 * (b * w - T.Total) <= b
      BY <2>2, <3>1, RoundBankIsNear DEF Written
    <3>3. PICK bw \in Int, half \in Int, t \in Int : bw = b * w /\ half = 50 * Ore /\ t = T.Total
      BY <2>2, <3>1, KrIsPositive
    <3>4. -half <= bw - t /\ bw - t <= half
      BY <3>1, <3>2, <3>3
    <3>5. Abs(bw - t) <= half
      BY <3>4 DEF Abs
    <3> QED
      BY <3>1, <3>2, <3>3, <3>5
  <2> QED
    BY <2>1, <2>3, <2>4, <2>5, <2>6 DEF OneAmountToPay, Rows, T, print
<1> QED
  BY <1>1, TypeCorrect, PTL

-----------------------------------------------------------------------------
(* Sums over some of the rows.                                             *)

LEMMA MostIsTheRebate ==
    ASSUME NEW rows \in Seq(Row)
    PROVE  MaxAmount("RUT", rows) + MaxAmount("ROT", rows)
               = Totals(rows, TRUE, TRUE).ROTRUT
<1> DEFINE n == Len(rows)
           share(type, row) == (IF type = "ROT" THEN 3 ELSE 5) * row.cost * Tenth * row.count
           of(type) == [k \in 1 .. n |->
                           IF OfType(type, rows[k]) THEN share(type, rows[k]) ELSE 0]
           a == of("RUT")
           b == of("ROT")
           c == [k \in 1 .. n |-> AmountOf(RowTotals(rows[k], TRUE, TRUE), "ROTRUT", 0)]
<1>1. n \in Nat /\ DOMAIN rows = 1 .. n
  OBVIOUS
<1>2. MaxAmount("RUT", rows) = SumOf(a) /\ MaxAmount("ROT", rows) = SumOf(b)
  BY <1>1 DEF MaxAmount, SumOfRows
<1>3. c \in Seq(Int) /\ Len(c) = n /\ Totals(rows, TRUE, TRUE).ROTRUT = SumOf(c)
  <2>1. 0 \in Rates /\ TRUE \in BOOLEAN /\ "ROTRUT" \in Amounts
    BY DEF Rates, Amounts
  <2>2. \A x : AmountOf(x, "ROTRUT", 0) = x.ROTRUT
    BY DEF AmountOf
  <2> HIDE DEF c
  <2>3. /\ c \in Seq(Int) /\ Len(c) = n
        /\ AmountOf(Totals(rows, TRUE, TRUE), "ROTRUT", 0) = SumOf(c)
    BY <2>1, TotalsAreSums DEF c
  <2> QED
    BY <2>2, <2>3
<1>4. ASSUME NEW k \in 1 .. n
      PROVE  a[k] \in Int /\ b[k] \in Int /\ a[k] + b[k] = c[k]
  <2> DEFINE row == rows[k]
  <2>0. row \in Row
    BY <1>1
  <2>1. /\ row \in Row /\ row.cost \in Int /\ row.count \in Int /\ Tenth \in Int
        /\ row.service \in ROTServices \cup RUTServices \cup {NULL}
    <3> HIDE DEF row
    <3> QED
      BY <2>0, TotalsAssumption DEF Row
  <2>2. share("RUT", row) \in Int /\ share("ROT", row) \in Int
    BY <2>1
  <2>3. c[k] = ROTRUTOfRow(row)
    BY DEF AmountOf, RowTotals
  <2>4. IsWork(row) => (IsRUT(row) <=> ~IsROT(row))
    <3>1. ASSUME NEW x \in ROTServices \cup RUTServices
          PROVE  x \in RUTServices <=> x \notin ROTServices
      BY DEF ROTServices, RUTServices
    <3> HIDE DEF row
    <3> QED
      BY <2>1, <3>1 DEF IsWork, IsRUT, IsROT
  <2>5. /\ ROTRUTOfRow(row) = IF IsWork(row)
                              THEN IF IsROT(row) THEN share("ROT", row) ELSE share("RUT", row)
                              ELSE 0
        /\ OfType("RUT", row) <=> IsWork(row) /\ IsRUT(row)
        /\ OfType("ROT", row) <=> IsWork(row) /\ IsROT(row)
    BY <2>1 DEF ROTRUTOfRow, PriceInclRUT, OfType
  <2>6. /\ a[k] = IF OfType("RUT", row) THEN share("RUT", row) ELSE 0
        /\ b[k] = IF OfType("ROT", row) THEN share("ROT", row) ELSE 0
    OBVIOUS
  <2> HIDE DEF row, share, a, b, c
  <2> QED
    BY <2>2, <2>3, <2>4, <2>5, <2>6
<1>5. a \in Seq(Int) /\ Len(a) = n /\ b \in Seq(Int) /\ Len(b) = n
  <2> DEFINE x(k) == IF OfType("RUT", rows[k]) THEN share("RUT", rows[k]) ELSE 0
             y(k) == IF OfType("ROT", rows[k]) THEN share("ROT", rows[k]) ELSE 0
  <2>1. \A k \in 1 .. n : x(k) \in Int /\ y(k) \in Int
    BY <1>4
  <2>2. a = [k \in 1 .. n |-> x(k)] /\ b = [k \in 1 .. n |-> y(k)]
    OBVIOUS
  <2> HIDE DEF x, y, a, b
  <2> QED
    BY <1>1, <2>1, <2>2
<1> HIDE DEF a, b, c, n
<1>6. SumOf(a) + SumOf(b) = SumOf(c)
  <2>1. AddUp(a, b, c, n)
    BY <1>1, <1>3, <1>4, <1>5 DEF AddUp
  <2> QED
    BY <2>1, SumsAdd
<1> QED
  BY <1>2, <1>3, <1>6

(* For any rows: the maxima on the pages of the two requests are together  *)
(* what the customer was let off (rut.go:40, invoice.go:259).              *)
THEOREM MaximaAreTheRebate == Spec => []MaximumIsTheRebate
<1>1. TypeOK => MaximumIsTheRebate
  BY RowsTyped, MostIsTheRebate DEF MaximumIsTheRebate, Rows
<1> QED
  BY <1>1, TypeCorrect, PTL

-----------------------------------------------------------------------------
(* The file of a request.                                                  *)

(* Sums over the rows of some kind are sums of integers.                   *)
LEMMA CostOfRows ==
    ASSUME NEW rows \in Seq(Row), NEW chosen \in [1 .. Len(rows) -> BOOLEAN]
    PROVE  LET a == [k \in 1 .. Len(rows) |-> IF chosen[k] THEN TotalOfRow(rows[k]) ELSE 0]
           IN  a \in Seq(Int) /\ Len(a) = Len(rows) /\ SumOf(a) \in Int
<1> DEFINE n == Len(rows)
           x(k) == IF chosen[k] THEN TotalOfRow(rows[k]) ELSE 0
           a == [k \in 1 .. n |-> x(k)]
<1>1. n \in Nat /\ \A k \in 1 .. n : rows[k] \in Row
  OBVIOUS
<1>2. ASSUME NEW k \in 1 .. n PROVE x(k) \in Int
  <2>1. rows[k] \in Row
    BY <1>1
  <2>2. TotalOfRow(rows[k]) \in Int
    BY <2>1, AmountsAreInt
  <2> QED
    BY <2>2
<1>3. a \in Seq(Int) /\ Len(a) = n
  <2> HIDE DEF x, n
  <2> QED
    BY <1>1, <1>2
<1>4. SumOf(a) \in Int
  <2> HIDE DEF a
  <2> QED
    BY <1>3, SumIsInt
<1> QED
  BY <1>3, <1>4

(* The cost of the work, of everything else, and of the work that has no   *)
(* hours is the cost of all rows.                                          *)
LEMMA CostsAddUp ==
    ASSUME NEW rows \in Seq(Row)
    PROVE  LET noHours(row) == IsWork(row) /\ ~IsCounted(row)
           IN  /\ WorkCost(rows) \in Int
               /\ WorkCost(rows) + OtherCost(rows) + SumOfRows(rows, noHours, TotalOfRow)
                      = Totals(rows, TRUE, FALSE).Total
<1> DEFINE n == Len(rows)
           noHours(row) == IsWork(row) /\ ~IsCounted(row)
           all == [k \in 1 .. n |-> AmountOf(RowTotals(rows[k], TRUE, FALSE), "Total", 0)]
           cost(chosen) == [k \in 1 .. n |-> IF chosen[k] THEN TotalOfRow(rows[k]) ELSE 0]
           p == [k \in 1 .. n |-> IsCounted(rows[k]) = TRUE]
           q == [k \in 1 .. n |-> IsOther(rows[k]) = TRUE]
           r == [k \in 1 .. n |-> noHours(rows[k]) = TRUE]
           s == [k \in 1 .. n |-> ~q[k] = TRUE]
           a == cost(p)
           b == cost(q)
           c == cost(r)
           d == cost(s)
<1>1. n \in Nat /\ DOMAIN rows = 1 .. n /\ \A k \in 1 .. n : rows[k] \in Row
  OBVIOUS
<1>2. /\ WorkCost(rows) = SumOf(a) /\ OtherCost(rows) = SumOf(b)
      /\ SumOfRows(rows, noHours, TotalOfRow) = SumOf(c)
  <2>1. \A k \in 1 .. n : /\ p[k] = IsCounted(rows[k]) /\ q[k] = IsOther(rows[k])
                          /\ r[k] = noHours(rows[k])
    BY DEF IsCounted, IsOther, IsWork
  <2>2. /\ a = [k \in 1 .. n |-> IF IsCounted(rows[k]) THEN TotalOfRow(rows[k]) ELSE 0]
        /\ b = [k \in 1 .. n |-> IF IsOther(rows[k]) THEN TotalOfRow(rows[k]) ELSE 0]
        /\ c = [k \in 1 .. n |-> IF noHours(rows[k]) THEN TotalOfRow(rows[k]) ELSE 0]
    <3> HIDE DEF p, q, r, noHours
    <3> QED
      BY <2>1
  <2> HIDE DEF a, b, c, noHours
  <2> QED
    BY <1>1, <2>2 DEF WorkCost, OtherCost, SumOfRows
<1>3. /\ p \in [1 .. n -> BOOLEAN] /\ q \in [1 .. n -> BOOLEAN] /\ r \in [1 .. n -> BOOLEAN]
      /\ s \in [1 .. n -> BOOLEAN]
  OBVIOUS
<1>4. \A ch \in [1 .. n -> BOOLEAN] :
          cost(ch) \in Seq(Int) /\ Len(cost(ch)) = n /\ SumOf(cost(ch)) \in Int
  BY CostOfRows
<1>5. all \in Seq(Int) /\ Len(all) = n /\ Totals(rows, TRUE, FALSE).Total = SumOf(all)
  <2>1. 0 \in Rates /\ TRUE \in BOOLEAN /\ FALSE \in BOOLEAN /\ "Total" \in Amounts
    BY DEF Rates, Amounts
  <2>2. \A x : AmountOf(x, "Total", 0) = x.Total
    BY DEF AmountOf
  <2> HIDE DEF all
  <2>3. /\ all \in Seq(Int) /\ Len(all) = n
        /\ AmountOf(Totals(rows, TRUE, FALSE), "Total", 0) = SumOf(all)
    BY <2>1, TotalsAreSums DEF all
  <2> QED
    BY <2>2, <2>3
<1>6. ASSUME NEW k \in 1 .. n
      PROVE  a[k] + c[k] = d[k] /\ d[k] + b[k] = all[k]
  <2> PICK z \in Int : z = TotalOfRow(rows[k])
    BY <1>1, AmountsAreInt
  <2>1. all[k] = z
    BY DEF AmountOf, RowTotals, ShownTotal
  <2>2. /\ a[k] = IF p[k] THEN z ELSE 0
        /\ b[k] = IF q[k] THEN z ELSE 0
        /\ c[k] = IF r[k] THEN z ELSE 0
        /\ d[k] = IF s[k] THEN z ELSE 0
    OBVIOUS
  <2>3. \/ p[k] /\ ~q[k] /\ ~r[k] /\ s[k]
        \/ ~p[k] /\ q[k] /\ ~r[k] /\ ~s[k]
        \/ ~p[k] /\ ~q[k] /\ r[k] /\ s[k]
    BY DEF IsCounted, IsOther, IsWork
  <2> HIDE DEF a, b, c, d, p, q, r, s, all
  <2> QED
    BY <2>1, <2>2, <2>3
<1>7. /\ a \in Seq(Int) /\ Len(a) = n /\ SumOf(a) \in Int
      /\ b \in Seq(Int) /\ Len(b) = n /\ SumOf(b) \in Int
      /\ c \in Seq(Int) /\ Len(c) = n /\ SumOf(c) \in Int
      /\ d \in Seq(Int) /\ Len(d) = n /\ SumOf(d) \in Int
  <2> HIDE DEF p, q, r, s, cost
  <2> QED
    BY <1>3, <1>4
<1> HIDE DEF a, b, c, d, all, n, p, q, r, s
<1>8. AddUp(a, c, d, n) /\ AddUp(d, b, all, n)
  BY <1>1, <1>5, <1>6, <1>7 DEF AddUp
<1>9. SumOf(a) + SumOf(c) = SumOf(d) /\ SumOf(d) + SumOf(b) = SumOf(all)
  BY <1>8, SumsAdd
<1>10. SumOf(a) + SumOf(b) + SumOf(c) = SumOf(all)
  BY <1>7, <1>9
<1> QED
  <2> HIDE DEF noHours
  <2>1. SumOfRows(rows, noHours, TotalOfRow) = SumOf(c)
    BY <1>2
  <2>2. /\ WorkCost(rows) \in Int
        /\ WorkCost(rows) + OtherCost(rows) + SumOf(c) = Totals(rows, TRUE, FALSE).Total
    BY <1>2, <1>5, <1>7, <1>10
  <2> QED
    BY <2>1, <2>2 DEF noHours

(* What was paid, in kronor, is the price without what is asked for, but   *)
(* for the krona that the roundings can cost.                              *)
LEMMA KronorAddUp ==
    ASSUME NEW w \in Int, NEW b \in Nat \ {0}, NEW asked \in Int
    PROVE  Abs(RoundBank(w, b) - IntPart(w - b * asked, b) - asked) <= 1
<1> DEFINE q == w \div b
           m == w % b
<1>1. q \in Int /\ m \in 0 .. b - 1 /\ w = b * q + m
  BY Division
<1>2. RoundBank(w, b) \in {q, q + 1}
  BY RoundBankIsNear
<1> HIDE DEF q, m
<1>3. PICK x \in Int : x = w - b * asked
  OBVIOUS
<1>4. b * (q - asked) = b * q - b * asked
  BY <1>1
<1>5. x = b * (q - asked) + m /\ q - asked \in Int
  BY <1>1, <1>3, <1>4
<1>6. x \div b = q - asked
  BY <1>1, <1>5, Quotient
<1>7. IntPart(x, b) \in {q - asked, q - asked + 1}
  BY <1>6, IntPartIsNear
<1>8. PICK i \in Int : i = RoundBank(w, b)
  BY <1>1, <1>2
<1>9. PICK j \in Int : j = IntPart(w - b * asked, b)
  BY <1>1, <1>3, <1>7
<1>10. i - j - asked \in {-1, 0, 1}
  BY <1>1, <1>2, <1>3, <1>7, <1>8, <1>9
<1> QED
  BY <1>8, <1>9, <1>10 DEF Abs

(* For any rows, sum and hours, in every order of flags and posts: the     *)
(* file of a request adds up to a krona (export.go:100), and what is on    *)
(* neither side of it is the work without hours.                           *)
THEOREM FilesAddUp == Spec => []FileAddsUp
<1>1. TypeOK => FileAddsUp
  <2> SUFFICES ASSUME TypeOK, Exists, rut["RUT"] # NULL,
                      ExportFile("RUT", rut["RUT"], invoice).answer = "file"
               PROVE  FileAddsUp
    BY DEF FileAddsUp
  <2> DEFINE w == WorkCost(invoice.rows)
             asked == rut["RUT"].requested_sum
             file == ExportFile("RUT", rut["RUT"], invoice)
             noHours(row) == IsWork(row) /\ ~IsCounted(row)
  <2>1. 100 * Kr \in Nat \ {0}
    BY TotalsAssumption DEF Kr, Ore
  <2>2. rut["RUT"] \in Request
    BY DEF TypeOK, Types
  <2>3. asked \in Int \cup {NULL}
    BY <2>2 DEF Request
  <2>4. invoice.rows \in Seq(Row)
    BY RowsTyped
  <2>5. asked # NULL
    BY DEF ExportFile, Crashed, Refused
  <2>6. /\ file.PrisForArbete = RoundBank(w, 100 * Kr)
        /\ file.BetaltBelopp = IntPart(w - 100 * Kr * asked, 100 * Kr)
        /\ file.BegartBelopp = asked
    BY DEF ExportFile, Crashed, Refused
  <2>7. /\ w \in Int
        /\ WorkCost(invoice.rows) + OtherCost(invoice.rows)
                + SumOfRows(invoice.rows, noHours, TotalOfRow)
              = Totals(invoice.rows, TRUE, FALSE).Total
    BY <2>4, CostsAddUp
  <2> HIDE DEF w, asked, file
  <2>8. Abs(RoundBank(w, 100 * Kr) - IntPart(w - 100 * Kr * asked, 100 * Kr) - asked) <= 1
    BY <2>1, <2>3, <2>5, <2>7, KronorAddUp
  <2>9. Abs(file.PrisForArbete - file.BetaltBelopp - file.BegartBelopp) <= 1
    BY <2>6, <2>8
  <2> QED
    BY <2>7, <2>9 DEF FileAddsUp, Rows, file
<1> QED
  BY <1>1, TypeCorrect, PTL

-----------------------------------------------------------------------------
(* What the roundings of one row come to.                                  *)

(* The price of a piece is shared at p and c, the agency's part of all     *)
(* pieces is a; without VAT these are x, y and z.                          *)
Shared(b, count, p, c, a, x, y, z) ==
    /\ b \in {125, 112, 160} /\ count \in Int
    /\ p \in Int /\ c \in Int /\ a \in Int /\ x \in Int /\ y \in Int /\ z \in Int
    /\ p * count + a = c * count
    /\ PriceWithoutVAT(b, x, p) /\ PriceWithoutVAT(b, y, c) /\ TotalWithoutVAT(b, z, a)

LEMMA SharedErrors ==
    ASSUME NEW b, NEW count, NEW p, NEW c, NEW a, NEW x, NEW y, NEW z,
           Shared(b, count, p, c, a, x, y, z)
    PROVE  /\ -(2 * Abs(count) + 50) <= x * count + z - y * count
           /\ x * count + z - y * count <= 2 * Abs(count) + 50
<1> USE DEF Shared
<1>1. PICK e \in Int : e = (b * x - 100 * p) - (b * y - 100 * c)
  OBVIOUS
<1>2. -b <= e /\ e <= b
  BY <1>1 DEF PriceWithoutVAT
<1>3. -(b * Abs(count)) <= e * count /\ e * count <= b * Abs(count)
  BY <1>2, ErrorTimes
<1>4. Abs(count) \in Nat
  BY DEF Abs
<1>5. PICK n \in Nat : n = Abs(count)
  BY <1>4
<1>6. PICK pc \in Int, cc \in Int, xc \in Int, yc \in Int :
          pc = p * count /\ cc = c * count /\ xc = x * count /\ yc = y * count
  OBVIOUS
<1>7. e * count = (b * xc - 100 * pc) - (b * yc - 100 * cc)
  <2>1. e * count = (b * (x * count) - 100 * (p * count)) - (b * (y * count) - 100 * (c * count))
    BY <1>1
  <2> QED
    BY <1>6, <2>1
<1>8. PICK ec \in Int : ec = e * count
  OBVIOUS
<1>9. /\ -(b * n) <= ec /\ ec <= b * n /\ ec = (b * xc - 100 * pc) - (b * yc - 100 * cc)
      /\ pc + a = cc /\ -(50 * b) <= b * z - 100 * a /\ b * z - 100 * a <= 50 * b
  BY <1>3, <1>5, <1>6, <1>7, <1>8 DEF TotalWithoutVAT
<1>10. -(2 * n + 50) <= xc + z - yc /\ xc + z - yc <= 2 * n + 50
  <2>1. CASE b = 125
    BY <1>9, <2>1
  <2>2. CASE b = 112
    BY <1>9, <2>2
  <2>3. CASE b = 160
    BY <1>9, <2>3
  <2> QED
    BY <2>1, <2>2, <2>3
<1> QED
  BY <1>5, <1>6, <1>10

(* As the page has it, the total of the row is s and without VAT y.        *)
SharedOnPage(b, count, p, a, s, x, y, z) ==
    /\ b \in {125, 112, 160} /\ count \in Int
    /\ p \in Int /\ a \in Int /\ s \in Int /\ x \in Int /\ y \in Int /\ z \in Int
    /\ p * count + a = s
    /\ PriceWithoutVAT(b, x, p) /\ PriceWithoutVAT(b, y, s) /\ TotalWithoutVAT(b, z, a)

LEMMA PageErrors ==
    ASSUME NEW b, NEW count, NEW p, NEW a, NEW s, NEW x, NEW y, NEW z,
           SharedOnPage(b, count, p, a, s, x, y, z)
    PROVE  /\ -(2 * Abs(count) + 50) <= x * count + z - y
           /\ x * count + z - y <= 2 * Abs(count) + 50
<1> USE DEF SharedOnPage
<1>1. PICK e \in Int : e = 2 * (b * x - 100 * p)
  OBVIOUS
<1>2. -b <= e /\ e <= b
  BY <1>1 DEF PriceWithoutVAT
<1>3. -(b * Abs(count)) <= e * count /\ e * count <= b * Abs(count)
  BY <1>2, ErrorTimes
<1>4. Abs(count) \in Nat
  BY DEF Abs
<1>5. PICK n \in Nat : n = Abs(count)
  BY <1>4
<1>6. PICK pc \in Int, xc \in Int, ec \in Int : pc = p * count /\ xc = x * count /\ ec = e * count
  OBVIOUS
<1>7. e * count = 2 * (b * (x * count) - 100 * (p * count))
  BY <1>1
<1>8. /\ -(b * n) <= ec /\ ec <= b * n /\ ec = 2 * (b * xc - 100 * pc)
      /\ -b <= 2 * (b * y - 100 * (pc + a)) /\ 2 * (b * y - 100 * (pc + a)) <= b
  BY <1>3, <1>5, <1>6, <1>7 DEF PriceWithoutVAT
<1>0. -(50 * b) <= b * z - 100 * a /\ b * z - 100 * a <= 50 * b
  BY DEF TotalWithoutVAT
<1>9. -(2 * n + 50) <= xc + z - y /\ xc + z - y <= 2 * n + 50
  <2>1. CASE b = 125
    BY <1>0, <1>8, <2>1
  <2>2. CASE b = 112
    BY <1>0, <1>8, <2>2
  <2>3. CASE b = 160
    BY <1>0, <1>8, <2>3
  <2> QED
    BY <2>1, <2>2, <2>3
<1> QED
  BY <1>5, <1>6, <1>9

(* The amounts of a row at one of the three rates.                         *)
LEMMA RateOfRow ==
    ASSUME NEW row \in Row, NEW q \in Rates
    PROVE  LET t == RowTotals(row, TRUE, TRUE)
               owed == VATOfCustomer(row) + ROTRUTOfRow(row)
                           - TotalExcluding(ROTRUTOfRow(row), row.vat)
           IN  /\ AmountOf(t, "Owed", q) = IF row.vat = q THEN owed ELSE 0
               /\ SoldAt(t, q) = IF row.vat = q THEN owed + ExclOfRow(row) ELSE 0
<1> DEFINE t == RowTotals(row, TRUE, TRUE)
<1>1. /\ VATOfCustomer(row) \in Int /\ ROTRUTOfRow(row) \in Int /\ ExclOfRow(row) \in Int
      /\ TotalExcluding(ROTRUTOfRow(row), row.vat) \in Int
  BY AmountsAreInt
<1>2. /\ t.VAT[q] = IF row.vat = q THEN VATOfCustomer(row) ELSE 0
      /\ t.ROTRUTVAT[q] = IF row.vat = q
                          THEN ROTRUTOfRow(row) - TotalExcluding(ROTRUTOfRow(row), row.vat)
                          ELSE 0
      /\ t.TotalVAT[q] = IF row.vat = q THEN ExclOfRow(row) ELSE 0
  BY DEF RowTotals, AtRate, VATOfRow
<1>3. AmountOf(t, "Owed", q) = t.VAT[q] + t.ROTRUTVAT[q]
  BY DEF AmountOf
<1> DEFINE owed == VATOfCustomer(row) + ROTRUTOfRow(row)
                       - TotalExcluding(ROTRUTOfRow(row), row.vat)
<1>4. /\ AmountOf(t, "Owed", q) = IF row.vat = q THEN owed ELSE 0
      /\ SoldAt(t, q) = IF row.vat = q THEN owed + ExclOfRow(row) ELSE 0
  <2> HIDE DEF t
  <2>1. CASE row.vat = q
    BY <1>1, <1>2, <1>3, <2>1 DEF SoldAt
  <2>2. CASE row.vat # q
    BY <1>1, <1>2, <1>3, <2>2 DEF SoldAt
  <2> QED
    BY <2>1, <2>2
<1> QED
  BY <1>4

(* A row at 0 % misses the whole of its sale, any other the roundings.     *)
LEMMA RowIsSold ==
    ASSUME NEW row \in Row
    PROVE  LET missing == AmountOf(RowTotals(row, TRUE, TRUE), "Missing", 0)
               sold    == IF row.vat = 3 THEN TotalOfRow(row) ELSE 0
           IN  /\ missing \in Int /\ sold \in Int
               /\ -(2 * Abs(row.count) + 50) <= missing - sold
               /\ missing - sold <= 2 * Abs(row.count) + 50
<1> DEFINE t == RowTotals(row, TRUE, TRUE)
           p == PriceInclRUT(row)
           c == row.cost * Ore
           a == ROTRUTOfRow(row)
           x == Excluding(p, row.vat)
           y == Excluding(c, row.vat)
           z == TotalExcluding(a, row.vat)
           count == row.count
           missing == AmountOf(t, "Missing", 0)
           sold == IF row.vat = 3 THEN TotalOfRow(row) ELSE 0
<1>1. /\ p \in Int /\ c \in Int /\ a \in Int /\ count \in Int /\ row.vat \in VATTypes
      /\ x \in Int /\ y \in Int /\ z \in Int
  <2>1. p \in Int /\ c \in Int /\ a \in Int /\ count \in Int /\ row.vat \in VATTypes
    BY AmountsAreInt
  <2> HIDE DEF p, c, a
  <2> QED
    BY <2>1, ExcludingIsNear, TotalExcludingIsNear
<1>2. missing = t.Customer + t.ROTRUT - SoldAt(t, 0) - SoldAt(t, 1) - SoldAt(t, 2)
  BY DEF AmountOf
<1>3. t.Customer = p * count /\ t.ROTRUT = a /\ t.Incl = TotalOfRow(row)
  BY DEF RowTotals
<1>4. p * count + a = TotalOfRow(row) /\ TotalOfRow(row) = c * count
  BY <1>3, RowIsShared, AmountsAreInt DEF TotalOfRow
<1>5. 0 \in Rates /\ 1 \in Rates /\ 2 \in Rates /\ 3 \notin Rates
  BY DEF Rates
<1>6. VATOfCustomer(row) = (p - x) * count /\ ExclOfRow(row) = y * count
  BY DEF VATOfCustomer, ExclOfRow
<1>7. \A q \in Rates : SoldAt(t, q) = IF row.vat = q THEN (p - x) * count + a - z + y * count
                                                     ELSE 0
  BY <1>6, RateOfRow
<1>8. Abs(count) \in Nat
  BY <1>1 DEF Abs
<1>9. PICK n \in Nat : n = Abs(count)
  BY <1>8
<1> HIDE DEF t, p, c, a, x, y, z, count, missing
<1>0. SUFFICES /\ missing \in Int /\ sold \in Int
               /\ -(2 * n + 50) <= missing - sold /\ missing - sold <= 2 * n + 50
  BY <1>9 DEF missing, t, count
<1>10. CASE row.vat = 3
  <2>1. SoldAt(t, 0) = 0 /\ SoldAt(t, 1) = 0 /\ SoldAt(t, 2) = 0
    BY <1>5, <1>7, <1>10
  <2>2. PICK pc \in Int : pc = p * count
    BY <1>1
  <2>3. missing = TotalOfRow(row) /\ missing \in Int
    BY <1>1, <1>2, <1>3, <1>4, <2>1, <2>2
  <2>4. sold = missing
    BY <1>10, <2>3
  <2> HIDE DEF sold
  <2> QED
    BY <2>3, <2>4
<1>11. CASE row.vat # 3
  <2>1. row.vat \in {0, 1, 2}
    BY <1>1, <1>11 DEF VATTypes
  <2>2. PICK s \in Int : s = (p - x) * count + a - z + y * count
    BY <1>1
  <2>3. SoldAt(t, 0) + SoldAt(t, 1) + SoldAt(t, 2) = s /\ SoldAt(t, 0) \in Int
        /\ SoldAt(t, 1) \in Int /\ SoldAt(t, 2) \in Int
    BY <1>5, <1>7, <2>1, <2>2
  <2>4. PICK pc \in Int, xc \in Int, yc \in Int : pc = p * count /\ xc = x * count /\ yc = y * count
    BY <1>1
  <2>5. (p - x) * count = pc - xc
    <3>1. (p - x) * count = p * count - x * count
      BY <1>1
    <3> QED
      BY <2>4, <3>1
  <2>6. missing = xc + z - yc
    BY <1>1, <1>2, <1>3, <2>2, <2>3, <2>4, <2>5
  <2>7. PICK b \in {125, 112, 160} : b = 100 + VATAmount[row.vat]
    BY <2>1 DEF VATAmount, VATTypes
  <2>8. /\ PriceWithoutVAT(b, x, p) /\ PriceWithoutVAT(b, y, c)
        /\ TotalWithoutVAT(b, z, a)
    BY <1>1, <2>7, ExcludingIsNear, TotalExcludingIsNear DEF x, y, z
  <2>9. p * count + a = c * count
    BY <1>4
  <2>0. Shared(b, count, p, c, a, x, y, z)
    BY <1>1, <2>7, <2>8, <2>9 DEF Shared
  <2>10. /\ -(2 * Abs(count) + 50) <= x * count + z - y * count
         /\ x * count + z - y * count <= 2 * Abs(count) + 50
    BY <2>0, SharedErrors
  <2>11. missing \in Int /\ -(2 * n + 50) <= missing /\ missing <= 2 * n + 50
    BY <1>1, <1>9, <2>4, <2>6, <2>10
  <2>12. sold = 0
    BY <1>11
  <2> HIDE DEF sold
  <2> QED
    BY <2>11, <2>12
<1> QED
  BY <1>10, <1>11

-----------------------------------------------------------------------------
(* Vouchers and how they are written.                                      *)

Entry == [KontoNr : Int, Belopp : Int]

(* b has the amounts of a, and x.                                          *)
Longer(a, b, x) ==
    /\ a \in Seq(Int) /\ b \in Seq(Int) /\ x \in Int
    /\ Len(b) = Len(a) + 1 /\ b[Len(b)] = x
    /\ \A k \in 1 .. Len(a) : b[k] = a[k]

LEMMA SumGrows ==
    ASSUME NEW a, NEW b, NEW x, Longer(a, b, x)
    PROVE  SumOf(b) = SumOf(a) + x
<1> DEFINE n == Len(a)
<1>0. a \in Seq(Int) /\ n \in Nat
  BY DEF Longer
<1>1. PICK p : Partial(p, a) /\ SumOf(a) = p[n]
  BY <1>0, SumIsPartial
<1> DEFINE q == [k \in 0 .. n + 1 |-> IF k = n + 1 THEN p[n] + x ELSE p[k]]
<1>2. /\ n \in Nat /\ b \in Seq(Int) /\ Len(b) = n + 1 /\ b[n + 1] = x
      /\ x \in Int /\ \A k \in 1 .. n : b[k] = a[k] /\ a[k] \in Int
  BY <1>0 DEF Longer
<1>3. /\ \A k \in 0 .. n : p[k] \in Int
      /\ p[0] = 0 /\ \A k \in 1 .. n : p[k] = p[k - 1] + a[k]
  BY <1>1, <1>2 DEF Partial
<1> HIDE DEF n
<1>4. q \in [0 .. n + 1 -> Int] /\ q[0] = 0 /\ q[n + 1] = p[n] + x
  BY <1>2, <1>3
<1>5. ASSUME NEW k \in 1 .. n + 1 PROVE q[k] = q[k - 1] + b[k]
  <2>1. CASE k = n + 1
    <3>1. k - 1 = n /\ n # n + 1 /\ n \in 0 .. n + 1
      BY <1>2, <2>1
    <3>2. q[k - 1] = p[n]
      BY <3>1
    <3> HIDE DEF q
    <3> QED
      BY <1>2, <1>4, <2>1, <3>2
  <2>2. CASE k # n + 1
    <3>1. /\ k \in 1 .. n /\ k - 1 # n + 1 /\ k - 1 \in 0 .. n + 1 /\ k \in 0 .. n + 1
      BY <1>2, <2>2
    <3>2. q[k] = p[k] /\ q[k - 1] = p[k - 1]
      BY <2>2, <3>1
    <3> HIDE DEF q
    <3> QED
      BY <1>2, <1>3, <3>1, <3>2
  <2> QED
    BY <2>1, <2>2
<1> HIDE DEF q
<1>6. Partial(q, b)
  BY <1>2, <1>4, <1>5 DEF Partial
<1>7. SumOf(b) = q[n + 1]
  BY <1>2, <1>6, PartialIsSum
<1> QED
  BY <1>1, <1>4, <1>7

(* The amounts of a voucher that is written are off by half an ore each.   *)
Off(voucher, amount) ==
    /\ BelopOf(voucher) \in Int /\ Len(voucher) \in Nat
    /\ -(50 * Ore * Len(voucher)) <= 100 * Ore * BelopOf(voucher) - amount
    /\ 100 * Ore * BelopOf(voucher) - amount <= 50 * Ore * Len(voucher)

LEMMA AmountsOfVoucher ==
    ASSUME NEW v \in Seq(Entry)
    PROVE  LET a == [k \in DOMAIN v |-> v[k].Belopp]
           IN  /\ a \in Seq(Int) /\ Len(a) = Len(v) /\ BelopOf(v) = SumOf(a)
               /\ \A k \in 1 .. Len(v) : a[k] = v[k].Belopp
<1> DEFINE a == [k \in DOMAIN v |-> v[k].Belopp]
<1>1. Len(v) \in Nat /\ DOMAIN v = 1 .. Len(v) /\ \A k \in 1 .. Len(v) : v[k] \in Entry
  OBVIOUS
<1>2. \A k \in 1 .. Len(v) : v[k].Belopp \in Int
  BY <1>1 DEF Entry
<1>3. a \in Seq(Int) /\ Len(a) = Len(v)
  BY <1>1, <1>2
<1> QED
  BY <1>1, <1>3 DEF BelopOf

LEMMA LineWritten ==
    ASSUME NEW v \in Seq(Entry), NEW t \in Entry, NEW amount \in Int, Off(v, amount)
    PROVE  v \o Line(t) \in Seq(Entry) /\ Off(v \o Line(t), amount + t.Belopp)
<1>1. t.Belopp \in Int /\ t.KontoNr \in Int /\ Ore \in Nat \ {0} /\ 100 * Ore \in Nat \ {0}
  BY TotalsAssumption DEF Entry, Ore
<1>2. CASE t.Belopp = 0
  <2>1. v \o Line(t) = v
    BY <1>2 DEF Line
  <2>2. amount + t.Belopp = amount
    BY <1>2
  <2> QED
    BY <2>1, <2>2
<1>3. CASE t.Belopp # 0
  <2> DEFINE e == Transaction(t.KontoNr, Written(t.Belopp))
             w == v \o Line(t)
             a == [k \in DOMAIN v |-> v[k].Belopp]
             b == [k \in DOMAIN w |-> w[k].Belopp]
             y == Written(t.Belopp)
  <2>1. /\ y \in Int
        /\ -(100 * Ore) <= 2 * (100 * Ore * y - t.Belopp)
        /\ 2 * (100 * Ore * y - t.Belopp) <= 100 * Ore
    <3> DEFINE d == 100 * Ore
               x == t.Belopp
    <3>1. d \in Nat \ {0} /\ x \in Int /\ y = RoundBank(x, d)
      BY <1>1 DEF Written
    <3> HIDE DEF d, x, y
    <3>2. x \div d \in Int
      BY <3>1
    <3>3. /\ y \in Int /\ -d <= 2 * (d * y - x) /\ 2 * (d * y - x) <= d
      BY <3>1, <3>2, RoundBankIsNear
    <3> QED
      BY <3>3 DEF d, x
  <2>2. e \in Entry /\ e.Belopp = y
    <3> HIDE DEF y
    <3>1. e = [KontoNr |-> t.KontoNr, Belopp |-> y]
      BY DEF Transaction, y
    <3> HIDE DEF e
    <3> QED
      BY <1>1, <2>1, <3>1 DEF Entry
  <2>3. w = Append(v, e)
    <3>1. Line(t) = << e >>
      BY <1>3 DEF Line
    <3> HIDE DEF e
    <3> QED
      BY <2>2, <3>1
  <2> HIDE DEF e, w, y
  <2>4. w \in Seq(Entry) /\ Len(w) = Len(v) + 1 /\ Len(v) \in Nat
        /\ w[Len(v) + 1] = e /\ \A k \in 1 .. Len(v) : w[k] = v[k]
    BY <2>2, <2>3
  <2>5. /\ a \in Seq(Int) /\ Len(a) = Len(v) /\ BelopOf(v) = SumOf(a)
        /\ \A k \in 1 .. Len(v) : a[k] = v[k].Belopp
    BY AmountsOfVoucher
  <2>6. /\ b \in Seq(Int) /\ Len(b) = Len(w) /\ BelopOf(w) = SumOf(b)
        /\ \A k \in 1 .. Len(w) : b[k] = w[k].Belopp
    BY <2>4, AmountsOfVoucher
  <2> HIDE DEF a, b
  <2>7. Longer(a, b, y)
    <3>1. PICK m \in Nat : m = Len(v)
      BY <2>4
    <3>2. Len(a) = m /\ Len(b) = m + 1 /\ Len(w) = m + 1
      BY <2>4, <2>5, <2>6, <3>1
    <3>3. b[m + 1] = y
      <4>1. m + 1 \in 1 .. Len(w)
        BY <3>2
      <4> QED
        BY <2>2, <2>4, <2>6, <3>1, <4>1
    <3>4. \A k \in 1 .. m : b[k] = a[k]
      <4> TAKE k \in 1 .. m
      <4>1. k \in 1 .. Len(w) /\ k \in 1 .. Len(v)
        BY <3>1, <3>2
      <4> QED
        BY <2>4, <2>5, <2>6, <4>1
    <3> QED
      BY <2>1, <2>5, <2>6, <3>2, <3>3, <3>4 DEF Longer
  <2>8. BelopOf(w) = BelopOf(v) + y
    BY <2>5, <2>6, <2>7, SumGrows
  <2>9. Off(w, amount + t.Belopp)
    <3>1. PICK n \in Nat, s \in Int, x \in Int, o \in Nat :
              n = Len(v) /\ s = BelopOf(v) /\ x = t.Belopp /\ o = Ore
      BY <1>1 DEF Off
    <3>2. /\ -(50 * o * n) <= 100 * o * s - amount
          /\ 100 * o * s - amount <= 50 * o * n
      BY <3>1 DEF Off
    <3>3. /\ 50 * o * (n + 1) = 50 * o * n + 50 * o
          /\ 100 * o * (s + y) = 100 * o * s + 100 * o * y
      BY <2>1
    <3>4. -(100 * o) <= 2 * (100 * o * y - x) /\ 2 * (100 * o * y - x) <= 100 * o
      BY <2>1, <3>1
    <3>5. PICK on \in Int, os \in Int, oy \in Int :
              on = 50 * o * n /\ os = 100 * o * s /\ oy = 100 * o * y
      BY <2>1
    <3>6. /\ -(50 * o * (n + 1)) <= 100 * o * (s + y) - (amount + x)
          /\ 100 * o * (s + y) - (amount + x) <= 50 * o * (n + 1)
      BY <2>1, <3>2, <3>3, <3>4, <3>5
    <3>7. Len(w) = n + 1 /\ BelopOf(w) = s + y /\ s + y \in Int /\ n + 1 \in Nat
      BY <2>1, <2>4, <2>8, <3>1
    <3> QED
      BY <3>1, <3>6, <3>7 DEF Off
  <2> QED
    BY <2>4, <2>9 DEF w
<1> QED
  BY <1>2, <1>3

LEMMA WrittenIsNear ==
    ASSUME NEW v \in Seq(Entry)
    PROVE  Off(WrittenVoucher(v), BelopOf(v))
<1> DEFINE n     == Len(v)
           plus(l, k) == l \o Line(v[k])
           lines == CHOOSE l : l = [k \in 0 .. n |-> IF k = 0 THEN << >> ELSE plus(l[k - 1], k)]
           step  == [k \in 1 .. n |-> [l \in Seq(Entry) |-> plus(l, k)]]
           a     == [k \in DOMAIN v |-> v[k].Belopp]
<1>1. n \in Nat /\ \A k \in 1 .. n : v[k] \in Entry
  OBVIOUS
<1>2. ASSUME NEW t \in Entry PROVE Line(t) \in Seq(Entry)
  <2> DEFINE e == Transaction(t.KontoNr, Written(t.Belopp))
  <2>1. t.Belopp \in Int /\ t.KontoNr \in Int /\ 100 * Ore \in Nat \ {0}
    BY TotalsAssumption DEF Entry, Ore
  <2>2. Written(t.Belopp) \in Int
    BY <2>1, RoundBankIsNear DEF Written
  <2>3. e \in Entry
    BY <2>1, <2>2 DEF Transaction, Entry
  <2>4. Line(t) = << >> \/ Line(t) = << e >>
    BY DEF Line
  <2> HIDE DEF e
  <2>5. << e >> \in Seq(Entry) /\ << >> \in Seq(Entry)
    BY <2>3
  <2> QED
    BY <2>4, <2>5
<1>3. step \in [1 .. n -> [Seq(Entry) -> Seq(Entry)]]
  <2>1. \A k \in 1 .. n : \A l \in Seq(Entry) : l \o Line(v[k]) \in Seq(Entry)
    BY <1>1, <1>2
  <2> QED
    BY <2>1
<1>4. PICK s : Follows(s, n, Seq(Entry), << >>, step)
  <2>1. << >> \in Seq(Entry) /\ n \in Nat
    BY <1>1
  <2> HIDE DEF step, n
  <2> QED
    BY <1>3, <2>1, StepsTaken, Zenon
<1> HIDE DEF plus
<1>5. ASSUME NEW k \in 1 .. n PROVE s[k] = plus(s[k - 1], k)
  <2>1. k - 1 \in 0 .. n
    BY <1>1
  <2>2. s[k - 1] \in Seq(Entry)
    BY <1>4, <2>1 DEF Follows
  <2>3. step[k][s[k - 1]] = plus(s[k - 1], k)
    BY <2>2
  <2> HIDE DEF step
  <2> QED
    BY <1>4, <2>3 DEF Follows
<1>6. s = [k \in 0 .. n |-> IF k = 0 THEN << >> ELSE plus(s[k - 1], k)]
  <2> HIDE DEF step
  <2> QED
    BY <1>1, <1>4, <1>5 DEF Follows
<1>7. lines = [k \in 0 .. n |-> IF k = 0 THEN << >> ELSE plus(lines[k - 1], k)]
  BY <1>6
<1>8. WrittenVoucher(v) = lines[n]
  BY DEF WrittenVoucher, plus
<1> HIDE DEF lines
<1>9. lines[0] = << >> /\ \A k \in 1 .. n : lines[k] = lines[k - 1] \o Line(v[k])
  BY <1>1, <1>7 DEF plus
<1>10. a \in Seq(Int) /\ Len(a) = n /\ BelopOf(v) = SumOf(a)
       /\ \A k \in 1 .. n : a[k] = v[k].Belopp
  BY AmountsOfVoucher
<1> HIDE DEF a
<1>11. PICK p : Partial(p, a) /\ SumOf(a) = p[n]
  BY <1>10, SumIsPartial
<1>12. /\ \A k \in 0 .. n : p[k] \in Int
       /\ p[0] = 0 /\ \A k \in 1 .. n : p[k] = p[k - 1] + a[k]
  BY <1>10, <1>11 DEF Partial
<1> DEFINE S == {k \in 0 .. n : lines[k] \in Seq(Entry) /\ Off(lines[k], p[k])}
<1>13. 0 \in S
  <2>1. << >> \in Seq(Entry) /\ Len(<< >>) = 0
    OBVIOUS
  <2>2. BelopOf(<< >>) = 0
    <3> DEFINE z == [k \in DOMAIN << >> |-> << >>[k].Belopp]
    <3>1. z \in Seq(Int) /\ Len(z) = 0 /\ BelopOf(<< >>) = SumOf(z)
      BY <2>1, AmountsOfVoucher
    <3> HIDE DEF z
    <3>2. PICK q : Partial(q, z) /\ SumOf(z) = q[0]
      BY <3>1, SumIsPartial
    <3> QED
      BY <3>1, <3>2 DEF Partial
  <2>3. Ore \in Int
    BY TotalsAssumption DEF Ore
  <2>4. Off(<< >>, 0)
    BY <2>1, <2>2, <2>3 DEF Off
  <2>5. 0 \in 0 .. n /\ lines[0] = << >> /\ p[0] = 0
    BY <1>1, <1>9, <1>12
  <2>6. lines[0] \in Seq(Entry) /\ Off(lines[0], p[0])
    BY <2>1, <2>4, <2>5
  <2> QED
    BY <2>5, <2>6
<1>14. ASSUME NEW k \in 0 .. n - 1, k \in S PROVE k + 1 \in S
  <2>1. k + 1 \in 1 .. n /\ k + 1 \in 0 .. n /\ (k + 1) - 1 = k /\ k \in 0 .. n
    BY <1>1
  <2>2. lines[k + 1] = lines[k] \o Line(v[k + 1]) /\ p[k + 1] = p[k] + v[k + 1].Belopp
    BY <1>9, <1>10, <1>12, <2>1
  <2>3. v[k + 1] \in Entry /\ p[k] \in Int /\ lines[k] \in Seq(Entry) /\ Off(lines[k], p[k])
    BY <1>1, <1>12, <1>14, <2>1
  <2>4. lines[k + 1] \in Seq(Entry) /\ Off(lines[k + 1], p[k + 1])
    BY <2>2, <2>3, LineWritten
  <2> QED
    BY <2>1, <2>4
<1>15. n \in S
  <2> HIDE DEF S, n
  <2>1. 0 .. n \subseteq S
    BY <1>1, <1>13, <1>14, UpTo
  <2> QED
    BY <1>1, <2>1
<1> QED
  BY <1>8, <1>10, <1>11, <1>15

-----------------------------------------------------------------------------
(* What the two vouchers come to before they are written.                  *)

(* The sums of two and of eight amounts.                                   *)
LEMMA SumOfFew ==
    ASSUME NEW a \in Seq(Int)
    PROVE  /\ Len(a) = 2 => SumOf(a) = a[1] + a[2]
           /\ Len(a) = 8 => SumOf(a) = a[1] + a[2] + a[3] + a[4] + a[5] + a[6] + a[7] + a[8]
<1>1. PICK p : Partial(p, a) /\ SumOf(a) = p[Len(a)]
  BY SumIsPartial
<1>2. \A k \in 1 .. Len(a) : p[k] = p[k - 1] + a[k] /\ a[k] \in Int /\ p[k - 1] \in Int
  <2> TAKE k \in 1 .. Len(a)
  <2>1. k - 1 \in 0 .. Len(a)
    OBVIOUS
  <2> QED
    BY <1>1, <2>1 DEF Partial
<1>3. p[0] = 0
  BY <1>1 DEF Partial
<1>4. CASE Len(a) = 2
  <2>1. p[1] = p[0] + a[1] /\ p[2] = p[1] + a[2] /\ a[1] \in Int /\ a[2] \in Int
    BY <1>2, <1>4
  <2> QED
    BY <1>1, <1>3, <1>4, <2>1
<1>5. CASE Len(a) = 8
  <2>1. /\ p[1] = p[0] + a[1] /\ p[2] = p[1] + a[2] /\ p[3] = p[2] + a[3] /\ p[4] = p[3] + a[4]
        /\ p[5] = p[4] + a[5] /\ p[6] = p[5] + a[6] /\ p[7] = p[6] + a[7] /\ p[8] = p[7] + a[8]
        /\ a[1] \in Int /\ a[2] \in Int /\ a[3] \in Int /\ a[4] \in Int
        /\ a[5] \in Int /\ a[6] \in Int /\ a[7] \in Int /\ a[8] \in Int
    BY <1>2, <1>5
  <2> QED
    BY <1>1, <1>3, <1>5, <2>1
<1> QED
  BY <1>4, <1>5

LEMMA SaleVoucherMisses ==
    ASSUME NEW inv, inv.rows \in Seq(Row)
    PROVE  /\ SaleVoucher(inv) \in Seq(Entry)
           /\ BelopOf(SaleVoucher(inv)) = AmountOf(Totals(inv.rows, TRUE, TRUE), "Missing", 0)
           /\ PaymentVoucher(inv) \in Seq(Entry) /\ BelopOf(PaymentVoucher(inv)) = 0
<1> DEFINE t == Totals(inv.rows, TRUE, TRUE)
           vat(r) == t.VAT[r] + t.ROTRUTVAT[r]
           e1 == Transaction(1510, t.Customer)
           e2 == Transaction(1513, t.ROTRUT)
           e3 == Transaction(2611, -vat(0))
           e4 == Transaction(2620, -vat(1))
           e5 == Transaction(2630, -vat(2))
           e6 == Transaction(3001, -t.TotalVAT[0])
           e7 == Transaction(3002, -t.TotalVAT[1])
           e8 == Transaction(3003, -t.TotalVAT[2])
           d1 == Transaction(1510, -t.Customer)
           d2 == Transaction(1930, t.Customer)
           v == SaleVoucher(inv)
           w == PaymentVoucher(inv)
<1>1. t \in TotalsType
  BY TotalsTyped
<1>2. /\ t.Customer \in Int /\ t.ROTRUT \in Int
      /\ vat(0) \in Int /\ vat(1) \in Int /\ vat(2) \in Int
      /\ t.TotalVAT[0] \in Int /\ t.TotalVAT[1] \in Int /\ t.TotalVAT[2] \in Int
  <2>1. 0 \in Rates /\ 1 \in Rates /\ 2 \in Rates
    BY DEF Rates
  <2> HIDE DEF t
  <2>2. /\ t.Customer \in Int /\ t.ROTRUT \in Int
        /\ t.VAT \in [Rates -> Int] /\ t.ROTRUTVAT \in [Rates -> Int]
        /\ t.TotalVAT \in [Rates -> Int]
    BY <1>1 DEF TotalsType
  <2>3. ASSUME NEW r \in Rates PROVE vat(r) \in Int /\ t.TotalVAT[r] \in Int
    <3>1. t.VAT[r] \in Int /\ t.ROTRUTVAT[r] \in Int /\ t.TotalVAT[r] \in Int
      BY <2>2, <2>3
    <3> QED
      BY <3>1
  <2> HIDE DEF vat
  <2> QED
    BY <2>1, <2>2, <2>3
<1>3. v = << e1, e2, e3, e4, e5, e6, e7, e8 >> /\ w = << d1, d2 >>
  BY DEF SaleVoucher, PaymentVoucher
<1>4. /\ e1.Belopp = t.Customer /\ e2.Belopp = t.ROTRUT
      /\ e3.Belopp = -vat(0) /\ e4.Belopp = -vat(1) /\ e5.Belopp = -vat(2)
      /\ e6.Belopp = -t.TotalVAT[0] /\ e7.Belopp = -t.TotalVAT[1] /\ e8.Belopp = -t.TotalVAT[2]
      /\ d1.Belopp = -t.Customer /\ d2.Belopp = t.Customer
  BY DEF Transaction
<1>5. /\ e1 \in Entry /\ e2 \in Entry /\ e3 \in Entry /\ e4 \in Entry /\ e5 \in Entry
      /\ e6 \in Entry /\ e7 \in Entry /\ e8 \in Entry /\ d1 \in Entry /\ d2 \in Entry
  <2> HIDE DEF t, vat
  <2>1. e1 \in Entry /\ e2 \in Entry /\ d1 \in Entry /\ d2 \in Entry
    BY <1>2 DEF Transaction, Entry
  <2>2. e3 \in Entry /\ e4 \in Entry /\ e5 \in Entry
    BY <1>2 DEF Transaction, Entry
  <2>3. e6 \in Entry /\ e7 \in Entry /\ e8 \in Entry
    BY <1>2 DEF Transaction, Entry
  <2> QED
    BY <2>1, <2>2, <2>3
<1> HIDE DEF e1, e2, e3, e4, e5, e6, e7, e8, d1, d2, v, w
<1>7. /\ v \in Seq(Entry) /\ Len(v) = 8
      /\ v[1] = e1 /\ v[2] = e2 /\ v[3] = e3 /\ v[4] = e4
      /\ v[5] = e5 /\ v[6] = e6 /\ v[7] = e7 /\ v[8] = e8
  BY <1>3, <1>5
<1>8. w \in Seq(Entry) /\ Len(w) = 2 /\ w[1] = d1 /\ w[2] = d2
  BY <1>3, <1>5
<1>9. BelopOf(v) = AmountOf(t, "Missing", 0)
  <2> DEFINE a == [k \in DOMAIN v |-> v[k].Belopp]
  <2>1. /\ a \in Seq(Int) /\ Len(a) = 8 /\ BelopOf(v) = SumOf(a)
        /\ \A k \in 1 .. 8 : a[k] = v[k].Belopp
    BY <1>7, AmountsOfVoucher
  <2> HIDE DEF a
  <2>2. SumOf(a) = a[1] + a[2] + a[3] + a[4] + a[5] + a[6] + a[7] + a[8]
    BY <2>1, SumOfFew
  <2>3. /\ a[1] = t.Customer /\ a[2] = t.ROTRUT /\ a[3] = -vat(0) /\ a[4] = -vat(1)
        /\ a[5] = -vat(2) /\ a[6] = -t.TotalVAT[0] /\ a[7] = -t.TotalVAT[1]
        /\ a[8] = -t.TotalVAT[2]
    <3> HIDE DEF t, vat
    <3> QED
      BY <1>4, <1>7, <2>1
  <2>4. AmountOf(t, "Missing", 0) = t.Customer + t.ROTRUT - (vat(0) + t.TotalVAT[0])
                                      - (vat(1) + t.TotalVAT[1]) - (vat(2) + t.TotalVAT[2])
    BY DEF AmountOf, SoldAt
  <2> HIDE DEF t, vat
  <2>5. PICK c \in Int, r \in Int, x \in Int, y \in Int, z \in Int,
             p \in Int, q \in Int, s \in Int :
               /\ c = t.Customer /\ r = t.ROTRUT /\ x = vat(0) /\ y = vat(1) /\ z = vat(2)
               /\ p = t.TotalVAT[0] /\ q = t.TotalVAT[1] /\ s = t.TotalVAT[2]
    BY <1>2
  <2>6. AmountOf(t, "Missing", 0) = c + r - (x + p) - (y + q) - (z + s)
    BY <2>4, <2>5
  <2>7. /\ a[1] = c /\ a[2] = r /\ a[3] = -x /\ a[4] = -y /\ a[5] = -z
        /\ a[6] = -p /\ a[7] = -q /\ a[8] = -s
    BY <2>3, <2>5
  <2>8. SumOf(a) = c + r - (x + p) - (y + q) - (z + s)
    BY <2>2, <2>7
  <2> QED
    BY <2>1, <2>6, <2>8
<1>10. BelopOf(w) = 0
  <2> DEFINE a == [k \in DOMAIN w |-> w[k].Belopp]
  <2>1. /\ a \in Seq(Int) /\ Len(a) = 2 /\ BelopOf(w) = SumOf(a)
        /\ \A k \in 1 .. 2 : a[k] = w[k].Belopp
    BY <1>8, AmountsOfVoucher
  <2> HIDE DEF a
  <2>2. SumOf(a) = a[1] + a[2]
    BY <2>1, SumOfFew
  <2>3. a[1] = -t.Customer /\ a[2] = t.Customer
    <3> HIDE DEF t, vat
    <3> QED
      BY <1>4, <1>8, <2>1
  <2> HIDE DEF t, vat
  <2> QED
    BY <1>2, <2>1, <2>2, <2>3
<1> QED
  BY <1>7, <1>8, <1>9, <1>10 DEF v, w

(* The roundings of all rows.                                              *)
BoundOf(row) == 2 * Abs(row.count) + 50
SoldAtZero(row) == row.vat = 3

LEMMA BoundsOfRows ==
    ASSUME NEW rows \in Seq(Row)
    PROVE  LET c == [k \in 1 .. Len(rows) |-> BoundOf(rows[k])]
           IN  /\ c \in Seq(Int) /\ Len(c) = Len(rows)
               /\ SumOfRows(rows, Every, BoundOf) = SumOf(c)
               /\ SumOf(c) \in Nat
<1> DEFINE n == Len(rows)
           c == [k \in 1 .. n |-> BoundOf(rows[k])]
<1>1. n \in Nat /\ DOMAIN rows = 1 .. n /\ \A k \in 1 .. n : rows[k] \in Row
  OBVIOUS
<1>2. ASSUME NEW row \in Row PROVE BoundOf(row) \in Nat
  <2>1. row.count \in Int
    BY AmountsAreInt
  <2> QED
    BY <2>1 DEF BoundOf, Abs
<1>3. \A k \in 1 .. n : c[k] \in Nat
  BY <1>1, <1>2
<1>4. SumOfRows(rows, Every, BoundOf) = SumOf(c)
  BY <1>1 DEF SumOfRows, Every
<1>5. c \in Seq(Int) /\ Len(c) = n
  <2>1. \A k \in 1 .. n : BoundOf(rows[k]) \in Int
    BY <1>1, <1>2
  <2> HIDE DEF n
  <2> QED
    BY <1>1, <2>1
<1>6. SumOf(c) \in Nat
  <2> HIDE DEF c, n
  <2>1. Near(c, c, c, n)
    BY <1>1, <1>3, <1>5 DEF Near
  <2>2. SumOf(c) \in Int
    BY <1>5, SumIsInt
  <2> QED
    BY <2>1, <2>2, SumsNear
<1> QED
  BY <1>4, <1>5, <1>6

LEMMA RowsAreSold ==
    ASSUME NEW rows \in Seq(Row)
    PROVE  LET missing  == AmountOf(Totals(rows, TRUE, TRUE), "Missing", 0)
               zero     == SumOfRows(rows, SoldAtZero, TotalOfRow)
               rounding == SumOfRows(rows, Every, BoundOf)
           IN  /\ missing \in Int /\ zero \in Int /\ rounding \in Nat
               /\ -rounding <= missing - zero /\ missing - zero <= rounding
<1> DEFINE n == Len(rows)
           a == [k \in 1 .. n |-> AmountOf(RowTotals(rows[k], TRUE, TRUE), "Missing", 0)]
           b == [k \in 1 .. n |-> IF SoldAtZero(rows[k]) THEN TotalOfRow(rows[k]) ELSE 0]
           c == [k \in 1 .. n |-> BoundOf(rows[k])]
<1>1. n \in Nat /\ DOMAIN rows = 1 .. n /\ \A k \in 1 .. n : rows[k] \in Row
  OBVIOUS
<1>2. /\ a \in Seq(Int) /\ Len(a) = n
      /\ AmountOf(Totals(rows, TRUE, TRUE), "Missing", 0) = SumOf(a)
  <2>1. 0 \in Rates /\ TRUE \in BOOLEAN /\ "Missing" \in Amounts
    BY DEF Rates, Amounts
  <2> HIDE DEF a
  <2> QED
    BY <2>1, TotalsAreSums DEF a
<1>3. c \in Seq(Int) /\ Len(c) = n /\ SumOfRows(rows, Every, BoundOf) = SumOf(c) /\ SumOf(c) \in Nat
  BY BoundsOfRows
<1>4. ASSUME NEW k \in 1 .. n
      PROVE  /\ a[k] \in Int /\ b[k] \in Int /\ c[k] \in Int
             /\ -c[k] <= a[k] - b[k] /\ a[k] - b[k] <= c[k]
  <2>1. rows[k] \in Row
    BY <1>1
  <2>2. b[k] = IF rows[k].vat = 3 THEN TotalOfRow(rows[k]) ELSE 0
    BY DEF SoldAtZero
  <2>3. c[k] = 2 * Abs(rows[k].count) + 50 /\ Abs(rows[k].count) \in Int
    <3>1. rows[k].count \in Int
      BY <2>1, AmountsAreInt
    <3> QED
      BY <3>1 DEF BoundOf, Abs
  <2>4. a[k] = AmountOf(RowTotals(rows[k], TRUE, TRUE), "Missing", 0)
    OBVIOUS
  <2> DEFINE row == rows[k]
             missing == AmountOf(RowTotals(row, TRUE, TRUE), "Missing", 0)
             sold == IF row.vat = 3 THEN TotalOfRow(row) ELSE 0
  <2>5. /\ missing \in Int /\ sold \in Int
        /\ -(2 * Abs(row.count) + 50) <= missing - sold
        /\ missing - sold <= 2 * Abs(row.count) + 50
    BY <2>1, RowIsSold
  <2>6. a[k] = missing /\ b[k] = sold /\ c[k] = 2 * Abs(row.count) + 50
    BY <2>2, <2>3, <2>4
  <2> HIDE DEF a, b, c, missing, sold
  <2> QED
    BY <2>3, <2>5, <2>6
<1>5. b \in Seq(Int) /\ Len(b) = n
  <2> DEFINE x(k) == IF SoldAtZero(rows[k]) THEN TotalOfRow(rows[k]) ELSE 0
  <2>1. \A k \in 1 .. n : x(k) \in Int
    BY <1>4
  <2>2. b = [k \in 1 .. n |-> x(k)]
    OBVIOUS
  <2> HIDE DEF x, b, n
  <2> QED
    BY <1>1, <2>1, <2>2
<1>6. SumOfRows(rows, SoldAtZero, TotalOfRow) = SumOf(b)
  BY <1>1 DEF SumOfRows
<1> HIDE DEF a, b, c, n
<1>7. Near(a, b, c, n)
  BY <1>1, <1>2, <1>3, <1>4, <1>5 DEF Near
<1>8. -SumOf(c) <= SumOf(a) - SumOf(b) /\ SumOf(a) - SumOf(b) <= SumOf(c)
  BY <1>7, SumsNear
<1>9. SumOf(a) \in Int /\ SumOf(b) \in Int
  BY <1>2, <1>5, SumIsInt
<1> QED
  BY <1>2, <1>3, <1>6, <1>8, <1>9

LEMMA RoundingOfRows == Rounding = SumOfRows(invoice.rows, Every, BoundOf)
  BY DEF Rounding, Rows, BoundOf

LEMMA ZeroRatedRows == ZeroRated = SumOfRows(invoice.rows, SoldAtZero, TotalOfRow)
  BY DEF ZeroRated, Rows, SoldAtZero

(* For any rows, whatever they cost and whatever is flagged: each voucher  *)
(* of the SIE file balances but for the sale at 0 % and half an ore for    *)
(* each amount that is written (sie.go:52).                                *)
THEOREM VouchersAreBalanced == Spec => []VouchersBalance
<1>1. TypeOK => VouchersBalance
  <2> SUFFICES ASSUME TypeOK, Exists, NEW n \in DOMAIN SieFile(invoice)
               PROVE  Abs(100 * Ore * BelopOf(SieFile(invoice)[n])
                              - (IF n = 1 THEN ZeroRated ELSE 0))
                          <= 50 * Ore * Len(SieFile(invoice)[n]) + Rounding
    BY DEF VouchersBalance
  <2> DEFINE sale == SaleVoucher(invoice)
             paid == PaymentVoucher(invoice)
             missing == AmountOf(Totals(invoice.rows, TRUE, TRUE), "Missing", 0)
  <2>1. invoice.rows \in Seq(Row)
    BY RowsTyped
  <2>2. /\ sale \in Seq(Entry) /\ BelopOf(sale) = missing
        /\ paid \in Seq(Entry) /\ BelopOf(paid) = 0
    BY <2>1, SaleVoucherMisses
  <2>3. /\ missing \in Int /\ ZeroRated \in Int /\ Rounding \in Nat
        /\ -Rounding <= missing - ZeroRated /\ missing - ZeroRated <= Rounding
    BY <2>1, RowsAreSold, RoundingOfRows, ZeroRatedRows
  <2> HIDE DEF sale, paid, missing
  <2>4. Off(WrittenVoucher(sale), missing) /\ Off(WrittenVoucher(paid), 0)
    BY <2>2, WrittenIsNear
  <2>5. \/ n = 1 /\ SieFile(invoice)[n] = WrittenVoucher(sale)
        \/ n = 2 /\ SieFile(invoice)[n] = WrittenVoucher(paid)
    <3> DEFINE a == WrittenVoucher(SaleVoucher(invoice))
               b == WrittenVoucher(PaymentVoucher(invoice))
    <3>1. SieFile(invoice) \in {<< >>, << a >>, << a, b >>}
      BY DEF SieFile, TypeOK, Exists, Invoice
    <3> HIDE DEF a, b
    <3>2. SieFile(invoice)[n] = IF n = 1 THEN a ELSE b
      BY <3>1
    <3>3. n \in {1, 2}
      BY <3>1
    <3> QED
      BY <3>2, <3>3 DEF a, b, sale, paid
  <2>6. ASSUME NEW voucher, NEW amount \in Int, NEW zero \in Int, Off(voucher, amount),
               -Rounding <= amount - zero, amount - zero <= Rounding
        PROVE  Abs(100 * Ore * BelopOf(voucher) - zero) <= 50 * Ore * Len(voucher) + Rounding
    <3>1. Ore \in Int
      BY TotalsAssumption DEF Ore
    <3>2. BelopOf(voucher) \in Int /\ Len(voucher) \in Nat
      BY <2>6 DEF Off
    <3>3. PICK s \in Int, l \in Int, r \in Nat :
              s = 100 * Ore * BelopOf(voucher) /\ l = 50 * Ore * Len(voucher) /\ r = Rounding
      BY <2>3, <3>1, <3>2
    <3>4. -l <= s - amount /\ s - amount <= l /\ -r <= amount - zero /\ amount - zero <= r
      BY <2>6, <3>3 DEF Off
    <3>5. -(l + r) <= s - zero /\ s - zero <= l + r
      BY <3>4
    <3>6. PICK d \in Int : d = s - zero
      OBVIOUS
    <3>7. Abs(d) <= l + r
      BY <3>5, <3>6 DEF Abs
    <3> QED
      BY <3>3, <3>6, <3>7
  <2>7. CASE n = 1
    BY <2>3, <2>4, <2>5, <2>6, <2>7
  <2>8. CASE n = 2
    <3>1. Abs(100 * Ore * BelopOf(WrittenVoucher(paid)) - 0)
              <= 50 * Ore * Len(WrittenVoucher(paid)) + Rounding
      BY <2>3, <2>4, <2>6
    <3> QED
      BY <2>5, <2>8, <3>1
  <2> QED
    BY <2>5, <2>7, <2>8
<1> QED
  BY <1>1, TypeCorrect, PTL

-----------------------------------------------------------------------------
(* The totals of the page.                                                 *)

(* Amounts of the rows, however they are computed, have their sum.         *)
AreAmounts(b, rows, f, q) ==
    /\ rows \in Seq(Row) /\ f \in Amounts /\ q \in Rates
    /\ b = [k \in DOMAIN rows |-> b[k]]
    /\ \A k \in 1 .. Len(rows) : b[k] = AmountOf(RowTotals(rows[k], TRUE, TRUE), f, q)

LEMMA SumOfTotals ==
    ASSUME NEW rows, NEW f, NEW q, NEW b, AreAmounts(b, rows, f, q)
    PROVE  AmountOf(Totals(rows, TRUE, TRUE), f, q) = SumOf(b)
<1> DEFINE a == [k \in 1 .. Len(rows) |-> AmountOf(RowTotals(rows[k], TRUE, TRUE), f, q)]
<1>1. AmountOf(Totals(rows, TRUE, TRUE), f, q) = SumOf(a)
  BY TotalsAreSums DEF AreAmounts
<1>2. a = b
  <2>1. DOMAIN rows = 1 .. Len(rows)
    BY DEF AreAmounts
  <2> QED
    BY <2>1 DEF AreAmounts
<1> QED
  BY <1>1, <1>2

LEMMA RebateOnPage ==
    ASSUME NEW rows \in Seq(Row),
           \A k \in DOMAIN rows : rows[k].is_rot_rut => rows[k].service # NULL
    PROVE  LET page   == PageTotals(TRUE, rows)
               totals == Totals(rows, TRUE, TRUE)
           IN  /\ page.ROTRUT = ToFixed(totals.ROTRUT, rows)
               /\ page.Customer = ToFixed(totals.Incl - totals.ROTRUT, rows)
<1> DEFINE page == PageTotals(TRUE, rows)
           totals == Totals(rows, TRUE, TRUE)
           rebate(row) == (IF IsRUT(row) THEN 5 ELSE 3) * row.cost * Tenth * row.count
           a == [k \in DOMAIN rows |-> IF TRUE THEN TotalOfRow(rows[k]) ELSE 0]
           b == [k \in DOMAIN rows |->
                    IF TRUE /\ rows[k].is_rot_rut THEN rebate(rows[k]) ELSE 0]
<1>1. /\ page.ROTRUT = ToFixed(SumOf(b), rows)
      /\ page.Customer = ToFixed(SumOf(a) - SumOf(b), rows)
  BY DEF PageTotals, SumOfRows, PageWork
<1>2. DOMAIN rows = 1 .. Len(rows) /\ \A k \in 1 .. Len(rows) : rows[k] \in Row
  OBVIOUS
<1>3. 0 \in Rates /\ "ROTRUT" \in Amounts /\ "Incl" \in Amounts
  BY DEF Rates, Amounts
<1>4. totals.Incl = SumOf(a)
  <2>1. \A k \in 1 .. Len(rows) : a[k] = AmountOf(RowTotals(rows[k], TRUE, TRUE), "Incl", 0)
    BY <1>2 DEF AmountOf, RowTotals
  <2>2. a = [k \in DOMAIN rows |-> a[k]]
    OBVIOUS
  <2> HIDE DEF a
  <2>3. AreAmounts(a, rows, "Incl", 0)
    BY <1>3, <2>1, <2>2 DEF AreAmounts
  <2>4. AmountOf(totals, "Incl", 0) = SumOf(a)
    BY <2>3, SumOfTotals
  <2> QED
    BY <2>4 DEF AmountOf
<1>5. totals.ROTRUT = SumOf(b)
  <2>1. ASSUME NEW k \in 1 .. Len(rows)
        PROVE  b[k] = AmountOf(RowTotals(rows[k], TRUE, TRUE), "ROTRUT", 0)
    <3> DEFINE row == rows[k]
    <3>1. AmountOf(RowTotals(row, TRUE, TRUE), "ROTRUT", 0) = ROTRUTOfRow(row)
      BY DEF AmountOf, RowTotals
    <3>2. b[k] = IF row.is_rot_rut THEN rebate(row) ELSE 0
      BY <1>2
    <3>3. /\ row \in Row /\ row.is_rot_rut \in BOOLEAN
          /\ row.is_rot_rut => row.service # NULL
          /\ row.service \in ROTServices \cup RUTServices \cup {NULL}
      <4>1. rows[k] \in Row
        BY <1>2
      <4> QED
        BY <1>2, <4>1 DEF Row
    <3>4. \A x \in ROTServices \cup RUTServices : x \in RUTServices <=> x \notin ROTServices
      BY DEF ROTServices, RUTServices
    <3>5. row.cost \in Int /\ row.count \in Int /\ Tenth \in Int
      BY <3>3, AmountsAreInt
    <3> HIDE DEF row, b
    <3>6. CASE ~row.is_rot_rut
      BY <3>1, <3>2, <3>6 DEF ROTRUTOfRow, IsWork, row
    <3>7. CASE row.is_rot_rut /\ IsROT(row)
      <4>1. IsWork(row) /\ ~IsRUT(row)
        BY <3>3, <3>4, <3>7 DEF IsWork, IsRUT, IsROT
      <4>2. ROTRUTOfRow(row) = 3 * row.cost * Tenth * row.count
        BY <3>7, <4>1 DEF ROTRUTOfRow
      <4>3. b[k] = 3 * row.cost * Tenth * row.count
        BY <3>2, <3>7, <4>1
      <4> QED
        BY <3>1, <4>2, <4>3 DEF row
    <3>8. CASE row.is_rot_rut /\ ~IsROT(row)
      <4>1. IsWork(row) /\ IsRUT(row)
        BY <3>3, <3>4, <3>8 DEF IsWork, IsRUT, IsROT
      <4>2. ROTRUTOfRow(row) = 5 * row.cost * Tenth * row.count
        BY <3>8, <4>1 DEF ROTRUTOfRow, PriceInclRUT
      <4>3. b[k] = 5 * row.cost * Tenth * row.count
        BY <3>2, <3>8, <4>1
      <4> QED
        BY <3>1, <4>2, <4>3 DEF row
    <3> QED
      BY <3>6, <3>7, <3>8
  <2>2. b = [k \in DOMAIN rows |-> b[k]]
    OBVIOUS
  <2> HIDE DEF b
  <2>3. AreAmounts(b, rows, "ROTRUT", 0)
    BY <1>3, <2>1, <2>2 DEF AreAmounts
  <2>4. AmountOf(totals, "ROTRUT", 0) = SumOf(b)
    BY <2>3, SumOfTotals
  <2> QED
    BY <2>4 DEF AmountOf
<1> QED
  BY <1>1, <1>4, <1>5

(* The VAT of one row on the page, taken from its whole price, against     *)
(* what is booked of the customer's part and of the agency's.              *)
LEMMA VATOfRowOnPage ==
    ASSUME NEW row \in Row, NEW q \in Rates, VATAmount[q] = VATLabel[q]
    PROVE  LET vat  == TotalOfRow(row)
                           - RoundDiv(100 * TotalOfRow(row), 100 + PageVATAmount[row.vat])
               page == IF row.vat = q THEN vat ELSE 0
               owed == AmountOf(RowTotals(row, TRUE, TRUE), "Owed", q)
           IN  /\ page \in Int /\ owed \in Int
               /\ -(2 * Abs(row.count) + 50) <= page - owed
               /\ page - owed <= 2 * Abs(row.count) + 50
<1> DEFINE p == PriceInclRUT(row)
           a == ROTRUTOfRow(row)
           s == TotalOfRow(row)
           x == Excluding(p, row.vat)
           z == TotalExcluding(a, row.vat)
           y == RoundDiv(100 * s, 100 + PageVATAmount[row.vat])
           count == row.count
           page == IF row.vat = q THEN s - y ELSE 0
           owed == AmountOf(RowTotals(row, TRUE, TRUE), "Owed", q)
<1>1. /\ p \in Int /\ s \in Int /\ a \in Int /\ count \in Int /\ row.vat \in VATTypes
      /\ x \in Int /\ z \in Int
  <2>1. p \in Int /\ s \in Int /\ a \in Int /\ count \in Int /\ row.vat \in VATTypes
    BY AmountsAreInt
  <2> HIDE DEF p, s, a
  <2> QED
    BY <2>1, ExcludingIsNear, TotalExcludingIsNear
<1>2. p * count + a = s
  <2>1. /\ RowTotals(row, TRUE, TRUE).Customer = p * count
        /\ RowTotals(row, TRUE, TRUE).ROTRUT = a /\ RowTotals(row, TRUE, TRUE).Incl = s
    BY DEF RowTotals
  <2> HIDE DEF p, a, s, count
  <2> QED
    BY <2>1, RowIsShared
<1>3. owed = IF row.vat = q THEN VATOfCustomer(row) + a - z ELSE 0
  BY RateOfRow
<1>4. VATOfCustomer(row) = (p - x) * count
  BY DEF VATOfCustomer
<1>5. Abs(count) \in Nat
  BY <1>1 DEF Abs
<1>6. PICK n \in Nat : n = Abs(count)
  BY <1>5
<1> HIDE DEF p, a, s, x, z, y, count, owed
<1>7. CASE row.vat # q
  <2>1. page = 0 /\ owed = 0
    BY <1>3, <1>7
  <2> HIDE DEF page
  <2>2. /\ page \in Int /\ owed \in Int /\ -(2 * n + 50) <= page - owed
        /\ page - owed <= 2 * n + 50
    BY <2>1
  <2> QED
    BY <1>6, <2>2 DEF page, owed, s, y, count
<1>8. CASE row.vat = q
  <2>1. row.vat \in {0, 1}
    BY <1>8 DEF Rates, VATAmount, VATLabel, VATTypes
  <2>2. PICK b \in {125, 112, 160} : b = 100 + VATAmount[row.vat] /\ b = 100 + PageVATAmount[row.vat]
    BY <2>1 DEF VATAmount, VATLabel, PageVATAmount, VATTypes
  <2>3. PICK h \in Int : h = 100 * s
    BY <1>1
  <2>4. y = RoundDiv(h, b)
    BY <2>2, <2>3 DEF y
  <2>5. b \in Nat \ {0}
    BY <2>2
  <2>6. y \in Int /\ -b <= 2 * (b * y - h) /\ 2 * (b * y - h) <= b
    BY <2>4, <2>5, RoundDivIsNear
  <2>7. PriceWithoutVAT(b, y, s)
    BY <2>3, <2>6 DEF PriceWithoutVAT
  <2>8. PriceWithoutVAT(b, x, p) /\ TotalWithoutVAT(b, z, a)
    BY <1>1, <2>2, ExcludingIsNear, TotalExcludingIsNear DEF x, z
  <2>9. SharedOnPage(b, count, p, a, s, x, y, z)
    BY <1>1, <1>2, <2>2, <2>6, <2>7, <2>8 DEF SharedOnPage
  <2>10. /\ -(2 * Abs(count) + 50) <= x * count + z - y
         /\ x * count + z - y <= 2 * Abs(count) + 50
    BY <2>9, PageErrors
  <2>11. PICK pc \in Int, xc \in Int : pc = p * count /\ xc = x * count
    BY <1>1
  <2>12. (p - x) * count = pc - xc
    <3>1. (p - x) * count = p * count - x * count
      BY <1>1
    <3> QED
      BY <2>11, <3>1
  <2>13. page = s - y /\ owed = pc - xc + a - z /\ s = pc + a
    BY <1>2, <1>3, <1>4, <1>8, <2>11, <2>12
  <2> HIDE DEF page
  <2>14. /\ page \in Int /\ owed \in Int /\ -(2 * n + 50) <= page - owed
         /\ page - owed <= 2 * n + 50
    BY <1>1, <1>6, <2>6, <2>10, <2>11, <2>13
  <2> QED
    BY <1>6, <2>14 DEF page, owed, s, y, count
<1> QED
  BY <1>7, <1>8

LEMMA VATOnPage ==
    ASSUME NEW rows \in Seq(Row), NEW q \in Rates, VATAmount[q] = VATLabel[q]
    PROVE  LET owed     == AmountOf(Totals(rows, TRUE, TRUE), "Owed", q)
               rounding == SumOfRows(rows, Every, BoundOf)
           IN  /\ owed \in Int /\ rounding \in Int
               /\ \E sum \in Int : /\ PageTotals(TRUE, rows).VAT[q] = ToFixed(sum, rows)
                                   /\ -rounding <= sum - owed /\ sum - owed <= rounding
<1> DEFINE n == Len(rows)
           vat(row) == TotalOfRow(row)
                           - RoundDiv(100 * TotalOfRow(row), 100 + PageVATAmount[row.vat])
           a == [k \in 1 .. n |-> IF rows[k].vat = q THEN vat(rows[k]) ELSE 0]
           b == [k \in 1 .. n |-> AmountOf(RowTotals(rows[k], TRUE, TRUE), "Owed", q)]
           c == [k \in 1 .. n |-> BoundOf(rows[k])]
<1>1. n \in Nat /\ DOMAIN rows = 1 .. n /\ \A k \in 1 .. n : rows[k] \in Row
  OBVIOUS
<1>2. PageTotals(TRUE, rows).VAT[q] = ToFixed(SumOf(a), rows)
  BY <1>1 DEF PageTotals, SumOfRows
<1>3. /\ b \in Seq(Int) /\ Len(b) = n
      /\ AmountOf(Totals(rows, TRUE, TRUE), "Owed", q) = SumOf(b)
  <2>1. TRUE \in BOOLEAN /\ "Owed" \in Amounts
    BY DEF Amounts
  <2> HIDE DEF b
  <2> QED
    BY <2>1, TotalsAreSums DEF b
<1>4. c \in Seq(Int) /\ Len(c) = n /\ SumOfRows(rows, Every, BoundOf) = SumOf(c) /\ SumOf(c) \in Nat
  BY BoundsOfRows
<1>5. ASSUME NEW k \in 1 .. n
      PROVE  /\ a[k] \in Int /\ b[k] \in Int /\ c[k] \in Int
             /\ -c[k] <= a[k] - b[k] /\ a[k] - b[k] <= c[k]
  <2> DEFINE row == rows[k]
             page == IF row.vat = q THEN vat(row) ELSE 0
             owed == AmountOf(RowTotals(row, TRUE, TRUE), "Owed", q)
  <2>1. row \in Row
    BY <1>1
  <2>2. /\ page \in Int /\ owed \in Int
        /\ -(2 * Abs(row.count) + 50) <= page - owed
        /\ page - owed <= 2 * Abs(row.count) + 50
    BY <2>1, VATOfRowOnPage
  <2>3. a[k] = page /\ b[k] = owed /\ c[k] = 2 * Abs(row.count) + 50
    BY DEF BoundOf
  <2>4. Abs(row.count) \in Int
    <3>1. row.count \in Int
      BY <2>1, AmountsAreInt
    <3> QED
      BY <3>1 DEF Abs
  <2> HIDE DEF a, b, c, page, owed, row
  <2> QED
    BY <2>2, <2>3, <2>4
<1>6. a \in Seq(Int) /\ Len(a) = n
  <2> DEFINE x(k) == IF rows[k].vat = q THEN vat(rows[k]) ELSE 0
  <2>1. \A k \in 1 .. n : x(k) \in Int
    BY <1>5
  <2>2. a = [k \in 1 .. n |-> x(k)]
    OBVIOUS
  <2> HIDE DEF x, a, n
  <2> QED
    BY <1>1, <2>1, <2>2
<1> HIDE DEF a, b, c, n
<1>7. Near(a, b, c, n)
  BY <1>1, <1>3, <1>4, <1>5, <1>6 DEF Near
<1>8. -SumOf(c) <= SumOf(a) - SumOf(b) /\ SumOf(a) - SumOf(b) <= SumOf(c)
  BY <1>7, SumsNear
<1>9. SumOf(a) \in Int /\ SumOf(b) \in Int
  BY <1>3, <1>6, SumIsInt
<1> DEFINE owed     == AmountOf(Totals(rows, TRUE, TRUE), "Owed", q)
           rounding == SumOfRows(rows, Every, BoundOf)
<1>10. owed = SumOf(b) /\ rounding = SumOf(c)
  BY <1>3, <1>4
<1> HIDE DEF owed, rounding
<1>11. /\ owed \in Int /\ rounding \in Int
       /\ -rounding <= SumOf(a) - owed /\ SumOf(a) - owed <= rounding
  BY <1>4, <1>8, <1>9, <1>10
<1> QED
  BY <1>2, <1>9, <1>11 DEF owed, rounding

(* A sum that the page shows is the one that is printed, but for an amount *)
(* near half an ore (invoice.js:179, pdf.go:136).                          *)
LEMMA SumsAgree ==
    ASSUME NEW amount \in Int, Rows \in Seq(Row)
    PROVE  Agree(ToFixed(amount, Rows), Written(amount), amount)
<1>1. PICK b \in Nat \ {0} : b = 100 * Ore
  BY KrIsPositive
<1>2. PICK e \in Nat : e = DoubleError(Rows)
  BY DoubleErrorIsNat
<1>3. ASSUME NEW sum \in RoundDiv(amount - e, b) .. RoundDiv(amount + e, b),
             sum # RoundBank(amount, b)
      PROVE  /\ Abs(2 * (amount % b) - b) <= 2 * e
             /\ Abs(b * (sum - RoundBank(amount, b))) <= b + e
  BY <1>3, ShownAsPrinted
<1> QED
  BY <1>1, <1>2, <1>3 DEF Agree, NearHalfOre, ToFixed, Written

(* VAT that is known up to the roundings of the rows, and rounded twice.   *)
LEMMA VATAgrees ==
    ASSUME NEW owed \in Int, NEW amount \in Int, NEW r \in Int, Rows \in Seq(Row),
           -r <= amount - owed, amount - owed <= r, NEW sum \in ToFixed(amount, Rows)
    PROVE  Abs(100 * Ore * (sum - Written(owed))) <= 100 * Ore + r + DoubleError(Rows)
<1>1. PICK b \in Nat \ {0} : b = 100 * Ore
  BY KrIsPositive
<1>2. PICK e \in Nat : e = DoubleError(Rows)
  BY DoubleErrorIsNat
<1>3. sum \in RoundDiv(amount - e, b) .. RoundDiv(amount + e, b)
  BY <1>1, <1>2 DEF ToFixed
<1>4. /\ sum \in Int /\ -(b + 2 * e) <= 2 * (b * sum - amount)
      /\ 2 * (b * sum - amount) <= b + 2 * e
  BY <1>3, ShownIsNear
<1>5. PICK w \in Int : /\ w = Written(owed)
                       /\ -b <= 2 * (b * w - owed) /\ 2 * (b * w - owed) <= b
  BY <1>1, RoundBankIsNear DEF Written
<1>6. PICK bs \in Int, bw \in Int : bs = b * sum /\ bw = b * w
  BY <1>4
<1>7. b * (sum - w) = bs - bw
  BY <1>4, <1>6
<1>8. -(b + r + e) <= bs - bw /\ bs - bw <= b + r + e
  <2>1. /\ -(b + 2 * e) <= 2 * (bs - amount) /\ 2 * (bs - amount) <= b + 2 * e
        /\ -b <= 2 * (bw - owed) /\ 2 * (bw - owed) <= b
    BY <1>4, <1>5, <1>6
  <2>2. PICK d \in Int, f \in Int, g \in Int : d = bs - amount /\ f = bw - owed /\ g = amount - owed
    BY <1>6
  <2>3. bs - bw = d - f + g
    BY <1>6, <2>2
  <2>4. -r <= g /\ g <= r
    BY <2>2
  <2> QED
    BY <2>1, <2>2, <2>3, <2>4
<1>9. Abs(bs - bw) <= b + r + e
  BY <1>8 DEF Abs
<1> QED
  BY <1>1, <1>2, <1>5, <1>7, <1>9

(* For any rows that name their services: the page of the invoice shows    *)
(* the amounts that are printed and booked, but for the ore that rounding  *)
(* doubles and decimals in two ways can cost (invoice.js:179, pdf.go:136). *)
THEOREM PrintsAreAsShown == Spec => []PrintedAsShown
<1>1. TypeOK => PrintedAsShown
  <2> SUFFICES ASSUME TypeOK, Exists, ServicesNamed PROVE PrintedAsShown
    BY DEF PrintedAsShown
  <2> DEFINE page == PageTotals(TRUE, Rows)
             totals == Totals(Rows, TRUE, TRUE)
             print == Printout(invoice)
  <2>1. Rows \in Seq(Row)
    BY RowsTyped DEF Rows
  <2>2. /\ page.ROTRUT = ToFixed(totals.ROTRUT, Rows)
        /\ page.Customer = ToFixed(totals.Incl - totals.ROTRUT, Rows)
    BY <2>1, RebateOnPage DEF ServicesNamed
  <2>3. totals \in TotalsType
    BY <2>1, TotalsTyped
  <2>4. /\ print.totalinclrut = Written(totals.Incl - totals.ROTRUT)
        /\ print.totalrut = Written(totals.ROTRUT)
        /\ print.due = totals.Incl - totals.ROTRUT
    BY DEF Printout, Rows
  <2> HIDE DEF totals
  <2>5. totals.ROTRUT \in Int /\ totals.Incl - totals.ROTRUT \in Int
    BY <2>3 DEF TotalsType
  <2> HIDE DEF page, print
  <2>6. /\ Agree(page.Customer, print.totalinclrut, print.due)
        /\ Agree(page.ROTRUT, print.totalrut, totals.ROTRUT)
    BY <2>1, <2>2, <2>4, <2>5, SumsAgree
  <2>7. ASSUME NEW q \in Rates, VATAmount[q] = VATLabel[q], NEW sum \in page.VAT[q]
        PROVE  Abs(100 * Ore * (sum - Written(totals.VAT[q] + totals.ROTRUTVAT[q])))
                   <= 100 * Ore + Rounding + DoubleError(Rows)
    <3>1. AmountOf(totals, "Owed", q) = totals.VAT[q] + totals.ROTRUTVAT[q]
      BY DEF AmountOf
    <3>2. /\ AmountOf(totals, "Owed", q) \in Int /\ Rounding \in Int
          /\ \E amount \in Int : /\ page.VAT[q] = ToFixed(amount, Rows)
                                 /\ -Rounding <= amount - AmountOf(totals, "Owed", q)
                                 /\ amount - AmountOf(totals, "Owed", q) <= Rounding
      BY <2>1, <2>7, VATOnPage, RoundingOfRows DEF page, totals, Rows
    <3> QED
      BY <2>1, <2>7, <3>1, <3>2, VATAgrees
  <2> QED
    BY <2>6, <2>7 DEF PrintedAsShown, page, print, totals
<1> QED
  BY <1>1, TypeCorrect, PTL
=============================================================================
