------------------------------ MODULE Exports ------------------------------
(***************************************************************************)
(* What the program writes about a document for others to read: the print  *)
(* and its QR code, the SIE file for the bookkeeping, and the page and the *)
(* file of a ROT/RUT request for the tax agency.                           *)
(***************************************************************************)
EXTENDS Totals

Types == {"RUT", "ROT"}

(* A personal identity number, which is free text, by its first digits:    *)
(* two before the year, if there are any (the century, when it is right),  *)
(* and those of the year.  dash: "-" stands before the last four; prefix:  *)
(* it begins with text that is no number, as in SE800101-1234.             *)
PNR == [prefix : BOOLEAN, century : {NULL} \cup (0 .. 99), year : 0 .. 99, dash : BOOLEAN]
           \cup {NULL}

Request == [status : {"pending", "sent"}, requested_sum : Int \cup {NULL}]

Invoice == [rows : Seq(Row), rut_applicable : BOOLEAN, pnr : PNR,
            is_invoiced : BOOLEAN, is_paid : BOOLEAN, date_paid : BOOLEAN]

ASSUME ExportsAssumption == NULL \notin Invoice /\ NULL \notin Request

Kr == 100 * Ore                         \* of an amount per piece
Written(total) == RoundBank(total, 100 * Ore)   \* in ore, StringFixedBank(2)

-----------------------------------------------------------------------------
(* generatePDF: two sums to pay and the rebate, as they are printed, and   *)
(* the amount of the QR code, which has all its digits.                    *)
PrintoutDueOfRows(invoice) ==
    LET totals == Totals(invoice.rows, TRUE, TRUE)
    IN  [total        |-> Written(totals.Total),
         totalinclrut |-> Written(totals.Incl - totals.ROTRUT),
         totalrut     |-> Written(totals.ROTRUT),
         due          |-> totals.Incl]

Printout(invoice) ==
    LET totals == Totals(invoice.rows, TRUE, TRUE)
    IN  [total        |-> Written(totals.Total),
         totalinclrut |-> Written(totals.Incl - totals.ROTRUT),
         totalrut     |-> Written(totals.ROTRUT),
         due          |-> totals.Incl - totals.ROTRUT]

-----------------------------------------------------------------------------
(* The SIE file: a voucher is a sequence of amounts on accounts.           *)
Transaction(account, amount) == [KontoNr |-> account, Belopp |-> amount]

SaleVoucher(invoice) ==
    LET totals == Totals(invoice.rows, TRUE, TRUE)
        vat(r) == totals.VAT[r] + totals.ROTRUTVAT[r]
    IN  << Transaction(1510, totals.Customer),
           Transaction(1513, totals.ROTRUT),
           Transaction(2611, -vat(0)),
           Transaction(2620, -vat(1)),
           Transaction(2630, -vat(2)),
           Transaction(3001, -totals.TotalVAT[0]),
           Transaction(3002, -totals.TotalVAT[1]),
           Transaction(3003, -totals.TotalVAT[2]) >>

PaymentVoucher(invoice) ==
    LET totals == Totals(invoice.rows, TRUE, TRUE)
    IN  << Transaction(1510, -totals.Customer), Transaction(1930, totals.Customer) >>

(* Transaction.Write leaves out what is exactly zero, and rounds the rest. *)
Line(t) ==
    IF t.Belopp = 0 THEN << >> ELSE << Transaction(t.KontoNr, Written(t.Belopp)) >>

WrittenVoucher(voucher) ==
    LET lines[k \in 0 .. Len(voucher)] ==
            IF k = 0 THEN << >> ELSE lines[k - 1] \o Line(voucher[k])
    IN  lines[Len(voucher)]

(* SIE.HandleGet; an error is no file. *)
SieFile(invoice) ==
    CASE ~invoice.is_invoiced -> << >>
      [] invoice.is_invoiced /\ ~invoice.is_paid -> << WrittenVoucher(SaleVoucher(invoice)) >>
      [] invoice.is_invoiced /\ invoice.is_paid ->
           << WrittenVoucher(SaleVoucher(invoice)), WrittenVoucher(PaymentVoucher(invoice)) >>

-----------------------------------------------------------------------------
(* The page of a ROT/RUT request: the rows it is about, the most that can  *)
(* be asked for, and whether it offers the export.                         *)
OfType(type, row) ==
    IsWork(row) /\ IF type = "RUT" THEN IsRUT(row) ELSE IsROT(row)

MaxAmountOfAllWork(type, rows) ==
    LET share(row) == (IF type = "ROT" THEN 3 ELSE 5) * row.cost * Tenth * row.count
    IN  SumOfRows(rows, IsWork, share)

MaxAmount(type, rows) ==
    LET share(row) == (IF type = "ROT" THEN 3 ELSE 5) * row.cost * Tenth * row.count
        ofType(row) == OfType(type, row)
    IN  SumOfRows(rows, ofType, share)

CanExportWithoutSum(type, request, invoice) ==
    /\ \E k \in DOMAIN invoice.rows : OfType(type, invoice.rows[k])
    /\ invoice.pnr # NULL

CanExport(type, request, invoice) ==
    /\ \E k \in DOMAIN invoice.rows : OfType(type, invoice.rows[k])
    /\ invoice.pnr # NULL
    /\ request.requested_sum \notin {NULL, 0}

-----------------------------------------------------------------------------
(* The file of a request.  The pattern of the short form of an identity    *)
(* number is not anchored: it finds itself in the long form and behind any *)
(* text as well, so every number with a dash is taken for a short one; the *)
(* year is then read from where the text begins, which can fail.           *)
Digits(pnr) ==
    IF pnr = NULL THEN << >>
    ELSE (IF pnr.prefix THEN << NULL >> ELSE << >>)
             \o (IF pnr.century = NULL THEN << pnr.year >> ELSE << pnr.century, pnr.year >>)

NumberRefused(pnr) == pnr # NULL /\ pnr.dash /\ pnr.prefix

Kopare(pnr) ==
    IF pnr # NULL /\ pnr.dash
    THEN IF Head(Digits(pnr)) > 20 THEN << 19 >> \o Digits(pnr) ELSE << 20 >> \o Digits(pnr)
    ELSE Digits(pnr)

HoursOf(row) ==
    IF row.unit = 2 THEN IntPart(row.count, 100)
    ELSE IF row.hours # NULL THEN row.hours ELSE 0

(* Rows without hours are in neither sum.                                  *)
IsCounted(row) == IsWork(row) /\ HoursOf(row) # 0
IsNotCounted(row) == ~IsCounted(row)
IsOther(row) == ~IsWork(row)
NotImplemented == {18, 19}      \* TransportTillForsaljning, TvattVidTvattinrattning

WorkCost(rows) == SumOfRows(rows, IsCounted, TotalOfRow)
OtherCost(rows) == SumOfRows(rows, IsOther, TotalOfRow)

Hours(rows, service) ==
    LET of(row) == IsCounted(row) /\ row.service = service
    IN  SumOfRows(rows, of, HoursOf)

Refused == [answer |-> "error"]
Crashed == [answer |-> "panic"]

WorkRefused(rows) ==
    \E k \in DOMAIN rows : IsCounted(rows[k]) /\ rows[k].service \in NotImplemented

(* Export.HandleGet, in the order of the code: the number is looked at     *)
(* first, whatever the type, and a request without a sum or a payment date *)
(* is dereferenced before the rows are looked at.                          *)
ExportFile(type, request, invoice) ==
    IF NumberRefused(invoice.pnr) \/ type = "ROT" THEN Refused
    ELSE IF request.requested_sum = NULL \/ ~invoice.date_paid THEN Crashed
    ELSE IF WorkRefused(invoice.rows) THEN Refused
    ELSE [answer        |-> "file",
          Kopare        |-> Kopare(invoice.pnr),
          BegartBelopp  |-> request.requested_sum,
          PrisForArbete |-> RoundBank(WorkCost(invoice.rows), 100 * Kr),
          BetaltBelopp  |-> IntPart(WorkCost(invoice.rows)
                                       - 100 * Kr * request.requested_sum, 100 * Kr),
          Ovrigkostnad  |-> IntPart(OtherCost(invoice.rows), 100 * Kr),
          UtfortArbete  |-> [s \in RUTServices |-> Hours(invoice.rows, s)]]
=============================================================================
