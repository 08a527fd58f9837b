------------------------ MODULE DocumentsProperties ------------------------
(***************************************************************************)
(* What the amounts, the files and the pages of a document promise.        *)
(***************************************************************************)
EXTENDS Documents

TypeOK ==
    /\ invoice \in Invoice \cup {NULL}
    /\ rut \in [Types -> Request \cup {NULL}]

Exists == invoice # NULL
Rows == invoice.rows
Every(row) == TRUE

(* The most that Div can have put into a sum over the rows, in hundredths  *)
(* of a unit: half a unit in the price, in the rebated price and in the    *)
(* agency's part.                                                          *)
Rounding ==
    LET ofRow(row) == 2 * Abs(row.count) + 50
    IN  SumOfRows(Rows, Every, ofRow)

(* The amount of rows at 0 %, for which the file has no account. *)
ZeroRated ==
    LET atZero(row) == row.vat = 3
    IN  SumOfRows(Rows, atZero, TotalOfRow)

BelopOf(voucher) == SumOf([k \in DOMAIN voucher |-> voucher[k].Belopp])

-----------------------------------------------------------------------------
(* The customer is asked for one amount: the sum at the foot of the print, *)
(* the sum in its payment box, and what the SIE file books as owed by the  *)
(* customer are computed in different ways (pdf.go:136,138, sie.go:57) and *)
(* are the same to the ore; the QR code, whose amount is not rounded       *)
(* (pdf.go:116, qr.go:22), is within half an ore of them; and with what    *)
(* the agency pays they are the price of all rows.                         *)
OneAmountToPay ==
    Exists =>
        LET print == Printout(invoice)
            totals == Totals(Rows, TRUE, TRUE)
        IN  /\ print.total = print.totalinclrut
            /\ Written(SaleVoucher(invoice)[1].Belopp) = print.total
            /\ Abs(100 * Ore * print.total - print.due) <= 50 * Ore
            /\ totals.Customer + totals.ROTRUT = totals.Incl

(* Every voucher of the SIE file (sie.go:52-83) balances, but for rows at  *)
(* 0 %, whose sale it books on no account.  It has no account for rounding *)
(* either, so that the written amounts, each rounded for itself, may miss  *)
(* zero by half an ore for each of the eight.                              *)
VouchersBalance ==
    Exists =>
        \A n \in DOMAIN SieFile(invoice) :
            LET voucher == SieFile(invoice)[n]
                missing == IF n = 1 THEN ZeroRated ELSE 0
            IN  Abs(100 * Ore * BelopOf(voucher) - missing)
                    <= 50 * Ore * Len(voucher) + Rounding

(* What the customer is asked to pay, and what the agency is, is on the    *)
(* page of the invoice (invoice.js:129-185) what it is on its print, on an *)
(* invoice that is applicable for ROT/RUT and names the service of all     *)
(* ROT/RUT work.  The page rounds doubles half away from zero, the print   *)
(* decimals half to even: an amount that is half an ore, as 15.075 is, or  *)
(* nearer to it than doubles are exact, may differ by one.  The VAT that   *)
(* is booked at each rate, where both agree on it, is the VAT of the page  *)
(* but for the roundings of both.                                          *)
ServicesNamed ==
    \A k \in DOMAIN Rows : Rows[k].is_rot_rut => Rows[k].service # NULL

NearHalfOre(amount) ==
    Abs(2 * (amount % (100 * Ore)) - 100 * Ore) <= 2 * DoubleError(Rows)

Agree(shown, printed, amount) ==
    \A sum \in shown :
        sum # printed => /\ NearHalfOre(amount)
                         /\ Abs(100 * Ore * (sum - printed)) <= 100 * Ore + DoubleError(Rows)

PrintedAsShown ==
    (Exists /\ invoice.rut_applicable /\ ServicesNamed) =>
        LET page == PageTotals(TRUE, Rows)
            print == Printout(invoice)
            totals == Totals(Rows, TRUE, TRUE)
        IN  /\ Agree(page.Customer, print.totalinclrut, print.due)
            /\ Agree(page.ROTRUT, print.totalrut, totals.ROTRUT)
            /\ \A r \in {v \in Rates : VATAmount[v] = VATLabel[v]} :
                  \A sum \in page.VAT[r] :
                      Abs(100 * Ore * (sum - Written(totals.VAT[r] + totals.ROTRUTVAT[r])))
                          <= 100 * Ore + Rounding + DoubleError(Rows)

(* The pages of the requests of an invoice together name as their maximum  *)
(* what its customer was let off (rut.go:40-57 against invoice.go:259-275).*)
MaximumIsTheRebate ==
    Exists =>
        MaxAmount("RUT", Rows) + MaxAmount("ROT", Rows) = Totals(Rows, TRUE, TRUE).ROTRUT

(* Where the page of a RUT request offers its file (rut.go:59), fetching   *)
(* it makes the file or says why not: no sum or date is missing, whatever  *)
(* was revoked since.  What it refuses is a row of one of two services and *)
(* a number that does not begin with its digits.                           *)
OfferedExportIsMade ==
    (Exists /\ rut["RUT"] # NULL /\ CanExport("RUT", rut["RUT"], invoice)) =>
        LET file == ExportFile("RUT", rut["RUT"], invoice)
            refused(row) == row.service \in NotImplemented
        IN  \/ file.answer = "file"
            \/ /\ file.answer = "error"
               /\ (\E k \in DOMAIN Rows : refused(Rows[k])) \/ NumberRefused(invoice.pnr)

(* The file adds up (export.go:100-150): the price of the work is what the *)
(* agency is asked for and what the customer has paid, but for the krona   *)
(* that rounding one and cutting off the other can cost; and it leaves out *)
(* nothing but the work that has no hours.                                 *)
FileAddsUp ==
    (Exists /\ rut["RUT"] # NULL /\ ExportFile("RUT", rut["RUT"], invoice).answer = "file") =>
        LET file == ExportFile("RUT", rut["RUT"], invoice)
            noHours(row) == IsWork(row) /\ ~IsCounted(row)
        IN  /\ Abs(file.PrisForArbete - file.BetaltBelopp - file.BegartBelopp) <= 1
            /\ WorkCost(Rows) + OtherCost(Rows) + SumOfRows(Rows, noHours, TotalOfRow)
                   = Totals(Rows, TRUE, FALSE).Total

-----------------------------------------------------------------------------
(* views/rut/export.go:50: "Convert PNR to format YYYYMMDDXXXX".  A number *)
(* in any of the forms that the page names (static/js/invoice.js:312) has  *)
(* two digits of century and two of the year before the MMDDXXXX.          *)
AcceptedNumber(pnr) == pnr # NULL /\ ~pnr.prefix /\ (pnr.dash \/ pnr.century # NULL)

NumberConverted ==
    (Exists /\ rut["RUT"] # NULL /\ AcceptedNumber(invoice.pnr)) =>
        LET file == ExportFile("RUT", rut["RUT"], invoice)
        IN  file.answer = "file" => Len(file.Kopare) = 2

(* models/invoice.go:73: "6 %".  The VAT in an amount is the part that the *)
(* label of its rate says.                                                 *)
VATAsLabelled ==
    Exists =>
        \A k \in DOMAIN Rows :
            LET row == Rows[k]
            IN  Abs((100 + VATLabel[row.vat]) * ExclOfRow(row) - 100 * TotalOfRow(row))
                    <= (100 + VATLabel[row.vat]) * Abs(row.count)
=============================================================================
