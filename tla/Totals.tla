------------------------------- MODULE Totals -------------------------------
(***************************************************************************)
(* The amounts of a document: models/invoice.go, and the same amounts as   *)
(* the page of the document shows them, static/js/invoice.js.              *)
(*                                                                         *)
(* Prices are in whole ore and counts in hundredths, for both columns are  *)
(* numeric(10,2).  An amount per piece is counted in units, of which       *)
(* 10 * Tenth make an ore, and a total in hundredths of a unit.  So the    *)
(* products of decimal.Mul are exact here as they are there, and only      *)
(* decimal.Div rounds, to a unit: decimal keeps 16 digits, Tenth = 10^13.  *)
(***************************************************************************)
EXTENDS Integers, Sequences

CONSTANTS
    NULL,           (* no value: nil in Go, NULL in SQL                      *)
    Tenth,          (* units in a tenth of an ore                            *)
    Mantissa        (* numbers up to here are exact in a double: 2^53        *)

ASSUME TotalsAssumption ==
    /\ Tenth \in Nat \ {0}
    /\ Mantissa \in Nat \ {0}
    /\ NULL \notin Int

Ore == 10 * Tenth
Abs(n) == IF n < 0 THEN -n ELSE n

-----------------------------------------------------------------------------
(* Rates of VAT: what the page calls them, and what is computed with.      *)
VATTypes == 0 .. 3
VATLabel == [v \in VATTypes |-> << 25, 12, 6, 0 >>[v + 1]]
VATAmount == [v \in VATTypes |-> << 25, 12, 60, 0 >>[v + 1]]

(* Kinds of work.  The totals know three rates; rows at 0 % are in none.   *)
ROTServices == 0 .. 6
RUTServices == 7 .. 19
Rates == 0 .. 2

Row == [cost : Int, count : Int, vat : VATTypes,
        is_rot_rut : BOOLEAN, service : ROTServices \cup RUTServices \cup {NULL},
        unit : 0 .. 3, hours : Int \cup {NULL}]

IsWork(row) == row.is_rot_rut /\ row.service # NULL
IsROT(row) == row.service \in ROTServices
IsRUT(row) == row.service \in RUTServices

-----------------------------------------------------------------------------
(* Division that rounds half away from zero (decimal.Div), half to even    *)
(* (StringFixedBank) and towards zero (IntPart), all for b > 0.            *)
RoundDiv(a, b) ==
    IF a < 0 THEN -((2 * (-a) + b) \div (2 * b)) ELSE (2 * a + b) \div (2 * b)

RoundBank(a, b) ==
    LET low == a \div b
        up  == \/ 2 * (a % b) > b
               \/ 2 * (a % b) = b /\ low % 2 = 1
    IN  IF up THEN low + 1 ELSE low

IntPart(a, b) == IF a < 0 THEN -((-a) \div b) ELSE a \div b

(* What is left of an amount without the VAT in it.                        *)
Excluding(price, vat) == RoundDiv(100 * price, 100 + VATAmount[vat])
TotalExcluding(total, vat) == 100 * RoundDiv(total, 100 + VATAmount[vat])

-----------------------------------------------------------------------------
(* One row: what a piece costs the customer, and what the agency pays.     *)
PriceInclRUTOfAll(row) == 7 * row.cost * Tenth

PriceInclRUT(row) ==
    CASE ~IsWork(row)               -> row.cost * Ore
      [] IsWork(row) /\ IsROT(row)  -> 7 * row.cost * Tenth
      [] IsWork(row) /\ ~IsROT(row) -> 5 * row.cost * Tenth

ROTRUTOfRow(row) ==
    CASE ~IsWork(row)               -> 0
      [] IsWork(row) /\ IsROT(row)  -> 3 * row.cost * Tenth * row.count
      [] IsWork(row) /\ ~IsROT(row) -> PriceInclRUT(row) * row.count

(* row.Total, computed by the query of InvoiceList. *)
TotalOfRow(row) == row.cost * Ore * row.count

ExclOfRow(row) == Excluding(row.cost * Ore, row.vat) * row.count

VATOfCustomer(row) ==
    (PriceInclRUT(row) - Excluding(PriceInclRUT(row), row.vat)) * row.count

VATOfRow(row, inclVAT, inclROTRUT) ==
    IF inclVAT /\ inclROTRUT THEN VATOfCustomer(row) ELSE TotalOfRow(row) - ExclOfRow(row)

ShownTotal(row, inclVAT, inclROTRUT) ==
    CASE inclVAT /\ inclROTRUT  -> PriceInclRUT(row) * row.count
      [] inclVAT /\ ~inclROTRUT -> TotalOfRow(row)
      [] ~inclVAT               -> ExclOfRow(row)

(* An amount that belongs to the rate of one row. *)
AtRate(vat, amount) == [r \in Rates |-> IF r = vat THEN amount ELSE 0]

RowTotalsNoAgencyVAT(row, inclVAT, inclROTRUT) ==
    [Total     |-> ShownTotal(row, inclVAT, inclROTRUT),
     Incl      |-> TotalOfRow(row),
     Excl      |-> ExclOfRow(row),
     VAT       |-> AtRate(row.vat, VATOfRow(row, inclVAT, inclROTRUT)),
     Customer  |-> PriceInclRUT(row) * row.count,
     ROTRUT    |-> ROTRUTOfRow(row),
     TotalVAT  |-> AtRate(row.vat, ExclOfRow(row)),
     ROTRUTVAT |-> AtRate(row.vat, 0)]

(* InvoiceRow.Totals *)
RowTotals(row, inclVAT, inclROTRUT) ==
    [Total     |-> ShownTotal(row, inclVAT, inclROTRUT),
     Incl      |-> TotalOfRow(row),
     Excl      |-> ExclOfRow(row),
     VAT       |-> AtRate(row.vat, VATOfRow(row, inclVAT, inclROTRUT)),
     Customer  |-> PriceInclRUT(row) * row.count,
     ROTRUT    |-> ROTRUTOfRow(row),
     TotalVAT  |-> AtRate(row.vat, ExclOfRow(row)),
     ROTRUTVAT |-> AtRate(row.vat, ROTRUTOfRow(row) - TotalExcluding(ROTRUTOfRow(row), row.vat))]

-----------------------------------------------------------------------------
(* All rows of a document: InvoiceTotals.Add and Invoice.Totals.           *)
ZeroTotals ==
    [Total |-> 0, Incl |-> 0, Excl |-> 0, VAT |-> AtRate(0, 0), Customer |-> 0,
     ROTRUT |-> 0, TotalVAT |-> AtRate(0, 0), ROTRUTVAT |-> AtRate(0, 0)]

AddRates(a, b) == [r \in Rates |-> a[r] + b[r]]

Add(a, b) ==
    [Total     |-> a.Total + b.Total,
     Incl      |-> a.Incl + b.Incl,
     Excl      |-> a.Excl + b.Excl,
     VAT       |-> AddRates(a.VAT, b.VAT),
     Customer  |-> a.Customer + b.Customer,
     ROTRUT    |-> a.ROTRUT + b.ROTRUT,
     TotalVAT  |-> AddRates(a.TotalVAT, b.TotalVAT),
     ROTRUTVAT |-> AddRates(a.ROTRUTVAT, b.ROTRUTVAT)]

Totals(rows, inclVAT, inclROTRUT) ==
    LET sum[k \in 0 .. Len(rows)] ==
            IF k = 0 THEN ZeroTotals
                     ELSE Add(sum[k - 1], RowTotals(rows[k], inclVAT, inclROTRUT))
    IN  sum[Len(rows)]

SumOf(amounts) ==
    LET sum[k \in 0 .. Len(amounts)] == IF k = 0 THEN 0 ELSE sum[k - 1] + amounts[k]
    IN  sum[Len(amounts)]

(* The sum of f over the rows that satisfy p, in hundredths of a unit.     *)
SumOfRows(rows, p(_), f(_)) ==
    SumOf([k \in DOMAIN rows |-> IF p(rows[k]) THEN f(rows[k]) ELSE 0])

-----------------------------------------------------------------------------
(* update_totals of the page.  Its rates are those of the labels, its VAT  *)
(* is that of the whole price, and a document that is not applicable for   *)
(* ROT/RUT has no rebate.  A service that is missing counts as ROT, since  *)
(* null < 7.                                                               *)
PageVATAmount == VATLabel

PageWork(rut_applicable, row) == rut_applicable /\ row.is_rot_rut

(* The page computes with doubles.  Of its operations on a row, at most    *)
(* twelve, and of its additions each is off by 1 / Mantissa of the amounts *)
(* it is about, and the quotient in the VAT of a row is half a hundredth   *)
(* of a unit off here, where it is rounded to one; with a reserve, a sum   *)
(* over the rows is what it is here but for                                *)
DoubleError(rows) ==
    LET all(row)  == TRUE
        size(row) == Abs(TotalOfRow(row))
    IN  ((Len(rows) + 16) * SumOfRows(rows, all, size)) \div Mantissa + Len(rows) + 1

(* toFixed(2), in ore: the double is rounded half away from zero, and an   *)
(* amount near half an ore goes the way that its double lies.              *)
ToFixed(amount, rows) ==
    RoundDiv(amount - DoubleError(rows), 100 * Ore)
        .. RoundDiv(amount + DoubleError(rows), 100 * Ore)

(* What the page may show for each of its sums; it hides one that is not   *)
(* positive.                                                               *)
PageTotals(rut_applicable, rows) ==
    LET work(row)     == PageWork(rut_applicable, row)
        rebate(row)   == (IF IsRUT(row) THEN 5 ELSE 3) * row.cost * Tenth * row.count
        vat(row)      == TotalOfRow(row)
                             - RoundDiv(100 * TotalOfRow(row), 100 + PageVATAmount[row.vat])
        all(row)      == TRUE
        incl          == SumOfRows(rows, all, TotalOfRow)
        rotrut        == SumOfRows(rows, work, rebate)
        ofRate(r)     == LET at(row) == row.vat = r IN SumOfRows(rows, at, vat)
    IN  [Incl     |-> ToFixed(incl, rows),
         ROTRUT   |-> ToFixed(rotrut, rows),
         Customer |-> ToFixed(incl - rotrut, rows),
         VAT      |-> [r \in Rates |-> ToFixed(ofRate(r), rows)]]
=============================================================================
