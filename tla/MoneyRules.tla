----------------------------- MODULE MoneyRules -----------------------------
(***************************************************************************)
(* The money arithmetic documents rest on: totals of a quotation, a        *)
(* negotiated total spread over its lines, the discount it amounts to,     *)
(* instalments cut from percentages, VAT split off an expense and tax      *)
(* withheld from it.                                                       *)
(*                                                                         *)
(* An amount is a whole number of cents, a percentage a whole number of    *)
(* basis points (15% is 1500), which is what numeric(14,2) and             *)
(* numeric(5,2) columns hold.                                              *)
(***************************************************************************)
EXTENDS Integers, Sequences, FiniteSets, Folds

Whole == 10000 \* 100% in basis points

\* a / b to the nearest cent, halves away from zero (Decimal.ROUND_HALF_UP).
RoundHalfUp(a, b) ==
  IF a >= 0 THEN (2 * a + b) \div (2 * b) ELSE -((b - 2 * a) \div (2 * b))

Total(amounts) ==
  MapThenFoldSet(LAMBDA a, b : a + b, 0, LAMBDA n : amounts[n],
                 LAMBDA S : CHOOSE n \in S : TRUE, DOMAIN amounts)

-----------------------------------------------------------------------------
(* Quotation totals.                                                       *)

\* A VAT-inclusive figure split; the tax is what the rounded subtotal leaves.
DeriveFromGrandTotal(grand, rate) ==
  LET sub == RoundHalfUp(grand * Whole, Whole + rate) IN
  [sub |-> sub, tax |-> grand - sub, total |-> grand]

Null == -1

\* A calculated line: the list price, less the VAT a VAT-inclusive sheet holds.
CalculatedLine(list, sheetRate, margin, quantity) ==
  LET net == IF sheetRate \in {Null, 0} THEN list ELSE DeriveFromGrandTotal(list, sheetRate).sub
  IN  [net |-> net, sheetVat |-> list - net, sheetRate |-> sheetRate,
       margin |-> margin, quantity |-> quantity]

\* A line priced off a VAT-inclusive sheet at the quotation's rate sells for
\* the sheet figure plus margin; any other line has no such figure.
SheetGross(line, rate) ==
  IF line.sheetRate \in {Null, 0} \/ line.sheetRate # rate THEN Null
  ELSE RoundHalfUp((line.net + line.sheetVat) * (Whole + line.margin), Whole) * line.quantity

\* The net price of a unit with its margin, times the units.
ListTotal(line) == RoundHalfUp(line.net * (Whole + line.margin), Whole) * line.quantity

\* One line off the sheet and there is no sheet total to keep.
QuoteTotals(nets, grosses, rate) ==
  LET sub   == Total(nets)
      total == IF nets # <<>> /\ \A n \in DOMAIN grosses : grosses[n] # Null
               THEN Total(grosses)
               ELSE sub + RoundHalfUp(sub * rate, Whole)
  IN  [sub |-> sub, tax |-> total - sub, total |-> total]

\* Mutant: left-over cents go to the first lines.
AllocateToFirst(lists, target) ==
  LET weights == IF Total(lists) = 0 THEN [n \in DOMAIN lists |-> 1] ELSE lists
      sum     == Total(weights)
      floors  == [n \in DOMAIN lists |-> (target * weights[n]) \div sum]
  IN  [n \in DOMAIN lists |-> IF n <= target - Total(floors) THEN floors[n] + 1 ELSE floors[n]]

\* Largest remainder, ties to the earlier line; equal weights when all are zero.
AllocateToLines(lists, target) ==
  LET weights  == IF Total(lists) = 0 THEN [n \in DOMAIN lists |-> 1] ELSE lists
      sum      == Total(weights)
      floors   == [n \in DOMAIN lists |-> (target * weights[n]) \div sum]
      frac     == [n \in DOMAIN lists |-> (target * weights[n]) % sum]
      Ahead(n) == {k \in DOMAIN lists : frac[k] > frac[n] \/ (frac[k] = frac[n] /\ k < n)}
  IN  [n \in DOMAIN lists |->
         floors[n] + IF Cardinality(Ahead(n)) < target - Total(floors) THEN 1 ELSE 0]

\* The gap between the calculated and the quoted total; below zero, a premium.
ComputeDiscount(calculated, quoted) ==
  [amount  |-> calculated - quoted,
   percent |-> IF calculated = 0 THEN 0
               ELSE RoundHalfUp((calculated - quoted) * Whole, calculated)]

NoThreshold == -1

DiscountNeedsSignOff(percent, approved, threshold) ==
  ~approved /\ threshold # NoThreshold /\ percent > threshold

-----------------------------------------------------------------------------
(* Payment schedules.                                                      *)

PaymentTermsMismatch(percents) == percents # <<>> /\ Total(percents) # Whole

ScheduleMismatch(amounts, value) == amounts # <<>> /\ Total(amounts) # value

\* The row that takes what rounding left over: the first of the largest.
LargestRow(percents) ==
  CHOOSE n \in DOMAIN percents :
    /\ \A k \in DOMAIN percents : percents[k] <= percents[n]
    /\ \A k \in 1..(n - 1) : percents[k] < percents[n]

\* No schedule (empty) when the percentages do not make a whole.
InstalmentsFromPercents(percents, value) ==
  LET rounded == [n \in DOMAIN percents |-> RoundHalfUp(value * percents[n], Whole)]
      largest == LargestRow(percents)
  IN  IF percents = <<>> \/ PaymentTermsMismatch(percents) THEN <<>>
      ELSE [rounded EXCEPT ![largest] = value - (Total(rounded) - @)]

-----------------------------------------------------------------------------
(* Expenses.                                                               *)

SplitVatExclusive(net, rate) ==
  LET vat == RoundHalfUp(net * rate, Whole) IN
  [net |-> net, vat |-> vat, gross |-> net + vat]

SplitVatInclusive(gross, rate) ==
  LET net == RoundHalfUp(gross * Whole, Whole + rate) IN
  [net |-> net, vat |-> gross - net, gross |-> gross]

SelectWhtKind(tin, licence, supply) ==
  IF ~tin \/ ~licence THEN "WHT_NO_TIN"
  ELSE IF supply = "GOODS" THEN "WHT_GOODS" ELSE "WHT_SERVICES"

\* Nothing below the threshold, the rate on the whole net from there on.
ComputeWithholding(net, rate, threshold) ==
  IF net < threshold THEN 0 ELSE RoundHalfUp(net * rate, Whole)
=============================================================================
