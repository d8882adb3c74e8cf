---------------------------- MODULE MCMoneyRules ----------------------------
(* Bounded inputs for MoneyRules and Statement: one question at a time, and *)
(* its answer.                                                             *)
EXTENDS MoneyRules

VARIABLE answer

Blank == [kind |-> "none"]

Init == answer = Blank

\* In cents and basis points; lists of at most MostLines lines.
ListPrices == {0, 1, 7, 100, 333, 757}
Grands     == {0, 1, 2, 99, 100, 1000, 1001}
Rates      == {0, 750, 1500}
MostLines   == 3
Margins    == {0, 1000, 3333}
Quantities == {1, 3}

PercentSets ==
  {<<>>, <<10000>>, <<5000, 3000, 1000, 1000>>, <<3333, 3333, 3334>>, <<2500, 2500, 2500, 2500>>,
   <<10000, 0>>, <<9999, 1, 0>>, <<5000, 4000>>, <<1, 1, 9998>>}

Lists == UNION {[1..n -> ListPrices] : n \in 1..MostLines}

\* A threshold of 5% and nobody's signature.
Waits(calculated, grand) ==
  DiscountNeedsSignOff(ComputeDiscount(calculated, grand).percent, FALSE, 500)

\* priceFromGrandTotal on lines without a sheet figure.
PriceQuotation == \E lists \in Lists, grand \in Grands, rate \in Rates :
  LET calculated == QuoteTotals(lists, [n \in DOMAIN lists |-> Null], rate)
      quoted     == DeriveFromGrandTotal(grand, rate)
  IN  answer' = [kind |-> "quotation", lists |-> lists, rate |-> rate, grand |-> grand,
                 calculated |-> calculated, quoted |-> quoted,
                 lines |-> AllocateToLines(lists, quoted.sub),
                 neutral |-> AllocateToLines(lists, DeriveFromGrandTotal(calculated.total, rate).sub),
                 discount |-> ComputeDiscount(calculated.total, quoted.total),
                 waits |-> {g \in Grands : Waits(calculated.total, g)}]

\* One machine off the price sheet, a number of units with margin.
PriceSheet ==
  \E list \in ListPrices \ {0}, sheet, rate \in Rates, margin \in Margins, units \in Quantities :
    LET line == CalculatedLine(list, sheet, margin, units) IN
    answer' = [kind |-> "sheet", list |-> list, sheet |-> sheet, rate |-> rate,
               margin |-> margin, units |-> units,
               totals |-> QuoteTotals(<<ListTotal(line)>>, <<SheetGross(line, rate)>>, rate)]

CutInstalments == \E percents \in PercentSets, value \in Grands :
  answer' = [kind |-> "instalments", percents |-> percents, value |-> value,
             rows |-> InstalmentsFromPercents(percents, value)]

SplitExpense == \E net \in Grands, rate \in Rates :
  LET billed == SplitVatExclusive(net, rate) IN
  answer' = [kind |-> "expense", billed |-> billed,
             back |-> SplitVatInclusive(billed.gross, rate)]

Withhold ==
  \E net \in Grands, rate \in Rates, threshold \in Grands,
     tin, licence \in BOOLEAN, supply \in {"GOODS", "SERVICES"} :
    answer' = [kind |-> "wht", net |-> net, rate |-> rate, threshold |-> threshold,
               tin |-> tin, licence |-> licence, supply |-> supply,
               of |-> SelectWhtKind(tin, licence, supply),
               wht |-> ComputeWithholding(net, rate, threshold)]

\* Statements of small accounts over every window of a few days; rows of an
\* account at most, days there are, amounts.
MaxRows == 3
Days    == 3
Figures == {5}

St == INSTANCE Statement

Kinds == {[kind |-> "invoice", amount |-> a] : a \in Figures}
         \cup {[kind |-> "withholding", amount |-> a] : a \in Figures}
         \cup {[kind |-> "payment", amount |-> a] : a \in Figures \cup {-x : x \in Figures}}

Accounts == UNION {[1..n -> Kinds \X (1..Days)] : n \in 0..MaxRows}
Rows(account) ==
  {[id |-> n, kind |-> account[n][1].kind, amount |-> account[n][1].amount, date |-> account[n][2]] :
    n \in DOMAIN account}

BuildStatements == \E account \in Accounts, from, to \in 1..Days :
  /\ from <= to
  /\ answer' = [kind |-> "statement", rows |-> Rows(account), from |-> from, to |-> to,
                now  |-> St!BuildStatement(Rows(account), from, to),
                next |-> St!BuildStatement(Rows(account), to + 1, Days + 1)]

Next ==
  /\ answer = Blank
  /\ \/ PriceQuotation \/ PriceSheet \/ CutInstalments \/ SplitExpense \/ Withhold \/ BuildStatements

Spec == Init /\ [][Next]_answer
-----------------------------------------------------------------------------
(* Properties.                                                             *)

\* "the returned amounts sum to targetSubtotalEtb EXACTLY", each line's is less
\* than a cent from its share, and "a zero-value line always receives 0.00".
AllocationIsExactAndFair ==
  answer.kind = "quotation" =>
    LET sum    == Total(answer.lists)
        target == answer.quoted.sub
    IN  /\ Total(answer.lines) = target
        /\ \A n \in DOMAIN answer.lines :
             /\ answer.lines[n] >= 0
             /\ sum > 0 =>
                  LET off == answer.lines[n] * sum - target * answer.lists[n] IN
                  /\ off < sum /\ -off < sum
                  /\ answer.lists[n] = 0 => answer.lines[n] = 0

\* What the three figures of a document promise: subtotal and tax make the
\* total, the total is the agreed one, the discount explains the rest, and the
\* tax is within a cent of the rate on the subtotal.
PriceAddsUp ==
  answer.kind = "quotation" =>
    LET q == answer.quoted IN
    /\ q.sub + q.tax = answer.grand /\ q.total = answer.grand
    /\ q.total + answer.discount.amount = answer.calculated.total
    /\ LET off == q.tax * Whole - q.sub * answer.rate IN off <= Whole /\ -off <= Whole

\* Repricing a quotation to the total the calculator gave changes no line: the
\* reference point of the discount and of the allocation are the same figures.
CalculatedPriceIsNeutral ==
  answer.kind = "quotation" /\ Total(answer.lists) > 0 => answer.neutral = answer.lists

\* "The sheet price is the figure the customer was promised": at the sheet's own
\* VAT and without margin, units sell for exactly the sheet's figure each; at
\* any rate the three figures agree.
SheetPriceIsKept ==
  answer.kind = "sheet" =>
    /\ answer.totals.sub + answer.totals.tax = answer.totals.total
    /\ answer.sheet = answer.rate /\ answer.margin = 0 /\ answer.rate > 0
         => answer.totals.total = answer.list * answer.units

\* A premium waits for nobody, and what waits for a signature at one price
\* waits at every lower price: no bigger discount slips by a smaller one.
SignOffIsMonotone ==
  answer.kind = "quotation" =>
    \A g \in answer.waits :
      /\ g < answer.calculated.total
      /\ \A h \in Grands : h < g => h \in answer.waits

\* "the rows add up to the contract value exactly", each row within half a cent
\* of its percentage but the largest, which absorbs the others' rounding.
InstalmentsMakeTheWhole ==
  answer.kind = "instalments" /\ answer.rows # <<>> =>
    /\ ~ScheduleMismatch(answer.rows, answer.value)
    /\ \A n \in DOMAIN answer.rows :
         LET off == 2 * (answer.rows[n] * Whole - answer.value * answer.percents[n])
             cap == IF \A k \in DOMAIN answer.rows : answer.percents[k] <= answer.percents[n]
                    THEN (Len(answer.rows) - 1) * Whole ELSE Whole
         IN  off <= cap /\ -off <= cap
    /\ \A n \in DOMAIN answer.rows : answer.percents[n] = 0 => answer.rows[n] = 0

\* A bill recorded net and the same bill recorded gross split alike.
ExpenseSplitsAgree == answer.kind = "expense" => answer.back = answer.billed

\* The supplier without TIN or licence falls in its own rate whatever was
\* supplied; the threshold is inclusive and the rate is on the whole net.
WithholdingFollowsTheRule ==
  answer.kind = "wht" =>
    /\ (answer.of = "WHT_NO_TIN") <=> ~(answer.tin /\ answer.licence)
    /\ answer.net < answer.threshold => answer.wht = 0
    /\ answer.net >= answer.threshold =>
         LET off == 2 * (answer.wht * Whole - answer.net * answer.rate) IN
         off <= Whole /\ off > -Whole

\* "an opening balance carried forward from everything strictly before from, and
\* a closing balance after the last row": what one statement closes with, the
\* next one opens with, and the balance runs from the one to the other through
\* what its rows show as debit and credit, also where a payment is reversed.
RowsExplainTheBalance ==
  answer.kind = "statement" =>
    LET s == answer.now
        Moved(n) == s.rows[n].debit - s.rows[n].credit
    IN  /\ s.rows = <<>> => s.closing = s.opening
        /\ s.rows # <<>> => s.rows[Len(s.rows)].balance = s.closing
        /\ \A n \in DOMAIN s.rows :
             s.rows[n].balance = (IF n = 1 THEN s.opening ELSE s.rows[n - 1].balance) + Moved(n)

StatementsChain == answer.kind = "statement" => answer.next.opening = answer.now.closing
=============================================================================
