----------------------------- MODULE Statement -----------------------------
(***************************************************************************)
(* A customer's statement: invoices, payments and taxes withheld between   *)
(* two days, in order, with a running balance.                             *)
(***************************************************************************)
EXTENDS Integers, SequencesExt

\* The order of kinds within a day.
Rank == [invoice |-> 1, payment |-> 2, withholding |-> 3]

\* Rows are [id, kind, date, amount]; a reversal is a payment below zero.
Before(a, b) ==
  \/ a.date < b.date
  \/ a.date = b.date /\ Rank[a.kind] < Rank[b.kind]
  \/ a.date = b.date /\ a.kind = b.kind /\ a.id < b.id

SignedContribution(row) == IF row.kind = "invoice" THEN row.amount ELSE -row.amount

Total(list) == FoldLeft(LAMBDA sum, row : sum + SignedContribution(row), 0, list)

IsCarried(row, from) == row.date < from

IsDebit(row) == row.kind = "invoice" \/ row.amount < 0

Magnitude(row) == IF row.amount < 0 THEN -row.amount ELSE row.amount

\* from and to are both included.
BuildStatement(sourceRows, from, to) ==
  LET sorted  == SetToSortSeq(sourceRows, Before)
      opening == Total(SelectSeq(sorted, LAMBDA row : IsCarried(row, from)))
      inRange == SelectSeq(sorted, LAMBDA row : from <= row.date /\ row.date <= to)
      Balance(n) == opening + Total(SubSeq(inRange, 1, n))
  IN  [opening |-> opening, closing |-> Balance(Len(inRange)),
       rows |-> [n \in DOMAIN inRange |->
         [id |-> inRange[n].id, kind |-> inRange[n].kind, date |-> inRange[n].date,
          debit  |-> IF IsDebit(inRange[n]) THEN Magnitude(inRange[n]) ELSE 0,
          credit |-> IF IsDebit(inRange[n]) THEN 0 ELSE Magnitude(inRange[n]),
          balance |-> Balance(n)]]]
=============================================================================
