-------------------------- MODULE LedgerStatement --------------------------
(* The statement of a customer of the Ledger, beside the balance stored. *)
EXTENDS Ledger

S == INSTANCE Statement

\* Mutant: a tax withheld is not on the statement.
WithholdingRowsNone(c) == {}

Open(c) == {i \in Invoices : InvCustomer[i] = c /\ inv[i].status \notin {"NONE", "VOID"}}

WithholdingRows(c) ==
  {[id |-> i, kind |-> "withholding", date |-> 1, amount |-> inv[i].wht] :
    i \in {j \in Open(c) : inv[j].wht > 0}}

\* statement: the rows of one customer, here all of one day.
SourceRows(c) ==
  {[id |-> i, kind |-> "invoice", date |-> 1, amount |-> InvTotal[i]] : i \in Open(c)}
  \cup WithholdingRows(c)
  \cup {[id |-> pay[p].num, kind |-> "payment", date |-> 1, amount |-> pay[p].amt] :
         p \in {q \in Payments : pay[q] # None /\ pay[q].cust = c}}

Closing(c) == S!BuildStatement(SourceRows(c), 1, 1).closing

\* A reversed payment to which nothing was allocated after it was reversed.
NothingOnReversed ==
  \A p, q \in Payments : pay[p] # None /\ pay[q] # None /\ pay[q].revOf = p =>
    paySum[p] + paySum[q] = 0
-----------------------------------------------------------------------------
(* Properties.                                                             *)

\* "the stored balance and the statement closing balance must never diverge":
\* what recomputeCustomerBalance derives and what the statement adds up to are
\* two formulas for one sum.
StatementIsTheBalance == \A c \in Customers : Closing(c) = CommittedBalance(c)

\* They agree as long as nobody allocates a payment that has been reversed.
StatementIsTheBalanceOfSound == NothingOnReversed => StatementIsTheBalance
=============================================================================
