------------------------------ MODULE MCLedger ------------------------------
(* Constant values for the runs of Ledger. *)
EXTENDS LedgerInvariant, LedgerStatement, TLC, SequencesExt

\* One small invoice, and one that takes two allocations to pay.
MCInvTotal == [i \in Invoices |-> i + 1]

\* Every invoice belongs to the same customer.
MCOneOwner == [i \in Invoices |-> CHOOSE c \in Customers : TRUE]

\* Each invoice belongs to a customer of its own.
MCSplitOwners == [i \in Invoices |-> SetToSeq(Customers)[i]]

Identities == Permutations(Payments) \cup Permutations(Requests)

\* Runs whose properties say nothing of balances do not tell them apart.
WithoutBalances ==
  <<inv, pay, alloc, seq, pc, req, todo, locks, drafts, num, seen, sweep, crashes>>
=============================================================================
