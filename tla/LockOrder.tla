----------------------------- MODULE LockOrder -----------------------------
(***************************************************************************)
(* The locks of the money operations of PaymentsRepository and             *)
(* InvoicesRepository, and nothing else of them: which a transaction takes *)
(* and in which order, over a change of the fiscal year.  What they do     *)
(* under those locks is module Ledger, which has one year only.            *)
(***************************************************************************)
EXTENDS FiniteSets, Functions, Integers, Sequences, TLC

CONSTANTS
  Txns,        \* connections of the API
  Invoices,    \* naturals: their order is the order of the ids
  Payments,    \* payments that exist
  Settles,     \* the invoices each payment is allocated to
  Fresh,       \* a payment whose id nobody else knows yet
  Years,       \* fiscal years, naturals
  MaxRequests  \* bound: requests ever sent

PaymentsSettleInvoices == Settles \in [Payments -> SUBSET Invoices]
NewPaymentsAreNew == Fresh \notin Payments \cup Invoices
IdsAreApart == Payments \cap Invoices = {}
InvoicesAreFinite == IsFiniteSet(Invoices)

\* Receipts of two years do not meet at one sequence row, and what they list may
\* then cross: NeverDeadlock is about one year, or one invoice.
OneYearOrInvoice == (\A y, z \in Years : y = z) \/ (\A i, j \in Invoices : i = j)

VARIABLES
  year,   \* the fiscal year of today
  todo,   \* the locks each transaction has yet to take, in its order
  locks,  \* those it holds, until it commits
  asked

vars == <<year, todo, locks, asked>>

Sequence(kind, y) == <<"document_sequences", kind, y>>
Advisory(id)      == <<"advisory", id>>
InvoiceRow(i)     == <<"invoices", i>>
Customer          == <<"customers">>

\* guardAndInsertAllocation of one invoice after the other: the payment, the
\* invoice, its row.
AllocationLocks(p, list) ==
  [n \in 1..3 * Len(list) |->
     LET i == list[(n + 2) \div 3] IN
     CASE n % 3 = 1 -> Advisory(p) [] n % 3 = 2 -> Advisory(i) [] OTHER -> InvoiceRow(i)]

\* A receipt allocates in the order in which the client lists the invoices.
RecordLocks(list, y) ==
  <<Sequence("RECEIPT", y)>> \o AllocationLocks(Fresh, list) \o <<Customer>>

AllocateLocks(p, i) == <<Advisory(p), Advisory(i), InvoiceRow(i), Customer>>

\* Invoices as a client or a query lists them, each of them once.
Lists == {<<>>} \cup {list \in UNION {[1..n -> Invoices] : n \in 1..Cardinality(Invoices)} :
                        IsInjective(list)}

Ascending(set) ==
  {list \in Lists : /\ Range(list) = set
                    /\ \A m, n \in DOMAIN list : m < n => list[m] < list[n]}

AdvisoriesOf(list) == [n \in DOMAIN list |-> Advisory(list[n])]
RowsOf(list)       == [n \in DOMAIN list |-> InvoiceRow(list[n])]

\* Mutant: the number is claimed once everything else is locked.
ReverseClaimingLast(p, list, y) ==
  <<Advisory(p)>> \o AdvisoriesOf(list) \o <<Sequence("RECEIPT", y)>> \o RowsOf(list) \o <<Customer>>

ReverseLocks(p, list, y) ==
  <<Sequence("RECEIPT", y), Advisory(p)>> \o AdvisoriesOf(list) \o RowsOf(list) \o <<Customer>>

\* voidInvoice and recordWithholding.
OneInvoice(i) == <<Advisory(i), InvoiceRow(i), Customer>>

\* issueFromProforma and createStandalone of an invoice.
NewInvoice(y) == <<Sequence("INVOICE", y), Customer>>

\* What a request begun today locks; the nightly job takes customers only.
Programs ==
  {RecordLocks(list, year) : list \in Lists}
  \cup (UNION {{AllocateLocks(p, i) : i \in Invoices} : p \in Payments})
  \cup (UNION {{ReverseLocks(p, list, year) : list \in Ascending(Settles[p])} : p \in Payments})
  \cup {OneInvoice(i) : i \in Invoices}
  \cup {NewInvoice(year), <<Customer>>}

Idle(t) == todo[t] = <<>> /\ locks[t] = {}

\* Two receipts being recorded have two new payments.
Mine(t, program) ==
  [n \in DOMAIN program |-> IF program[n] = Advisory(Fresh) THEN <<"advisory, new", t>> ELSE program[n]]

Init ==
  /\ year \in Years
  /\ todo = [t \in Txns |-> <<>>]
  /\ locks = [t \in Txns |-> {}]
  /\ asked = 0

Ask(t) ==
  /\ Idle(t) /\ asked < MaxRequests
  /\ asked' = asked + 1
  /\ \E program \in Programs : todo' = [todo EXCEPT ![t] = Mine(t, program)]
  /\ UNCHANGED <<year, locks>>

WaitsFor(t, u) == t # u /\ todo[t] # <<>> /\ Head(todo[t]) \in locks[u]

Acquire(t) ==
  /\ todo[t] # <<>>
  /\ \A u \in Txns : ~WaitsFor(t, u)
  /\ locks' = [locks EXCEPT ![t] = @ \cup {Head(todo[t])}]
  /\ todo' = [todo EXCEPT ![t] = Tail(@)]
  /\ UNCHANGED <<year, asked>>

\* Commit, or a refusal or a crash at any point.
End(t) ==
  /\ ~Idle(t)
  /\ todo' = [todo EXCEPT ![t] = <<>>]
  /\ locks' = [locks EXCEPT ![t] = {}]
  /\ UNCHANGED <<year, asked>>

\* Midnight of the first day: computeFiscalYear(todayIso()) is another one.
NewYear ==
  /\ year + 1 \in Years
  /\ year' = year + 1
  /\ UNCHANGED <<todo, locks, asked>>

Next == (\E t \in Txns : Ask(t) \/ Acquire(t) \/ End(t)) \/ NewYear

Spec == Init /\ [][Next]_vars
-----------------------------------------------------------------------------
(* Properties.                                                             *)

\* "lets a concurrent reverse() against the SAME invoice acquire these three
\* resources in the same relative order and never deadlock": no set of
\* transactions waits for one another in a circle.
NeverDeadlock ==
  \A S \in SUBSET Txns :
    S # {} => \E t \in S : \A u \in S : ~WaitsFor(t, u)
=============================================================================
