--------------------------- MODULE MCMoneyRequests ---------------------------
(* Requests that move money: their idempotency keys, the order in which they *)
(* lock, and the expenses and bank lines beside the ledger.  Idempotency,    *)
(* CashBook and LockOrder share no row, so a behaviour runs one of them:     *)
(* "part" says which, and the others stay in their initial state.  A request *)
(* is served on a connection of its own.                                     *)
EXTENDS Idempotency, TLC

CONSTANTS
  Parts,                                        \* the parts a behaviour may run
  Accounts, NoAccount, AccountOf, BookAmounts,  \* of CashBook
  BookStarts, BookOffers, BookRequests, BookCrashes,
  Payments, Fresh, LockRequests,                \* of LockOrder
  Bills, Settles, Years                         \* invoices, who pays them, the years

VARIABLES
  part,
  expenses, lines, counter, lock, tx, asked, crashes, \* of CashBook
  year, todo, locks, lockers                          \* of LockOrder

ofCashBook  == <<expenses, lines, counter, lock, tx, asked, crashes>>
ofLockOrder == <<year, todo, locks, lockers>>

allVars == <<part, vars, ofCashBook, ofLockOrder>>

\* Two bodies sent to one endpoint have two fingerprints.
MCFingerprint == [c \in Commands |-> c]

Identities == Permutations(Requests)

\* One expense of the first account and one line that is linked to nothing.
Book ==
  LET a == CHOOSE x \in Accounts : TRUE IN
  [expenses |-> {[id |-> 0, no |-> 1, amount |-> 5, account |-> a, of |-> None]},
   lines    |-> {[id |-> -1, amount |-> 7, account |-> a, link |-> None, of |-> None]}]

MCBooks == {Book}

PaidInCash == [p \in Payments |-> NoAccount]

B == INSTANCE CashBook
       WITH Txns <- Requests, Amounts <- BookAmounts, Starts <- BookStarts, Offered <- BookOffers,
            MaxRequests <- BookRequests, MaxCrashes <- BookCrashes

\* The first payment settles all of these invoices, the others one each.
SettlesOf(invoices) ==
  [p \in Payments |-> IF p = CHOOSE q \in Payments : TRUE THEN invoices ELSE {1}]

MCSettles == SettlesOf(Bills)

\* The invoices in the years given; one invoice while the year changes.
L == INSTANCE LockOrder
       WITH Txns <- Requests, Invoices <- Bills, asked <- lockers, MaxRequests <- LockRequests

N == INSTANCE LockOrder
       WITH Txns <- Requests, Invoices <- {1}, Settles <- SettlesOf({1}),
            Years <- {2017, 2018}, asked <- lockers, MaxRequests <- LockRequests

ASSUME CashBookParameters ==
  B!EveryPaymentHasAPlace /\ B!AmountsAreWhole /\ B!BoundIsNatural /\ B!NoneIsApart
  /\ B!StartsAreSound
ASSUME LockOrderParameters ==
  /\ L!PaymentsSettleInvoices /\ L!NewPaymentsAreNew /\ L!IdsAreApart /\ L!InvoicesAreFinite
  /\ L!OneYearOrInvoice /\ N!OneYearOrInvoice

-----------------------------------------------------------------------------
(* One part a behaviour.                                                   *)

MCInit == part \in Parts /\ Init /\ B!Init /\ L!Init

MCNext ==
  \/ part = "keys"    /\ Next   /\ UNCHANGED <<part, ofCashBook, ofLockOrder>>
  \/ part = "book"    /\ B!Next /\ UNCHANGED <<part, vars, ofLockOrder>>
  \/ part = "locks"   /\ L!Next /\ UNCHANGED <<part, vars, ofCashBook>>
  \/ part = "newYear" /\ N!Next /\ UNCHANGED <<part, vars, ofCashBook>>

MCSpec == MCInit /\ [][MCNext]_allVars

-----------------------------------------------------------------------------
(* Properties of the parts that the runs list.                             *)

\* What expenses and bank lines sum to is what stands of them: no row is taken
\* back twice, no document is off the list of its account without a line there,
\* and expense numbers have no gap.
BookHolds ==
  /\ B!TypeOK
  /\ B!ReversalsAreFlatAndSingle
  /\ B!BalanceIsOfTheLive
  /\ B!OffTheListForAReason
  /\ B!NumbersAreGapless

\* Receipts, allocations, reversals, voids and invoices take their locks in
\* orders that never make a circle: with two invoices in one fiscal year, with
\* one while the year changes.
NeverDeadlock == L!NeverDeadlock
=============================================================================
