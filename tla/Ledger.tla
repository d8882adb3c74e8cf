------------------------------- MODULE Ledger -------------------------------
(***************************************************************************)
(* The receivables ledger of one tenant: invoices, payments, the           *)
(* allocations that settle the ones with the others, and the balance       *)
(* stored on each customer.                                                *)
(*                                                                         *)
(* Every operation of PaymentsRepository and InvoicesRepository that moves *)
(* money is one PostgreSQL transaction under READ COMMITTED.  A            *)
(* transaction is a process here; each of its statements is a step, which  *)
(* sees what is committed plus what the transaction itself has written.    *)
(* Uncommitted writes are kept apart (rows, stat, ...) and Commit          *)
(* publishes them at once.  Advisory locks and row locks are held until    *)
(* the transaction ends.                                                   *)
(***************************************************************************)
EXTENDS Integers, Sequences, FiniteSets, FiniteSetsExt

CONSTANTS
  Customers,
  Invoices,     \* naturals: reverse() locks invoices in ascending id order
  Payments,     \* ids a receipt or a reversal may be given
  Requests,     \* HTTP requests that may be in flight at the same time
  Crons,        \* instances of the nightly balance reconciliation job
  None,         \* SQL null
  Amounts,      \* positive amounts a client may send
  InvTotal,     \* totalEtb of each invoice
  InvCustomer,  \* customerId of each invoice
  MaxLines,     \* bound: allocations sent along with one receipt
  MaxCrashes    \* bound: connections or power lost in the middle of a transaction

Txns == Requests \cup Crons

Payment == [cust : Customers, amt : Int, revOf : Payments \cup {None}, num : Nat]

ASSUME InvoicesAreOrdered == Invoices \subseteq Nat /\ IsFiniteSet(Invoices)
ASSUME PaymentsAreFinite  == IsFiniteSet(Payments)
ASSUME AmountsArePositive == Amounts \subseteq Nat \ {0}
ASSUME TotalsArePositive  == InvTotal \in [Invoices -> Nat \ {0}]
ASSUME InvoicesHaveOwners == InvCustomer \in [Invoices -> Customers]
ASSUME BoundIsNatural     == MaxLines \in Nat
ASSUME NullIsNoValue      == None \notin Payments /\ None \notin Int /\ None \notin Customers
ASSUME NullIsNoPayment    == None \notin Payment
ASSUME CronsAreNoRequests == Requests \cap Crons = {}
ASSUME IdsAreDistinct     == Invoices \cap Payments = {}

Statuses == {"NONE", "ISSUED", "PARTIALLY_PAID", "PAID", "VOID"}
Kinds    == {"RECEIPT", "INVOICE"}

ASSUME NullIsNoStatus == None \notin Statuses
ASSUME NullIsNoLock ==
  /\ None \notin {"advisory", "invoice"} \X (Invoices \cup Payments)
  /\ None \notin ({"customer"} \X Customers) \cup ({"sequence"} \X Kinds)

VARIABLES
  \* Committed rows.
  inv,      \* invoices: status, whtEtb and number; status "NONE" is no row
  pay,      \* payments: customer, amount, reversalOfPaymentId, number; None is no row
  alloc,    \* payment_allocations: alloc[p][i], unique per pair; 0 is no row
  invSum,   \* select sum(amount_etb) from payment_allocations where invoice_id = i
  paySum,   \* select sum(amount_etb) from payment_allocations where payment_id = p
  seq,      \* document_sequences.last_value
  balance,  \* customers.outstanding_balance_etb
  \* Transactions in flight.
  pc, req,  \* next statement, and the request being served
  todo,     \* allocations (or invoices) the transaction has yet to handle
  locks,    \* advisory and row locks it holds
  rows,     \* allocation rows it has inserted for its payment
  spent,    \* their sum
  stat,     \* invoice statuses it has written
  wht,      \* whtEtb it has written on its invoice
  num,      \* document number it has claimed
  seen,     \* status it read and the status it will store
  bal,      \* balance it is computing
  sweep,    \* customers each running reconciliation has yet to visit
  crashes

database == <<inv, pay, alloc, invSum, paySum, seq, balance>>
drafts   == <<rows, spent, stat, wht>>
vars     == <<database, pc, req, todo, locks, drafts, num, seen, bal, sweep, crashes>>

-----------------------------------------------------------------------------
(* Locks.  pg_advisory_xact_lock(hashtext(id)) on invoices and payments;   *)
(* row locks taken by UPDATE on invoices, customers and document_sequences. *)

Adv(id)     == <<"advisory", id>>
InvRow(i)   == <<"invoice", i>>
CustRow(c)  == <<"customer", c>>
SeqRow(k)   == <<"sequence", k>>

\* reverse() locks the invoices it has listed one after the other, ascending;
\* every other operation locks the invoice it is about to work on.
InvoiceToLock(t) ==
  IF req[t].op = "reverse"
    THEN todo[t][CHOOSE n \in DOMAIN todo[t] :
                   /\ Adv(todo[t][n].inv) \notin locks[t]
                   /\ \A m \in 1..n-1 : Adv(todo[t][m].inv) \in locks[t]].inv
    ELSE Head(todo[t]).inv

SequenceKind(t) == IF req[t].op = "create" THEN "INVOICE" ELSE "RECEIPT"

\* Mutant: guardAndInsertAllocation locks the invoice before the payment.
WantedInvoiceFirst(t) ==
  CASE pc[t] = "claim"   -> SeqRow(SequenceKind(t))
    [] pc[t] = "payLock" -> Adv(IF req[t].op = "reverse" THEN req[t].orig
                                                         ELSE Head(todo[t]).inv)
    [] pc[t] = "invLock" -> Adv(IF req[t].op \in {"record", "allocate"} THEN req[t].pay
                                                                      ELSE InvoiceToLock(t))
    [] pc[t] \in {"voidWrite", "whtWrite"} -> InvRow(req[t].inv)
    [] pc[t] = "cas"                     -> InvRow(Head(todo[t]).inv)
    [] pc[t] = "balWrite"                -> CustRow(req[t].cust)
    [] OTHER                             -> None

\* The lock the next statement of a transaction has to be granted.
Wanted(t) ==
  CASE pc[t] = "claim"                   -> SeqRow(SequenceKind(t))
    [] pc[t] = "payLock"                 -> Adv(IF req[t].op = "reverse" THEN req[t].orig
                                                                       ELSE req[t].pay)
    [] pc[t] = "invLock"                 -> Adv(InvoiceToLock(t))
    [] pc[t] \in {"voidWrite", "whtWrite"} -> InvRow(req[t].inv)
    [] pc[t] = "cas"                     -> InvRow(Head(todo[t]).inv)
    [] pc[t] = "balWrite"                -> CustRow(req[t].cust)
    [] OTHER                             -> None

WaitsFor(t, u) == t # u /\ Wanted(t) \in locks[u]

Granted(t) == \A u \in Txns : ~WaitsFor(t, u)

Acquire(t) ==
  /\ Granted(t)
  /\ locks' = [locks EXCEPT ![t] = @ \cup {Wanted(t)}]

Goto(t, label) == pc' = [pc EXCEPT ![t] = label]

-----------------------------------------------------------------------------
(* What a transaction sees: committed rows and its own writes.             *)

StatusSeen(t, i)    == IF stat[t][i] = None THEN inv[i].status ELSE stat[t][i]
WhtSeen(t, i)       == IF wht[t] # None /\ req[t].inv = i THEN wht[t] ELSE inv[i].wht
AllocatedSeen(t, i) == invSum[i] + rows[t][i]
SpentSeen(t, p)     == paySum[p] + (IF req[t].pay = p THEN spent[t] ELSE 0)

InsertsPayment(t) == req[t].op \in {"record", "reverse"}

PaymentSeen(t, p) ==
  IF InsertsPayment(t) /\ req[t].pay = p
    THEN [cust |-> req[t].cust, amt |-> req[t].amt, revOf |-> req[t].orig, num |-> num[t]]
    ELSE pay[p]

\* Paid in full means allocations plus withholding cover the total.
DerivePaymentStatus(total, withheld, allocated) ==
  IF allocated + withheld >= total THEN "PAID"
  ELSE IF allocated > 0 THEN "PARTIALLY_PAID" ELSE "ISSUED"

\* Neither a reversal nor reversed, among the payments `table` holds.
IsLive(table, p) ==
  /\ table[p] # None
  /\ table[p].revOf = None
  /\ \A q \in Payments : table[q] # None => table[q].revOf # p

InvoicedBalance(c, status, withheld, allocated) ==
  LET open == {i \in Invoices : InvCustomer[i] = c /\ status[i] \notin {"NONE", "VOID"}}
  IN  MapThenSumSet(LAMBDA i : InvTotal[i] - withheld[i] - allocated[i], open)

UnappliedCash(c, table, allocated) ==
  LET live == {p \in Payments : IsLive(table, p) /\ table[p].cust = c}
  IN  MapThenSumSet(LAMBDA p : table[p].amt - allocated[p], live)

-----------------------------------------------------------------------------
Ask(op, c, i, p, a, q) ==
  [op |-> op, cust |-> c, inv |-> i, pay |-> p, amt |-> a, orig |-> q]

NoRequest == Ask("none", None, None, None, 0, None)

Init ==
  /\ inv     = [i \in Invoices |-> [status |-> "NONE", wht |-> 0, num |-> 0]]
  /\ pay     = [p \in Payments |-> None]
  /\ alloc   = [p \in Payments |-> [i \in Invoices |-> 0]]
  /\ invSum  = [i \in Invoices |-> 0]
  /\ paySum  = [p \in Payments |-> 0]
  /\ seq     = [k \in Kinds |-> 0]
  /\ balance = [c \in Customers |-> 0]
  /\ pc      = [t \in Txns |-> "idle"]
  /\ req     = [t \in Txns |-> NoRequest]
  /\ todo    = [t \in Txns |-> <<>>]
  /\ locks   = [t \in Txns |-> {}]
  /\ rows    = [t \in Txns |-> [i \in Invoices |-> 0]]
  /\ spent   = [t \in Txns |-> 0]
  /\ stat    = [t \in Txns |-> [i \in Invoices |-> None]]
  /\ wht     = [t \in Txns |-> None]
  /\ num     = [t \in Txns |-> 0]
  /\ seen    = [t \in Txns |-> <<None, None>>]
  /\ bal     = [t \in Txns |-> 0]
  /\ sweep   = [n \in Crons |-> {}]
  /\ crashes = 0

-----------------------------------------------------------------------------
(* Requests.  Begin fixes the parameters of a transaction and the          *)
(* statement it starts with.                                               *)

Begin(t, r, lines, label) ==
  /\ pc[t] = "idle"
  /\ req'  = [req EXCEPT ![t] = r]
  /\ todo' = [todo EXCEPT ![t] = lines]
  /\ Goto(t, label)
  /\ UNCHANGED <<database, locks, drafts, num, seen, bal, crashes>>

AllocationLine  == {[inv |-> i, amt |-> a] : i \in Invoices, a \in Amounts}
AllocationLists == UNION {[1..n -> AllocationLine] : n \in 0..MaxLines}

\* gen_random_uuid(): no row and no other transaction uses the id.
IsFresh(p) == pay[p] = None /\ \A u \in Txns : req[u].pay # p

CreateInvoice(t) == \E i \in Invoices :
  /\ inv[i].status = "NONE"
  /\ \A u \in Txns : req[u].op = "create" => req[u].inv # i
  /\ Begin(t, Ask("create", InvCustomer[i], i, None, 0, None), <<>>, "claim")
  /\ UNCHANGED sweep

RecordPayment(t) == \E c \in Customers, a \in Amounts, p \in Payments, l \in AllocationLists :
  /\ IsFresh(p)
  /\ Begin(t, Ask("record", c, None, p, a, None), l, "claim")
  /\ UNCHANGED sweep

\* The payment is read before any lock is taken; its row never changes.
Allocate(t) == \E p \in Payments, line \in AllocationLine :
  /\ pay[p] # None
  /\ Begin(t, Ask("allocate", pay[p].cust, None, p, pay[p].amt, None), <<line>>, "payLock")
  /\ UNCHANGED sweep

ReversePayment(t) == \E p, q \in Payments :
  /\ pay[p] # None
  /\ IsFresh(q)
  /\ Begin(t, Ask("reverse", pay[p].cust, None, q, -pay[p].amt, p), <<>>, "claim")
  /\ UNCHANGED sweep

VoidInvoice(t) == \E i \in Invoices :
  /\ inv[i].status # "NONE"
  /\ Begin(t, Ask("void", InvCustomer[i], i, None, 0, None), <<[inv |-> i, amt |-> 0]>>, "invLock")
  /\ UNCHANGED sweep

RecordWithholding(t) == \E i \in Invoices, a \in Amounts \cup {0} :
  /\ inv[i].status # "NONE"
  /\ Begin(t, Ask("withhold", InvCustomer[i], i, None, 0, None), <<[inv |-> i, amt |-> a]>>, "invLock")
  /\ UNCHANGED sweep

\* Mutant: the sweep visits the customers that owe something and no others.
StartSweepOfDebtors(n) ==
  /\ pc[n] = "idle" /\ sweep[n] = {}
  /\ sweep' = [sweep EXCEPT ![n] = {c \in Customers : balance[c] > 0}]
  /\ UNCHANGED <<database, pc, req, todo, locks, drafts, num, seen, bal, crashes>>

\* The cron lists the customers, then visits each in a transaction of its own.
StartSweep(n) ==
  /\ pc[n] = "idle" /\ sweep[n] = {}
  /\ sweep' = [sweep EXCEPT ![n] = Customers]
  /\ UNCHANGED <<database, pc, req, todo, locks, drafts, num, seen, bal, crashes>>

ReconcileOne(n) == \E c \in sweep[n] :
  /\ Begin(n, Ask("reconcile", c, None, None, 0, None), <<>>, "balInvoices")
  /\ sweep' = [sweep EXCEPT ![n] = @ \ {c}]

-----------------------------------------------------------------------------
(* Numbers and locks.                                                      *)

AfterClaim(t) ==
  IF req[t].op = "reverse" THEN "payLock"
  ELSE IF todo[t] = <<>> THEN "balInvoices" ELSE "payLock"

\* Mutant: last_value is read and incremented without a row lock.
ClaimNumberUnlocked(t) ==
  /\ pc[t] = "claim"
  /\ num' = [num EXCEPT ![t] = seq[SequenceKind(t)] + 1]
  /\ Goto(t, AfterClaim(t))
  /\ UNCHANGED <<database, req, todo, locks, drafts, seen, bal, sweep, crashes>>

\* insert ... on conflict do update set last_value = last_value + 1: the row
\* stays locked, so the next claimant waits for this transaction to end.
ClaimNumber(t) ==
  /\ pc[t] = "claim"
  /\ Acquire(t)
  /\ num' = [num EXCEPT ![t] = seq[SequenceKind(t)] + 1]
  /\ Goto(t, AfterClaim(t))
  /\ UNCHANGED <<database, req, todo, drafts, seen, bal, sweep, crashes>>

\* Mutants: the payment lock is taken by allocate() only, or by nobody.
LockPaymentToAllocate(t) ==
  /\ pc[t] = "payLock"
  /\ IF req[t].op = "reverse" THEN UNCHANGED locks ELSE Acquire(t)
  /\ Goto(t, IF req[t].op = "reverse" THEN "readOriginal" ELSE "invLock")
  /\ UNCHANGED <<database, req, todo, drafts, num, seen, bal, sweep, crashes>>

LockPaymentNever(t) ==
  /\ pc[t] = "payLock"
  /\ Goto(t, IF req[t].op = "reverse" THEN "readOriginal" ELSE "invLock")
  /\ UNCHANGED <<database, req, todo, locks, drafts, num, seen, bal, sweep, crashes>>

LockPayment(t) ==
  /\ pc[t] = "payLock"
  /\ Acquire(t)
  /\ Goto(t, IF req[t].op = "reverse" THEN "readOriginal" ELSE "invLock")
  /\ UNCHANGED <<database, req, todo, drafts, num, seen, bal, sweep, crashes>>

AllLocked(t) == \A n \in DOMAIN todo[t] : Adv(todo[t][n].inv) \in locks[t] \cup {Wanted(t)}

AfterInvoiceLock(t) ==
  CASE req[t].op \in {"record", "allocate"} -> "guard"
    [] req[t].op = "void"                   -> "voidGuard"
    [] req[t].op = "withhold"               -> "whtGuard"
    [] req[t].op = "reverse"                -> IF AllLocked(t) THEN "mirror" ELSE "invLock"

\* Mutant: recordWithholding does not take the advisory lock on its invoice.
LockInvoiceUnlessWithholding(t) ==
  /\ pc[t] = "invLock"
  /\ IF req[t].op = "withhold" THEN UNCHANGED locks ELSE Acquire(t)
  /\ Goto(t, AfterInvoiceLock(t))
  /\ UNCHANGED <<database, req, todo, drafts, num, seen, bal, sweep, crashes>>

\* Mutant: voidInvoice does not take the advisory lock on its invoice.
LockInvoiceUnlessVoiding(t) ==
  /\ pc[t] = "invLock"
  /\ IF req[t].op = "void" THEN UNCHANGED locks ELSE Acquire(t)
  /\ Goto(t, AfterInvoiceLock(t))
  /\ UNCHANGED <<database, req, todo, drafts, num, seen, bal, sweep, crashes>>

LockInvoice(t) ==
  /\ pc[t] = "invLock"
  /\ Acquire(t)
  /\ Goto(t, AfterInvoiceLock(t))
  /\ UNCHANGED <<database, req, todo, drafts, num, seen, bal, sweep, crashes>>

-----------------------------------------------------------------------------
(* Allocation: record() and allocate().                                    *)

\* The guard reads, then the insert; a failed guard is Refuse below.
AllocationAllowed(t) ==
  LET i == Head(todo[t]).inv
      a == Head(todo[t]).amt
  IN  /\ StatusSeen(t, i) \notin {"NONE", "VOID"}
      /\ InvCustomer[i] = req[t].cust
      /\ AllocatedSeen(t, i) + WhtSeen(t, i) + a <= InvTotal[i]
      /\ SpentSeen(t, req[t].pay) + a <= req[t].amt

GuardAllocation(t) ==
  /\ pc[t] = "guard"
  /\ AllocationAllowed(t)
  /\ Goto(t, "insert")
  /\ UNCHANGED <<database, req, todo, locks, drafts, num, seen, bal, sweep, crashes>>

\* payment_allocations_tenant_payment_invoice_uk
RowIsUnique(t) ==
  LET i == Head(todo[t]).inv IN alloc[req[t].pay][i] = 0 /\ rows[t][i] = 0

InsertAllocation(t) ==
  LET line == Head(todo[t]) IN
  /\ pc[t] = "insert"
  /\ RowIsUnique(t)
  /\ rows'  = [rows EXCEPT ![t][line.inv] = line.amt]
  /\ spent' = [spent EXCEPT ![t] = @ + line.amt]
  /\ Goto(t, "derive")
  /\ UNCHANGED <<database, req, todo, locks, stat, wht, num, seen, bal, sweep, crashes>>

-----------------------------------------------------------------------------
(* Reversal.                                                               *)

InvoiceLists == UNION {[1..n -> Invoices] : n \in 0..Cardinality(Invoices)}

Ascending(list) == \A m, n \in DOMAIN list : m < n => list[m] < list[n]

AllocatedInvoices(p) == {i \in Invoices : alloc[p][i] # 0}

\* Mutant: the guard does not look for an existing reversal.
ReversalAllowedTwice(t) == pay[req[t].orig].revOf = None

ReversalAllowed(t) ==
  /\ pay[req[t].orig].revOf = None
  /\ \A q \in Payments : pay[q] # None => pay[q].revOf # req[t].orig

\* todo becomes the mirrors of the allocations, in ascending invoice order.
ReadOriginal(t) ==
  /\ pc[t] = "readOriginal"
  /\ ReversalAllowed(t)
  /\ \E list \in InvoiceLists :
       /\ Ascending(list) /\ Range(list) = AllocatedInvoices(req[t].orig)
       /\ todo' = [todo EXCEPT ![t] = [n \in DOMAIN list |->
                    [inv |-> list[n], amt |-> -alloc[req[t].orig][list[n]]]]]
       /\ Goto(t, IF list = <<>> THEN "mirror" ELSE "invLock")
  /\ UNCHANGED <<database, req, locks, drafts, num, seen, bal, sweep, crashes>>

MirrorsAreNegative(t) == \A n \in DOMAIN todo[t] : todo[t][n].amt <= 0

MirrorRow(t, i) ==
  IF \E n \in DOMAIN todo[t] : todo[t][n].inv = i
    THEN todo[t][CHOOSE n \in DOMAIN todo[t] : todo[t][n].inv = i].amt ELSE 0

\* The negated payment, and one negated row per allocation read above.
InsertMirrors(t) ==
  /\ pc[t] = "mirror"
  /\ MirrorsAreNegative(t)
  /\ rows'  = [rows EXCEPT ![t] = [i \in Invoices |-> MirrorRow(t, i)]]
  /\ spent' = [spent EXCEPT ![t] = -paySum[req[t].orig]]
  /\ Goto(t, IF todo[t] = <<>> THEN "balInvoices" ELSE "derive")
  /\ UNCHANGED <<database, req, todo, locks, stat, wht, num, seen, bal, sweep, crashes>>

-----------------------------------------------------------------------------
(* Void and withholding.                                                   *)

VoidAllowed(t) ==
  LET i == req[t].inv IN
  /\ StatusSeen(t, i) = "ISSUED"
  /\ WhtSeen(t, i) = 0
  /\ AllocatedSeen(t, i) = 0

GuardVoid(t) ==
  /\ pc[t] = "voidGuard"
  /\ VoidAllowed(t)
  /\ Goto(t, "voidWrite")
  /\ UNCHANGED <<database, req, todo, locks, drafts, num, seen, bal, sweep, crashes>>

WriteVoid(t) ==
  /\ pc[t] = "voidWrite"
  /\ Acquire(t)
  /\ stat' = [stat EXCEPT ![t][req[t].inv] = "VOID"]
  /\ Goto(t, "balInvoices")
  /\ UNCHANGED <<database, req, todo, rows, spent, wht, num, seen, bal, sweep, crashes>>

WithholdingAllowed(t) ==
  LET i == req[t].inv IN
  /\ StatusSeen(t, i) # "VOID"
  /\ AllocatedSeen(t, i) + Head(todo[t]).amt <= InvTotal[i]

GuardWithholding(t) ==
  /\ pc[t] = "whtGuard"
  /\ WithholdingAllowed(t)
  /\ Goto(t, "whtWrite")
  /\ UNCHANGED <<database, req, todo, locks, drafts, num, seen, bal, sweep, crashes>>

\* Mutant: the payment status is not recomputed after a withholding.
WriteWithholdingOnly(t) ==
  /\ pc[t] = "whtWrite"
  /\ Acquire(t)
  /\ wht' = [wht EXCEPT ![t] = Head(todo[t]).amt]
  /\ Goto(t, "balInvoices")
  /\ UNCHANGED <<database, req, todo, rows, spent, stat, num, seen, bal, sweep, crashes>>

\* An absolute set, not an increment.
WriteWithholding(t) ==
  /\ pc[t] = "whtWrite"
  /\ Acquire(t)
  /\ wht' = [wht EXCEPT ![t] = Head(todo[t]).amt]
  /\ Goto(t, "derive")
  /\ UNCHANGED <<database, req, todo, rows, spent, stat, num, seen, bal, sweep, crashes>>

-----------------------------------------------------------------------------
(* recomputePaymentStatus: read, derive, and compare-and-set the status.   *)

AfterStatus(t) ==
  IF Len(todo[t]) = 1 THEN "balInvoices"
  ELSE IF req[t].op = "reverse" THEN "derive" ELSE "payLock"

NextLine(t) == todo' = [todo EXCEPT ![t] = Tail(@)]

DeriveStatus(t) ==
  LET i    == Head(todo[t]).inv
      next == DerivePaymentStatus(InvTotal[i], WhtSeen(t, i), AllocatedSeen(t, i))
  IN  /\ pc[t] = "derive"
      /\ IF StatusSeen(t, i) \in {"VOID", next}
           THEN Goto(t, AfterStatus(t)) /\ NextLine(t) /\ UNCHANGED seen
           ELSE /\ Goto(t, "cas")
                /\ seen' = [seen EXCEPT ![t] = <<StatusSeen(t, i), next>>]
                /\ UNCHANGED todo
      /\ UNCHANGED <<database, req, locks, drafts, num, bal, sweep, crashes>>

\* update invoices set status = seen[2] where id = i and status = seen[1]
CasStatus(t) ==
  LET i == Head(todo[t]).inv IN
  /\ pc[t] = "cas"
  /\ Acquire(t)
  /\ StatusSeen(t, i) = seen[t][1]
  /\ stat' = [stat EXCEPT ![t][i] = seen[t][2]]
  /\ Goto(t, AfterStatus(t))
  /\ NextLine(t)
  /\ UNCHANGED <<database, req, rows, spent, wht, num, seen, bal, sweep, crashes>>

-----------------------------------------------------------------------------
(* recomputeCustomerBalance: read the invoices, read the payments, store.  *)

\* Mutant: the invoice that this transaction inserts is not counted.
ReadInvoicedBefore(t) ==
  LET withheld  == [i \in Invoices |-> WhtSeen(t, i)]
      allocated == [i \in Invoices |-> AllocatedSeen(t, i)]
      status    == [i \in Invoices |-> StatusSeen(t, i)]
  IN  /\ pc[t] = "balInvoices"
      /\ bal' = [bal EXCEPT ![t] = InvoicedBalance(req[t].cust, status, withheld, allocated)]
      /\ Goto(t, "balPayments")
      /\ UNCHANGED <<database, req, todo, locks, drafts, num, seen, sweep, crashes>>

ReadInvoiced(t) ==
  LET status    == [i \in Invoices |-> IF req[t].op = "create" /\ req[t].inv = i
                                          THEN "ISSUED" ELSE StatusSeen(t, i)]
      withheld  == [i \in Invoices |-> WhtSeen(t, i)]
      allocated == [i \in Invoices |-> AllocatedSeen(t, i)]
  IN  /\ pc[t] = "balInvoices"
      /\ bal' = [bal EXCEPT ![t] = InvoicedBalance(req[t].cust, status, withheld, allocated)]
      /\ Goto(t, "balPayments")
      /\ UNCHANGED <<database, req, todo, locks, drafts, num, seen, sweep, crashes>>

ReadUnapplied(t) ==
  LET table     == [p \in Payments |-> PaymentSeen(t, p)]
      allocated == [p \in Payments |-> SpentSeen(t, p)]
  IN  /\ pc[t] = "balPayments"
      /\ bal' = [bal EXCEPT ![t] = @ - UnappliedCash(req[t].cust, table, allocated)]
      /\ Goto(t, "balWrite")
      /\ UNCHANGED <<database, req, todo, locks, drafts, num, seen, sweep, crashes>>

\* Waits for the row, then overwrites it with the value computed before.
WriteBalance(t) ==
  /\ pc[t] = "balWrite"
  /\ Acquire(t)
  /\ Goto(t, "commit")
  /\ UNCHANGED <<database, req, todo, drafts, num, seen, bal, sweep, crashes>>

-----------------------------------------------------------------------------
(* The end of a transaction.                                               *)

Finish(t) ==
  /\ Goto(t, "idle")
  /\ req'   = [req EXCEPT ![t] = NoRequest]
  /\ todo'  = [todo EXCEPT ![t] = <<>>]
  /\ locks' = [locks EXCEPT ![t] = {}]
  /\ rows'  = [rows EXCEPT ![t] = [i \in Invoices |-> 0]]
  /\ spent' = [spent EXCEPT ![t] = 0]
  /\ stat'  = [stat EXCEPT ![t] = [i \in Invoices |-> None]]
  /\ wht'   = [wht EXCEPT ![t] = None]
  /\ num'   = [num EXCEPT ![t] = 0]
  /\ seen'  = [seen EXCEPT ![t] = <<None, None>>]
  /\ bal'   = [bal EXCEPT ![t] = 0]

InvoiceAfter(t, i) ==
  IF req[t].op = "create" /\ req[t].inv = i
    THEN [status |-> "ISSUED", wht |-> 0, num |-> num[t]]
    ELSE [status |-> StatusSeen(t, i), wht |-> WhtSeen(t, i), num |-> inv[i].num]

Commit(t) ==
  LET p == req[t].pay IN
  /\ pc[t] = "commit"
  /\ inv'     = [i \in Invoices |-> InvoiceAfter(t, i)]
  /\ pay'     = [q \in Payments |-> PaymentSeen(t, q)]
  /\ alloc'   = [q \in Payments |-> [i \in Invoices |->
                   IF q = p THEN alloc[q][i] + rows[t][i] ELSE alloc[q][i]]]
  /\ invSum'  = [i \in Invoices |-> AllocatedSeen(t, i)]
  /\ paySum'  = [q \in Payments |-> SpentSeen(t, q)]
  /\ seq'     = IF num[t] = 0 THEN seq ELSE [seq EXCEPT ![SequenceKind(t)] = num[t]]
  /\ balance' = [balance EXCEPT ![req[t].cust] = bal[t]]
  /\ Finish(t)
  /\ UNCHANGED <<sweep, crashes>>

\* A request the next statement turns down: it throws, everything rolls back.
Refused(t) ==
  \/ pc[t] = "guard"        /\ ~AllocationAllowed(t)
  \/ pc[t] = "insert"       /\ ~RowIsUnique(t)
  \/ pc[t] = "readOriginal" /\ ~ReversalAllowed(t)
  \/ pc[t] = "mirror"       /\ ~MirrorsAreNegative(t)
  \/ pc[t] = "voidGuard"    /\ ~VoidAllowed(t)
  \/ pc[t] = "whtGuard"     /\ ~WithholdingAllowed(t)

\* "Failed to CAS invoice": the row was there to lock, its status had moved.
CasFails(t) ==
  /\ pc[t] = "cas"
  /\ Granted(t)
  /\ StatusSeen(t, Head(todo[t]).inv) # seen[t][1]

Refuse(t) ==
  /\ Refused(t) \/ CasFails(t)
  /\ Finish(t)
  /\ UNCHANGED <<database, sweep, crashes>>

\* The connection, the process or the power is lost before the commit.  An
\* exception ends the nightly sweep of the tenant.
Crash(t) ==
  /\ pc[t] # "idle"
  /\ crashes < MaxCrashes
  /\ crashes' = crashes + 1
  /\ Finish(t)
  /\ sweep' = [n \in Crons |-> IF n = t THEN {} ELSE sweep[n]]
  /\ UNCHANGED database

Statement(t) ==
  \/ ClaimNumber(t) \/ LockPayment(t) \/ LockInvoice(t)
  \/ GuardAllocation(t) \/ InsertAllocation(t)
  \/ ReadOriginal(t) \/ InsertMirrors(t)
  \/ GuardVoid(t) \/ WriteVoid(t)
  \/ GuardWithholding(t) \/ WriteWithholding(t)
  \/ DeriveStatus(t) \/ CasStatus(t)
  \/ ReadInvoiced(t) \/ ReadUnapplied(t) \/ WriteBalance(t)
  \/ Commit(t) \/ Refuse(t)

Arrive(t) ==
  \/ CreateInvoice(t) \/ RecordPayment(t) \/ Allocate(t)
  \/ ReversePayment(t) \/ VoidInvoice(t) \/ RecordWithholding(t)

Next ==
  \/ \E t \in Requests : Arrive(t)
  \/ \E n \in Crons : StartSweep(n) \/ ReconcileOne(n)
  \/ \E t \in Txns : Statement(t) \/ Crash(t)

Spec == Init /\ [][Next]_vars

\* A transaction in flight is executed to its end, and the cron runs every
\* night; nothing forces a client to send another request.
Fairness ==
  /\ \A t \in Txns : WF_vars(Statement(t))
  /\ \A n \in Crons : WF_vars(StartSweep(n)) /\ WF_vars(ReconcileOne(n))

FairSpec == Spec /\ Fairness
-----------------------------------------------------------------------------
(* Properties.                                                             *)

Labels ==
  {"idle", "claim", "payLock", "readOriginal", "invLock", "guard", "insert", "mirror",
   "voidGuard", "voidWrite", "whtGuard", "whtWrite", "derive", "cas",
   "balInvoices", "balPayments", "balWrite", "commit"}

Ops == {"none", "create", "record", "allocate", "reverse", "void", "withhold", "reconcile"}

Request == [op : Ops, cust : Customers \cup {None}, inv : Invoices \cup {None},
            pay : Payments \cup {None}, amt : Int, orig : Payments \cup {None}]

\* Every request names what its operation works on.
RequestComplete(r) ==
  /\ r.op # "none" => r.cust \in Customers
  /\ r.op \in {"create", "void", "withhold"} => r.inv \in Invoices
  /\ r.op \in {"record", "allocate", "reverse"} => r.pay \in Payments
  /\ r.op = "reverse" => r.orig \in Payments

Invoice  == [status : Statuses, wht : Int, num : Nat]
Line     == [inv : Invoices, amt : Int]
MaybeStatus == Statuses \cup {None}

CommittedTyped ==
  /\ inv \in [Invoices -> Invoice]
  /\ pay \in [Payments -> Payment \cup {None}]
  /\ alloc \in [Payments -> [Invoices -> Int]]
  /\ invSum \in [Invoices -> Int]
  /\ paySum \in [Payments -> Int]
  /\ seq \in [Kinds -> Nat]
  /\ DOMAIN balance = Customers

ControlTyped ==
  /\ pc \in [Txns -> Labels]
  /\ req \in [Txns -> Request]
  /\ \A t \in Txns : RequestComplete(req[t])
  /\ todo \in [Txns -> Seq(Line)]
  /\ DOMAIN locks = Txns
  /\ num \in [Txns -> Nat]
  /\ seen \in [Txns -> MaybeStatus \X MaybeStatus]
  /\ DOMAIN bal = Txns

DraftsTyped ==
  /\ rows \in [Txns -> [Invoices -> Int]]
  /\ spent \in [Txns -> Int]
  /\ stat \in [Txns -> [Invoices -> MaybeStatus]]
  /\ wht \in [Txns -> Int \cup {None}]

\* The value of every variable has the type of the column or local it stands for.
TypeOK ==
  /\ CommittedTyped
  /\ ControlTyped
  /\ DraftsTyped
  /\ sweep \in [Crons -> SUBSET Customers]
  /\ crashes \in Nat

\* The sums the guards read are the sums of the allocation rows: the aggregates
\* this model keeps next to payment_allocations never drift from them.
AggregatesExact ==
  /\ \A i \in Invoices : invSum[i] = MapThenSumSet(LAMBDA p : alloc[p][i], Payments)
  /\ \A p \in Payments : paySum[p] = MapThenSumSet(LAMBDA i : alloc[p][i], Invoices)

\* An invoice is never settled beyond its total, whatever allocations and
\* withholdings race on it (guardAndInsertAllocation, recordWithholding).
NoOverAllocation == \A i \in Invoices : invSum[i] + inv[i].wht <= InvTotal[i]

\* A payment never settles more than was received, although two allocate()
\* calls on different invoices share no invoice lock.
PaymentNotOverspent ==
  \A p \in Payments : pay[p] # None /\ pay[p].revOf = None => paySum[p] <= pay[p].amt

\* The stored status of an invoice always agrees with the money on it, and the
\* compare-and-set that stores it is never beaten by another transaction.
StatusMatchesMoney ==
  /\ \A i \in Invoices : inv[i].status \notin {"NONE", "VOID"} =>
       inv[i].status = DerivePaymentStatus(InvTotal[i], inv[i].wht, invSum[i])
  /\ \A t \in Txns : ~CasFails(t)

\* VOID is terminal and seals the invoice: no later step moves its status, its
\* withholding or any allocation row on it, and it carries no money.
VoidIsSealed ==
  [][\A i \in Invoices : inv[i].status = "VOID" =>
       /\ inv'[i] = inv[i]
       /\ \A p \in Payments : alloc'[p][i] = alloc[p][i]
       /\ invSum[i] = 0 /\ inv[i].wht = 0]_vars

\* A payment is reversed at most once and a reversal is never reversed.
ReversalsAreFlatAndSingle ==
  \A p, q \in Payments : pay[q] # None /\ pay[q].revOf = p =>
    /\ pay[p] # None /\ pay[p].revOf = None
    /\ \A r \in Payments : pay[r] # None /\ pay[r].revOf = p => r = q

\* The moment a reversal commits, it undoes every allocation its original
\* holds: an allocate() on the original cannot slip in between the reading of
\* the rows and the mirrors.
ReversalUndoesTheWhole ==
  [][\A p, q \in Payments :
       (pay[q] = None /\ pay'[q] # None /\ pay'[q].revOf = p) =>
         \A i \in Invoices : alloc'[q][i] = -alloc'[p][i]]_vars

\* Receipts and invoices are numbered 1, 2, 3, ... without gap or repetition,
\* whatever claims were rolled back by refusals and crashes.
NumbersAreGapless ==
  LET issued   == {i \in Invoices : inv[i].status # "NONE"}
      received == {p \in Payments : pay[p] # None}
  IN  /\ {inv[i].num : i \in issued} = 1..seq["INVOICE"]
      /\ Cardinality(issued) = seq["INVOICE"]
      /\ {pay[p].num : p \in received} = 1..seq["RECEIPT"]
      /\ Cardinality(received) = seq["RECEIPT"]

\* Transactions never wait for each other in a circle (the lock order that
\* record() and reverse() repeat: sequence, payment, invoices ascending).
NoDeadlock ==
  \A S \in (SUBSET Txns) \ {{}} : \E t \in S : \A u \in S : ~WaitsFor(t, u)

\* What recomputeCustomerBalance would find in the committed rows.
CommittedBalance(c) ==
  LET status   == [i \in Invoices |-> inv[i].status]
      withheld == [i \in Invoices |-> inv[i].wht]
  IN  InvoicedBalance(c, status, withheld, invSum) - UnappliedCash(c, pay, paySum)

BalancesAreExact == \A c \in Customers : balance[c] = CommittedBalance(c)

Quiet == \A t \in Requests : pc[t] = "idle"

\* When no transaction is in flight the stored balance is the derived one.
BalanceExactAtRest == (\A t \in Txns : pc[t] = "idle") => BalancesAreExact

\* What is stored twice agrees: aggregates with the allocation rows, and the
\* balances of customers with their invoices and payments.
StoredSumsAreExact == AggregatesExact /\ BalanceExactAtRest

\* Once clients stop sending requests, the nightly reconciliation repairs
\* whatever stale balance racing transactions have left, and it stays right.
ReconciliationHeals == <>[]Quiet => <>[]BalancesAreExact

\* "an unfiltered sum is currently equivalent": dropping both sides of every
\* reversed pair from the customer's unapplied cash changes nothing.
ReversedPairsNetToZero ==
  \A c \in Customers :
    LET received == {p \in Payments : pay[p] # None /\ pay[p].cust = c}
    IN  UnappliedCash(c, pay, paySum)
          = MapThenSumSet(LAMBDA p : pay[p].amt - paySum[p], received)

=============================================================================
