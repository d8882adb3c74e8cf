-------------------------- MODULE LedgerInvariant ---------------------------
(***************************************************************************)
(* The inductive invariant behind NoOverAllocation.  The guards of         *)
(* guardAndInsertAllocation and recordWithholding run before the write     *)
(* they allow, so the invariant has to say what keeps a guard true until   *)
(* then: the advisory lock on the invoice, held by whoever has written or  *)
(* is about to write money on it.  The parts after it are behind the other *)
(* properties of the ledger; the last is about balances without overlap.   *)
(***************************************************************************)
EXTENDS Ledger

LocksExclusive ==
  \A t, u \in Txns : t # u => locks[t] \cap locks[u] = {}

\* Which operation executes which statement, and on what.
ControlOf(t) ==
  /\ (pc[t] = "idle") <=> (req[t].op = "none")
  /\ pc[t] = "claim"              => req[t].op \in {"create", "record", "reverse"}
  /\ pc[t] = "claim" /\ req[t].op = "create" => todo[t] = <<>>
  /\ pc[t] = "payLock"            => req[t].op \in {"record", "allocate", "reverse"}
  /\ pc[t] = "invLock"            => req[t].op \in {"record", "allocate", "reverse",
                                                    "void", "withhold"}
  /\ pc[t] \in {"guard", "insert"}         => req[t].op \in {"record", "allocate"}
  /\ pc[t] \in {"readOriginal", "mirror"}  => req[t].op = "reverse"
  /\ pc[t] \in {"voidGuard", "voidWrite"}  => req[t].op = "void"
  /\ pc[t] \in {"whtGuard", "whtWrite"}    => req[t].op = "withhold"
  /\ pc[t] \in {"derive", "cas"} => req[t].op \in {"record", "allocate", "reverse", "withhold"}
  /\ pc[t] \in {"invLock", "guard", "insert", "whtGuard", "whtWrite", "derive", "cas"}
       => todo[t] # <<>>
  /\ pc[t] = "payLock" /\ req[t].op # "reverse" => todo[t] # <<>>
  /\ pc[t] \in {"invLock", "whtGuard", "whtWrite", "derive", "cas"} /\ req[t].op = "withhold"
       => Len(todo[t]) = 1
  /\ pc[t] \in {"invLock", "whtGuard", "whtWrite"} /\ req[t].op = "withhold"
       => Head(todo[t]).inv = req[t].inv /\ Head(todo[t]).amt \in Nat
  /\ pc[t] = "invLock" /\ req[t].op = "void" => Head(todo[t]).inv = req[t].inv

ControlOK == \A t \in Txns : ControlOf(t)

\* Money a transaction has written but not committed is money on an invoice it
\* has locked.
DraftsLockedBy(t) ==
  /\ \A i \in Invoices : rows[t][i] # 0 =>
       Adv(i) \in locks[t] /\ req[t].op \in {"record", "allocate", "reverse"}
  /\ wht[t] # None =>
       wht[t] >= 0 /\ req[t].op = "withhold" /\ Adv(req[t].inv) \in locks[t]

DraftsAreLocked == \A t \in Txns : DraftsLockedBy(t)

\* The invoice a guard has looked at, or is about to look at, is locked.
GuardLockedBy(t) ==
  /\ pc[t] \in {"guard", "insert"} => Adv(Head(todo[t]).inv) \in locks[t]
  /\ pc[t] \in {"whtGuard", "whtWrite", "voidGuard", "voidWrite"} => Adv(req[t].inv) \in locks[t]
  /\ pc[t] = "mirror" => \A n \in DOMAIN todo[t] : Adv(todo[t][n].inv) \in locks[t]

GuardsAreLocked == \A t \in Txns : GuardLockedBy(t)

\* What a guard has established is still so when the write it allows comes.
GuardHoldsFor(t) ==
  /\ pc[t] = "insert" =>
       LET line == Head(todo[t]) IN
       AllocatedSeen(t, line.inv) + WhtSeen(t, line.inv) + line.amt <= InvTotal[line.inv]
  /\ pc[t] = "whtWrite" =>
       AllocatedSeen(t, req[t].inv) + Head(todo[t]).amt <= InvTotal[req[t].inv]

GuardsStillHold == \A t \in Txns : GuardHoldsFor(t)

\* No transaction sees an invoice settled beyond its total.
DraftsFit == \A t \in Txns, i \in Invoices :
  AllocatedSeen(t, i) + WhtSeen(t, i) <= InvTotal[i]

WithholdingsAreNatural == \A i \in Invoices : inv[i].wht >= 0

\* Locks, control and drafts fit together so that no commit can settle an invoice
\* beyond its total.
SettlementInvariant ==
  /\ TypeOK
  /\ ControlOK
  /\ LocksExclusive
  /\ DraftsAreLocked
  /\ GuardsAreLocked
  /\ GuardsStillHold
  /\ DraftsFit
  /\ NoOverAllocation
  /\ WithholdingsAreNatural

-----------------------------------------------------------------------------
(* Payments and reversals.                                                 *)

\* What a request keeps from its beginning to its end.
RequestFits(t) ==
  LET r == req[t] IN
  /\ r.op \notin {"record", "allocate", "reverse"} => r.pay = None
  /\ r.op # "reverse" => r.orig = None
  /\ r.op = "record" => r.amt >= 0
  /\ InsertsPayment(t) =>
       pay[r.pay] = None /\ \A u \in Txns \ {t} : req[u].pay # r.pay
  /\ r.op = "allocate" => pay[r.pay] # None /\ pay[r.pay].amt = r.amt
  /\ r.op = "reverse" => pay[r.orig] # None

\* A payment that is not there has no rows.
RowsHavePayments ==
  \A p \in Payments : pay[p] = None => paySum[p] = 0 /\ \A i \in Invoices : alloc[p][i] = 0

WorksOnPayment(t) ==
  \/ pc[t] \in {"invLock", "guard", "insert"}
  \/ spent[t] # 0
  \/ \E i \in Invoices : rows[t][i] # 0

\* Whoever has written rows of a payment, or is about to, has locked it; a reversal
\* has locked its original and still may reverse it.
PaymentLockedBy(t) ==
  /\ req[t].op \in {"record", "allocate"} /\ WorksOnPayment(t) => Adv(req[t].pay) \in locks[t]
  /\ spent[t] # 0 => req[t].op \in {"record", "allocate", "reverse"}
  /\ req[t].op = "reverse" /\ pc[t] \notin {"claim", "payLock"} =>
       /\ Adv(req[t].orig) \in locks[t]
       /\ pc[t] # "readOriginal" => ReversalAllowed(t)

\* What the guard found left of the payment is still left.
PaymentCovers(t) ==
  /\ pc[t] = "insert" =>
       paySum[req[t].pay] + spent[t] + Head(todo[t]).amt <= req[t].amt
  /\ req[t].op \in {"record", "allocate"} /\ spent[t] # 0 =>
       paySum[req[t].pay] + spent[t] <= req[t].amt

\* A reversal mirrors what its original holds, all of it and nothing else.
MirrorsOf(t) ==
  req[t].op = "reverse" =>
    /\ pc[t] \in {"claim", "payLock", "readOriginal", "invLock", "mirror"} =>
         \A i \in Invoices : rows[t][i] = 0
    /\ pc[t] \in {"invLock", "mirror"} =>
         /\ \A n \in DOMAIN todo[t] :
              /\ todo[t][n].amt = -alloc[req[t].orig][todo[t][n].inv]
              /\ alloc[req[t].orig][todo[t][n].inv] # 0
         /\ \A i \in AllocatedInvoices(req[t].orig) : \E n \in DOMAIN todo[t] : todo[t][n].inv = i
    /\ pc[t] \in {"derive", "cas", "balInvoices", "balPayments", "balWrite", "commit"} =>
         \A i \in Invoices : rows[t][i] = -alloc[req[t].orig][i]

PaymentInvariant ==
  /\ RowsHavePayments
  /\ PaymentNotOverspent
  /\ ReversalsAreFlatAndSingle
  /\ \A t \in Txns :
       RequestFits(t) /\ PaymentLockedBy(t) /\ PaymentCovers(t) /\ MirrorsOf(t)

-----------------------------------------------------------------------------
(* Invoices and their status.                                              *)

\* An invoice that is not there has no money.
MoneyHasInvoices ==
  \A i \in Invoices : inv[i].status = "NONE" =>
    inv[i].wht = 0 /\ invSum[i] = 0 /\ \A p \in Payments : alloc[p][i] = 0

\* The invoices a request is about are there, and the one it creates is not.
InvoiceFits(t) ==
  /\ req[t].op = "create" =>
       /\ inv[req[t].inv].status = "NONE"
       /\ \A u \in Txns \ {t} : req[u].op = "create" => req[u].inv # req[t].inv
  /\ req[t].op \in {"void", "withhold"} => inv[req[t].inv].status # "NONE"

\* The invoice whose status a transaction has yet to recompute: a reversal does so
\* after all its rows, the others after each.
Pending(t, i) ==
  /\ pc[t] \in {"derive", "cas"}
  /\ IF req[t].op = "reverse" THEN \E n \in DOMAIN todo[t] : todo[t][n].inv = i
                              ELSE Head(todo[t]).inv = i

\* A transaction writes only on invoices it has locked, that are there, and, a
\* reversal apart, that are not void.
StatusLockedBy(t) ==
  /\ \A i \in Invoices :
       /\ stat[t][i] # None =>
            /\ req[t].op \in {"record", "allocate", "reverse", "void", "withhold"}
            /\ Adv(i) \in locks[t] /\ stat[t][i] # "NONE" /\ inv[i].status \notin {"NONE", "VOID"}
       /\ stat[t][i] = "VOID" => req[t].op = "void" /\ WhtSeen(t, i) = 0
       /\ rows[t][i] # 0 => inv[i].status # "NONE"
       /\ Pending(t, i) => Adv(i) \in locks[t] /\ inv[i].status # "NONE"
  /\ wht[t] # None => inv[req[t].inv].status \notin {"NONE", "VOID"}
  /\ pc[t] = "insert" => inv[Head(todo[t]).inv].status \notin {"NONE", "VOID"}
  /\ pc[t] \in {"voidWrite", "whtWrite"} => inv[req[t].inv].status \notin {"NONE", "VOID"}
  /\ pc[t] = "voidWrite" => WhtSeen(t, req[t].inv) = 0

Settled(t, i) ==
  StatusSeen(t, i) \notin {"NONE", "VOID"} =>
    StatusSeen(t, i) = DerivePaymentStatus(InvTotal[i], WhtSeen(t, i), AllocatedSeen(t, i))

\* What a transaction is about to compare and to set is right.
StatusHeldBy(t) ==
  /\ \A i \in Invoices : ~Pending(t, i) => Settled(t, i)
  /\ pc[t] = "cas" =>
       LET i == Head(todo[t]).inv IN
       /\ seen[t][1] = StatusSeen(t, i) /\ seen[t][1] # "VOID"
       /\ seen[t][2] = DerivePaymentStatus(InvTotal[i], WhtSeen(t, i), AllocatedSeen(t, i))

StatusInvariant ==
  /\ MoneyHasInvoices
  /\ StatusMatchesMoney
  /\ \A i \in Invoices : inv[i].status = "VOID" => inv[i].wht = 0
  /\ \A t \in Txns : InvoiceFits(t) /\ StatusLockedBy(t) /\ StatusHeldBy(t)

-----------------------------------------------------------------------------
(* Numbers.                                                                *)

\* Whoever has claimed a number keeps its sequence locked, so that it is the next.
NumberHeldBy(t) ==
  /\ num[t] # 0 =>
       /\ req[t].op \in {"create", "record", "reverse"}
       /\ SeqRow(SequenceKind(t)) \in locks[t]
       /\ num[t] = seq[SequenceKind(t)] + 1
  /\ req[t].op \in {"create", "record", "reverse"} /\ pc[t] # "claim" => num[t] # 0

NumberInvariant ==
  /\ NumbersAreGapless
  /\ IsFiniteSet({p \in Payments : pay[p] # None})
  /\ \A t \in Txns : NumberHeldBy(t)

-----------------------------------------------------------------------------
(* Waiting.                                                                *)

\* What a transaction may have locked by the statement it stands at.
HeldBy(t) ==
  LET op == req[t].op
      p  == IF op = "reverse" THEN req[t].orig ELSE req[t].pay
  IN  \A lock \in locks[t] :
        \/ lock = SeqRow(SequenceKind(t)) /\ op \in {"create", "record", "reverse"} /\ pc[t] # "claim"
        \/ /\ op \in {"record", "allocate", "reverse"} /\ lock = Adv(p) /\ pc[t] # "claim"
           /\ op # "record" => pc[t] # "payLock"
        \/ /\ \E i \in Invoices : lock = Adv(i)
           /\ op \in {"record", "allocate", "reverse", "void", "withhold"} /\ pc[t] # "claim"
           /\ op \in {"allocate", "void", "withhold"} => pc[t] \notin {"payLock", "invLock"}
           /\ op = "reverse" => pc[t] \notin {"payLock", "readOriginal"}
        \/ \E i \in Invoices : lock = InvRow(i) /\ Adv(i) \in locks[t]
        \/ lock = CustRow(req[t].cust) /\ pc[t] = "commit"

\* allocate() has one line: it does not go back to the payment.
OneLine(t) ==
  req[t].op = "allocate" =>
    (pc[t] \in {"payLock", "invLock", "guard", "insert", "derive", "cas"} => Len(todo[t]) = 1)

\* A reversal that stands before the lock of an invoice has one left to lock.
OneLeftToLock(t) ==
  req[t].op = "reverse" /\ pc[t] = "invLock" =>
    \E n \in DOMAIN todo[t] : Adv(todo[t][n].inv) \notin locks[t]

WaitInvariant == \A t \in Txns : HeldBy(t) /\ OneLine(t) /\ OneLeftToLock(t)

-----------------------------------------------------------------------------
(* Sums.                                                                   *)

\* What a transaction has counted as spent is the sum of its rows.
SpentIsOfRows(t) == spent[t] = MapThenSumSet(LAMBDA i : rows[t][i], Invoices)

SumsInvariant == AggregatesExact /\ \A t \in Txns : SpentIsOfRows(t)

-----------------------------------------------------------------------------
(* Void invoices.                                                          *)

\* A receipt only gives; its reversal takes, of no invoice more than the receipt gave,
\* and in all no more than the receipt was.
AllocationsHaveSigns ==
  \A p \in Payments : pay[p] # None =>
    /\ pay[p].revOf = None => \A i \in Invoices : alloc[p][i] >= 0
    /\ pay[p].revOf # None =>
         /\ paySum[p] >= pay[p].amt
         /\ \A i \in Invoices : alloc[p][i] <= 0 /\ alloc[p][i] + alloc[pay[p].revOf][i] >= 0

\* Whoever settles an invoice gives, does so on no void invoice, and never from a reversal.
RowsHaveSigns(t) ==
  LET r == req[t] IN
  /\ r.op \in {"record", "allocate"} =>
       /\ \A n \in DOMAIN todo[t] : todo[t][n].amt > 0
       /\ \A i \in Invoices : rows[t][i] >= 0 /\ (rows[t][i] # 0 => inv[i].status # "VOID")
  /\ r.op = "allocate" /\ pay[r.pay].revOf # None => \A i \in Invoices : rows[t][i] = 0
  /\ r.op = "reverse" => r.amt = -pay[r.orig].amt

\* Whoever voids an invoice has found nothing allocated to it, and nothing comes.
VoidsWhatIsClean(t) ==
  \A i \in Invoices :
    stat[t][i] = "VOID" \/ (pc[t] = "voidWrite" /\ req[t].inv = i) => invSum[i] = 0

SealInvariant ==
  /\ AllocationsHaveSigns
  /\ \A i \in Invoices : inv[i].status = "VOID" => invSum[i] = 0
  /\ \A t \in Txns : RowsHaveSigns(t) /\ VoidsWhatIsClean(t)

-----------------------------------------------------------------------------
(* Owners.                                                                 *)

\* A payment settles invoices of its own customer only.
RowsFit ==
  \A p \in Payments, i \in Invoices : alloc[p][i] # 0 => pay[p] # None /\ pay[p].cust = InvCustomer[i]

\* A transaction works for one customer, whose balance it recomputes in the end.
WorksFor(t) ==
  LET r == req[t] IN
  /\ r.op \in {"create", "void", "withhold"} => InvCustomer[r.inv] = r.cust
  /\ r.op = "allocate" => pay[r.pay].cust = r.cust
  /\ r.op = "reverse" => pay[r.orig].cust = r.cust
  /\ pc[t] = "insert" => InvCustomer[Head(todo[t]).inv] = r.cust
  /\ \A i \in Invoices : rows[t][i] # 0 \/ stat[t][i] # None \/ Pending(t, i) => InvCustomer[i] = r.cust

OwnersInvariant == RowsFit /\ \A t \in Txns : WorksFor(t)

\* The inductive invariant of the ledger.
Inductive ==
  /\ SettlementInvariant
  /\ PaymentInvariant
  /\ StatusInvariant
  /\ NumberInvariant
  /\ WaitInvariant
  /\ SumsInvariant
  /\ SealInvariant
  /\ OwnersInvariant

-----------------------------------------------------------------------------
(* Calm: balances, when the transactions of a customer do not overlap.     *)

\* Whoever begins does so when no transaction for its customer is open.
OnePerCustomer ==
  \A t \in Txns : pc[t] = "idle" /\ pc'[t] # "idle" =>
    \A u \in Txns \ {t} : pc[u] # "idle" => req[u].cust # req'[t].cust

CalmSpec == Init /\ [][Next /\ OnePerCustomer]_vars

Apart ==
  \A t, u \in Txns : t # u /\ pc[t] # "idle" /\ pc[u] # "idle" => req[t].cust # req[u].cust

\* What the customer will have been invoiced, and have to its credit, if the
\* transaction commits.
InvoicedAfter(t) ==
  LET status    == [i \in Invoices |-> IF req[t].op = "create" /\ req[t].inv = i
                                          THEN "ISSUED" ELSE StatusSeen(t, i)]
      withheld  == [i \in Invoices |-> WhtSeen(t, i)]
      allocated == [i \in Invoices |-> AllocatedSeen(t, i)]
  IN  InvoicedBalance(req[t].cust, status, withheld, allocated)

UnappliedAfter(t) ==
  LET table     == [p \in Payments |-> PaymentSeen(t, p)]
      allocated == [p \in Payments |-> SpentSeen(t, p)]
  IN  UnappliedCash(req[t].cust, table, allocated)

\* The balance a transaction has computed is still that when it is stored.
BalanceOf(t) ==
  /\ pc[t] = "balPayments" => bal[t] = InvoicedAfter(t)
  /\ pc[t] \in {"balWrite", "commit"} => bal[t] = InvoicedAfter(t) - UnappliedAfter(t)

CalmInvariant == Apart /\ BalancesAreExact /\ \A t \in Txns : BalanceOf(t)
=============================================================================
