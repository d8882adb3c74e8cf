---------------------------- MODULE LedgerProofs -----------------------------
(***************************************************************************)
(* Proofs about Ledger, for every number of requests, invoices, payments   *)
(* and amounts.  The first part is about what settles an invoice, the      *)
(* second about payments: whatever allocate() calls and reversals race, no *)
(* payment settles more than was received, a payment is reversed once, and *)
(* its reversal undoes all of it.  The third is about the invoices: their  *)
(* status always agrees with the money on them, VOID is the end of them,   *)
(* documents are numbered without gap, and no circle of transactions waits *)
(* for one another.  The fourth is about sums: those stored are those of   *)
(* the rows, a void invoice has nothing of any payment, and money stays    *)
(* with its customer.  Together they make the inductive invariant hold for *)
(* all values of the constants.  The last part is about the balances: they *)
(* are exact where the transactions of one customer do not overlap.        *)
(***************************************************************************)
EXTENDS LedgerInvariant, Sums, SequenceTheorems

-----------------------------------------------------------------------------
(* Types.                                                                  *)

\* The request of an idle transaction is well formed.
LEMMA EmptyRequest == NoRequest \in Request /\ RequestComplete(NoRequest)
BY DEF NoRequest, Ask, Request, RequestComplete, Ops

\* The line a transaction works on names an invoice and an amount.
LEMMA HeadIsLine ==
  ASSUME ControlTyped, NEW t \in Txns, todo[t] # <<>>
  PROVE  Head(todo[t]) \in Line /\ Head(todo[t]).inv \in Invoices /\ Head(todo[t]).amt \in Int
<1>1. todo[t] \in Seq(Line)
  BY DEF ControlTyped
<1>2. Head(todo[t]) \in Line
  BY <1>1, HeadTailProperties
<1>3. QED
  BY <1>2 DEF Line

\* Dropping the line that is done leaves a list of lines.
LEMMA NextLineTyped ==
  ASSUME ControlTyped, NEW t \in Txns, todo[t] # <<>>, NextLine(t)
  PROVE  todo' \in [Txns -> Seq(Line)]
BY DEF ControlTyped, NextLine

\* Every statement label is a label.
LEMMA LabelsTyped ==
  ASSUME ControlOK, NEW t \in Txns
  PROVE  /\ AfterClaim(t) \in Labels
         /\ AfterStatus(t) \in Labels
         /\ pc[t] = "invLock" => AfterInvoiceLock(t) \in Labels
<1>1. AfterClaim(t) \in Labels
  BY DEF AfterClaim, Labels
<1>2. AfterStatus(t) \in Labels
  <2>1. AfterStatus(t) \in {"balInvoices", "derive", "payLock"}
    BY DEF AfterStatus
  <2>2. QED
    BY <2>1 DEF Labels
<1>3. ASSUME pc[t] = "invLock" PROVE AfterInvoiceLock(t) \in Labels
  <2>1. req[t].op \in {"record", "allocate", "reverse", "void", "withhold"}
    BY <1>3 DEF ControlOK, ControlOf
  <2>2. AfterInvoiceLock(t) \in {"guard", "voidGuard", "whtGuard", "mirror", "invLock"}
    BY <2>1 DEF AfterInvoiceLock
  <2>3. QED
    BY <2>2 DEF Labels
<1>4. QED
  BY <1>1, <1>2, <1>3

\* A statement moves on to another one and keeps the request it serves.
LEMMA ControlStep ==
  ASSUME ControlTyped, NEW t \in Txns, NEW label \in Labels, Goto(t, label), req' = req,
         todo' \in [Txns -> Seq(Line)],
         locks' = locks \/ Acquire(t),
         num' \in [Txns -> Nat],
         seen' \in [Txns -> MaybeStatus \X MaybeStatus],
         DOMAIN bal' = Txns
  PROVE  ControlTyped'
<1>1. pc' \in [Txns -> Labels]
  BY DEF ControlTyped, Goto
<1>2. DOMAIN locks' = Txns
  BY DEF ControlTyped, Acquire
<1>3. QED
  BY <1>1, <1>2 DEF ControlTyped

\* Beginning a transaction fixes well-typed parameters.
LEMMA TypeBegin ==
  ASSUME TypeOK, NEW t \in Txns, NEW r \in Request, RequestComplete(r),
         NEW lines \in Seq(Line), NEW label \in Labels,
         Begin(t, r, lines, label),
         sweep' \in [Crons -> SUBSET Customers]
  PROVE  TypeOK'
<1>1. CommittedTyped' /\ DraftsTyped' /\ crashes' \in Nat
  BY DEF TypeOK, CommittedTyped, DraftsTyped, Begin, database, drafts
<1>2. ControlTyped'
  BY DEF TypeOK, ControlTyped, Begin, Goto
<1>3. QED
  BY <1>1, <1>2 DEF TypeOK

\* Ending a transaction clears everything it kept to itself.
LEMMA TypeFinish ==
  ASSUME ControlTyped, DraftsTyped, NEW t \in Txns, Finish(t)
  PROVE  ControlTyped' /\ DraftsTyped'
<1>1. DraftsTyped'
  <2>1. rows' \in [Txns -> [Invoices -> Int]]
    BY DEF DraftsTyped, Finish
  <2>2. stat' \in [Txns -> [Invoices -> MaybeStatus]]
    BY DEF DraftsTyped, Finish, MaybeStatus
  <2>3. spent' \in [Txns -> Int] /\ wht' \in [Txns -> Int \cup {None}]
    BY DEF DraftsTyped, Finish
  <2>4. QED
    BY <2>1, <2>2, <2>3 DEF DraftsTyped
<1>2. ControlTyped'
  <2>1. pc' \in [Txns -> Labels]
    BY DEF ControlTyped, Finish, Goto, Labels
  <2>2. req' \in [Txns -> Request] /\ \A u \in Txns : RequestComplete(req'[u])
    BY EmptyRequest DEF ControlTyped, Finish
  <2>3. todo' \in [Txns -> Seq(Line)]
    BY DEF ControlTyped, Finish
  <2>4. seen' \in [Txns -> MaybeStatus \X MaybeStatus]
    BY DEF ControlTyped, Finish, MaybeStatus
  <2>5. DOMAIN locks' = Txns /\ DOMAIN bal' = Txns /\ num' \in [Txns -> Nat]
    BY DEF ControlTyped, Finish
  <2>6. QED
    BY <2>1, <2>2, <2>3, <2>4, <2>5 DEF ControlTyped
<1>3. QED
  BY <1>1, <1>2

\* The state every transaction starts from.
LEMMA TypeInit == Init => TypeOK
<1> SUFFICES ASSUME Init PROVE TypeOK
  OBVIOUS
<1>1. CommittedTyped
  BY DEF Init, CommittedTyped, Invoice, Statuses
<1>2. ControlTyped
  BY EmptyRequest DEF Init, ControlTyped, Labels, MaybeStatus
<1>3. DraftsTyped
  BY DEF Init, DraftsTyped, MaybeStatus
<1>4. QED
  BY <1>1, <1>2, <1>3 DEF Init, TypeOK

-----------------------------------------------------------------------------
(* Requests.  Each arrival is a Begin with parameters of the right shape.  *)

Arrives(t, r, lines, label) ==
  /\ r \in Request /\ RequestComplete(r) /\ lines \in Seq(Line) /\ label \in Labels
  /\ Begin(t, r, lines, label)
  /\ r.op # "none"
  /\ label = "claim" => r.op \in {"create", "record", "reverse"}
  /\ label = "claim" /\ r.op = "create" => lines = <<>>
  /\ label = "payLock" => r.op = "allocate" /\ lines # <<>>
  /\ label = "invLock" =>
       /\ r.op \in {"void", "withhold"} /\ Len(lines) = 1 /\ lines # <<>>
       /\ Head(lines).inv = r.inv
       /\ Head(lines).amt \in Nat
  /\ label \in {"claim", "payLock", "invLock", "balInvoices"}

\* What a client may allocate is an invoice and an amount.
LEMMA AllocationLineIsLine == AllocationLine \subseteq Line
BY AmountsArePositive DEF AllocationLine, Line

\* Whatever arrives, it starts with the statement its operation starts with.
LEMMA ArrivalShape ==
  ASSUME TypeOK, NEW t \in Requests, Arrive(t)
  PROVE  /\ \E r, lines, label : Arrives(t, r, lines, label)
         /\ sweep' = sweep
<1>1. CASE CreateInvoice(t)
  <2>1. PICK i \in Invoices :
          /\ Begin(t, Ask("create", InvCustomer[i], i, None, 0, None), <<>>, "claim")
          /\ UNCHANGED sweep
    BY <1>1 DEF CreateInvoice
  <2> DEFINE r == Ask("create", InvCustomer[i], i, None, 0, None)
  <2>2. r \in Request /\ RequestComplete(r) /\ r.op = "create"
    BY InvoicesHaveOwners, NullIsNoValue DEF Ask, Request, RequestComplete, Ops
  <2>3. Arrives(t, r, <<>>, "claim")
    BY <2>1, <2>2 DEF Arrives, Labels
  <2>4. QED
    BY <2>1, <2>3
<1>2. CASE RecordPayment(t)
  <2>1. PICK c \in Customers, a \in Amounts, p \in Payments, l \in AllocationLists :
          /\ Begin(t, Ask("record", c, None, p, a, None), l, "claim")
          /\ UNCHANGED sweep
    BY <1>2 DEF RecordPayment
  <2> DEFINE r == Ask("record", c, None, p, a, None)
  <2>2. r \in Request /\ RequestComplete(r) /\ r.op = "record"
    BY AmountsArePositive, NullIsNoValue DEF Ask, Request, RequestComplete, Ops
  <2>3. l \in Seq(Line)
    <3>1. PICK n \in 0..MaxLines : l \in [1..n -> AllocationLine]
      BY DEF AllocationLists
    <3>2. AllocationLine \subseteq Line
      BY AllocationLineIsLine
    <3>3. n \in Nat
      BY BoundIsNatural
    <3>4. l \in [1..n -> Line]
      BY <3>1, <3>2
    <3>5. QED
      BY <3>3, <3>4, SeqDef
  <2>4. Arrives(t, r, l, "claim")
    BY <2>1, <2>2, <2>3 DEF Arrives, Labels
  <2>5. QED
    BY <2>1, <2>4
<1>3. CASE Allocate(t)
  <2>1. PICK p \in Payments, line \in AllocationLine :
          /\ pay[p] # None
          /\ Begin(t, Ask("allocate", pay[p].cust, None, p, pay[p].amt, None), <<line>>, "payLock")
          /\ UNCHANGED sweep
    BY <1>3 DEF Allocate
  <2> DEFINE r == Ask("allocate", pay[p].cust, None, p, pay[p].amt, None)
  <2>2. pay[p].cust \in Customers /\ pay[p].amt \in Int
    BY <2>1 DEF TypeOK, CommittedTyped, Payment
  <2>3. r \in Request /\ RequestComplete(r) /\ r.op = "allocate"
    BY <2>2, NullIsNoValue DEF Ask, Request, RequestComplete, Ops
  <2>4. <<line>> \in Seq(Line) /\ <<line>> # <<>>
    BY AllocationLineIsLine
  <2>5. Arrives(t, r, <<line>>, "payLock")
    BY <2>1, <2>3, <2>4 DEF Arrives, Labels
  <2>6. QED
    BY <2>1, <2>5
<1>4. CASE ReversePayment(t)
  <2>1. PICK p \in Payments, q \in Payments :
          /\ pay[p] # None
          /\ Begin(t, Ask("reverse", pay[p].cust, None, q, -pay[p].amt, p), <<>>, "claim")
          /\ UNCHANGED sweep
    BY <1>4 DEF ReversePayment
  <2> DEFINE r == Ask("reverse", pay[p].cust, None, q, -pay[p].amt, p)
  <2>2. pay[p].cust \in Customers /\ pay[p].amt \in Int
    BY <2>1 DEF TypeOK, CommittedTyped, Payment
  <2>3. r \in Request /\ RequestComplete(r) /\ r.op = "reverse"
    BY <2>2, NullIsNoValue DEF Ask, Request, RequestComplete, Ops
  <2>4. Arrives(t, r, <<>>, "claim")
    BY <2>1, <2>3 DEF Arrives, Labels
  <2>5. QED
    BY <2>1, <2>4
<1>5. CASE VoidInvoice(t)
  <2>1. PICK i \in Invoices :
          /\ Begin(t, Ask("void", InvCustomer[i], i, None, 0, None), <<[inv |-> i, amt |-> 0]>>, "invLock")
          /\ UNCHANGED sweep
    BY <1>5 DEF VoidInvoice
  <2> DEFINE r == Ask("void", InvCustomer[i], i, None, 0, None)
             lines == <<[inv |-> i, amt |-> 0]>>
  <2>2. r \in Request /\ RequestComplete(r) /\ r.op = "void" /\ r.inv = i
    BY InvoicesHaveOwners, NullIsNoValue DEF Ask, Request, RequestComplete, Ops
  <2>3. lines \in Seq(Line) /\ lines # <<>> /\ Len(lines) = 1 /\ Head(lines).inv = i /\ Head(lines).amt \in Nat
    BY DEF Line
  <2>4. Arrives(t, r, lines, "invLock")
    BY <2>1, <2>2, <2>3 DEF Arrives, Labels
  <2>5. QED
    BY <2>1, <2>4
<1>6. CASE RecordWithholding(t)
  <2>1. PICK i \in Invoices, a \in Amounts \cup {0} :
          /\ Begin(t, Ask("withhold", InvCustomer[i], i, None, 0, None), <<[inv |-> i, amt |-> a]>>, "invLock")
          /\ UNCHANGED sweep
    BY <1>6 DEF RecordWithholding
  <2> DEFINE r == Ask("withhold", InvCustomer[i], i, None, 0, None)
             lines == <<[inv |-> i, amt |-> a]>>
  <2>2. r \in Request /\ RequestComplete(r) /\ r.op = "withhold" /\ r.inv = i
    BY InvoicesHaveOwners, NullIsNoValue DEF Ask, Request, RequestComplete, Ops
  <2>3. lines \in Seq(Line) /\ lines # <<>> /\ Len(lines) = 1 /\ Head(lines).inv = i /\ Head(lines).amt \in Nat
    BY AmountsArePositive DEF Line
  <2>4. Arrives(t, r, lines, "invLock")
    BY <2>1, <2>2, <2>3 DEF Arrives, Labels
  <2>5. QED
    BY <2>1, <2>4
<1>7. QED
  BY <1>1, <1>2, <1>3, <1>4, <1>5, <1>6 DEF Arrive

\* The nightly job begins its own transactions.
LEMMA ReconcileShape ==
  ASSUME TypeOK, NEW n \in Crons, ReconcileOne(n)
  PROVE  /\ \E r, lines, label : Arrives(n, r, lines, label)
         /\ sweep' \in [Crons -> SUBSET Customers]
<1>1. PICK c \in sweep[n] :
        /\ Begin(n, Ask("reconcile", c, None, None, 0, None), <<>>, "balInvoices")
        /\ sweep' = [sweep EXCEPT ![n] = @ \ {c}]
  BY DEF ReconcileOne
<1> DEFINE r == Ask("reconcile", c, None, None, 0, None)
<1>2. c \in Customers
  BY DEF TypeOK
<1>3. r \in Request /\ RequestComplete(r) /\ r.op = "reconcile"
  BY <1>2, NullIsNoValue DEF Ask, Request, RequestComplete, Ops
<1>4. Arrives(n, r, <<>>, "balInvoices")
  BY <1>1, <1>3 DEF Arrives, Labels
<1>5. sweep' \in [Crons -> SUBSET Customers]
  BY <1>1 DEF TypeOK
<1>6. QED
  BY <1>4, <1>5

-----------------------------------------------------------------------------
(* Type correctness of every statement.                                    *)

\* What a transaction sees has the type of what is stored.
LEMMA SeenTyped ==
  ASSUME CommittedTyped, DraftsTyped, NEW t \in Txns, NEW i \in Invoices
  PROVE  /\ StatusSeen(t, i) \in Statuses
         /\ WhtSeen(t, i) \in Int
         /\ AllocatedSeen(t, i) \in Int
BY NullIsNoValue DEF CommittedTyped, DraftsTyped, Invoice, MaybeStatus,
   StatusSeen, WhtSeen, AllocatedSeen

\* A list of invoices is a sequence.
LEMMA InvoiceListsAreLists ==
  ASSUME NEW list \in InvoiceLists
  PROVE  \E k \in Nat : list \in [1..k -> Invoices]
<1>1. Cardinality(Invoices) \in Nat
  BY InvoicesAreOrdered, FS_CardinalityType
<1>2. PICK k \in 0..Cardinality(Invoices) : list \in [1..k -> Invoices]
  BY DEF InvoiceLists
<1>3. QED
  BY <1>1, <1>2

\* A statement that only reads, locks or moves on keeps every type.
LEMMA TypeControlOnly ==
  ASSUME TypeOK, ControlTyped', UNCHANGED <<database, drafts, sweep, crashes>>
  PROVE  TypeOK'
BY DEF TypeOK, CommittedTyped, DraftsTyped, database, drafts

\* The statements that lock and number.
LEMMA TypeLocking ==
  ASSUME TypeOK, ControlOK, NEW t \in Txns,
         \/ ClaimNumber(t) \/ LockPayment(t) \/ LockInvoice(t) \/ WriteBalance(t)
  PROVE  TypeOK'
<1> USE DEF TypeOK
<1>1. CASE ClaimNumber(t)
  <2>1. SequenceKind(t) \in Kinds
    BY DEF SequenceKind, Kinds
  <2>2. num' \in [Txns -> Nat]
    BY <1>1, <2>1 DEF ClaimNumber, ControlTyped, CommittedTyped
  <2>3. ControlTyped'
    BY <1>1, <2>2, LabelsTyped, ControlStep DEF ClaimNumber, ControlTyped
  <2>4. QED
    BY <1>1, <2>3, TypeControlOnly DEF ClaimNumber
<1>2. CASE LockPayment(t)
  <2>1. ControlTyped'
    BY <1>2, ControlStep DEF LockPayment, ControlTyped, Labels
  <2>2. QED
    BY <1>2, <2>1, TypeControlOnly DEF LockPayment
<1>3. CASE LockInvoice(t)
  <2>1. ControlTyped'
    BY <1>3, LabelsTyped, ControlStep DEF LockInvoice, ControlTyped
  <2>2. QED
    BY <1>3, <2>1, TypeControlOnly DEF LockInvoice
<1>4. CASE WriteBalance(t)
  <2>1. ControlTyped'
    BY <1>4, ControlStep DEF WriteBalance, ControlTyped, Labels
  <2>2. QED
    BY <1>4, <2>1, TypeControlOnly DEF WriteBalance
<1>5. QED
  BY <1>1, <1>2, <1>3, <1>4

\* The statements that read and decide.
LEMMA TypeReading ==
  ASSUME TypeOK, ControlOK, NEW t \in Txns,
         \/ GuardAllocation(t) \/ GuardVoid(t) \/ GuardWithholding(t)
         \/ ReadOriginal(t) \/ DeriveStatus(t) \/ ReadInvoiced(t) \/ ReadUnapplied(t)
  PROVE  TypeOK'
<1> USE DEF TypeOK
<1>1. CASE GuardAllocation(t)
  <2>1. ControlTyped'
    BY <1>1, ControlStep DEF GuardAllocation, ControlTyped, Labels
  <2>2. QED
    BY <1>1, <2>1, TypeControlOnly DEF GuardAllocation
<1>2. CASE GuardVoid(t)
  <2>1. ControlTyped'
    BY <1>2, ControlStep DEF GuardVoid, ControlTyped, Labels
  <2>2. QED
    BY <1>2, <2>1, TypeControlOnly DEF GuardVoid
<1>3. CASE GuardWithholding(t)
  <2>1. ControlTyped'
    BY <1>3, ControlStep DEF GuardWithholding, ControlTyped, Labels
  <2>2. QED
    BY <1>3, <2>1, TypeControlOnly DEF GuardWithholding
<1>4. CASE ReadOriginal(t)
  <2>1. req[t].orig \in Payments
    BY <1>4 DEF ReadOriginal, ControlOK, ControlOf, ControlTyped, RequestComplete
  <2> DEFINE mirrors(list) == [n \in DOMAIN list |->
                                [inv |-> list[n], amt |-> -alloc[req[t].orig][list[n]]]]
             after(list)   == IF list = <<>> THEN "mirror" ELSE "invLock"
  <2>2. PICK list \in InvoiceLists :
          todo' = [todo EXCEPT ![t] = mirrors(list)] /\ Goto(t, after(list))
    BY <1>4 DEF ReadOriginal
  <2>3. PICK k \in Nat : list \in [1..k -> Invoices]
    BY <2>2, InvoiceListsAreLists
  <2>4. mirrors(list) \in [1..k -> Line]
    BY <2>1, <2>3 DEF CommittedTyped, Line
  <2>5. mirrors(list) \in Seq(Line)
    BY <2>4, SeqDef
  <2>6. todo' \in [Txns -> Seq(Line)]
    BY <2>2, <2>5 DEF ControlTyped
  <2>7. after(list) \in Labels
    BY DEF Labels
  <2>8. ControlTyped'
    BY <1>4, <2>2, <2>6, <2>7, ControlStep DEF ReadOriginal, ControlTyped
  <2>9. QED
    BY <1>4, <2>8, TypeControlOnly DEF ReadOriginal
<1>5. CASE DeriveStatus(t)
  <2> DEFINE i    == Head(todo[t]).inv
             next == DerivePaymentStatus(InvTotal[i], WhtSeen(t, i), AllocatedSeen(t, i))
  <2>1. todo[t] # <<>> /\ i \in Invoices
    BY <1>5, HeadIsLine DEF DeriveStatus, ControlOK, ControlOf
  <2>2. next \in Statuses
    BY DEF DerivePaymentStatus, Statuses
  <2>3. StatusSeen(t, i) \in Statuses
    BY <2>1, SeenTyped
  <2>4. CASE StatusSeen(t, i) \in {"VOID", next}
    <3>1. Goto(t, AfterStatus(t)) /\ NextLine(t) /\ UNCHANGED seen
      BY <1>5, <2>4 DEF DeriveStatus
    <3>2. ControlTyped'
      BY <1>5, <2>1, <3>1, NextLineTyped, LabelsTyped, ControlStep DEF DeriveStatus, ControlTyped
    <3>3. QED
      BY <1>5, <3>2, TypeControlOnly DEF DeriveStatus
  <2>5. CASE StatusSeen(t, i) \notin {"VOID", next}
    <3>1. Goto(t, "cas") /\ seen' = [seen EXCEPT ![t] = <<StatusSeen(t, i), next>>] /\ UNCHANGED todo
      BY <1>5, <2>5 DEF DeriveStatus
    <3>2. seen' \in [Txns -> MaybeStatus \X MaybeStatus]
      BY <2>2, <2>3, <3>1 DEF ControlTyped, MaybeStatus
    <3>3. ControlTyped'
      BY <1>5, <3>1, <3>2, ControlStep DEF DeriveStatus, ControlTyped, Labels
    <3>4. QED
      BY <1>5, <3>3, TypeControlOnly DEF DeriveStatus
  <2>6. QED
    BY <2>4, <2>5
<1>6. CASE ReadInvoiced(t)
  <2>1. DOMAIN bal' = Txns
    BY <1>6 DEF ReadInvoiced, ControlTyped
  <2>2. Goto(t, "balPayments") /\ "balPayments" \in Labels
    BY <1>6 DEF ReadInvoiced, Labels
  <2>3. ControlTyped'
    BY <1>6, <2>1, <2>2, ControlStep DEF ReadInvoiced, ControlTyped
  <2>4. QED
    BY <1>6, <2>3, TypeControlOnly DEF ReadInvoiced
<1>7. CASE ReadUnapplied(t)
  <2>1. DOMAIN bal' = Txns
    BY <1>7 DEF ReadUnapplied, ControlTyped
  <2>2. Goto(t, "balWrite") /\ "balWrite" \in Labels
    BY <1>7 DEF ReadUnapplied, Labels
  <2>3. ControlTyped'
    BY <1>7, <2>1, <2>2, ControlStep DEF ReadUnapplied, ControlTyped
  <2>4. QED
    BY <1>7, <2>3, TypeControlOnly DEF ReadUnapplied
<1>8. QED
  BY <1>1, <1>2, <1>3, <1>4, <1>5, <1>6, <1>7

\* The statements that write.
LEMMA TypeWriting ==
  ASSUME TypeOK, ControlOK, NEW t \in Txns,
         \/ InsertAllocation(t) \/ InsertMirrors(t) \/ WriteVoid(t)
         \/ WriteWithholding(t) \/ CasStatus(t)
  PROVE  TypeOK'
<1> USE DEF TypeOK
<1>1. CASE InsertAllocation(t)
  <2>1. Head(todo[t]).inv \in Invoices /\ Head(todo[t]).amt \in Int
    BY <1>1, HeadIsLine DEF InsertAllocation, ControlOK, ControlOf
  <2>2. DraftsTyped'
    BY <1>1, <2>1 DEF InsertAllocation, DraftsTyped
  <2>3. ControlTyped'
    BY <1>1, ControlStep DEF InsertAllocation, ControlTyped, Labels
  <2>4. QED
    BY <1>1, <2>2, <2>3 DEF InsertAllocation, CommittedTyped, database
<1>2. CASE InsertMirrors(t)
  <2>1. req[t].orig \in Payments
    BY <1>2 DEF InsertMirrors, ControlOK, ControlOf, ControlTyped, RequestComplete
  <2>2. \A i \in Invoices : MirrorRow(t, i) \in Int
    <3>1. \A n \in DOMAIN todo[t] : todo[t][n].amt \in Int
      <4>1. todo[t] \in Seq(Line)
        BY DEF ControlTyped
      <4>2. \A n \in DOMAIN todo[t] : todo[t][n] \in Line
        BY <4>1, ElementOfSeq, LenProperties
      <4>3. QED
        BY <4>2 DEF Line
    <3>2. QED
      BY <3>1 DEF MirrorRow
  <2>3. rows' \in [Txns -> [Invoices -> Int]]
    BY <1>2, <2>2 DEF InsertMirrors, DraftsTyped
  <2>4. spent' \in [Txns -> Int]
    BY <1>2, <2>1 DEF InsertMirrors, DraftsTyped, CommittedTyped
  <2>5. DraftsTyped'
    BY <1>2, <2>3, <2>4 DEF InsertMirrors, DraftsTyped
  <2>6. ControlTyped'
    BY <1>2, ControlStep DEF InsertMirrors, ControlTyped, Labels
  <2>7. QED
    BY <1>2, <2>5, <2>6 DEF InsertMirrors, CommittedTyped, database
<1>3. CASE WriteVoid(t)
  <2>1. req[t].inv \in Invoices
    BY <1>3 DEF WriteVoid, ControlOK, ControlOf, ControlTyped, RequestComplete
  <2>2. DraftsTyped'
    BY <1>3, <2>1 DEF WriteVoid, DraftsTyped, MaybeStatus, Statuses
  <2>3. ControlTyped'
    BY <1>3, ControlStep DEF WriteVoid, ControlTyped, Labels
  <2>4. QED
    BY <1>3, <2>2, <2>3 DEF WriteVoid, CommittedTyped, database
<1>4. CASE WriteWithholding(t)
  <2>1. Head(todo[t]).amt \in Int
    BY <1>4, HeadIsLine DEF WriteWithholding, ControlOK, ControlOf
  <2>2. DraftsTyped'
    BY <1>4, <2>1 DEF WriteWithholding, DraftsTyped
  <2>3. ControlTyped'
    BY <1>4, ControlStep DEF WriteWithholding, ControlTyped, Labels
  <2>4. QED
    BY <1>4, <2>2, <2>3 DEF WriteWithholding, CommittedTyped, database
<1>5. CASE CasStatus(t)
  <2>1. Head(todo[t]).inv \in Invoices /\ todo[t] # <<>>
    BY <1>5, HeadIsLine DEF CasStatus, ControlOK, ControlOf
  <2>2. seen[t][2] \in MaybeStatus
    BY DEF ControlTyped
  <2>3. DraftsTyped'
    BY <1>5, <2>1, <2>2 DEF CasStatus, DraftsTyped
  <2>4. ControlTyped'
    BY <1>5, <2>1, NextLineTyped, LabelsTyped, ControlStep DEF CasStatus, ControlTyped
  <2>5. QED
    BY <1>5, <2>3, <2>4 DEF CasStatus, CommittedTyped, database
<1>6. QED
  BY <1>1, <1>2, <1>3, <1>4, <1>5

\* The end of a transaction: commit, refusal or crash.
LEMMA TypeEnding ==
  ASSUME TypeOK, ControlOK, NEW t \in Txns, Commit(t) \/ Refuse(t) \/ Crash(t)
  PROVE  TypeOK'
<1> USE DEF TypeOK
<1>1. CASE Commit(t)
  <2>1. ControlTyped' /\ DraftsTyped'
    BY <1>1, TypeFinish DEF Commit
  <2>2. inv' \in [Invoices -> Invoice]
    <3>1. \A i \in Invoices : InvoiceAfter(t, i) \in Invoice
      BY SeenTyped DEF InvoiceAfter, Invoice, ControlTyped, CommittedTyped, Statuses
    <3>2. QED
      BY <1>1, <3>1 DEF Commit
  <2>3. pay' \in [Payments -> Payment \cup {None}]
    <3>1. \A p \in Payments : PaymentSeen(t, p) \in Payment \cup {None}
      <4> SUFFICES ASSUME NEW p \in Payments
                   PROVE  PaymentSeen(t, p) \in Payment \cup {None}
        OBVIOUS
      <4>1. CASE InsertsPayment(t) /\ req[t].pay = p
        <5>1. req[t].op # "none" /\ req[t] \in Request /\ num[t] \in Nat
          BY <4>1 DEF InsertsPayment, ControlTyped
        <5>2. req[t].cust \in Customers /\ req[t].amt \in Int /\ req[t].orig \in Payments \cup {None}
          BY <5>1 DEF ControlTyped, RequestComplete, Request
        <5>3. QED
          BY <4>1, <5>1, <5>2 DEF PaymentSeen, Payment
      <4>2. CASE ~(InsertsPayment(t) /\ req[t].pay = p)
        BY <4>2 DEF PaymentSeen, CommittedTyped
      <4>3. QED
        BY <4>1, <4>2
    <3>2. QED
      BY <1>1, <3>1 DEF Commit
  <2>4. alloc' \in [Payments -> [Invoices -> Int]]
    BY <1>1 DEF Commit, CommittedTyped, DraftsTyped
  <2>5. invSum' \in [Invoices -> Int]
    BY <1>1, SeenTyped DEF Commit
  <2>6. paySum' \in [Payments -> Int]
    BY <1>1 DEF Commit, SpentSeen, CommittedTyped, DraftsTyped
  <2>7. seq' \in [Kinds -> Nat]
    BY <1>1 DEF Commit, CommittedTyped, ControlTyped
  <2>8. DOMAIN balance' = Customers
    BY <1>1 DEF Commit, CommittedTyped
  <2>9. QED
    BY <1>1, <2>1, <2>2, <2>3, <2>4, <2>5, <2>6, <2>7, <2>8 DEF Commit, CommittedTyped
<1>2. CASE Refuse(t)
  BY <1>2, TypeFinish DEF Refuse, CommittedTyped, database
<1>3. CASE Crash(t)
  <2>1. ControlTyped' /\ DraftsTyped' /\ CommittedTyped'
    BY <1>3, TypeFinish DEF Crash, CommittedTyped, database
  <2>2. sweep' \in [Crons -> SUBSET Customers] /\ crashes' \in Nat
    BY <1>3 DEF Crash
  <2>3. QED
    BY <2>1, <2>2
<1>4. QED
  BY <1>1, <1>2, <1>3

-----------------------------------------------------------------------------
(* One step of one transaction.                                            *)

Arriving(t) == \E r, lines, label : Arrives(t, r, lines, label)

Reading(t) ==
  \/ GuardAllocation(t) \/ GuardVoid(t) \/ GuardWithholding(t)
  \/ ReadOriginal(t) \/ DeriveStatus(t) \/ ReadInvoiced(t) \/ ReadUnapplied(t)

Locking(t) == ClaimNumber(t) \/ LockPayment(t) \/ LockInvoice(t) \/ WriteBalance(t)

Writing(t) ==
  \/ InsertAllocation(t) \/ InsertMirrors(t) \/ WriteVoid(t)
  \/ WriteWithholding(t) \/ CasStatus(t)

Ending(t) == Commit(t) \/ Refuse(t) \/ Crash(t)

Step(t) == Arriving(t) \/ Reading(t) \/ Locking(t) \/ Writing(t) \/ Ending(t)

\* Every step of the system is a step of one transaction, or the cron waking up.
LEMMA NextIsAStep ==
  ASSUME TypeOK, Next
  PROVE  \/ \E t \in Txns : Step(t)
         \/ \E n \in Crons : StartSweep(n)
<1>1. ASSUME NEW t \in Requests, Arrive(t) PROVE t \in Txns /\ Step(t)
  BY <1>1, ArrivalShape DEF Step, Arriving, Txns
<1>2. ASSUME NEW n \in Crons, ReconcileOne(n) PROVE n \in Txns /\ Step(n)
  BY <1>2, ReconcileShape DEF Step, Arriving, Txns
<1>3. ASSUME NEW t \in Txns, Statement(t) \/ Crash(t) PROVE Step(t)
  BY <1>3 DEF Statement, Step, Reading, Locking, Writing, Ending
<1>4. QED
  BY <1>1, <1>2, <1>3 DEF Next

\* Types survive every step.
LEMMA TypeNext ==
  ASSUME TypeOK, ControlOK, Next
  PROVE  TypeOK'
<1>1. ASSUME NEW t \in Requests, Arrive(t) PROVE TypeOK'
  <2>1. sweep' \in [Crons -> SUBSET Customers]
    BY <1>1, ArrivalShape DEF TypeOK
  <2>2. QED
    BY <1>1, <2>1, ArrivalShape, TypeBegin DEF Arrives, Txns
<1>2. ASSUME NEW n \in Crons, ReconcileOne(n) PROVE TypeOK'
  BY <1>2, ReconcileShape, TypeBegin DEF Arrives, Txns
<1>3. ASSUME NEW n \in Crons, StartSweep(n) PROVE TypeOK'
  <2>1. CommittedTyped' /\ ControlTyped' /\ DraftsTyped' /\ crashes' \in Nat
    BY <1>3 DEF StartSweep, TypeOK, CommittedTyped, ControlTyped, DraftsTyped, database, drafts
  <2>2. sweep' \in [Crons -> SUBSET Customers]
    BY <1>3 DEF StartSweep, TypeOK
  <2>3. QED
    BY <2>1, <2>2 DEF TypeOK
<1>4. ASSUME NEW t \in Txns, Statement(t) \/ Crash(t) PROVE TypeOK'
  <2>1. Reading(t) \/ Locking(t) \/ Writing(t) \/ Ending(t)
    BY <1>4 DEF Statement, Reading, Locking, Writing, Ending
  <2>2. QED
    BY <2>1, TypeReading, TypeLocking, TypeWriting, TypeEnding
       DEF Reading, Locking, Writing, Ending
<1>5. QED
  BY <1>1, <1>2, <1>3, <1>4 DEF Next

\* What a transaction keeps to itself.
Same(u) ==
  /\ pc'[u] = pc[u] /\ req'[u] = req[u] /\ todo'[u] = todo[u] /\ locks'[u] = locks[u]
  /\ rows'[u] = rows[u] /\ wht'[u] = wht[u]

\* A step of one transaction leaves the others' control, locks and drafts alone.
LEMMA OthersStay ==
  ASSUME TypeOK, NEW t \in Txns, Step(t), NEW u \in Txns, u # t
  PROVE  Same(u)
<1>1. CASE Arriving(t)
  BY <1>1 DEF Arriving, Arrives, Begin, Goto, Same, TypeOK, ControlTyped, drafts
<1>2. CASE Locking(t)
  BY <1>2 DEF Locking, ClaimNumber, LockPayment, LockInvoice, WriteBalance, Acquire, Goto,
     Same, TypeOK, ControlTyped, drafts
<1>3. CASE Reading(t)
  <2>1. CASE GuardAllocation(t) \/ GuardVoid(t) \/ GuardWithholding(t)
    BY <2>1 DEF GuardAllocation, GuardVoid, GuardWithholding, Goto, Same, TypeOK, ControlTyped, drafts
  <2>2. CASE ReadOriginal(t)
    BY <2>2 DEF ReadOriginal, Goto, Same, TypeOK, ControlTyped, drafts
  <2>3. CASE DeriveStatus(t)
    BY <2>3 DEF DeriveStatus, Goto, NextLine, Same, TypeOK, ControlTyped, drafts
  <2>4. CASE ReadInvoiced(t)
    BY <2>4 DEF ReadInvoiced, Goto, Same, TypeOK, ControlTyped, drafts
  <2>5. CASE ReadUnapplied(t)
    BY <2>5 DEF ReadUnapplied, Goto, Same, TypeOK, ControlTyped, drafts
  <2>6. QED
    BY <1>3, <2>1, <2>2, <2>3, <2>4, <2>5 DEF Reading
<1>4. CASE Writing(t)
  BY <1>4 DEF Writing, InsertAllocation, InsertMirrors, WriteVoid, WriteWithholding, CasStatus,
     Acquire, Goto, NextLine, Same, TypeOK, ControlTyped, DraftsTyped, drafts
<1>5. CASE Ending(t)
  BY <1>5 DEF Ending, Commit, Refuse, Crash, Finish, Goto, Same, TypeOK, ControlTyped, DraftsTyped
<1>6. QED
  BY <1>1, <1>2, <1>3, <1>4, <1>5 DEF Step

\* Only a commit changes what is stored.
LEMMA OnlyCommitWrites ==
  ASSUME NEW t \in Txns, Step(t), ~Commit(t)
  PROVE  UNCHANGED database
BY DEF Step, Arriving, Arrives, Begin, Reading, Locking, Writing, Ending,
   GuardAllocation, GuardVoid, GuardWithholding, ReadOriginal, DeriveStatus, ReadInvoiced,
   ReadUnapplied, ClaimNumber, LockPayment, LockInvoice, WriteBalance, InsertAllocation,
   InsertMirrors, WriteVoid, WriteWithholding, CasStatus, Refuse, Crash

\* A transaction is granted locks one by one and gives them back together.
LEMMA LocksOfAStep ==
  ASSUME TypeOK, NEW t \in Txns, Step(t)
  PROVE  \/ locks'[t] = locks[t]
         \/ Granted(t) /\ locks'[t] = locks[t] \cup {Wanted(t)}
         \/ Ending(t) /\ locks'[t] = {}
<1>1. CASE Arriving(t)
  BY <1>1 DEF Arriving, Arrives, Begin
<1>2. CASE Locking(t)
  BY <1>2 DEF Locking, ClaimNumber, LockPayment, LockInvoice, WriteBalance, Acquire, TypeOK, ControlTyped
<1>3. CASE Reading(t)
  BY <1>3 DEF Reading, GuardAllocation, GuardVoid, GuardWithholding, ReadOriginal, DeriveStatus,
     ReadInvoiced, ReadUnapplied
<1>4. CASE Writing(t)
  BY <1>4 DEF Writing, InsertAllocation, InsertMirrors, WriteVoid, WriteWithholding, CasStatus,
     Acquire, TypeOK, ControlTyped
<1>5. CASE Ending(t)
  BY <1>5 DEF Ending, Commit, Refuse, Crash, Finish, TypeOK, ControlTyped
<1>6. QED
  BY <1>1, <1>2, <1>3, <1>4, <1>5 DEF Step

\* No lock is ever held twice.
LEMMA LocksStep ==
  ASSUME TypeOK, LocksExclusive, NEW t \in Txns, Step(t)
  PROVE  LocksExclusive'
<1> SUFFICES ASSUME NEW a \in Txns, NEW b \in Txns, a # b
             PROVE  locks'[a] \cap locks'[b] = {}
  BY DEF LocksExclusive
<1>1. ASSUME NEW u \in Txns, u # t PROVE locks'[t] \cap locks'[u] = {}
  <2>1. locks'[u] = locks[u]
    BY <1>1, OthersStay DEF Same
  <2>2. locks[t] \cap locks[u] = {}
    BY <1>1 DEF LocksExclusive
  <2>3. Granted(t) => Wanted(t) \notin locks[u]
    BY <1>1 DEF Granted, WaitsFor
  <2>4. QED
    BY <2>1, <2>2, <2>3, LocksOfAStep
<1>2. CASE a = t
  BY <1>1, <1>2
<1>3. CASE b = t
  BY <1>1, <1>3
<1>4. CASE a # t /\ b # t
  BY <1>4, OthersStay DEF Same, LocksExclusive
<1>5. QED
  BY <1>2, <1>3, <1>4

-----------------------------------------------------------------------------
(* Control: every statement leads to one its operation knows.              *)

\* The list that remains after a line is empty only if that line was the last.
LEMMA RestOfLines ==
  ASSUME ControlTyped, NEW t \in Txns, todo[t] # <<>>, NextLine(t), Len(todo[t]) # 1
  PROVE  todo'[t] # <<>>
<1>1. todo[t] \in Seq(Line) /\ todo'[t] = Tail(todo[t])
  BY DEF ControlTyped, NextLine
<1>2. Len(Tail(todo[t])) = Len(todo[t]) - 1 /\ Len(todo[t]) \in Nat /\ Len(todo[t]) # 0
  BY <1>1, HeadTailProperties, EmptySeq
<1>3. Len(todo'[t]) # 0
  BY <1>1, <1>2
<1>4. QED
  BY <1>3, EmptySeq

\* What follows a status that has been dealt with.
LEMMA ControlAfterStatus ==
  ASSUME TypeOK, NEW t \in Txns, ControlOf(t), pc[t] \in {"derive", "cas"},
         Goto(t, AfterStatus(t)), NextLine(t), req' = req
  PROVE  ControlOf(t)'
<1>1. todo[t] # <<>> /\ req[t].op \in {"record", "allocate", "reverse", "withhold"}
  BY DEF ControlOf
<1>2. pc'[t] = AfterStatus(t)
  BY DEF Goto, TypeOK, ControlTyped
<1>3. CASE Len(todo[t]) = 1
  <2>1. pc'[t] = "balInvoices"
    BY <1>2, <1>3 DEF AfterStatus
  <2>2. QED
    BY <1>1, <2>1 DEF ControlOf
<1>4. CASE Len(todo[t]) # 1
  <2>1. todo'[t] # <<>>
    BY <1>1, <1>4, RestOfLines DEF TypeOK
  <2>2. req[t].op # "withhold"
    BY <1>4 DEF ControlOf
  <2>3. pc'[t] = IF req[t].op = "reverse" THEN "derive" ELSE "payLock"
    BY <1>2, <1>4 DEF AfterStatus
  <2>4. QED
    BY <1>1, <2>1, <2>2, <2>3 DEF ControlOf
<1>5. QED
  BY <1>3, <1>4

\* After its own step a transaction stands where its operation may stand.
LEMMA ControlStepOf ==
  ASSUME TypeOK, NEW t \in Txns, ControlOf(t), Step(t)
  PROVE  ControlOf(t)'
<1> USE DEF TypeOK, ControlTyped
<1>1. CASE Arriving(t)
  <2>1. PICK r, lines, label : Arrives(t, r, lines, label)
    BY <1>1 DEF Arriving
  <2>2. req'[t] = r /\ todo'[t] = lines /\ pc'[t] = label
    BY <2>1 DEF Arrives, Begin, Goto
  <2>3. QED
    BY <2>1, <2>2 DEF Arrives, ControlOf
<1>2. CASE ClaimNumber(t)
  <2>1. req'[t] = req[t] /\ todo'[t] = todo[t] /\ pc'[t] = AfterClaim(t) /\ pc[t] = "claim"
    BY <1>2 DEF ClaimNumber, Goto
  <2>2. QED
    BY <2>1 DEF AfterClaim, ControlOf
<1>3. CASE LockPayment(t)
  BY <1>3 DEF LockPayment, Goto, ControlOf
<1>4. CASE LockInvoice(t)
  <2>1. req'[t] = req[t] /\ todo'[t] = todo[t] /\ pc'[t] = AfterInvoiceLock(t) /\ pc[t] = "invLock"
    BY <1>4 DEF LockInvoice, Goto
  <2>2. CASE req[t].op \in {"record", "allocate"}
    <3>1. pc'[t] = "guard"
      BY <2>1, <2>2 DEF AfterInvoiceLock
    <3>2. QED
      BY <2>1, <2>2, <3>1 DEF ControlOf
  <2>3. CASE req[t].op = "void"
    <3>1. pc'[t] = "voidGuard"
      BY <2>1, <2>3 DEF AfterInvoiceLock
    <3>2. QED
      BY <2>1, <2>3, <3>1 DEF ControlOf
  <2>4. CASE req[t].op = "withhold"
    <3>1. pc'[t] = "whtGuard"
      BY <2>1, <2>4 DEF AfterInvoiceLock
    <3>2. QED
      BY <2>1, <2>4, <3>1 DEF ControlOf
  <2>5. CASE req[t].op = "reverse"
    <3>1. pc'[t] \in {"mirror", "invLock"}
      BY <2>1, <2>5 DEF AfterInvoiceLock
    <3>2. QED
      BY <2>1, <2>5, <3>1 DEF ControlOf
  <2>6. QED
    BY <2>1, <2>2, <2>3, <2>4, <2>5 DEF ControlOf
<1>5. CASE WriteBalance(t)
  BY <1>5 DEF WriteBalance, Goto, ControlOf
<1>6. CASE GuardAllocation(t) \/ GuardVoid(t) \/ GuardWithholding(t)
  BY <1>6 DEF GuardAllocation, GuardVoid, GuardWithholding, Goto, ControlOf
<1>7. CASE ReadOriginal(t)
  <2>1. PICK list \in InvoiceLists :
          /\ todo' = [todo EXCEPT ![t] = [n \in DOMAIN list |->
                        [inv |-> list[n], amt |-> -alloc[req[t].orig][list[n]]]]]
          /\ Goto(t, IF list = <<>> THEN "mirror" ELSE "invLock")
    BY <1>7 DEF ReadOriginal
  <2>2. req'[t] = req[t] /\ req[t].op = "reverse"
    BY <1>7 DEF ReadOriginal, ControlOf
  <2>3. CASE list = <<>>
    <3>1. pc'[t] = "mirror"
      BY <2>1, <2>3 DEF Goto
    <3>2. QED
      BY <2>2, <3>1 DEF ControlOf
  <2>4. CASE list # <<>>
    <3>1. pc'[t] = "invLock"
      BY <2>1, <2>4 DEF Goto
    <3>2. DOMAIN list # {}
      <4>1. PICK k \in Nat : list \in [1..k -> Invoices]
        BY <2>1, InvoiceListsAreLists
      <4>2. list \in Seq(Invoices)
        BY <4>1, SeqDef
      <4>3. Len(list) \in Nat \ {0} /\ DOMAIN list = 1..Len(list)
        BY <2>4, <4>2, EmptySeq, LenProperties
      <4>4. 1 \in DOMAIN list
        BY <4>3
      <4>5. QED
        BY <4>4
    <3>3. DOMAIN todo'[t] = DOMAIN list
      BY <2>1
    <3>4. todo'[t] # <<>>
      <4>1. DOMAIN <<>> = {}
        OBVIOUS
      <4>2. QED
        BY <3>2, <3>3, <4>1
    <3>5. QED
      BY <2>2, <3>1, <3>4 DEF ControlOf
  <2>5. QED
    BY <2>3, <2>4
<1>8. CASE DeriveStatus(t)
  <2>1. CASE NextLine(t) /\ Goto(t, AfterStatus(t))
    BY <1>8, <2>1, ControlAfterStatus DEF DeriveStatus
  <2>2. CASE Goto(t, "cas") /\ UNCHANGED todo
    BY <1>8, <2>2 DEF DeriveStatus, Goto, ControlOf
  <2>3. QED
    BY <1>8, <2>1, <2>2 DEF DeriveStatus
<1>9. CASE ReadInvoiced(t)
  <2>1. pc'[t] = "balPayments" /\ pc[t] = "balInvoices" /\ req' = req
    BY <1>9 DEF ReadInvoiced, Goto
  <2>2. QED
    BY <2>1 DEF ControlOf
<1>10. CASE ReadUnapplied(t)
  <2>1. pc'[t] = "balWrite" /\ pc[t] = "balPayments" /\ req' = req
    BY <1>10 DEF ReadUnapplied, Goto
  <2>2. QED
    BY <2>1 DEF ControlOf
<1>11. CASE InsertAllocation(t)
  BY <1>11 DEF InsertAllocation, Goto, ControlOf
<1>12. CASE InsertMirrors(t)
  BY <1>12 DEF InsertMirrors, Goto, ControlOf
<1>13. CASE WriteVoid(t)
  BY <1>13 DEF WriteVoid, Goto, ControlOf
<1>14. CASE WriteWithholding(t)
  BY <1>14 DEF WriteWithholding, Goto, ControlOf
<1>15. CASE CasStatus(t)
  BY <1>15, ControlAfterStatus DEF CasStatus
<1>16. CASE Ending(t)
  <2>1. pc'[t] = "idle" /\ req'[t] = NoRequest
    BY <1>16 DEF Ending, Commit, Refuse, Crash, Finish, Goto
  <2>2. req'[t].op = "none"
    BY <2>1 DEF NoRequest, Ask
  <2>3. QED
    BY <2>1, <2>2 DEF ControlOf
<1>17. QED
  BY <1>1, <1>2, <1>3, <1>4, <1>5, <1>6, <1>7, <1>8, <1>9, <1>10, <1>11, <1>12, <1>13, <1>14,
     <1>15, <1>16 DEF Step, Reading, Locking, Writing

\* Control survives every step.
LEMMA ControlNext ==
  ASSUME TypeOK, ControlOK, NEW t \in Txns, Step(t)
  PROVE  ControlOK'
<1> SUFFICES ASSUME NEW u \in Txns PROVE ControlOf(u)'
  BY DEF ControlOK
<1>1. CASE u = t
  BY <1>1, ControlStepOf DEF ControlOK
<1>2. CASE u # t
  BY <1>2, OthersStay DEF Same, ControlOK, ControlOf
<1>3. QED
  BY <1>1, <1>2

-----------------------------------------------------------------------------
(* Drafts and guards.                                                      *)

\* What a step of t does to its own drafts.
LEMMA DraftsOfAStep ==
  ASSUME TypeOK, NEW t \in Txns, ControlOf(t), Step(t)
  PROVE  \/ rows'[t] = rows[t] /\ wht'[t] = wht[t] /\ (req'[t] = req[t] \/ req[t].op = "none")
         \/ InsertAllocation(t) \/ InsertMirrors(t) \/ WriteWithholding(t)
         \/ Ending(t) /\ rows'[t] = [i \in Invoices |-> 0] /\ wht'[t] = None
<1>1. CASE Arriving(t)
  BY <1>1 DEF Arriving, Arrives, Begin, ControlOf, drafts
<1>2. CASE Locking(t)
  BY <1>2 DEF Locking, ClaimNumber, LockPayment, LockInvoice, WriteBalance, drafts
<1>3. CASE Reading(t)
  BY <1>3 DEF Reading, GuardAllocation, GuardVoid, GuardWithholding, ReadOriginal, DeriveStatus,
     ReadInvoiced, ReadUnapplied, drafts
<1>4. CASE Writing(t)
  BY <1>4 DEF Writing, WriteVoid, CasStatus
<1>5. CASE Ending(t)
  BY <1>5 DEF Ending, Commit, Refuse, Crash, Finish, TypeOK, DraftsTyped
<1>6. QED
  BY <1>1, <1>2, <1>3, <1>4, <1>5 DEF Step

\* Drafts stay on locked invoices.
LEMMA DraftsLockedStep ==
  ASSUME TypeOK, NEW t \in Txns, ControlOf(t), DraftsLockedBy(t), GuardLockedBy(t), Step(t)
  PROVE  DraftsLockedBy(t)'
<1> USE DEF TypeOK, ControlTyped, DraftsTyped
<1>1. CASE InsertAllocation(t)
  <2> DEFINE line == Head(todo[t])
  <2>1. Adv(line.inv) \in locks[t] /\ req[t].op \in {"record", "allocate"}
    BY <1>1 DEF InsertAllocation, GuardLockedBy, ControlOf
  <2>2. /\ rows' = [rows EXCEPT ![t][line.inv] = line.amt]
        /\ locks'[t] = locks[t] /\ req'[t] = req[t] /\ wht'[t] = wht[t]
    BY <1>1 DEF InsertAllocation
  <2>3. \A i \in Invoices : rows'[t][i] # 0 => i = line.inv \/ rows[t][i] # 0
    BY <2>2
  <2>4. QED
    BY <2>1, <2>2, <2>3 DEF DraftsLockedBy
<1>2. CASE InsertMirrors(t)
  <2>1. /\ \A i \in Invoices : rows'[t][i] = MirrorRow(t, i)
        /\ locks'[t] = locks[t] /\ req'[t] = req[t] /\ wht'[t] = wht[t]
    BY <1>2 DEF InsertMirrors
  <2>2. \A n \in DOMAIN todo[t] : Adv(todo[t][n].inv) \in locks[t]
    BY <1>2 DEF InsertMirrors, GuardLockedBy
  <2>3. \A i \in Invoices : MirrorRow(t, i) # 0 => Adv(i) \in locks[t]
    BY <2>2 DEF MirrorRow
  <2>4. req[t].op = "reverse"
    BY <1>2 DEF InsertMirrors, ControlOf
  <2>5. QED
    BY <2>1, <2>3, <2>4 DEF DraftsLockedBy
<1>3. CASE WriteWithholding(t)
  <2>1. Adv(req[t].inv) \in locks[t] /\ req[t].op = "withhold" /\ Head(todo[t]).amt \in Nat
    BY <1>3 DEF WriteWithholding, GuardLockedBy, ControlOf
  <2>2. /\ wht'[t] = Head(todo[t]).amt /\ req'[t] = req[t] /\ rows'[t] = rows[t]
        /\ locks[t] \subseteq locks'[t]
    BY <1>3 DEF WriteWithholding, Acquire
  <2>3. QED
    BY <2>1, <2>2 DEF DraftsLockedBy
<1>4. CASE Ending(t) /\ rows'[t] = [i \in Invoices |-> 0] /\ wht'[t] = None
  BY <1>4 DEF DraftsLockedBy
<1>5. CASE /\ rows'[t] = rows[t] /\ wht'[t] = wht[t] /\ (req'[t] = req[t] \/ req[t].op = "none")
           /\ ~Ending(t)
  <2>1. locks[t] \subseteq locks'[t]
    BY <1>5, LocksOfAStep
  <2>2. CASE req'[t] = req[t]
    BY <1>5, <2>1, <2>2 DEF DraftsLockedBy
  <2>3. CASE req[t].op = "none"
    BY <1>5, <2>3 DEF DraftsLockedBy
  <2>4. QED
    BY <1>5, <2>2, <2>3
<1>6. QED
  <2>1. CASE Ending(t)
    <3>1. rows'[t] = [i \in Invoices |-> 0] /\ wht'[t] = None
      BY <2>1 DEF Ending, Commit, Refuse, Crash, Finish
    <3>2. QED
      BY <2>1, <3>1, <1>4
  <2>2. QED
    BY <2>1, <1>1, <1>2, <1>3, <1>5, DraftsOfAStep

\* A transaction that is about to evaluate a guard holds the lock it needs.
LEMMA GuardLockedStep ==
  ASSUME TypeOK, NEW t \in Txns, ControlOf(t), GuardLockedBy(t), Step(t)
  PROVE  GuardLockedBy(t)'
<1> USE DEF TypeOK, ControlTyped
<1>1. CASE LockInvoice(t)
  <2>1. /\ pc[t] = "invLock" /\ pc'[t] = AfterInvoiceLock(t)
        /\ req'[t] = req[t] /\ todo'[t] = todo[t]
        /\ locks'[t] = locks[t] \cup {Wanted(t)}
    BY <1>1 DEF LockInvoice, Goto, Acquire
  <2>2. Wanted(t) = Adv(InvoiceToLock(t))
    BY <2>1 DEF Wanted
  <2>3. CASE req[t].op \in {"record", "allocate"}
    <3>1. pc'[t] = "guard" /\ InvoiceToLock(t) = Head(todo[t]).inv
      BY <2>1, <2>3 DEF AfterInvoiceLock, InvoiceToLock
    <3>2. QED
      BY <2>1, <2>2, <3>1 DEF GuardLockedBy
  <2>4. CASE req[t].op \in {"void", "withhold"}
    <3>1. pc'[t] \in {"voidGuard", "whtGuard"} /\ InvoiceToLock(t) = req[t].inv
      BY <2>1, <2>4 DEF AfterInvoiceLock, InvoiceToLock, ControlOf
    <3>2. QED
      BY <2>1, <2>2, <3>1 DEF GuardLockedBy
  <2>5. CASE req[t].op = "reverse"
    <3>1. pc'[t] = IF AllLocked(t) THEN "mirror" ELSE "invLock"
      BY <2>1, <2>5 DEF AfterInvoiceLock
    <3>2. QED
      BY <2>1, <3>1 DEF GuardLockedBy, AllLocked
  <2>6. QED
    BY <2>1, <2>3, <2>4, <2>5 DEF ControlOf
<1>2. CASE ReadOriginal(t)
  <2>1. PICK list \in InvoiceLists :
          /\ todo' = [todo EXCEPT ![t] = [n \in DOMAIN list |->
                        [inv |-> list[n], amt |-> -alloc[req[t].orig][list[n]]]]]
          /\ Goto(t, IF list = <<>> THEN "mirror" ELSE "invLock")
    BY <1>2 DEF ReadOriginal
  <2>2. DOMAIN todo'[t] = DOMAIN list /\ pc'[t] = IF list = <<>> THEN "mirror" ELSE "invLock"
    BY <2>1 DEF Goto
  <2>3. list = <<>> => DOMAIN list = {}
    OBVIOUS
  <2>4. QED
    BY <2>2, <2>3 DEF GuardLockedBy
<1>3. CASE GuardAllocation(t) \/ GuardVoid(t) \/ GuardWithholding(t)
  BY <1>3 DEF GuardAllocation, GuardVoid, GuardWithholding, Goto, GuardLockedBy
<1>4. CASE Arriving(t)
  BY <1>4 DEF Arriving, Arrives, Begin, Goto, GuardLockedBy
<1>5. CASE ClaimNumber(t)
  <2>1. pc'[t] = AfterClaim(t)
    BY <1>5 DEF ClaimNumber, Goto
  <2>2. QED
    BY <2>1 DEF AfterClaim, GuardLockedBy
<1>6. CASE LockPayment(t) \/ WriteBalance(t)
  BY <1>6 DEF LockPayment, WriteBalance, Goto, GuardLockedBy
<1>7. CASE DeriveStatus(t) \/ CasStatus(t)
  <2>1. pc'[t] = "cas" \/ pc'[t] = AfterStatus(t)
    BY <1>7 DEF DeriveStatus, CasStatus, Goto
  <2>2. QED
    BY <2>1 DEF AfterStatus, GuardLockedBy
<1>8. CASE ReadInvoiced(t) \/ ReadUnapplied(t)
  <2>1. pc'[t] \in {"balPayments", "balWrite"}
    BY <1>8 DEF ReadInvoiced, ReadUnapplied, Goto
  <2>2. QED
    BY <2>1 DEF GuardLockedBy
<1>9. CASE InsertAllocation(t) \/ InsertMirrors(t) \/ WriteVoid(t) \/ WriteWithholding(t)
  <2>1. pc'[t] \in {"derive", "balInvoices"}
    BY <1>9 DEF InsertAllocation, InsertMirrors, WriteVoid, WriteWithholding, Goto
  <2>2. QED
    BY <2>1 DEF GuardLockedBy
<1>10. CASE Ending(t)
  <2>1. pc'[t] = "idle"
    BY <1>10 DEF Ending, Commit, Refuse, Crash, Finish, Goto
  <2>2. QED
    BY <2>1 DEF GuardLockedBy
<1>11. QED
  BY <1>1, <1>2, <1>3, <1>4, <1>5, <1>6, <1>7, <1>8, <1>9, <1>10 DEF Step, Reading, Locking, Writing

-----------------------------------------------------------------------------
(* Money.                                                                  *)

\* A commit publishes the drafts of its transaction and nothing else.
LEMMA CommitEffect ==
  ASSUME TypeOK, NEW t \in Txns, DraftsLockedBy(t), WithholdingsAreNatural, Commit(t),
         NEW i \in Invoices
  PROVE  /\ invSum'[i] = AllocatedSeen(t, i)
         /\ inv'[i].wht <= WhtSeen(t, i) /\ inv'[i].wht >= 0 /\ inv'[i].wht \in Int
         /\ Adv(i) \notin locks[t] => invSum'[i] = invSum[i] /\ inv'[i].wht <= inv[i].wht
<1> USE DEF TypeOK
<1>1. invSum'[i] = AllocatedSeen(t, i) /\ inv'[i] = InvoiceAfter(t, i)
  BY DEF Commit
<1>2. inv[i].wht \in Int /\ inv[i].wht >= 0 /\ invSum[i] \in Int /\ rows[t][i] \in Int
  BY DEF CommittedTyped, DraftsTyped, Invoice, WithholdingsAreNatural
<1>3. wht[t] # None => wht[t] \in Int /\ wht[t] >= 0 /\ req[t].op = "withhold"
  BY DEF DraftsTyped, DraftsLockedBy
<1>4. WhtSeen(t, i) \in Int /\ WhtSeen(t, i) >= 0
  BY <1>2, <1>3 DEF WhtSeen
<1>5. inv'[i].wht \in {0, WhtSeen(t, i)}
  BY <1>1 DEF InvoiceAfter
<1>6. ASSUME Adv(i) \notin locks[t]
      PROVE  invSum'[i] = invSum[i] /\ inv'[i].wht <= inv[i].wht
  <2>1. rows[t][i] = 0
    BY <1>6 DEF DraftsLockedBy
  <2>2. WhtSeen(t, i) = inv[i].wht
    BY <1>6 DEF DraftsLockedBy, WhtSeen
  <2>3. QED
    BY <1>1, <1>2, <1>5, <2>1, <2>2 DEF AllocatedSeen
<1>7. QED
  BY <1>1, <1>4, <1>5, <1>6

\* Whatever others commit, an invoice a transaction has locked holds no more
\* money than before, and one it has not locked it sees as it is stored.
LEMMA OthersCommitBenignly ==
  ASSUME TypeOK, LocksExclusive, DraftsAreLocked, WithholdingsAreNatural, DraftsFit,
         NEW t \in Txns, Step(t), NEW u \in Txns, u # t, NEW i \in Invoices
  PROVE  /\ AllocatedSeen(u, i)' + WhtSeen(u, i)' <= InvTotal[i]
         /\ Adv(i) \in locks[u] =>
              AllocatedSeen(u, i)' = AllocatedSeen(u, i) /\ WhtSeen(u, i)' <= WhtSeen(u, i)
<1> USE DEF TypeOK
<1>1. rows'[u] = rows[u] /\ wht'[u] = wht[u] /\ req'[u] = req[u]
  BY OthersStay DEF Same
<1>2. /\ AllocatedSeen(u, i) \in Int /\ WhtSeen(u, i) \in Int /\ InvTotal[i] \in Int
      /\ AllocatedSeen(t, i) \in Int /\ WhtSeen(t, i) \in Int
      /\ invSum[i] \in Int /\ inv[i].wht \in Int /\ rows[u][i] \in Int
  BY SeenTyped, TotalsArePositive DEF CommittedTyped, DraftsTyped, Invoice
<1>3. /\ AllocatedSeen(u, i) + WhtSeen(u, i) <= InvTotal[i]
      /\ AllocatedSeen(t, i) + WhtSeen(t, i) <= InvTotal[i]
  BY DEF DraftsFit
<1>4. CASE ~Commit(t)
  <2>1. invSum' = invSum /\ inv' = inv
    BY <1>4, OnlyCommitWrites DEF database
  <2>2. AllocatedSeen(u, i)' = AllocatedSeen(u, i) /\ WhtSeen(u, i)' = WhtSeen(u, i)
    BY <1>1, <2>1 DEF AllocatedSeen, WhtSeen
  <2>3. QED
    BY <1>2, <1>3, <2>2
<1>5. CASE Commit(t) /\ Adv(i) \in locks[u]
  <2>1. Adv(i) \notin locks[t]
    BY <1>5 DEF LocksExclusive
  <2>2. invSum'[i] = invSum[i] /\ inv'[i].wht <= inv[i].wht /\ inv'[i].wht \in Int
    BY <1>5, <2>1, CommitEffect DEF DraftsAreLocked
  <2>3. AllocatedSeen(u, i)' = AllocatedSeen(u, i)
    BY <1>1, <2>2 DEF AllocatedSeen
  <2>4. WhtSeen(u, i)' <= WhtSeen(u, i) /\ WhtSeen(u, i)' \in Int
    BY <1>1, <1>2, <2>2 DEF WhtSeen
  <2>5. QED
    BY <1>2, <1>3, <2>3, <2>4
<1>6. CASE Commit(t) /\ Adv(i) \notin locks[u]
  <2>1. /\ invSum'[i] = AllocatedSeen(t, i)
        /\ inv'[i].wht <= WhtSeen(t, i) /\ inv'[i].wht \in Int
    BY <1>6, CommitEffect DEF DraftsAreLocked
  <2>2. rows[u][i] = 0 /\ ~(wht[u] # None /\ req[u].inv = i)
    BY <1>6 DEF DraftsAreLocked, DraftsLockedBy
  <2>3. AllocatedSeen(u, i)' = AllocatedSeen(t, i) /\ WhtSeen(u, i)' = inv'[i].wht
    BY <1>1, <1>2, <2>1, <2>2 DEF AllocatedSeen, WhtSeen
  <2>4. QED
    BY <1>2, <1>3, <1>6, <2>1, <2>3
<1>7. QED
  BY <1>4, <1>5, <1>6

\* A transaction's own step never settles an invoice beyond its total either.
LEMMA OwnStepFits ==
  ASSUME TypeOK, NEW t \in Txns, ControlOf(t), DraftsLockedBy(t), GuardHoldsFor(t),
         DraftsFit, NoOverAllocation, WithholdingsAreNatural, Step(t), NEW i \in Invoices
  PROVE  AllocatedSeen(t, i)' + WhtSeen(t, i)' <= InvTotal[i]
<1> USE DEF TypeOK
<1>1. /\ AllocatedSeen(t, i) \in Int /\ WhtSeen(t, i) \in Int /\ InvTotal[i] \in Int
      /\ invSum[i] \in Int /\ inv[i].wht \in Int /\ rows[t][i] \in Int
  BY SeenTyped, TotalsArePositive DEF CommittedTyped, DraftsTyped, Invoice
<1>2. /\ AllocatedSeen(t, i) + WhtSeen(t, i) <= InvTotal[i]
      /\ invSum[i] + inv[i].wht <= InvTotal[i]
  BY DEF DraftsFit, NoOverAllocation
<1>3. CASE Commit(t)
  <2>1. invSum'[i] = AllocatedSeen(t, i) /\ inv'[i].wht <= WhtSeen(t, i) /\ inv'[i].wht \in Int
    BY <1>3, CommitEffect
  <2>2. rows'[t][i] = 0 /\ wht'[t] = None
    BY <1>3 DEF Commit, Finish, DraftsTyped
  <2>3. AllocatedSeen(t, i)' = invSum'[i] /\ WhtSeen(t, i)' = inv'[i].wht
    BY <1>1, <2>1, <2>2 DEF AllocatedSeen, WhtSeen
  <2>4. QED
    BY <1>1, <1>2, <2>1, <2>3
<1>4. CASE ~Commit(t)
  <2>1. invSum' = invSum /\ inv' = inv
    BY <1>4, OnlyCommitWrites DEF database
  <2>2. CASE InsertAllocation(t)
    <3> DEFINE line == Head(todo[t])
    <3>1. line.inv \in Invoices /\ line.amt \in Int
      BY <2>2, HeadIsLine DEF InsertAllocation, ControlOf
    <3>2. /\ rows'[t] = [rows[t] EXCEPT ![line.inv] = line.amt]
          /\ wht'[t] = wht[t] /\ req'[t] = req[t] /\ rows[t][line.inv] = 0
      BY <2>2, <3>1 DEF InsertAllocation, RowIsUnique, DraftsTyped
    <3>3. WhtSeen(t, i)' = WhtSeen(t, i)
      BY <2>1, <3>2 DEF WhtSeen
    <3>4. CASE i = line.inv
      <4>1. AllocatedSeen(t, i) + WhtSeen(t, i) + line.amt <= InvTotal[i]
        BY <2>2, <3>4 DEF InsertAllocation, GuardHoldsFor
      <4>2. rows'[t][i] = line.amt
        BY <3>1, <3>2, <3>4 DEF DraftsTyped
      <4>3. AllocatedSeen(t, i)' = AllocatedSeen(t, i) + line.amt
        BY <1>1, <2>1, <3>1, <3>2, <3>4, <4>2 DEF AllocatedSeen
      <4>4. QED
        BY <1>1, <3>1, <3>3, <4>1, <4>3
    <3>5. CASE i # line.inv
      <4>1. rows'[t][i] = rows[t][i]
        BY <3>2, <3>5 DEF DraftsTyped
      <4>2. AllocatedSeen(t, i)' = AllocatedSeen(t, i)
        BY <2>1, <4>1 DEF AllocatedSeen
      <4>3. QED
        BY <1>2, <3>3, <4>2
    <3>6. QED
      BY <3>4, <3>5
  <2>3. CASE InsertMirrors(t)
    <3>1. rows'[t][i] = MirrorRow(t, i) /\ wht'[t] = wht[t] /\ req'[t] = req[t]
      BY <2>3 DEF InsertMirrors, DraftsTyped
    <3>2. \A n \in DOMAIN todo[t] : todo[t][n].amt \in Int /\ todo[t][n].amt <= 0
      <4>1. todo[t] \in Seq(Line)
        BY DEF ControlTyped
      <4>2. \A n \in DOMAIN todo[t] : todo[t][n] \in Line
        BY <4>1, ElementOfSeq, LenProperties
      <4>3. QED
        BY <2>3, <4>2 DEF Line, InsertMirrors, MirrorsAreNegative
    <3>3. MirrorRow(t, i) \in Int /\ MirrorRow(t, i) <= 0
      BY <3>2 DEF MirrorRow
    <3>4. req[t].op = "reverse"
      BY <2>3 DEF InsertMirrors, ControlOf
    <3>5. wht[t] = None
      BY <3>4 DEF DraftsLockedBy
    <3>6. AllocatedSeen(t, i)' = invSum[i] + MirrorRow(t, i) /\ WhtSeen(t, i)' = inv[i].wht
      BY <2>1, <3>1, <3>5 DEF AllocatedSeen, WhtSeen
    <3>7. QED
      BY <1>1, <1>2, <3>3, <3>6
  <2>4. CASE WriteWithholding(t)
    <3> DEFINE a == Head(todo[t]).amt
    <3>1. a \in Int /\ req[t].op = "withhold" /\ pc[t] = "whtWrite"
      BY <2>4 DEF WriteWithholding, ControlOf
    <3>2. wht'[t] = a /\ req'[t] = req[t] /\ rows'[t] = rows[t]
      BY <2>4 DEF WriteWithholding, DraftsTyped
    <3>3. AllocatedSeen(t, i)' = AllocatedSeen(t, i)
      BY <2>1, <3>2 DEF AllocatedSeen
    <3>4. CASE i = req[t].inv
      <4>1. WhtSeen(t, i)' = a
        BY <3>1, <3>2, <3>4, NullIsNoValue DEF WhtSeen
      <4>2. AllocatedSeen(t, i) + a <= InvTotal[i]
        BY <3>1, <3>4 DEF GuardHoldsFor
      <4>3. QED
        BY <3>3, <4>1, <4>2
    <3>5. CASE i # req[t].inv
      <4>1. WhtSeen(t, i)' = WhtSeen(t, i)
        BY <2>1, <3>2, <3>5 DEF WhtSeen
      <4>2. QED
        BY <1>2, <3>3, <4>1
    <3>6. QED
      BY <3>4, <3>5
  <2>5. CASE rows'[t] = [j \in Invoices |-> 0] /\ wht'[t] = None
    <3>1. AllocatedSeen(t, i)' = invSum[i] /\ WhtSeen(t, i)' = inv[i].wht
      BY <1>1, <2>1, <2>5 DEF AllocatedSeen, WhtSeen
    <3>2. QED
      BY <1>2, <3>1
  <2>6. CASE rows'[t] = rows[t] /\ wht'[t] = wht[t] /\ (req'[t] = req[t] \/ req[t].op = "none")
    <3>1. AllocatedSeen(t, i)' = AllocatedSeen(t, i)
      BY <2>1, <2>6 DEF AllocatedSeen
    <3>2. WhtSeen(t, i)' = WhtSeen(t, i)
      BY <2>1, <2>6 DEF WhtSeen, DraftsLockedBy
    <3>3. QED
      BY <1>2, <3>1, <3>2
  <2>7. QED
    BY <2>2, <2>3, <2>4, <2>5, <2>6, DraftsOfAStep
<1>5. QED
  BY <1>3, <1>4

\* What a guard has established, only the transaction's own write uses up.
LEMMA GuardHoldsStep ==
  ASSUME TypeOK, NEW t \in Txns, ControlOf(t), DraftsLockedBy(t), Step(t)
  PROVE  GuardHoldsFor(t)'
<1> USE DEF TypeOK, ControlTyped
<1>1. CASE GuardAllocation(t)
  <2> DEFINE line == Head(todo[t])
  <2>1. /\ AllocatedSeen(t, line.inv) + WhtSeen(t, line.inv) + line.amt <= InvTotal[line.inv]
        /\ pc'[t] = "insert" /\ todo'[t] = todo[t] /\ UNCHANGED <<database, drafts>> /\ req' = req
    BY <1>1 DEF GuardAllocation, AllocationAllowed, Goto
  <2>2. /\ AllocatedSeen(t, line.inv)' = AllocatedSeen(t, line.inv)
        /\ WhtSeen(t, line.inv)' = WhtSeen(t, line.inv)
    BY <2>1 DEF AllocatedSeen, WhtSeen, database, drafts
  <2>3. QED
    BY <2>1, <2>2 DEF GuardHoldsFor
<1>2. CASE GuardWithholding(t)
  <2> DEFINE i == req[t].inv
  <2>1. /\ AllocatedSeen(t, i) + Head(todo[t]).amt <= InvTotal[i]
        /\ pc'[t] = "whtWrite" /\ todo'[t] = todo[t] /\ UNCHANGED <<database, drafts>> /\ req' = req
    BY <1>2 DEF GuardWithholding, WithholdingAllowed, Goto
  <2>2. AllocatedSeen(t, i)' = AllocatedSeen(t, i)
    BY <2>1 DEF AllocatedSeen, database, drafts
  <2>3. QED
    BY <2>1, <2>2 DEF GuardHoldsFor
<1>3. CASE ~GuardAllocation(t) /\ ~GuardWithholding(t)
  <2>1. pc'[t] \notin {"insert", "whtWrite"}
    <3>1. CASE Arriving(t)
      BY <3>1 DEF Arriving, Arrives, Begin, Goto
    <3>2. CASE ClaimNumber(t)
      <4>1. pc'[t] = AfterClaim(t)
        BY <3>2 DEF ClaimNumber, Goto
      <4>2. QED
        BY <4>1 DEF AfterClaim
    <3>3. CASE LockInvoice(t)
      <4>1. pc'[t] = AfterInvoiceLock(t)
        BY <3>3 DEF LockInvoice, Goto
      <4>2. req[t].op \in {"record", "allocate", "void", "withhold", "reverse"}
        BY <3>3 DEF LockInvoice, ControlOf
      <4>3. AfterInvoiceLock(t) \in {"guard", "voidGuard", "whtGuard", "mirror", "invLock"}
        BY <4>2 DEF AfterInvoiceLock
      <4>4. QED
        BY <4>1, <4>3
    <3>4. CASE LockPayment(t) \/ WriteBalance(t) \/ GuardVoid(t)
      BY <3>4 DEF LockPayment, WriteBalance, GuardVoid, Goto
    <3>5. CASE ReadOriginal(t)
      BY <3>5 DEF ReadOriginal, Goto
    <3>6. CASE DeriveStatus(t) \/ CasStatus(t)
      <4>1. pc'[t] = "cas" \/ pc'[t] = AfterStatus(t)
        BY <3>6 DEF DeriveStatus, CasStatus, Goto
      <4>2. QED
        BY <4>1 DEF AfterStatus
    <3>7. CASE ReadInvoiced(t) \/ ReadUnapplied(t)
      <4>1. pc'[t] \in {"balPayments", "balWrite"}
        BY <3>7 DEF ReadInvoiced, ReadUnapplied, Goto
      <4>2. QED
        BY <4>1
    <3>8. CASE InsertAllocation(t) \/ InsertMirrors(t) \/ WriteVoid(t) \/ WriteWithholding(t)
      <4>1. pc'[t] \in {"derive", "balInvoices"}
        BY <3>8 DEF InsertAllocation, InsertMirrors, WriteVoid, WriteWithholding, Goto
      <4>2. QED
        BY <4>1
    <3>9. CASE Ending(t)
      <4>1. pc'[t] = "idle"
        BY <3>9 DEF Ending, Commit, Refuse, Crash, Finish, Goto
      <4>2. QED
        BY <4>1
    <3>10. QED
      BY <1>3, <3>1, <3>2, <3>3, <3>4, <3>5, <3>6, <3>7, <3>8, <3>9
         DEF Step, Reading, Locking, Writing
  <2>2. QED
    BY <2>1 DEF GuardHoldsFor
<1>4. QED
  BY <1>1, <1>2, <1>3

-----------------------------------------------------------------------------
(* The invariant.                                                          *)

\* The withholding a transaction sees is a number after its steps as before.
LEMMA WhtStaysTyped ==
  ASSUME TypeOK', NEW t \in Txns, NEW i \in Invoices
  PROVE  WhtSeen(t, i)' \in Int
BY NullIsNoValue DEF TypeOK, CommittedTyped, DraftsTyped, Invoice, WhtSeen

\* Nothing is locked, drafted or settled to begin with.
LEMMA SettlementInit == Init => SettlementInvariant
<1> SUFFICES ASSUME Init PROVE SettlementInvariant
  OBVIOUS
<1>1. TypeOK
  BY TypeInit
<1>2. ControlOK
  BY DEF Init, ControlOK, ControlOf, NoRequest, Ask
<1>3. LocksExclusive /\ DraftsAreLocked /\ GuardsAreLocked /\ GuardsStillHold
  BY DEF Init, LocksExclusive, DraftsAreLocked, DraftsLockedBy, GuardsAreLocked, GuardLockedBy,
     GuardsStillHold, GuardHoldsFor
<1>4. \A i \in Invoices : InvTotal[i] \in Nat
  BY TotalsArePositive
<1>5. DraftsFit /\ NoOverAllocation /\ WithholdingsAreNatural
  BY <1>4 DEF Init, DraftsFit, NoOverAllocation, WithholdingsAreNatural, AllocatedSeen, WhtSeen
<1>6. QED
  BY <1>1, <1>2, <1>3, <1>5 DEF SettlementInvariant

\* Every step keeps locks, control, drafts and money together.
LEMMA SettlementStep == SettlementInvariant /\ [Next]_vars => SettlementInvariant'
<1> SUFFICES ASSUME SettlementInvariant, [Next]_vars PROVE SettlementInvariant'
  OBVIOUS
<1> USE DEF SettlementInvariant
<1>1. CASE UNCHANGED vars
  BY <1>1 DEF vars, database, drafts, TypeOK, CommittedTyped, ControlTyped, DraftsTyped,
     ControlOK, ControlOf, LocksExclusive, DraftsAreLocked, DraftsLockedBy, GuardsAreLocked,
     GuardLockedBy, GuardsStillHold, GuardHoldsFor, DraftsFit, NoOverAllocation,
     WithholdingsAreNatural, AllocatedSeen, WhtSeen
<1>2. ASSUME NEW n \in Crons, StartSweep(n), TypeOK' PROVE SettlementInvariant'
  BY <1>2 DEF StartSweep, database, drafts,
     ControlOK, ControlOf, LocksExclusive, DraftsAreLocked, DraftsLockedBy, GuardsAreLocked,
     GuardLockedBy, GuardsStillHold, GuardHoldsFor, DraftsFit, NoOverAllocation,
     WithholdingsAreNatural, AllocatedSeen, WhtSeen
<1>3. ASSUME NEW t \in Txns, Step(t), TypeOK' PROVE SettlementInvariant'
  <2>1. ControlOf(t) /\ DraftsLockedBy(t) /\ GuardLockedBy(t) /\ GuardHoldsFor(t)
    BY DEF ControlOK, DraftsAreLocked, GuardsAreLocked, GuardsStillHold
  <2>2. ControlOK' /\ LocksExclusive'
    BY <1>3, ControlNext, LocksStep
  <2>3. DraftsAreLocked'
    <3>1. DraftsLockedBy(t)'
      BY <1>3, <2>1, DraftsLockedStep
    <3>2. ASSUME NEW u \in Txns, u # t PROVE DraftsLockedBy(u)'
      <4>1. DraftsLockedBy(u) /\ Same(u)
        BY <1>3, <3>2, OthersStay DEF DraftsAreLocked
      <4>2. QED
        BY <4>1 DEF DraftsLockedBy, Same
    <3>3. QED
      BY <3>1, <3>2 DEF DraftsAreLocked
  <2>4. GuardsAreLocked'
    <3>1. GuardLockedBy(t)'
      BY <1>3, <2>1, GuardLockedStep
    <3>2. ASSUME NEW u \in Txns, u # t PROVE GuardLockedBy(u)'
      <4>1. GuardLockedBy(u) /\ Same(u)
        BY <1>3, <3>2, OthersStay DEF GuardsAreLocked
      <4>2. QED
        BY <4>1 DEF GuardLockedBy, Same
    <3>3. QED
      BY <3>1, <3>2 DEF GuardsAreLocked
  <2>5. GuardsStillHold'
    <3>1. GuardHoldsFor(t)'
      BY <1>3, <2>1, GuardHoldsStep
    <3>2. ASSUME NEW u \in Txns, u # t PROVE GuardHoldsFor(u)'
      <4>1. GuardHoldsFor(u) /\ GuardLockedBy(u) /\ ControlOf(u) /\ Same(u)
        BY <1>3, <3>2, OthersStay DEF GuardsStillHold, GuardsAreLocked, ControlOK
      <4>2. pc'[u] = pc[u] /\ req'[u] = req[u] /\ todo'[u] = todo[u]
        BY <4>1 DEF Same
      <4>3. ASSUME NEW i \in Invoices, Adv(i) \in locks[u]
            PROVE  /\ AllocatedSeen(u, i)' = AllocatedSeen(u, i)
                   /\ WhtSeen(u, i)' <= WhtSeen(u, i)
                   /\ AllocatedSeen(u, i) \in Int /\ WhtSeen(u, i) \in Int
                   /\ WhtSeen(u, i)' \in Int /\ InvTotal[i] \in Int
        BY <1>3, <3>2, <4>3, OthersCommitBenignly, SeenTyped, WhtStaysTyped, TotalsArePositive
           DEF TypeOK
      <4>4. ASSUME pc[u] = "insert", NEW i \in Invoices, i = Head(todo[u]).inv
            PROVE  AllocatedSeen(u, i)' + WhtSeen(u, i)' + Head(todo[u]).amt <= InvTotal[i]
        <5>1. Head(todo[u]).amt \in Int /\ Adv(i) \in locks[u]
          BY <4>1, <4>4, HeadIsLine DEF ControlOf, GuardLockedBy, TypeOK
        <5>2. AllocatedSeen(u, i) + WhtSeen(u, i) + Head(todo[u]).amt <= InvTotal[i]
          BY <4>1, <4>4 DEF GuardHoldsFor
        <5>3. QED
          BY <4>3, <5>1, <5>2
      <4>5. ASSUME pc[u] = "whtWrite", NEW i \in Invoices, i = req[u].inv
            PROVE  AllocatedSeen(u, i)' + Head(todo[u]).amt <= InvTotal[i]
        <5>1. Adv(i) \in locks[u]
          BY <4>1, <4>5 DEF GuardLockedBy
        <5>2. AllocatedSeen(u, i) + Head(todo[u]).amt <= InvTotal[i]
          BY <4>1, <4>5 DEF GuardHoldsFor
        <5>3. QED
          BY <4>3, <5>1, <5>2
      <4>6. pc[u] = "insert" => Head(todo[u]).inv \in Invoices
        BY <4>1, HeadIsLine DEF ControlOf, TypeOK
      <4>7. pc[u] = "whtWrite" => req[u].inv \in Invoices
        BY <4>1 DEF ControlOf, TypeOK, ControlTyped, RequestComplete
      <4>8. QED
        BY <4>2, <4>4, <4>5, <4>6, <4>7 DEF GuardHoldsFor
    <3>3. QED
      BY <3>1, <3>2 DEF GuardsStillHold
  <2>6. DraftsFit'
    <3>1. ASSUME NEW i \in Invoices PROVE (AllocatedSeen(t, i) + WhtSeen(t, i) <= InvTotal[i])'
      BY <1>3, <2>1, OwnStepFits
    <3>2. ASSUME NEW u \in Txns, u # t, NEW i \in Invoices
          PROVE  (AllocatedSeen(u, i) + WhtSeen(u, i) <= InvTotal[i])'
      BY <1>3, <3>2, OthersCommitBenignly
    <3>3. QED
      BY <3>1, <3>2 DEF DraftsFit
  <2>7. NoOverAllocation' /\ WithholdingsAreNatural'
    <3>1. CASE ~Commit(t)
      BY <1>3, <3>1, OnlyCommitWrites DEF database, NoOverAllocation, WithholdingsAreNatural
    <3>2. CASE Commit(t)
      <4> SUFFICES ASSUME NEW i \in Invoices
                   PROVE  invSum'[i] + inv'[i].wht <= InvTotal[i] /\ inv'[i].wht >= 0
        BY DEF NoOverAllocation, WithholdingsAreNatural
      <4>1. /\ invSum'[i] = AllocatedSeen(t, i) /\ inv'[i].wht <= WhtSeen(t, i)
            /\ inv'[i].wht >= 0 /\ inv'[i].wht \in Int
        BY <2>1, <3>2, CommitEffect
      <4>2. AllocatedSeen(t, i) + WhtSeen(t, i) <= InvTotal[i]
        BY DEF DraftsFit
      <4>3. AllocatedSeen(t, i) \in Int /\ WhtSeen(t, i) \in Int /\ InvTotal[i] \in Int
        BY SeenTyped, TotalsArePositive DEF TypeOK
      <4>4. QED
        BY <4>1, <4>2, <4>3
    <3>3. QED
      BY <3>1, <3>2
  <2>8. QED
    BY <1>3, <2>2, <2>3, <2>4, <2>5, <2>6, <2>7
<1>4. CASE Next
  <2>1. TypeOK'
    BY <1>4, TypeNext
  <2>2. QED
    BY <1>2, <1>3, <1>4, <2>1, NextIsAStep
<1>5. QED
  BY <1>1, <1>4

\* The strengthening holds in every run: a transaction stands only at statements
\* its path reaches, holds the locks taken there, and what its guards read under
\* those locks is still so when it writes.
THEOREM SettlementHolds == Spec => []SettlementInvariant
<1>1. QED
  BY SettlementInit, SettlementStep, PTL DEF Spec

\* Every variable keeps the type of the column or local it stands for, in
\* every run of any number of transactions.
THEOREM TypeCorrect == Spec => []TypeOK
<1>1. SettlementInvariant => TypeOK
  BY DEF SettlementInvariant
<1>2. QED
  BY <1>1, SettlementHolds, PTL

\* No interleaving of record(), allocate(), reverse(), recordWithholding(),
\* voidInvoice() and the nightly job settles an invoice beyond its total.
THEOREM InvoicesNeverOversettled == Spec => []NoOverAllocation
<1>1. SettlementInvariant => NoOverAllocation
  BY DEF SettlementInvariant
<1>2. QED
  BY <1>1, SettlementHolds, PTL

\* An advisory lock or a row lock never has two holders.
THEOREM LocksHaveOneHolder == Spec => []LocksExclusive
<1>1. SettlementInvariant => LocksExclusive
  BY DEF SettlementInvariant
<1>2. QED
  BY <1>1, SettlementHolds, PTL

-----------------------------------------------------------------------------
(* Steps, with the request that opens a transaction.                       *)

Opening(t) == (t \in Requests /\ Arrive(t)) \/ (t \in Crons /\ ReconcileOne(t))

Turn(t) == Opening(t) \/ Reading(t) \/ Locking(t) \/ Writing(t) \/ Ending(t)

\* A turn is a step.
LEMMA TurnIsStep ==
  ASSUME TypeOK, NEW t \in Txns, Turn(t)
  PROVE  Step(t) /\ (Opening(t) => Arriving(t))
BY ArrivalShape, ReconcileShape DEF Turn, Opening, Step, Arriving

\* Every step of the system is a turn of one transaction, or the cron waking up.
LEMMA NextIsATurn ==
  ASSUME Next
  PROVE  \/ \E t \in Txns : Turn(t)
         \/ \E n \in Crons : StartSweep(n)
BY DEF Next, Turn, Opening, Statement, Reading, Locking, Writing, Ending, Txns

\* A turn leaves what the others have written alone.
LEMMA OthersKeep ==
  ASSUME TypeOK, NEW t \in Txns, Step(t), NEW u \in Txns, u # t
  PROVE  spent'[u] = spent[u] /\ stat'[u] = stat[u] /\ num'[u] = num[u] /\ seen'[u] = seen[u]
<1> USE DEF TypeOK, ControlTyped, DraftsTyped
<1>1. CASE Arriving(t)
  BY <1>1 DEF Arriving, Arrives, Begin, drafts
<1>2. CASE Locking(t)
  BY <1>2 DEF Locking, ClaimNumber, LockPayment, LockInvoice, WriteBalance, drafts
<1>3. CASE Reading(t)
  BY <1>3 DEF Reading, GuardAllocation, GuardVoid, GuardWithholding, ReadOriginal, DeriveStatus,
     ReadInvoiced, ReadUnapplied, drafts
<1>4. CASE Writing(t)
  BY <1>4 DEF Writing, InsertAllocation, InsertMirrors, WriteVoid, WriteWithholding, CasStatus
<1>5. CASE Ending(t)
  BY <1>5 DEF Ending, Commit, Refuse, Crash, Finish
<1>6. QED
  BY <1>1, <1>2, <1>3, <1>4, <1>5 DEF Step

\* What a transaction that ends leaves behind.
LEMMA EndingClears ==
  ASSUME TypeOK, NEW t \in Txns, Ending(t)
  PROVE  /\ pc'[t] = "idle" /\ req'[t] = NoRequest /\ todo'[t] = <<>> /\ locks'[t] = {}
         /\ rows'[t] = [i \in Invoices |-> 0] /\ spent'[t] = 0
         /\ stat'[t] = [i \in Invoices |-> None] /\ wht'[t] = None /\ num'[t] = 0
BY DEF Ending, Commit, Refuse, Crash, Finish, Goto, TypeOK, ControlTyped, DraftsTyped

\* What beginning a transaction does.
LEMMA BeginEffect ==
  ASSUME TypeOK, NEW t \in Txns, NEW r, NEW lines, NEW label, Begin(t, r, lines, label)
  PROVE  /\ pc[t] = "idle" /\ UNCHANGED <<database, locks, drafts, num, seen>>
         /\ req'[t] = r /\ todo'[t] = lines /\ pc'[t] = label
         /\ \A u \in Txns \ {t} : req'[u] = req[u]
BY DEF Begin, Goto, TypeOK, ControlTyped

\* The fields of a request.
LEMMA AskFields ==
  ASSUME NEW op, NEW c, NEW i, NEW p, NEW a, NEW q, NEW r, r = Ask(op, c, i, p, a, q)
  PROVE  r.op = op /\ r.cust = c /\ r.inv = i /\ r.pay = p /\ r.amt = a /\ r.orig = q
BY DEF Ask

\* The statement an operation begins with.
BeginsAt(op) ==
  IF op \in {"create", "record", "reverse"} THEN "claim"
  ELSE IF op = "allocate" THEN "payLock"
  ELSE IF op = "reconcile" THEN "balInvoices" ELSE "invLock"

\* How requests begin: the payment each is about is there, and what it will insert
\* is not.
LEMMA OpeningFits ==
  ASSUME TypeOK, NEW t \in Txns, Opening(t)
  PROVE  /\ pc[t] = "idle" /\ UNCHANGED <<database, locks, drafts, num, seen>>
         /\ req'[t].op \in Ops \ {"none"} /\ pc'[t] = BeginsAt(req'[t].op)
         /\ RequestFits(t)'
         /\ InsertsPayment(t)' => \A u \in Txns : req[u].pay # req'[t].pay
         /\ req'[t].op = "create" =>
              /\ inv[req'[t].inv].status = "NONE"
              /\ \A u \in Txns : req[u].op = "create" => req[u].inv # req'[t].inv
         /\ req'[t].op \in {"void", "withhold"} => inv[req'[t].inv].status # "NONE"
         /\ req'[t].op = "allocate" => Len(todo'[t]) = 1
<1> USE DEF RequestFits, InsertsPayment, BeginsAt, Ops
<1>1. CASE CreateInvoice(t)
  <2>1. PICK i \in Invoices :
          /\ inv[i].status = "NONE"
          /\ \A u \in Txns : req[u].op = "create" => req[u].inv # i
          /\ Begin(t, Ask("create", InvCustomer[i], i, None, 0, None), <<>>, "claim")
    BY <1>1 DEF CreateInvoice
  <2>2. req'[t].op = "create" /\ req'[t].inv = i /\ req'[t].pay = None /\ req'[t].orig = None
    BY <2>1, BeginEffect, AskFields
  <2>3. QED
    BY <2>1, <2>2, BeginEffect
<1>2. CASE RecordPayment(t)
  <2>1. PICK c \in Customers, a \in Amounts, p \in Payments, l \in AllocationLists :
          IsFresh(p) /\ Begin(t, Ask("record", c, None, p, a, None), l, "claim")
    BY <1>2 DEF RecordPayment
  <2>2. req'[t].op = "record" /\ req'[t].pay = p /\ req'[t].amt = a /\ req'[t].orig = None
    BY <2>1, BeginEffect, AskFields
  <2>3. a >= 0
    BY AmountsArePositive
  <2>4. pay' = pay /\ \A u \in Txns \ {t} : req'[u] = req[u]
    BY <2>1, BeginEffect DEF database
  <2>5. QED
    BY <2>1, <2>2, <2>3, <2>4, BeginEffect DEF IsFresh
<1>3. CASE Allocate(t)
  <2>1. PICK p \in Payments, line \in AllocationLine :
          /\ pay[p] # None
          /\ Begin(t, Ask("allocate", pay[p].cust, None, p, pay[p].amt, None), <<line>>, "payLock")
    BY <1>3 DEF Allocate
  <2>2. req'[t].op = "allocate" /\ req'[t].pay = p /\ req'[t].amt = pay[p].amt /\ req'[t].orig = None
    BY <2>1, BeginEffect, AskFields
  <2>3. pay' = pay /\ todo'[t] = <<line>>
    BY <2>1, BeginEffect DEF database
  <2>4. QED
    BY <2>1, <2>2, <2>3, BeginEffect
<1>4. CASE ReversePayment(t)
  <2>1. PICK p \in Payments, q \in Payments :
          /\ pay[p] # None /\ IsFresh(q)
          /\ Begin(t, Ask("reverse", pay[p].cust, None, q, -pay[p].amt, p), <<>>, "claim")
    BY <1>4 DEF ReversePayment
  <2>2. req'[t].op = "reverse" /\ req'[t].pay = q /\ req'[t].orig = p
    BY <2>1, BeginEffect, AskFields
  <2>3. pay' = pay /\ \A u \in Txns \ {t} : req'[u] = req[u]
    BY <2>1, BeginEffect DEF database
  <2>4. QED
    BY <2>1, <2>2, <2>3, BeginEffect DEF IsFresh
<1>5. CASE VoidInvoice(t)
  <2>1. PICK i \in Invoices :
          /\ inv[i].status # "NONE"
          /\ Begin(t, Ask("void", InvCustomer[i], i, None, 0, None),
                   <<[inv |-> i, amt |-> 0]>>, "invLock")
    BY <1>5 DEF VoidInvoice
  <2>2. req'[t].op = "void" /\ req'[t].inv = i /\ req'[t].pay = None /\ req'[t].orig = None
    BY <2>1, BeginEffect, AskFields
  <2>3. QED
    BY <2>1, <2>2, BeginEffect
<1>6. CASE RecordWithholding(t)
  <2>1. PICK i \in Invoices, a \in Amounts \cup {0} :
          /\ inv[i].status # "NONE"
          /\ Begin(t, Ask("withhold", InvCustomer[i], i, None, 0, None),
                   <<[inv |-> i, amt |-> a]>>, "invLock")
    BY <1>6 DEF RecordWithholding
  <2>2. req'[t].op = "withhold" /\ req'[t].inv = i /\ req'[t].pay = None /\ req'[t].orig = None
    BY <2>1, BeginEffect, AskFields
  <2>3. QED
    BY <2>1, <2>2, BeginEffect
<1>7. CASE t \in Crons /\ ReconcileOne(t)
  <2>1. PICK c \in sweep[t] : Begin(t, Ask("reconcile", c, None, None, 0, None), <<>>, "balInvoices")
    BY <1>7 DEF ReconcileOne
  <2>2. req'[t].op = "reconcile" /\ req'[t].pay = None /\ req'[t].orig = None
    BY <2>1, BeginEffect, AskFields
  <2>3. QED
    BY <2>1, <2>2, BeginEffect
<1>8. QED
  BY <1>1, <1>2, <1>3, <1>4, <1>5, <1>6, <1>7 DEF Opening, Arrive

-----------------------------------------------------------------------------
(* What commits do to payments.                                            *)

\* A payment nobody has inserted stays as it is, and only its inserter adds it.
LEMMA PaymentsOfATurn ==
  ASSUME TypeOK, NEW t \in Txns, RequestFits(t), Step(t), NEW p \in Payments
  PROVE  /\ pay[p] # None => pay'[p] = pay[p]
         /\ pay'[p] # pay[p] =>
              /\ Commit(t) /\ InsertsPayment(t) /\ req[t].pay = p
              /\ pay'[p] # None /\ pay'[p].amt = req[t].amt /\ pay'[p].revOf = req[t].orig
         /\ Commit(t) /\ InsertsPayment(t) /\ req[t].pay = p =>
              pay'[p] # None /\ pay'[p].amt = req[t].amt /\ pay'[p].revOf = req[t].orig
<1>1. CASE ~Commit(t)
  BY <1>1, OnlyCommitWrites DEF database
<1>2. CASE Commit(t) /\ InsertsPayment(t) /\ req[t].pay = p
  <2> DEFINE row == [cust |-> req[t].cust, amt |-> req[t].amt, revOf |-> req[t].orig, num |-> num[t]]
  <2>1. pay'[p] = row /\ pay[p] = None
    BY <1>2 DEF Commit, PaymentSeen, RequestFits
  <2>2. row \in Payment
    BY <1>2 DEF TypeOK, ControlTyped, RequestComplete, Request, Payment, InsertsPayment
  <2>3. QED
    BY <1>2, <2>1, <2>2, NullIsNoPayment
<1>3. CASE Commit(t) /\ ~(InsertsPayment(t) /\ req[t].pay = p)
  BY <1>3 DEF Commit, PaymentSeen
<1>4. QED
  BY <1>1, <1>2, <1>3

\* The rows of a payment change only by the commit of whoever works on it.
LEMMA RowsOfATurn ==
  ASSUME TypeOK, NEW t \in Txns, Step(t), NEW p \in Payments
  PROVE  /\ ~(Commit(t) /\ req[t].pay = p) =>
              paySum'[p] = paySum[p] /\ \A i \in Invoices : alloc'[p][i] = alloc[p][i]
         /\ Commit(t) /\ req[t].pay = p =>
              /\ paySum'[p] = paySum[p] + spent[t]
              /\ \A i \in Invoices : alloc'[p][i] = alloc[p][i] + rows[t][i]
<1>1. CASE ~Commit(t)
  BY <1>1, OnlyCommitWrites DEF database
<1>2. CASE Commit(t)
  <2>1. paySum'[p] = SpentSeen(t, p)
    BY <1>2 DEF Commit
  <2>2. \A i \in Invoices : alloc'[p][i] = IF p = req[t].pay THEN alloc[p][i] + rows[t][i] ELSE alloc[p][i]
    BY <1>2 DEF Commit
  <2>3. paySum[p] \in Int
    BY DEF TypeOK, CommittedTyped
  <2>4. QED
    BY <1>2, <2>1, <2>2, <2>3 DEF SpentSeen
<1>3. QED
  BY <1>1, <1>2

\* The rows of a payment somebody has locked are changed by nobody else, but for
\* the one who inserts it.
LEMMA LockedPaymentStays ==
  ASSUME TypeOK, LocksExclusive, NEW t \in Txns, PaymentLockedBy(t), Step(t),
         NEW u \in Txns, u # t, NEW p \in Payments, Adv(p) \in locks[u],
         ~(InsertsPayment(t) /\ req[t].pay = p), RequestFits(t)
  PROVE  paySum'[p] = paySum[p] /\ \A i \in Invoices : alloc'[p][i] = alloc[p][i]
<1>1. CASE ~(Commit(t) /\ req[t].pay = p)
  BY <1>1, RowsOfATurn
<1>2. CASE Commit(t) /\ req[t].pay = p
  <2>1. req[t].op = "allocate"
    BY <1>2, NullIsNoValue DEF RequestFits, InsertsPayment
  <2>2. Adv(p) \notin locks[t]
    BY DEF LocksExclusive
  <2>3. spent[t] = 0 /\ \A i \in Invoices : rows[t][i] = 0
    BY <1>2, <2>1, <2>2 DEF PaymentLockedBy, WorksOnPayment
  <2>4. paySum[p] \in Int /\ \A i \in Invoices : alloc[p][i] \in Int
    BY DEF TypeOK, CommittedTyped
  <2>5. QED
    BY <1>2, <2>3, <2>4, RowsOfATurn
<1>3. QED
  BY <1>1, <1>2

-----------------------------------------------------------------------------
(* What a transaction keeps of its own.                                    *)

\* Requests stay what they began as.
LEMMA RequestFitsStep ==
  ASSUME TypeOK, NEW t \in Txns, \A u \in Txns : RequestFits(u), Turn(t), NEW u \in Txns
  PROVE  RequestFits(u)'
<1>1. Step(t)
  BY TurnIsStep
<1>2. CASE u = t
  <2>1. CASE Opening(t)
    BY <1>2, <2>1, OpeningFits
  <2>2. CASE Ending(t)
    <3>1. req'[t] = NoRequest /\ NoRequest.op = "none" /\ NoRequest.pay = None /\ NoRequest.orig = None
      BY <2>2, EndingClears DEF NoRequest, Ask
    <3>2. QED
      BY <1>2, <3>1 DEF RequestFits, InsertsPayment
  <2>3. CASE Reading(t) \/ Locking(t) \/ Writing(t)
    <3>1. req' = req /\ UNCHANGED database
      BY <2>3 DEF Reading, GuardAllocation, GuardVoid, GuardWithholding, ReadOriginal, DeriveStatus,
         ReadInvoiced, ReadUnapplied, Locking, ClaimNumber, LockPayment, LockInvoice, WriteBalance,
         Writing, InsertAllocation, InsertMirrors, WriteVoid, WriteWithholding, CasStatus
    <3>2. QED
      BY <1>2, <3>1 DEF RequestFits, InsertsPayment, database
  <2>4. QED
    BY <2>1, <2>2, <2>3 DEF Turn
<1>3. CASE u # t
  <2>1. req'[u] = req[u] /\ RequestFits(u) /\ RequestComplete(req[u])
    BY <1>1, <1>3, OthersStay DEF Same, TypeOK, ControlTyped
  <2>2. \A p \in Payments : pay[p] # None => pay'[p] = pay[p]
    BY <1>1, PaymentsOfATurn
  <2>3. ASSUME InsertsPayment(u)
        PROVE  /\ pay'[req[u].pay] = None
               /\ \A v \in Txns \ {u} : req'[v].pay # req[u].pay
    <3>1. /\ pay[req[u].pay] = None /\ req[u].pay \in Payments
          /\ \A v \in Txns \ {u} : req[v].pay # req[u].pay
      BY <2>1, <2>3 DEF RequestFits, RequestComplete, InsertsPayment
    <3>2. pay'[req[u].pay] = None
      BY <1>1, <1>3, <3>1, PaymentsOfATurn
    <3>3. req'[t].pay # req[u].pay
      <4>1. CASE Opening(t)
        <5>1. InsertsPayment(t)' => req'[t].pay # req[u].pay
          BY <4>1, OpeningFits
        <5>2. req'[t].op = "allocate" => pay[req'[t].pay] # None
          BY <4>1, OpeningFits DEF RequestFits, database
        <5>3. req'[t].op \notin {"record", "allocate", "reverse"} => req'[t].pay = None
          BY <4>1, OpeningFits DEF RequestFits
        <5>4. QED
          BY <3>1, <5>1, <5>2, <5>3, NullIsNoValue DEF InsertsPayment
      <4>2. CASE Ending(t)
        <5>1. req'[t].pay = None
          BY <4>2, EndingClears DEF NoRequest, Ask
        <5>2. QED
          BY <3>1, <5>1, NullIsNoValue
      <4>3. CASE Reading(t) \/ Locking(t) \/ Writing(t)
        <5>1. req' = req
          BY <4>3 DEF Reading, GuardAllocation, GuardVoid, GuardWithholding, ReadOriginal, DeriveStatus,
             ReadInvoiced, ReadUnapplied, Locking, ClaimNumber, LockPayment, LockInvoice, WriteBalance,
             Writing, InsertAllocation, InsertMirrors, WriteVoid, WriteWithholding, CasStatus
        <5>2. QED
          BY <1>3, <3>1, <5>1
      <4>4. QED
        BY <4>1, <4>2, <4>3 DEF Turn
    <3>4. \A v \in Txns \ {u, t} : req'[v] = req[v]
      BY <1>1, OthersStay DEF Same
    <3>5. QED
      BY <3>1, <3>2, <3>3, <3>4
  <2>4. req[u].op = "allocate" => pay'[req[u].pay] # None /\ pay'[req[u].pay].amt = req[u].amt
    BY <2>1, <2>2 DEF RequestFits, RequestComplete
  <2>5. req[u].op = "reverse" => pay'[req[u].orig] # None
    BY <2>1, <2>2 DEF RequestFits, RequestComplete
  <2>6. QED
    BY <2>1, <2>3, <2>4, <2>5 DEF RequestFits, InsertsPayment
<1>4. QED
  BY <1>2, <1>3

\* A statement under way keeps its request, what is stored and its locks, and only
\* the two inserts write rows.
LEMMA StatementKeeps ==
  ASSUME TypeOK, NEW t \in Txns, Reading(t) \/ Locking(t) \/ Writing(t)
  PROVE  /\ req' = req /\ UNCHANGED database /\ locks[t] \subseteq locks'[t]
         /\ InsertAllocation(t) \/ InsertMirrors(t) \/ (rows'[t] = rows[t] /\ spent'[t] = spent[t])
<1> USE DEF TypeOK, ControlTyped
<1>1. CASE Reading(t)
  BY <1>1 DEF Reading, GuardAllocation, GuardVoid, GuardWithholding, ReadOriginal, DeriveStatus,
     ReadInvoiced, ReadUnapplied, drafts
<1>2. CASE Locking(t)
  BY <1>2 DEF Locking, ClaimNumber, LockPayment, LockInvoice, WriteBalance, Acquire, drafts
<1>3. CASE Writing(t)
  BY <1>3 DEF Writing, InsertAllocation, InsertMirrors, WriteVoid, WriteWithholding, CasStatus, Acquire
<1>4. QED
  BY <1>1, <1>2, <1>3

\* Where statements lead to.
LEMMA WhereTo ==
  ASSUME TypeOK, NEW t \in Txns, ControlOf(t)
  PROVE  /\ ClaimNumber(t) => pc'[t] \in {"payLock", "balInvoices"} /\ pc[t] = "claim"
                              /\ (req[t].op = "reverse" => pc'[t] = "payLock")
         /\ LockPayment(t) => /\ pc[t] = "payLock"
                              /\ pc'[t] = IF req[t].op = "reverse" THEN "readOriginal" ELSE "invLock"
         /\ LockInvoice(t) => /\ pc[t] = "invLock"
                              /\ req[t].op \in {"record", "allocate"} => pc'[t] = "guard"
                              /\ req[t].op = "void" => pc'[t] = "voidGuard"
                              /\ req[t].op = "withhold" => pc'[t] = "whtGuard"
                              /\ req[t].op = "reverse" => pc'[t] \in {"mirror", "invLock"}
         /\ WriteBalance(t) => pc[t] = "balWrite" /\ pc'[t] = "commit"
         /\ GuardAllocation(t) => pc[t] = "guard" /\ pc'[t] = "insert"
         /\ GuardVoid(t) => pc[t] = "voidGuard" /\ pc'[t] = "voidWrite"
         /\ GuardWithholding(t) => pc[t] = "whtGuard" /\ pc'[t] = "whtWrite"
         /\ ReadOriginal(t) => pc[t] = "readOriginal" /\ pc'[t] \in {"mirror", "invLock"}
         /\ DeriveStatus(t) => pc[t] = "derive" /\ pc'[t] \in {"cas", AfterStatus(t)}
         /\ CasStatus(t) => pc[t] = "cas" /\ pc'[t] = AfterStatus(t)
         /\ ReadInvoiced(t) => pc[t] = "balInvoices" /\ pc'[t] = "balPayments"
         /\ ReadUnapplied(t) => pc[t] = "balPayments" /\ pc'[t] = "balWrite"
         /\ InsertAllocation(t) => pc[t] = "insert" /\ pc'[t] = "derive"
         /\ InsertMirrors(t) => pc[t] = "mirror" /\ pc'[t] \in {"balInvoices", "derive"}
         /\ WriteVoid(t) => pc[t] = "voidWrite" /\ pc'[t] = "balInvoices"
         /\ WriteWithholding(t) => pc[t] = "whtWrite" /\ pc'[t] = "derive"
         /\ AfterStatus(t) \in {"balInvoices", "derive", "payLock"}
         /\ AfterStatus(t) = "derive" => req[t].op = "reverse"
         /\ AfterStatus(t) = "payLock" => req[t].op # "reverse"
<1> USE DEF TypeOK, ControlTyped, Goto
<1>1. /\ ClaimNumber(t) => pc[t] = "claim" /\ pc'[t] = AfterClaim(t)
      /\ AfterClaim(t) \in {"payLock", "balInvoices"}
      /\ req[t].op = "reverse" => AfterClaim(t) = "payLock"
  BY DEF ClaimNumber, AfterClaim
<1>2. LockPayment(t) => /\ pc[t] = "payLock"
                        /\ pc'[t] = IF req[t].op = "reverse" THEN "readOriginal" ELSE "invLock"
  BY DEF LockPayment
<1>3. LockInvoice(t) => pc[t] = "invLock" /\ pc'[t] = AfterInvoiceLock(t)
  BY DEF LockInvoice
<1>4. /\ req[t].op \in {"record", "allocate"} => AfterInvoiceLock(t) = "guard"
      /\ req[t].op = "void" => AfterInvoiceLock(t) = "voidGuard"
      /\ req[t].op = "withhold" => AfterInvoiceLock(t) = "whtGuard"
      /\ req[t].op = "reverse" => AfterInvoiceLock(t) \in {"mirror", "invLock"}
  BY DEF AfterInvoiceLock
<1>5. /\ WriteBalance(t) => pc[t] = "balWrite" /\ pc'[t] = "commit"
      /\ GuardAllocation(t) => pc[t] = "guard" /\ pc'[t] = "insert"
      /\ GuardVoid(t) => pc[t] = "voidGuard" /\ pc'[t] = "voidWrite"
      /\ GuardWithholding(t) => pc[t] = "whtGuard" /\ pc'[t] = "whtWrite"
  BY DEF WriteBalance, GuardAllocation, GuardVoid, GuardWithholding
<1>6. ReadOriginal(t) => pc[t] = "readOriginal" /\ pc'[t] \in {"mirror", "invLock"}
  BY DEF ReadOriginal
<1>7. /\ DeriveStatus(t) => pc[t] = "derive" /\ pc'[t] \in {"cas", AfterStatus(t)}
      /\ CasStatus(t) => pc[t] = "cas" /\ pc'[t] = AfterStatus(t)
  BY DEF DeriveStatus, CasStatus
<1>8. ReadInvoiced(t) => pc[t] = "balInvoices" /\ pc'[t] = "balPayments"
  BY DEF ReadInvoiced
<1>9. ReadUnapplied(t) => pc[t] = "balPayments" /\ pc'[t] = "balWrite"
  BY DEF ReadUnapplied
<1>10. /\ InsertAllocation(t) => pc[t] = "insert" /\ pc'[t] = "derive"
       /\ InsertMirrors(t) => pc[t] = "mirror" /\ pc'[t] \in {"balInvoices", "derive"}
       /\ WriteVoid(t) => pc[t] = "voidWrite" /\ pc'[t] = "balInvoices"
       /\ WriteWithholding(t) => pc[t] = "whtWrite" /\ pc'[t] = "derive"
  BY DEF InsertAllocation, InsertMirrors, WriteVoid, WriteWithholding
<1>11. /\ AfterStatus(t) \in {"balInvoices", "derive", "payLock"}
       /\ AfterStatus(t) = "derive" => req[t].op = "reverse"
       /\ AfterStatus(t) = "payLock" => req[t].op # "reverse"
  BY DEF AfterStatus
<1>12. QED
  BY <1>1, <1>2, <1>3, <1>4, <1>5, <1>6, <1>7, <1>8, <1>9, <1>10, <1>11

\* The payment a transaction works on is locked, after its own step as before.
LEMMA PaymentLockedStep ==
  ASSUME TypeOK, NEW t \in Txns, ControlOf(t), DraftsLockedBy(t), PaymentLockedBy(t), Turn(t)
  PROVE  PaymentLockedBy(t)'
<1> USE DEF PaymentLockedBy
<1>1. CASE Opening(t)
  <2>1. req[t].op = "none"
    BY <1>1, OpeningFits DEF ControlOf
  <2>2. spent[t] = 0 /\ \A i \in Invoices : rows[t][i] = 0
    BY <2>1 DEF DraftsLockedBy
  <2>3. spent'[t] = 0 /\ \A i \in Invoices : rows'[t][i] = 0
    BY <1>1, <2>2, OpeningFits DEF drafts
  <2>4. pc'[t] = BeginsAt(req'[t].op)
    BY <1>1, OpeningFits
  <2>5. QED
    BY <2>3, <2>4 DEF BeginsAt, WorksOnPayment
<1>2. CASE Ending(t)
  <2>1. req'[t].op = "none" /\ spent'[t] = 0
    BY <1>2, EndingClears DEF NoRequest, Ask
  <2>2. QED
    BY <2>1
<1>3. CASE Reading(t) \/ Locking(t) \/ Writing(t)
  <2>1. req' = req /\ locks[t] \subseteq locks'[t] /\ (ReversalAllowed(t) => ReversalAllowed(t)')
    BY <1>3, StatementKeeps DEF ReversalAllowed, database
  <2>2. InsertAllocation(t) \/ InsertMirrors(t) \/ (rows'[t] = rows[t] /\ spent'[t] = spent[t])
    BY <1>3, StatementKeeps
  <2>3. CASE LockPayment(t)
    <3>1. locks'[t] = locks[t] \cup {Wanted(t)} /\ pc[t] = "payLock"
      BY <2>3 DEF LockPayment, Acquire, TypeOK, ControlTyped
    <3>2. Wanted(t) = Adv(IF req[t].op = "reverse" THEN req[t].orig ELSE req[t].pay)
      BY <3>1 DEF Wanted
    <3>3. rows'[t] = rows[t] /\ spent'[t] = spent[t]
      BY <2>3 DEF LockPayment, drafts
    <3>4. QED
      BY <2>1, <2>3, <3>1, <3>2, <3>3, WhereTo DEF WorksOnPayment
  <2>4. CASE InsertAllocation(t) \/ InsertMirrors(t)
    <3>1. req[t].op \in {"record", "allocate", "reverse"}
      BY <2>4 DEF InsertAllocation, InsertMirrors, ControlOf
    <3>2. InsertAllocation(t) => req[t].op \in {"record", "allocate"}
      BY DEF InsertAllocation, ControlOf
    <3>3. InsertMirrors(t) => req[t].op = "reverse"
      BY DEF InsertMirrors, ControlOf
    <3>4. QED
      BY <2>1, <2>4, <3>1, <3>2, <3>3, WhereTo DEF WorksOnPayment
  <2>5. CASE ~LockPayment(t) /\ ~InsertAllocation(t) /\ ~InsertMirrors(t)
    <3>1. /\ pc'[t] \in {"invLock", "guard", "insert"} /\ req[t].op \in {"record", "allocate"} =>
               pc[t] \in {"invLock", "guard", "insert"}
          /\ req[t].op = "reverse" /\ pc'[t] \notin {"claim", "payLock"} =>
               pc[t] \notin {"claim", "payLock"}
          /\ req[t].op = "reverse" /\ pc'[t] \notin {"claim", "payLock", "readOriginal"} =>
               pc[t] # "readOriginal" \/ ReadOriginal(t)
      BY <1>3, <2>5, WhereTo DEF Reading, Locking, Writing, ControlOf
    <3>2. ReadOriginal(t) => ReversalAllowed(t)
      BY DEF ReadOriginal
    <3>3. pc'[t] # "readOriginal"
      BY <1>3, <2>5, WhereTo DEF Reading, Locking, Writing, ControlOf
    <3>4. QED
      BY <2>1, <2>2, <2>5, <3>1, <3>2, <3>3 DEF WorksOnPayment
  <2>6. QED
    BY <2>3, <2>4, <2>5
<1>4. QED
  BY <1>1, <1>2, <1>3 DEF Turn

\* What the guard found left of the payment is left when the row is inserted.
LEMMA PaymentCoversStep ==
  ASSUME TypeOK, NEW t \in Txns, ControlOf(t), RequestFits(t), PaymentLockedBy(t),
         PaymentCovers(t), Turn(t)
  PROVE  PaymentCovers(t)'
<1> USE DEF PaymentCovers
<1>1. CASE Opening(t)
  <2>1. req[t].op = "none"
    BY <1>1, OpeningFits DEF ControlOf
  <2>2. spent'[t] = 0
    BY <1>1, <2>1, OpeningFits DEF drafts, PaymentLockedBy
  <2>3. pc'[t] # "insert"
    BY <1>1, OpeningFits DEF BeginsAt
  <2>4. QED
    BY <2>2, <2>3
<1>2. CASE Ending(t)
  <2>1. spent'[t] = 0 /\ pc'[t] # "insert"
    BY <1>2, EndingClears
  <2>2. QED
    BY <2>1
<1>3. CASE GuardAllocation(t)
  <2>1. /\ SpentSeen(t, req[t].pay) + Head(todo[t]).amt <= req[t].amt
        /\ pc[t] = "guard" /\ req[t].op \in {"record", "allocate"}
    BY <1>3 DEF GuardAllocation, AllocationAllowed, ControlOf
  <2>2. paySum[req[t].pay] + spent[t] + Head(todo[t]).amt <= req[t].amt
    BY <2>1 DEF SpentSeen
  <2>3. UNCHANGED <<database, drafts>> /\ req' = req /\ todo' = todo
    BY <1>3 DEF GuardAllocation
  <2>4. QED
    BY <2>2, <2>3 DEF database, drafts
<1>4. CASE InsertAllocation(t)
  <2>1. paySum[req[t].pay] + spent[t] + Head(todo[t]).amt <= req[t].amt /\ todo[t] # <<>>
    BY <1>4 DEF InsertAllocation, ControlOf
  <2>2. Head(todo[t]).amt \in Int /\ spent[t] \in Int
    BY <2>1, HeadIsLine DEF TypeOK, DraftsTyped
  <2>3. req[t].pay \in Payments /\ paySum[req[t].pay] \in Int
    BY <1>4 DEF InsertAllocation, ControlOf, TypeOK, ControlTyped, CommittedTyped, RequestComplete
  <2>4. spent'[t] = spent[t] + Head(todo[t]).amt /\ UNCHANGED database /\ req' = req /\ pc'[t] = "derive"
    BY <1>4 DEF InsertAllocation, Goto, TypeOK, ControlTyped, DraftsTyped
  <2>5. QED
    BY <2>1, <2>2, <2>3, <2>4 DEF database
<1>5. CASE InsertMirrors(t)
  <2>1. req'[t].op = "reverse" /\ pc'[t] # "insert"
    BY <1>5, WhereTo DEF InsertMirrors, ControlOf
  <2>2. QED
    BY <2>1
<1>6. CASE /\ Reading(t) \/ Locking(t) \/ Writing(t)
           /\ ~GuardAllocation(t) /\ ~InsertAllocation(t) /\ ~InsertMirrors(t)
  <2>1. pc'[t] # "insert"
    BY <1>6, WhereTo DEF Reading, Locking, Writing, ControlOf
  <2>2. req' = req /\ spent'[t] = spent[t] /\ UNCHANGED database
    BY <1>6, StatementKeeps
  <2>3. QED
    BY <2>1, <2>2 DEF database
<1>7. QED
  BY <1>1, <1>2, <1>3, <1>4, <1>5, <1>6 DEF Turn

\* A negated amount.
LEMMA NegatedAmount ==
  ASSUME NEW x \in Int
  PROVE  -x = 0 - x
OBVIOUS

\* What is nothing is nothing negated.
LEMMA NegatedZero ==
  ASSUME NEW x \in Int, x = 0
  PROVE  -x = 0
<1>1. -x = 0 - x
  BY NegatedAmount, Zenon
<1>2. 0 - x = 0
  OBVIOUS
<1>3. QED
  BY <1>1, <1>2, Zenon

\* A list that has every allocation of the original once mirrors all of them.
LEMMA MirrorRowsAreAll ==
  ASSUME TypeOK, NEW t \in Txns, MirrorsOf(t), pc[t] = "mirror", req[t].op = "reverse",
         NEW i \in Invoices
  PROVE  MirrorRow(t, i) = -alloc[req[t].orig][i]
<1>1. /\ \A n \in DOMAIN todo[t] : todo[t][n].amt = -alloc[req[t].orig][todo[t][n].inv]
      /\ \A j \in AllocatedInvoices(req[t].orig) : \E n \in DOMAIN todo[t] : todo[t][n].inv = j
  BY DEF MirrorsOf
<1>2. CASE \E n \in DOMAIN todo[t] : todo[t][n].inv = i
  BY <1>1, <1>2 DEF MirrorRow
<1>3. CASE ~ \E n \in DOMAIN todo[t] : todo[t][n].inv = i
  <2>1. alloc[req[t].orig][i] = 0
    BY <1>1, <1>3 DEF AllocatedInvoices
  <2>2. MirrorRow(t, i) = 0
    BY <1>3 DEF MirrorRow
  <2>3. alloc[req[t].orig][i] \in Int
    BY DEF TypeOK, CommittedTyped, ControlTyped, RequestComplete
  <2>4. -alloc[req[t].orig][i] = 0
    BY <2>1, <2>3, NegatedZero, Zenon
  <2>5. QED
    BY <2>2, <2>4, Zenon
<1>4. QED
  BY <1>2, <1>3

\* A reversal lists, and then mirrors, all its original holds.
LEMMA MirrorsStep ==
  ASSUME TypeOK, NEW t \in Txns, ControlOf(t), DraftsLockedBy(t), MirrorsOf(t), Turn(t)
  PROVE  MirrorsOf(t)'
<1>1. CASE Opening(t)
  <2>1. pc'[t] = BeginsAt(req'[t].op) /\ req[t].op = "none" /\ rows'[t] = rows[t]
    BY <1>1, OpeningFits DEF ControlOf, drafts
  <2>2. \A i \in Invoices : rows'[t][i] = 0
    BY <2>1 DEF DraftsLockedBy
  <2>3. QED
    BY <2>1, <2>2 DEF BeginsAt, MirrorsOf
<1>2. CASE Ending(t)
  <2>1. req'[t].op = "none"
    BY <1>2, EndingClears DEF NoRequest, Ask
  <2>2. QED
    BY <2>1 DEF MirrorsOf
<1>3. CASE ReadOriginal(t)
  <2> DEFINE orig == req[t].orig
  <2>1. PICK list \in InvoiceLists :
          /\ Range(list) = AllocatedInvoices(orig)
          /\ todo' = [todo EXCEPT ![t] = [n \in DOMAIN list |->
                        [inv |-> list[n], amt |-> -alloc[orig][list[n]]]]]
    BY <1>3 DEF ReadOriginal
  <2>2. todo'[t] = [n \in DOMAIN list |-> [inv |-> list[n], amt |-> -alloc[orig][list[n]]]]
    BY <2>1 DEF TypeOK, ControlTyped
  <2>3. /\ req' = req /\ alloc' = alloc /\ pc'[t] \in {"mirror", "invLock"}
        /\ pc[t] = "readOriginal" /\ rows' = rows
    BY <1>3, WhereTo, StatementKeeps DEF Reading, database, ReadOriginal, drafts
  <2>4. \A n \in DOMAIN list : alloc[orig][list[n]] # 0
    BY <2>1 DEF Range, AllocatedInvoices
  <2>5. \A i \in AllocatedInvoices(orig) : \E n \in DOMAIN list : list[n] = i
    BY <2>1 DEF Range
  <2>6. DOMAIN todo'[t] = DOMAIN list
    BY <2>2
  <2>7. \A n \in DOMAIN list : todo'[t][n].inv = list[n] /\ todo'[t][n].amt = -alloc[orig][list[n]]
    BY <2>2
  <2>8. AllocatedInvoices(orig)' = AllocatedInvoices(orig)
    BY <2>3 DEF AllocatedInvoices
  <2>9. QED
    BY <2>3, <2>4, <2>5, <2>6, <2>7, <2>8 DEF MirrorsOf
<1>4. CASE InsertMirrors(t)
  <2>1. req[t].op = "reverse" /\ pc[t] = "mirror" /\ pc'[t] \in {"balInvoices", "derive"}
    BY <1>4, WhereTo DEF InsertMirrors, ControlOf
  <2>2. \A i \in Invoices : rows'[t][i] = -alloc[req[t].orig][i]
    BY <1>4, <2>1, MirrorRowsAreAll DEF InsertMirrors, TypeOK, DraftsTyped
  <2>3. req' = req /\ alloc' = alloc
    BY <1>4, StatementKeeps DEF Writing, database
  <2>4. QED
    BY <2>1, <2>2, <2>3 DEF MirrorsOf
<1>5. CASE LockInvoice(t)
  <2>1. req' = req /\ alloc' = alloc /\ todo' = todo /\ pc[t] = "invLock" /\ rows' = rows
    BY <1>5 DEF LockInvoice, database, drafts
  <2>2. req[t].op = "reverse" => pc'[t] \in {"mirror", "invLock"}
    BY <1>5, WhereTo
  <2>3. QED
    BY <2>1, <2>2 DEF MirrorsOf, AllocatedInvoices
<1>6. CASE /\ Reading(t) \/ Locking(t) \/ Writing(t)
           /\ ~ReadOriginal(t) /\ ~InsertMirrors(t) /\ ~LockInvoice(t)
  <2>1. /\ req[t].op = "reverse" => pc'[t] \notin {"invLock", "mirror"}
        /\ req[t].op = "reverse" =>
             (pc'[t] \in {"derive", "cas", "balInvoices", "balPayments", "balWrite", "commit"} =>
                pc[t] \in {"derive", "cas", "balInvoices", "balPayments", "balWrite", "commit"})
        /\ pc'[t] \in {"claim", "payLock", "readOriginal"} /\ req[t].op = "reverse" =>
             pc[t] \in {"claim", "payLock", "readOriginal"}
    BY <1>6, WhereTo DEF Reading, Locking, Writing, ControlOf
  <2>2. req' = req /\ alloc' = alloc /\ (InsertAllocation(t) \/ rows'[t] = rows[t])
    BY <1>6, StatementKeeps DEF database
  <2>3. InsertAllocation(t) => req[t].op # "reverse"
    BY DEF InsertAllocation, ControlOf
  <2>4. QED
    BY <2>1, <2>2, <2>3 DEF MirrorsOf
<1>7. QED
  BY <1>1, <1>2, <1>3, <1>4, <1>5, <1>6 DEF Turn

-----------------------------------------------------------------------------
(* What a transaction keeps while others take their turns.                 *)

\* A reversal that somebody has prepared stays allowed: another of the same
\* original waits for the lock.
LEMMA StillAllowed ==
  ASSUME TypeOK, LocksExclusive, \A v \in Txns : RequestFits(v) /\ PaymentLockedBy(v),
         NEW t \in Txns, Step(t), NEW u \in Txns, u # t, req[u].op = "reverse",
         Adv(req[u].orig) \in locks[u], ReversalAllowed(u)
  PROVE  ReversalAllowed(u)'
<1> DEFINE orig == req[u].orig
<1>1. orig \in Payments /\ pay[orig] # None /\ req'[u] = req[u]
  BY OthersStay DEF RequestFits, TypeOK, ControlTyped, RequestComplete, Same
<1>2. pay'[orig].revOf = None
  BY <1>1, PaymentsOfATurn DEF ReversalAllowed
<1>3. ASSUME NEW q \in Payments, pay'[q] # None, pay'[q].revOf = orig PROVE FALSE
  <2>1. CASE pay'[q] = pay[q]
    BY <1>3, <2>1 DEF ReversalAllowed
  <2>2. CASE pay'[q] # pay[q]
    <3>1. Commit(t) /\ InsertsPayment(t) /\ req[t].orig = orig
      BY <1>3, <2>2, PaymentsOfATurn
    <3>2. req[t].op = "reverse"
      BY <1>1, <3>1, NullIsNoValue DEF RequestFits
    <3>3. Adv(orig) \in locks[t]
      BY <3>1, <3>2 DEF Commit, PaymentLockedBy
    <3>4. QED
      BY <3>3 DEF LocksExclusive
  <2>3. QED
    BY <2>1, <2>2
<1>4. QED
  BY <1>1, <1>2, <1>3 DEF ReversalAllowed

\* The payments somebody works on are his alone.
LEMMA OthersPayments ==
  ASSUME TypeOK, LocksExclusive, ControlOK,
         \A v \in Txns : RequestFits(v) /\ PaymentLockedBy(v) /\ PaymentCovers(v) /\ MirrorsOf(v),
         NEW t \in Txns, Step(t), NEW u \in Txns, u # t
  PROVE  PaymentLockedBy(u)' /\ PaymentCovers(u)' /\ MirrorsOf(u)'
<1>1. /\ Same(u) /\ spent'[u] = spent[u]
      /\ RequestFits(u) /\ PaymentLockedBy(u) /\ PaymentCovers(u) /\ MirrorsOf(u)
      /\ RequestComplete(req[u])
  BY OthersStay, OthersKeep DEF TypeOK, ControlTyped
<1>2. PaymentLockedBy(u)'
  <2>1. WorksOnPayment(u)' = WorksOnPayment(u)
    BY <1>1 DEF WorksOnPayment, Same
  <2>2. req[u].op = "reverse" /\ Adv(req[u].orig) \in locks[u] /\ ReversalAllowed(u)
          => ReversalAllowed(u)'
    BY StillAllowed
  <2>3. QED
    BY <1>1, <2>1, <2>2 DEF PaymentLockedBy, Same
<1>3. ASSUME req[u].op \in {"record", "allocate"}, WorksOnPayment(u)
      PROVE  paySum'[req[u].pay] = paySum[req[u].pay]
  <2>1. Adv(req[u].pay) \in locks[u] /\ req[u].pay \in Payments
    BY <1>1, <1>3 DEF PaymentLockedBy, RequestComplete
  <2>2. ~(InsertsPayment(t) /\ req[t].pay = req[u].pay)
    BY <1>1, <1>3 DEF RequestFits, InsertsPayment
  <2>3. QED
    BY <1>1, <2>1, <2>2, LockedPaymentStays
<1>4. PaymentCovers(u)'
  <2>1. pc[u] = "insert" => req[u].op \in {"record", "allocate"}
    BY DEF ControlOK, ControlOf
  <2>2. QED
    BY <1>1, <1>3, <2>1 DEF PaymentCovers, WorksOnPayment, Same
<1>5. MirrorsOf(u)'
  <2>1. ASSUME req[u].op = "reverse", pc[u] \notin {"claim", "payLock"}
        PROVE  \A i \in Invoices : alloc'[req[u].orig][i] = alloc[req[u].orig][i]
    <3>1. Adv(req[u].orig) \in locks[u] /\ req[u].orig \in Payments /\ pay[req[u].orig] # None
      BY <1>1, <2>1 DEF PaymentLockedBy, RequestComplete, RequestFits
    <3>2. ~(InsertsPayment(t) /\ req[t].pay = req[u].orig)
      BY <3>1 DEF RequestFits
    <3>3. QED
      BY <1>1, <3>1, <3>2, LockedPaymentStays
  <2>2. CASE req[u].op = "reverse" /\ pc[u] \in {"invLock", "mirror"}
    <3>1. \A i \in Invoices : alloc'[req[u].orig][i] = alloc[req[u].orig][i]
      BY <2>1, <2>2
    <3>2. \A n \in DOMAIN todo[u] : todo[u][n].inv \in Invoices
      <4>1. todo[u] \in Seq(Line)
        BY DEF TypeOK, ControlTyped
      <4>2. \A n \in DOMAIN todo[u] : todo[u][n] \in Line
        BY <4>1, ElementOfSeq, LenProperties
      <4>3. QED
        BY <4>2 DEF Line
    <3>3. \A i \in Invoices : i \in AllocatedInvoices(req[u].orig)' <=> i \in AllocatedInvoices(req[u].orig)
      BY <1>1, <3>1 DEF AllocatedInvoices, Same
    <3>4. AllocatedInvoices(req[u].orig)' = AllocatedInvoices(req[u].orig)
      BY <3>3 DEF AllocatedInvoices
    <3>5. QED
      BY <1>1, <2>2, <3>1, <3>2, <3>4 DEF MirrorsOf, Same
  <2>3. CASE req[u].op = "reverse" /\ pc[u] \notin {"invLock", "mirror"}
    BY <1>1, <2>1, <2>3 DEF MirrorsOf, Same
  <2>4. CASE req[u].op # "reverse"
    BY <1>1, <2>4 DEF MirrorsOf, Same
  <2>5. QED
    BY <2>2, <2>3, <2>4
<1>6. QED
  BY <1>2, <1>4, <1>5

-----------------------------------------------------------------------------
(* What is stored about payments.                                          *)

\* A commit gives rows only to payments that are there.
LEMMA RowsHavePaymentsStep ==
  ASSUME TypeOK, RowsHavePayments, NEW t \in Txns, RequestFits(t), Step(t)
  PROVE  RowsHavePayments'
<1> SUFFICES ASSUME NEW p \in Payments, pay'[p] = None
             PROVE  paySum'[p] = 0 /\ \A i \in Invoices : alloc'[p][i] = 0
  BY DEF RowsHavePayments
<1>1. pay[p] = None
  BY PaymentsOfATurn
<1>2. ~(Commit(t) /\ req[t].pay = p)
  BY <1>1, PaymentsOfATurn, NullIsNoValue DEF RequestFits, InsertsPayment
<1>3. QED
  BY <1>1, <1>2, RowsOfATurn DEF RowsHavePayments

\* A commit settles no more with a payment than was received.
LEMMA NotOverspentStep ==
  ASSUME TypeOK, RowsHavePayments, PaymentNotOverspent, NEW t \in Txns,
         RequestFits(t), PaymentLockedBy(t), PaymentCovers(t), Step(t)
  PROVE  PaymentNotOverspent'
<1> SUFFICES ASSUME NEW p \in Payments, pay'[p] # None, pay'[p].revOf = None
             PROVE  paySum'[p] <= pay'[p].amt
  BY DEF PaymentNotOverspent
<1>1. paySum[p] \in Int
  BY DEF TypeOK, CommittedTyped
<1>2. CASE Commit(t) /\ req[t].pay = p
  <2>1. paySum'[p] = paySum[p] + spent[t]
    BY <1>2, RowsOfATurn
  <2>2. req[t].op \in {"record", "allocate"}
    <3>1. req[t].op \in {"record", "allocate", "reverse"}
      BY <1>2, NullIsNoValue DEF RequestFits
    <3>2. req[t].op = "reverse" => pay'[p].revOf = req[t].orig /\ req[t].orig \in Payments
      BY <1>2, PaymentsOfATurn DEF InsertsPayment, TypeOK, ControlTyped, RequestComplete
    <3>3. QED
      BY <3>1, <3>2, NullIsNoValue
  <2>3. pay'[p].amt = req[t].amt
    BY <1>2, <2>2, PaymentsOfATurn DEF RequestFits, InsertsPayment
  <2>4. CASE spent[t] # 0
    BY <1>2, <2>1, <2>2, <2>3, <2>4 DEF PaymentCovers
  <2>5. CASE spent[t] = 0 /\ req[t].op = "allocate"
    <3>1. pay[p] # None /\ pay'[p] = pay[p]
      BY <1>2, <2>5, PaymentsOfATurn DEF RequestFits
    <3>2. QED
      BY <1>1, <2>1, <2>5, <3>1 DEF PaymentNotOverspent
  <2>6. CASE spent[t] = 0 /\ req[t].op = "record"
    <3>1. paySum[p] = 0 /\ req[t].amt >= 0
      BY <1>2, <2>6 DEF RequestFits, InsertsPayment, RowsHavePayments
    <3>2. QED
      BY <2>1, <2>3, <2>6, <3>1
  <2>7. QED
    BY <2>2, <2>4, <2>5, <2>6
<1>3. CASE ~(Commit(t) /\ req[t].pay = p)
  BY <1>3, PaymentsOfATurn, RowsOfATurn DEF PaymentNotOverspent
<1>4. QED
  BY <1>2, <1>3

\* A commit reverses only what is neither reversed nor a reversal.
LEMMA FlatAndSingleStep ==
  ASSUME TypeOK, ReversalsAreFlatAndSingle, NEW t \in Txns,
         RequestFits(t), PaymentLockedBy(t), Step(t)
  PROVE  ReversalsAreFlatAndSingle'
<1>1. ASSUME NEW q \in Payments, NEW p \in Payments, pay'[q] # None, pay'[q].revOf = p
      PROVE  \/ pay[q] # None /\ pay[q].revOf = p
             \/ /\ q = req[t].pay /\ p = req[t].orig /\ pay[p] # None /\ pay[p].revOf = None
                /\ \A r \in Payments : pay[r] # None => pay[r].revOf # p
  <2>1. CASE pay'[q] = pay[q]
    BY <1>1, <2>1
  <2>2. CASE pay'[q] # pay[q]
    <3>1. Commit(t) /\ InsertsPayment(t) /\ req[t].pay = q /\ req[t].orig = p
      BY <1>1, <2>2, PaymentsOfATurn
    <3>2. req[t].op = "reverse"
      BY <3>1, NullIsNoValue DEF RequestFits
    <3>3. ReversalAllowed(t) /\ pay[p] # None
      BY <3>1, <3>2 DEF Commit, PaymentLockedBy, RequestFits
    <3>4. QED
      BY <3>1, <3>3 DEF ReversalAllowed
  <2>3. QED
    BY <2>1, <2>2
<1>2. \A p \in Payments : pay[p] # None => pay'[p] = pay[p]
  BY PaymentsOfATurn
<1>3. ASSUME NEW p \in Payments, NEW q \in Payments, pay'[q] # None, pay'[q].revOf = p
      PROVE  /\ pay'[p] # None /\ pay'[p].revOf = None
             /\ \A r \in Payments : pay'[r] # None /\ pay'[r].revOf = p => r = q
  <2>1. pay[p] # None /\ pay[p].revOf = None
    BY <1>1, <1>3 DEF ReversalsAreFlatAndSingle
  <2>2. ASSUME NEW r \in Payments, pay'[r] # None, pay'[r].revOf = p PROVE r = q
    BY <1>1, <1>3, <2>2 DEF ReversalsAreFlatAndSingle
  <2>3. QED
    BY <1>2, <2>1, <2>2
<1>4. QED
  BY <1>3 DEF ReversalsAreFlatAndSingle

-----------------------------------------------------------------------------
(* The invariant.                                                          *)

\* No payment is there and nobody works on one to begin with.
LEMMA PaymentInit == Init => PaymentInvariant
<1> SUFFICES ASSUME Init PROVE PaymentInvariant
  OBVIOUS
<1>1. NoRequest.op = "none" /\ NoRequest.pay = None /\ NoRequest.orig = None
  BY DEF NoRequest, Ask
<1>2. RowsHavePayments /\ PaymentNotOverspent /\ ReversalsAreFlatAndSingle
  BY DEF Init, RowsHavePayments, PaymentNotOverspent, ReversalsAreFlatAndSingle
<1>3. \A t \in Txns : RequestFits(t) /\ PaymentLockedBy(t) /\ PaymentCovers(t) /\ MirrorsOf(t)
  BY <1>1 DEF Init, RequestFits, InsertsPayment, PaymentLockedBy, PaymentCovers, MirrorsOf
<1>4. QED
  BY <1>2, <1>3 DEF PaymentInvariant

\* A turn keeps the payments as they should be.
LEMMA PaymentTurn ==
  ASSUME SettlementInvariant, PaymentInvariant, NEW t \in Txns, Turn(t)
  PROVE  PaymentInvariant'
<1> USE DEF SettlementInvariant, PaymentInvariant
<1>1. Step(t) /\ ControlOf(t) /\ DraftsLockedBy(t)
  BY TurnIsStep DEF ControlOK, DraftsAreLocked
<1>2. RowsHavePayments' /\ PaymentNotOverspent' /\ ReversalsAreFlatAndSingle'
  BY <1>1, RowsHavePaymentsStep, NotOverspentStep, FlatAndSingleStep
<1>3. \A u \in Txns : RequestFits(u)'
  BY RequestFitsStep
<1>4. PaymentLockedBy(t)' /\ PaymentCovers(t)' /\ MirrorsOf(t)'
  BY <1>1, PaymentLockedStep, PaymentCoversStep, MirrorsStep
<1>5. ASSUME NEW u \in Txns, u # t PROVE PaymentLockedBy(u)' /\ PaymentCovers(u)' /\ MirrorsOf(u)'
  BY <1>1, <1>5, OthersPayments
<1>6. QED
  BY <1>2, <1>3, <1>4, <1>5

\* Payments do not depend on the sweeps.
LEMMA PaymentStutter ==
  ASSUME PaymentInvariant, UNCHANGED <<database, pc, req, todo, locks, drafts>>
  PROVE  PaymentInvariant'
<1>1. /\ RowsHavePayments' /\ PaymentNotOverspent' /\ ReversalsAreFlatAndSingle'
      /\ \A p \in Payments : AllocatedInvoices(p)' = AllocatedInvoices(p)
      /\ \A t \in Txns : ReversalAllowed(t)' = ReversalAllowed(t) /\ WorksOnPayment(t)' = WorksOnPayment(t)
  BY DEF PaymentInvariant, RowsHavePayments, PaymentNotOverspent, ReversalsAreFlatAndSingle, database,
     AllocatedInvoices, ReversalAllowed, WorksOnPayment, drafts
<1>2. ASSUME NEW t \in Txns
      PROVE  RequestFits(t)' /\ PaymentLockedBy(t)' /\ PaymentCovers(t)' /\ MirrorsOf(t)'
  <2>1. RequestFits(t) /\ PaymentLockedBy(t) /\ PaymentCovers(t) /\ MirrorsOf(t)
    BY DEF PaymentInvariant
  <2>2. RequestFits(t)'
    BY <2>1 DEF RequestFits, InsertsPayment, database
  <2>3. PaymentLockedBy(t)'
    BY <1>1, <2>1 DEF PaymentLockedBy, drafts
  <2>4. PaymentCovers(t)'
    BY <2>1 DEF PaymentCovers, drafts, database
  <2>5. MirrorsOf(t)'
    BY <2>1 DEF MirrorsOf, AllocatedInvoices, drafts, database
  <2>6. QED
    BY <2>2, <2>3, <2>4, <2>5
<1>3. QED
  BY <1>1, <1>2 DEF PaymentInvariant

\* Every step keeps the payments as they should be.
LEMMA PaymentStep == SettlementInvariant /\ PaymentInvariant /\ [Next]_vars => PaymentInvariant'
<1> SUFFICES ASSUME SettlementInvariant, PaymentInvariant, [Next]_vars PROVE PaymentInvariant'
  OBVIOUS
<1>1. CASE UNCHANGED vars
  BY <1>1, PaymentStutter DEF vars
<1>2. ASSUME NEW n \in Crons, StartSweep(n) PROVE PaymentInvariant'
  BY <1>2, PaymentStutter DEF StartSweep
<1>3. QED
  BY <1>1, <1>2, PaymentTurn, NextIsATurn

\* Payments are as they should be in every run.
LEMMA PaymentsHold == Spec => []PaymentInvariant
<1>1. QED
  BY PaymentInit, PaymentStep, SettlementHolds, PTL DEF Spec

\* Whatever allocate() calls, receipts and reversals race, on whatever invoices,
\* no payment settles more than was received.
THEOREM PaymentsNeverOverspent == Spec => []PaymentNotOverspent
<1>1. PaymentInvariant => PaymentNotOverspent
  BY DEF PaymentInvariant
<1>2. QED
  BY <1>1, PaymentsHold, PTL

\* However many reverse() calls race on a payment, one reversal of it commits, and
\* none of a reversal.
THEOREM PaymentsReversedOnce == Spec => []ReversalsAreFlatAndSingle
<1>1. PaymentInvariant => ReversalsAreFlatAndSingle
  BY DEF PaymentInvariant
<1>2. QED
  BY <1>1, PaymentsHold, PTL

\* A reversal that commits takes back every allocation its original holds by then:
\* no allocate() slips in between its reading of the rows and its mirrors.
THEOREM ReversalsAreWhole == Spec => ReversalUndoesTheWhole
<1> DEFINE Whole == \A p, q \in Payments :
              (pay[q] = None /\ pay'[q] # None /\ pay'[q].revOf = p) =>
                \A i \in Invoices : alloc'[q][i] = -alloc'[p][i]
<1>1. ASSUME SettlementInvariant, PaymentInvariant, [Next]_vars PROVE Whole
  <2> SUFFICES ASSUME NEW p \in Payments, NEW q \in Payments,
                      pay[q] = None, pay'[q] # None, pay'[q].revOf = p,
                      NEW i \in Invoices
               PROVE  alloc'[q][i] = -alloc'[p][i]
    OBVIOUS
  <2>1. PICK t \in Txns : Turn(t)
    BY <1>1, NextIsATurn DEF vars, database, StartSweep
  <2>2. Step(t) /\ RequestFits(t) /\ PaymentLockedBy(t) /\ MirrorsOf(t) /\ TypeOK /\ RowsHavePayments
    BY <1>1, <2>1, TurnIsStep DEF SettlementInvariant, PaymentInvariant
  <2>3. Commit(t) /\ InsertsPayment(t) /\ req[t].pay = q /\ req[t].orig = p
    BY <2>2, PaymentsOfATurn
  <2>4. req[t].op = "reverse" /\ pay[p] # None
    BY <2>2, <2>3, NullIsNoValue DEF RequestFits
  <2>5. rows[t][i] = -alloc[p][i]
    BY <2>2, <2>3, <2>4 DEF MirrorsOf, Commit
  <2>6. alloc'[q][i] = rows[t][i]
    <3>1. alloc'[q][i] = alloc[q][i] + rows[t][i] /\ alloc[q][i] = 0
      BY <2>2, <2>3, RowsOfATurn DEF RowsHavePayments
    <3>2. rows[t][i] \in Int
      BY <2>2 DEF TypeOK, DraftsTyped
    <3>3. QED
      BY <3>1, <3>2
  <2>7. alloc'[p][i] = alloc[p][i]
    BY <2>2, <2>3, <2>4, RowsOfATurn
  <2>8. QED
    BY <2>5, <2>6, <2>7
<1>2. SettlementInvariant /\ PaymentInvariant /\ [Next]_vars => [Whole]_vars
  BY <1>1
<1>3. QED
  BY <1>2, SettlementHolds, PaymentsHold, PTL DEF Spec, ReversalUndoesTheWhole

-----------------------------------------------------------------------------
(* What commits do to invoices.                                            *)

Creates(t, i) == Commit(t) /\ req[t].op = "create" /\ req[t].inv = i

\* What a commit stores of an invoice.
LEMMA InvoiceOfACommit ==
  ASSUME TypeOK, NEW t \in Txns, Commit(t), NEW i \in Invoices
  PROVE  /\ invSum'[i] = AllocatedSeen(t, i)
         /\ Creates(t, i) => inv'[i] = [status |-> "ISSUED", wht |-> 0, num |-> num[t]]
         /\ ~Creates(t, i) =>
              inv'[i] = [status |-> StatusSeen(t, i), wht |-> WhtSeen(t, i), num |-> inv[i].num]
BY DEF Commit, InvoiceAfter, Creates

\* What a transaction has not written it sees as it is stored.
LEMMA SeenAsStored ==
  ASSUME TypeOK, NEW t \in Txns, NEW i \in Invoices
  PROVE  /\ stat[t][i] = None => StatusSeen(t, i) = inv[i].status
         /\ wht[t] = None \/ req[t].inv # i => WhtSeen(t, i) = inv[i].wht
         /\ rows[t][i] = 0 => AllocatedSeen(t, i) = invSum[i]
<1>1. invSum[i] \in Int
  BY DEF TypeOK, CommittedTyped
<1>2. QED
  BY <1>1 DEF StatusSeen, WhtSeen, AllocatedSeen

\* An invoice that is there stays, as it was if it is void or if the transaction
\* has not locked it; one that is not there is created, or nothing is done to it.
LEMMA InvoicesOfATurn ==
  ASSUME TypeOK, NEW t \in Txns, Step(t), InvoiceFits(t), DraftsLockedBy(t), StatusLockedBy(t),
         NEW i \in Invoices
  PROVE  /\ inv[i].status # "NONE" => inv'[i].status # "NONE" /\ inv'[i].num = inv[i].num
         /\ inv[i].status = "VOID" => inv'[i] = inv[i]
         /\ inv[i].status # "NONE" /\ Adv(i) \notin locks[t] =>
              /\ inv'[i].status = inv[i].status /\ inv'[i].wht = inv[i].wht
              /\ invSum'[i] = invSum[i]
         /\ inv[i].status = "NONE" =>
              /\ invSum'[i] = invSum[i] /\ rows[t][i] = 0
              /\ ~Creates(t, i) => inv'[i] = inv[i]
         /\ Creates(t, i) => inv[i].status = "NONE" /\ inv'[i].status = "ISSUED"
<1>1. CASE ~Commit(t)
  <2>1. inv' = inv /\ invSum' = invSum
    BY <1>1, OnlyCommitWrites DEF database
  <2>2. inv[i].status = "NONE" => rows[t][i] = 0
    BY DEF StatusLockedBy
  <2>3. QED
    BY <1>1, <2>1, <2>2 DEF Creates
<1>2. CASE Commit(t)
  <2>1. inv[i] \in Invoice /\ StatusSeen(t, i) \in Statuses
    BY SeenTyped DEF TypeOK, CommittedTyped
  <2>2. inv[i] = [status |-> inv[i].status, wht |-> inv[i].wht, num |-> inv[i].num]
    BY <2>1 DEF Invoice
  <2>3. CASE Creates(t, i)
    <3>1. inv[i].status = "NONE" /\ inv'[i].status = "ISSUED"
      <4>1. inv'[i] = [status |-> "ISSUED", wht |-> 0, num |-> num[t]]
        BY <1>2, <2>3, InvoiceOfACommit
      <4>2. inv[i].status = "NONE"
        BY <2>3 DEF Creates, InvoiceFits
      <4>3. QED
        BY <4>1, <4>2
    <3>2. rows[t][i] = 0
      BY <2>3 DEF Creates, DraftsLockedBy
    <3>3. invSum'[i] = invSum[i]
      <4>1. invSum'[i] = AllocatedSeen(t, i)
        BY <1>2, InvoiceOfACommit
      <4>2. QED
        BY <3>2, <4>1, SeenAsStored
    <3>4. QED
      BY <2>3, <3>1, <3>2, <3>3
  <2>4. CASE ~Creates(t, i)
    <3>1. /\ inv'[i] = [status |-> StatusSeen(t, i), wht |-> WhtSeen(t, i), num |-> inv[i].num]
          /\ invSum'[i] = AllocatedSeen(t, i)
      BY <1>2, <2>4, InvoiceOfACommit
    <3>2. /\ inv'[i].status = StatusSeen(t, i) /\ inv'[i].wht = WhtSeen(t, i)
          /\ inv'[i].num = inv[i].num
      BY <3>1
    <3>3. inv[i].status \in {"NONE", "VOID"} => stat[t][i] = None
      BY DEF StatusLockedBy
    <3>4. inv[i].status \in {"NONE", "VOID"} => wht[t] = None \/ req[t].inv # i
      BY DEF StatusLockedBy
    <3>5. inv[i].status = "NONE" => rows[t][i] = 0
      BY DEF StatusLockedBy
    <3>6. Adv(i) \notin locks[t] =>
            stat[t][i] = None /\ (wht[t] = None \/ req[t].inv # i) /\ rows[t][i] = 0
      BY DEF StatusLockedBy, DraftsLockedBy
    <3>7. inv[i].status # "NONE" => StatusSeen(t, i) # "NONE"
      BY DEF StatusSeen, StatusLockedBy
    <3>8. inv[i].status \in {"NONE", "VOID"} => inv'[i] = inv[i]
      BY <2>2, <3>1, <3>3, <3>4, SeenAsStored
    <3>9. inv[i].status = "NONE" => invSum'[i] = invSum[i] /\ rows[t][i] = 0
      BY <3>1, <3>5, SeenAsStored
    <3>10. Adv(i) \notin locks[t] =>
             /\ inv'[i].status = inv[i].status /\ inv'[i].wht = inv[i].wht
             /\ invSum'[i] = invSum[i]
      BY <3>1, <3>2, <3>6, SeenAsStored
    <3>11. QED
      BY <2>4, <3>2, <3>7, <3>8, <3>9, <3>10
  <2>5. QED
    BY <2>3, <2>4
<1>3. QED
  BY <1>1, <1>2

-----------------------------------------------------------------------------
(* Numbers.                                                                *)

\* The documents of S are numbered 1, 2, ..., n.
Numbers(S, document, n) == {document[y].num : y \in S} = 1..n /\ Cardinality(S) = n

\* Documents numbered without gap stay so with the next number.
LEMMA NextNumber ==
  ASSUME NEW S, IsFiniteSet(S), NEW x, x \notin S, NEW n \in Nat, NEW before, NEW after,
         Numbers(S, before, n),
         \A y \in S : after[y].num = before[y].num, after[x].num = n + 1
  PROVE  Numbers(S \cup {x}, after, n + 1) /\ IsFiniteSet(S \cup {x})
<1>1. IsFiniteSet(S \cup {x}) /\ Cardinality(S \cup {x}) = n + 1
  BY FS_AddElement DEF Numbers
<1>2. {after[y].num : y \in S \cup {x}} = {before[y].num : y \in S} \cup {n + 1}
  OBVIOUS
<1>3. 1..(n + 1) = (1..n) \cup {n + 1}
  OBVIOUS
<1>4. QED
  BY <1>1, <1>2, <1>3 DEF Numbers

\* Whoever has claimed a number keeps its sequence to itself.
LEMMA NumberHeldStep ==
  ASSUME TypeOK, NEW t \in Txns, ControlOf(t), NumberHeldBy(t), Turn(t)
  PROVE  NumberHeldBy(t)'
<1> USE DEF NumberHeldBy
<1>1. CASE Opening(t)
  <2>1. req[t].op = "none" /\ num' = num /\ pc'[t] = BeginsAt(req'[t].op)
    BY <1>1, OpeningFits DEF ControlOf
  <2>2. num'[t] = 0
    BY <2>1
  <2>3. QED
    BY <2>1, <2>2 DEF BeginsAt
<1>2. CASE Ending(t)
  <2>1. num'[t] = 0 /\ req'[t].op = "none"
    BY <1>2, EndingClears DEF NoRequest, Ask
  <2>2. QED
    BY <2>1
<1>3. CASE ClaimNumber(t)
  <2> DEFINE k == SequenceKind(t)
             n == seq[k] + 1
  <2>1. k \in Kinds /\ seq[k] \in Nat
    BY DEF SequenceKind, Kinds, TypeOK, CommittedTyped
  <2>2. n # 0
    BY <2>1
  <2>3. pc[t] = "claim" /\ num' = [num EXCEPT ![t] = n] /\ UNCHANGED <<database, req>>
    BY <1>3 DEF ClaimNumber
  <2>4. Wanted(t) = SeqRow(k)
    BY <2>3 DEF Wanted
  <2>5. SeqRow(k) \in locks'[t]
    BY <1>3, <2>4 DEF ClaimNumber, Acquire, TypeOK, ControlTyped
  <2>6. req[t].op \in {"create", "record", "reverse"}
    BY <2>3 DEF ControlOf
  <2> HIDE DEF n
  <2>7. num'[t] = n
    BY <2>3 DEF TypeOK, ControlTyped
  <2>8. SequenceKind(t)' = k /\ seq' = seq /\ req' = req
    BY <2>3 DEF SequenceKind, database
  <2>9. QED
    BY <2>2, <2>5, <2>6, <2>7, <2>8 DEF n
<1>4. CASE (Reading(t) \/ Locking(t) \/ Writing(t)) /\ ~ClaimNumber(t)
  <2>1. req' = req /\ UNCHANGED database /\ locks[t] \subseteq locks'[t]
    BY <1>4, StatementKeeps
  <2>2. num' = num
    BY <1>4 DEF Reading, GuardAllocation, GuardVoid, GuardWithholding, ReadOriginal, DeriveStatus,
       ReadInvoiced, ReadUnapplied, Locking, LockPayment, LockInvoice, WriteBalance,
       Writing, InsertAllocation, InsertMirrors, WriteVoid, WriteWithholding, CasStatus
  <2>3. pc[t] # "claim"
    BY <1>4, WhereTo DEF Reading, Locking, Writing
  <2>4. SequenceKind(t)' = SequenceKind(t) /\ seq' = seq
    BY <2>1 DEF SequenceKind, database
  <2>5. QED
    BY <2>1, <2>2, <2>3, <2>4
<1>5. QED
  BY <1>1, <1>2, <1>3, <1>4 DEF Turn

\* A claimed number stays the next of its sequence whoever else commits.
LEMMA OthersNumbers ==
  ASSUME TypeOK, LocksExclusive, NEW t \in Txns, Step(t), NumberHeldBy(t),
         NEW u \in Txns, u # t, NumberHeldBy(u)
  PROVE  NumberHeldBy(u)'
<1>1. Same(u) /\ num'[u] = num[u]
  BY OthersStay, OthersKeep
<1>2. SequenceKind(u)' = SequenceKind(u)
  BY <1>1 DEF SequenceKind, Same
<1>3. ASSUME num[u] # 0 PROVE seq'[SequenceKind(u)] = seq[SequenceKind(u)]
  <2>1. CASE ~Commit(t)
    BY <2>1, OnlyCommitWrites DEF database
  <2>2. CASE Commit(t) /\ num[t] = 0
    BY <2>2 DEF Commit
  <2>3. CASE Commit(t) /\ num[t] # 0
    <3>1. SequenceKind(u) # SequenceKind(t)
      BY <1>3, <2>3 DEF NumberHeldBy, LocksExclusive
    <3>2. seq' = [seq EXCEPT ![SequenceKind(t)] = num[t]]
      BY <2>3 DEF Commit
    <3>3. QED
      BY <3>1, <3>2 DEF TypeOK, CommittedTyped
  <2>4. QED
    BY <2>1, <2>2, <2>3
<1>4. QED
  BY <1>1, <1>2, <1>3 DEF NumberHeldBy, Same

Issued   == {i \in Invoices : inv[i].status # "NONE"}
Received == {p \in Payments : pay[p] # None}

\* Every commit that issues a document takes the next number, and no other takes one.
LEMMA GaplessStep ==
  ASSUME TypeOK, NumbersAreGapless, IsFiniteSet(Received), NEW t \in Txns, Step(t),
         RequestFits(t), InvoiceFits(t), DraftsLockedBy(t), StatusLockedBy(t),
         NumberHeldBy(t)
  PROVE  NumbersAreGapless' /\ IsFiniteSet(Received)'
<1>1. Numbers(Issued, inv, seq["INVOICE"]) /\ Numbers(Received, pay, seq["RECEIPT"])
  BY DEF NumbersAreGapless, Issued, Received, Numbers
<1>2. seq["INVOICE"] \in Nat /\ seq["RECEIPT"] \in Nat /\ DOMAIN seq = {"INVOICE", "RECEIPT"}
  BY DEF TypeOK, CommittedTyped, Kinds
<1>3. IsFiniteSet(Issued)
  BY InvoicesAreOrdered, FS_Subset DEF Issued
<1>4. /\ Numbers(Issued', inv', seq'["INVOICE"]) /\ Numbers(Received', pay', seq'["RECEIPT"])
           => NumbersAreGapless'
  BY DEF NumbersAreGapless, Issued, Received, Numbers
<1>5. ASSUME ~(Commit(t) /\ InsertsPayment(t)), seq'["RECEIPT"] = seq["RECEIPT"]
      PROVE  Numbers(Received', pay', seq'["RECEIPT"]) /\ IsFiniteSet(Received')
  <2>1. \A p \in Payments : pay'[p] = pay[p]
    BY <1>5, PaymentsOfATurn
  <2>2. Received' = Received
    BY <2>1 DEF Received
  <2>3. {pay'[p].num : p \in Received} = {pay[p].num : p \in Received}
    BY <2>1 DEF Received
  <2>4. QED
    BY <1>1, <1>5, <2>2, <2>3 DEF Numbers
<1>6. ASSUME ~(Commit(t) /\ req[t].op = "create"), seq'["INVOICE"] = seq["INVOICE"]
      PROVE  Numbers(Issued', inv', seq'["INVOICE"])
  <2>1. \A i \in Invoices : /\ inv'[i].status = "NONE" <=> inv[i].status = "NONE"
                            /\ inv[i].status # "NONE" => inv'[i].num = inv[i].num
    BY <1>6, InvoicesOfATurn DEF Creates
  <2>2. Issued' = Issued
    BY <2>1 DEF Issued
  <2>3. {inv'[i].num : i \in Issued} = {inv[i].num : i \in Issued}
    BY <2>1 DEF Issued
  <2>4. QED
    BY <1>1, <1>6, <2>2, <2>3 DEF Numbers
<1>7. CASE Commit(t) /\ req[t].op = "create"
  <2> DEFINE x == req[t].inv
             n == seq["INVOICE"] + 1
  <2>1. num[t] # 0 /\ SequenceKind(t) = "INVOICE" /\ num[t] = n
    BY <1>7 DEF Commit, NumberHeldBy, SequenceKind
  <2>2. seq' = [seq EXCEPT !["INVOICE"] = num[t]]
    BY <1>7, <2>1 DEF Commit
  <2>3. seq'["RECEIPT"] = seq["RECEIPT"] /\ seq'["INVOICE"] = num[t]
    BY <1>2, <2>2
  <2>4. x \in Invoices /\ inv[x].status = "NONE" /\ Creates(t, x)
    BY <1>7 DEF Creates, InvoiceFits, TypeOK, ControlTyped, RequestComplete
  <2>5. inv'[x].num = num[t] /\ inv'[x].status = "ISSUED"
    <3>1. inv'[x] = [status |-> "ISSUED", wht |-> 0, num |-> num[t]]
      BY <1>7, <2>4, InvoiceOfACommit
    <3>2. QED
      BY <3>1
  <2>6. \A i \in Invoices \ {x} :
          /\ inv'[i].status = "NONE" <=> inv[i].status = "NONE"
          /\ inv[i].status # "NONE" => inv'[i].num = inv[i].num
    BY InvoicesOfATurn DEF Creates
  <2>7. Issued' = Issued \cup {x} /\ x \notin Issued /\ \A i \in Issued : inv'[i].num = inv[i].num
    BY <2>4, <2>5, <2>6 DEF Issued
  <2>8. Numbers(Issued \cup {x}, inv', n)
    <3>1. inv'[x].num = seq["INVOICE"] + 1
      BY <2>1, <2>5
    <3>2. QED
      BY <1>1, <1>2, <1>3, <2>7, <3>1, NextNumber
  <2>9. Numbers(Received', pay', seq'["RECEIPT"]) /\ IsFiniteSet(Received')
    BY <1>5, <1>7, <2>3 DEF InsertsPayment
  <2>10. QED
    BY <1>4, <2>1, <2>3, <2>7, <2>8, <2>9
<1>8. CASE Commit(t) /\ InsertsPayment(t)
  <2> DEFINE x == req[t].pay
             n == seq["RECEIPT"] + 1
  <2>1. num[t] # 0 /\ SequenceKind(t) = "RECEIPT" /\ num[t] = n
    BY <1>8 DEF Commit, NumberHeldBy, SequenceKind, InsertsPayment
  <2>2. seq' = [seq EXCEPT !["RECEIPT"] = num[t]]
    BY <1>8, <2>1 DEF Commit
  <2>3. seq'["INVOICE"] = seq["INVOICE"] /\ seq'["RECEIPT"] = num[t]
    BY <1>2, <2>2
  <2>4. x \in Payments /\ pay[x] = None
    BY <1>8 DEF InsertsPayment, RequestFits, TypeOK, ControlTyped, RequestComplete
  <2>5. pay'[x] # None /\ pay'[x].num = num[t]
    <3>1. pay'[x] # None
      BY <1>8, <2>4, PaymentsOfATurn
    <3>2. pay'[x] = [cust |-> req[t].cust, amt |-> req[t].amt, revOf |-> req[t].orig, num |-> num[t]]
      BY <1>8, <2>4 DEF Commit, PaymentSeen
    <3>3. QED
      BY <3>1, <3>2
  <2>6. \A p \in Payments \ {x} : pay'[p] = pay[p]
    BY PaymentsOfATurn
  <2>7. Received' = Received \cup {x} /\ x \notin Received /\ \A p \in Received : pay'[p].num = pay[p].num
    BY <2>4, <2>5, <2>6 DEF Received
  <2>8. Numbers(Received \cup {x}, pay', n) /\ IsFiniteSet(Received \cup {x})
    BY <1>1, <1>2, <2>1, <2>5, <2>7, NextNumber
  <2>9. Numbers(Issued', inv', seq'["INVOICE"])
    BY <1>6, <1>8, <2>3 DEF InsertsPayment
  <2>10. QED
    BY <1>4, <2>1, <2>3, <2>7, <2>8, <2>9
<1>9. CASE ~(Commit(t) /\ (req[t].op = "create" \/ InsertsPayment(t)))
  <2>1. seq' = seq
    <3>1. CASE Commit(t)
      BY <1>9, <3>1 DEF Commit, NumberHeldBy, InsertsPayment
    <3>2. CASE ~Commit(t)
      BY <3>2, OnlyCommitWrites DEF database
    <3>3. QED
      BY <3>1, <3>2
  <2>2. QED
    BY <1>4, <1>5, <1>6, <1>9, <2>1
<1>10. QED
  BY <1>7, <1>8, <1>9

-----------------------------------------------------------------------------
(* What is stored about invoices.                                          *)

\* Paid, partly paid or not paid: never void, never absent.
LEMMA DerivedStatus ==
  ASSUME NEW total, NEW withheld, NEW allocated
  PROVE  DerivePaymentStatus(total, withheld, allocated) \in {"PAID", "PARTIALLY_PAID", "ISSUED"}
BY DEF DerivePaymentStatus

MatchesMoney(i) ==
  inv[i].status \notin {"NONE", "VOID"} =>
    inv[i].status = DerivePaymentStatus(InvTotal[i], inv[i].wht, invSum[i])

\* A commit gives money only to invoices that are there.
LEMMA MoneyHasInvoicesStep ==
  ASSUME TypeOK, MoneyHasInvoices, NEW t \in Txns, Step(t), InvoiceFits(t), DraftsLockedBy(t),
         StatusLockedBy(t)
  PROVE  MoneyHasInvoices'
<1> SUFFICES ASSUME NEW i \in Invoices, inv'[i].status = "NONE"
             PROVE  inv'[i].wht = 0 /\ invSum'[i] = 0 /\ \A p \in Payments : alloc'[p][i] = 0
  BY DEF MoneyHasInvoices
<1>1. /\ inv[i].status = "NONE" /\ inv'[i] = inv[i] /\ invSum'[i] = invSum[i] /\ rows[t][i] = 0
  BY InvoicesOfATurn
<1>2. \A p \in Payments : alloc'[p][i] = alloc[p][i] \/ alloc'[p][i] = alloc[p][i] + rows[t][i]
  BY RowsOfATurn
<1>3. inv[i].wht = 0 /\ invSum[i] = 0 /\ \A p \in Payments : alloc[p][i] = 0
  BY <1>1 DEF MoneyHasInvoices
<1>4. QED
  BY <1>1, <1>2, <1>3

\* A void invoice has nothing withheld.
LEMMA VoidStep ==
  ASSUME TypeOK, NEW t \in Txns, Step(t), InvoiceFits(t), DraftsLockedBy(t), StatusLockedBy(t),
         NEW i \in Invoices, inv[i].status = "VOID" => inv[i].wht = 0, inv'[i].status = "VOID"
  PROVE  inv'[i].wht = 0
<1>1. CASE inv[i].status = "VOID"
  BY <1>1, InvoicesOfATurn
<1>2. CASE inv[i].status # "VOID"
  <2>1. Commit(t)
    BY <1>2, OnlyCommitWrites DEF database
  <2>2. ~Creates(t, i)
    BY InvoicesOfATurn
  <2>3. inv'[i] = [status |-> StatusSeen(t, i), wht |-> WhtSeen(t, i), num |-> inv[i].num]
    BY <2>1, <2>2, InvoiceOfACommit
  <2>4. StatusSeen(t, i) = "VOID" /\ inv'[i].wht = WhtSeen(t, i)
    BY <2>3
  <2>5. stat[t][i] = "VOID"
    BY <1>2, <2>4 DEF StatusSeen
  <2>6. QED
    BY <2>4, <2>5 DEF StatusLockedBy
<1>3. QED
  BY <1>1, <1>2

\* A transaction that commits has recomputed every status its money has moved.
LEMMA MatchesMoneyStep ==
  ASSUME TypeOK, MoneyHasInvoices, NEW t \in Txns, Step(t), InvoiceFits(t), DraftsLockedBy(t),
         StatusLockedBy(t), StatusHeldBy(t), NEW i \in Invoices, MatchesMoney(i)
  PROVE  MatchesMoney(i)'
<1>1. CASE ~Commit(t)
  BY <1>1, OnlyCommitWrites DEF database, MatchesMoney
<1>2. CASE Creates(t, i)
  <2>1. inv'[i] = [status |-> "ISSUED", wht |-> 0, num |-> num[t]]
    BY <1>2, InvoiceOfACommit DEF Creates
  <2>2. inv[i].status = "NONE" /\ invSum'[i] = invSum[i]
    BY <1>2, InvoicesOfATurn
  <2>3. inv'[i].status = "ISSUED" /\ inv'[i].wht = 0 /\ invSum'[i] = 0
    BY <2>1, <2>2 DEF MoneyHasInvoices
  <2>4. InvTotal[i] \in Nat \ {0}
    BY TotalsArePositive
  <2>5. DerivePaymentStatus(InvTotal[i], 0, 0) = "ISSUED"
    BY <2>4 DEF DerivePaymentStatus
  <2>6. QED
    BY <2>3, <2>5 DEF MatchesMoney
<1>3. CASE Commit(t) /\ ~Creates(t, i)
  <2>1. /\ inv'[i] = [status |-> StatusSeen(t, i), wht |-> WhtSeen(t, i), num |-> inv[i].num]
        /\ invSum'[i] = AllocatedSeen(t, i)
    BY <1>3, InvoiceOfACommit
  <2>2. inv'[i].status = StatusSeen(t, i) /\ inv'[i].wht = WhtSeen(t, i)
    BY <2>1
  <2>3. Settled(t, i)
    BY <1>3 DEF Commit, Pending, StatusHeldBy
  <2>4. QED
    BY <2>1, <2>2, <2>3 DEF Settled, MatchesMoney
<1>4. QED
  BY <1>1, <1>2, <1>3

-----------------------------------------------------------------------------
(* What a transaction keeps while others take their turns.                 *)

\* Invoices are asked about when they are there, and created when they are not.
LEMMA InvoiceFitsStep ==
  ASSUME TypeOK, NEW t \in Txns, Turn(t), DraftsLockedBy(t), StatusLockedBy(t),
         \A u \in Txns : InvoiceFits(u), NEW u \in Txns
  PROVE  InvoiceFits(u)'
<1>1. Step(t)
  BY TurnIsStep
<1>2. CASE Opening(t)
  <2>1. /\ inv' = inv
        /\ req'[t].op = "create" =>
             /\ inv[req'[t].inv].status = "NONE"
             /\ \A v \in Txns : req[v].op = "create" => req[v].inv # req'[t].inv
        /\ req'[t].op \in {"void", "withhold"} => inv[req'[t].inv].status # "NONE"
    BY <1>2, OpeningFits DEF database
  <2>2. \A v \in Txns \ {t} : req'[v] = req[v]
    BY <1>1, OthersStay DEF Same
  <2>3. InvoiceFits(u)
    OBVIOUS
  <2>4. CASE u = t
    BY <2>1, <2>2, <2>4 DEF InvoiceFits
  <2>5. CASE u # t
    <3>1. req'[u] = req[u]
      BY <2>2, <2>5
    <3>2. ASSUME req[u].op = "create", NEW v \in Txns \ {u}, req'[v].op = "create"
          PROVE  req'[v].inv # req[u].inv
      <4>1. CASE v = t
        BY <2>1, <3>2, <4>1
      <4>2. CASE v # t
        BY <2>2, <2>3, <3>2, <4>2 DEF InvoiceFits
      <4>3. QED
        BY <4>1, <4>2
    <3>3. QED
      BY <2>1, <2>3, <3>1, <3>2 DEF InvoiceFits
  <2>6. QED
    BY <2>4, <2>5
<1>3. CASE ~Opening(t)
  <2>1. \A v \in Txns : req'[v] = req[v] \/ req'[v].op = "none"
    <3>1. CASE Ending(t)
      <4>1. req'[t].op = "none"
        BY <3>1, EndingClears DEF NoRequest, Ask
      <4>2. QED
        BY <1>1, <4>1, OthersStay DEF Same
    <3>2. CASE Reading(t) \/ Locking(t) \/ Writing(t)
      BY <3>2, StatementKeeps
    <3>3. QED
      BY <1>3, <3>1, <3>2 DEF Turn
  <2>2. RequestComplete(req[u]) /\ InvoiceFits(u)
    BY DEF TypeOK, ControlTyped
  <2>3. CASE req'[u].op = "none"
    BY <2>3 DEF InvoiceFits
  <2>4. CASE req'[u] = req[u] /\ req'[u].op # "none"
    <3>1. ASSUME req[u].op = "create" PROVE inv'[req[u].inv].status = "NONE"
      <4>1. req[u].inv \in Invoices /\ inv[req[u].inv].status = "NONE"
        BY <2>2, <3>1 DEF RequestComplete, InvoiceFits
      <4>2. ~Creates(t, req[u].inv)
        <5>1. CASE u = t
          <6>1. ~Commit(t)
            BY <2>4, <5>1, EndingClears DEF Ending, NoRequest, Ask
          <6>2. QED
            BY <6>1 DEF Creates
        <5>2. CASE u # t
          BY <2>2, <3>1, <5>2 DEF InvoiceFits, Creates
        <5>3. QED
          BY <5>1, <5>2
      <4>3. QED
        BY <1>1, <4>1, <4>2, InvoicesOfATurn
    <3>2. ASSUME req[u].op \in {"void", "withhold"} PROVE inv'[req[u].inv].status # "NONE"
      <4>1. req[u].inv \in Invoices /\ inv[req[u].inv].status # "NONE"
        BY <2>2, <3>2 DEF RequestComplete, InvoiceFits
      <4>2. QED
        BY <1>1, <4>1, InvoicesOfATurn
    <3>3. QED
      BY <2>1, <2>2, <2>4, <3>1, <3>2 DEF InvoiceFits
  <2>5. QED
    BY <2>1, <2>3, <2>4
<1>4. QED
  BY <1>2, <1>3

\* An invoice somebody has locked looks to him as it did, whoever else commits.
LEMMA LockedInvoiceStays ==
  ASSUME TypeOK, LocksExclusive, NEW t \in Txns, Step(t), InvoiceFits(t), DraftsLockedBy(t),
         StatusLockedBy(t), NEW u \in Txns, u # t,
         NEW i \in Invoices, Adv(i) \in locks[u], inv[i].status # "NONE"
  PROVE  /\ inv'[i].status = inv[i].status
         /\ StatusSeen(u, i)' = StatusSeen(u, i) /\ WhtSeen(u, i)' = WhtSeen(u, i)
         /\ AllocatedSeen(u, i)' = AllocatedSeen(u, i)
<1>1. Adv(i) \notin locks[t]
  BY DEF LocksExclusive
<1>2. inv'[i].status = inv[i].status /\ inv'[i].wht = inv[i].wht /\ invSum'[i] = invSum[i]
  BY <1>1, InvoicesOfATurn
<1>3. rows'[u] = rows[u] /\ wht'[u] = wht[u] /\ req'[u] = req[u] /\ stat'[u] = stat[u]
  BY OthersStay, OthersKeep DEF Same
<1>4. QED
  BY <1>2, <1>3 DEF StatusSeen, WhtSeen, AllocatedSeen

\* What somebody writes, or is about to write, stays on invoices that are there
\* and not void.
LEMMA OthersStatusLocked ==
  ASSUME TypeOK, ControlOK, LocksExclusive, NEW t \in Txns, Step(t), InvoiceFits(t),
         DraftsLockedBy(t), StatusLockedBy(t),
         NEW u \in Txns, u # t, DraftsLockedBy(u), GuardLockedBy(u), StatusLockedBy(u)
  PROVE  StatusLockedBy(u)'
<1>1. /\ pc'[u] = pc[u] /\ req'[u] = req[u] /\ todo'[u] = todo[u] /\ locks'[u] = locks[u]
      /\ rows'[u] = rows[u] /\ wht'[u] = wht[u] /\ stat'[u] = stat[u]
      /\ RequestComplete(req[u]) /\ ControlOf(u)
  BY OthersStay, OthersKeep DEF Same, TypeOK, ControlTyped, ControlOK
<1>2. \A i \in Invoices : inv[i].status # "NONE" => inv'[i].status # "NONE"
  BY InvoicesOfATurn
<1>3. \A i \in Invoices : Adv(i) \in locks[u] /\ inv[i].status # "NONE" =>
        inv'[i].status = inv[i].status /\ WhtSeen(u, i)' = WhtSeen(u, i)
  BY LockedInvoiceStays
<1>4. \A i \in Invoices : Pending(u, i)' = Pending(u, i)
  BY <1>1 DEF Pending
<1>5. ASSUME NEW i \in Invoices
      PROVE  /\ stat'[u][i] # None =>
                  /\ req'[u].op \in {"record", "allocate", "reverse", "void", "withhold"}
                  /\ Adv(i) \in locks'[u] /\ stat'[u][i] # "NONE"
                  /\ inv'[i].status \notin {"NONE", "VOID"}
             /\ stat'[u][i] = "VOID" => req'[u].op = "void" /\ WhtSeen(u, i)' = 0
             /\ rows'[u][i] # 0 => inv'[i].status # "NONE"
             /\ Pending(u, i)' => Adv(i) \in locks'[u] /\ inv'[i].status # "NONE"
  <2>1. stat[u][i] = "VOID" => stat[u][i] # None
    BY NullIsNoStatus DEF Statuses
  <2>2. QED
    BY <1>1, <1>2, <1>3, <1>4, <2>1 DEF StatusLockedBy
<1>6. wht[u] # None => inv'[req[u].inv].status \notin {"NONE", "VOID"}
  <2> SUFFICES ASSUME wht[u] # None PROVE inv'[req[u].inv].status \notin {"NONE", "VOID"}
    OBVIOUS
  <2>1. req[u].inv \in Invoices /\ Adv(req[u].inv) \in locks[u]
    BY <1>1 DEF DraftsLockedBy, RequestComplete
  <2>2. QED
    BY <1>3, <2>1 DEF StatusLockedBy
<1>7. ASSUME pc[u] = "insert" PROVE inv'[Head(todo[u]).inv].status \notin {"NONE", "VOID"}
  <2>1. Head(todo[u]).inv \in Invoices
    BY <1>1, <1>7, HeadIsLine DEF ControlOf, TypeOK
  <2>2. QED
    BY <1>3, <1>7, <2>1 DEF StatusLockedBy, GuardLockedBy
<1>8. ASSUME pc[u] \in {"voidWrite", "whtWrite"}, NEW i \in Invoices, i = req[u].inv
      PROVE  /\ inv'[i].status \notin {"NONE", "VOID"}
             /\ pc[u] = "voidWrite" => WhtSeen(u, i)' = 0
  <2>1. Adv(i) \in locks[u]
    BY <1>8 DEF GuardLockedBy
  <2>2. inv[i].status \notin {"NONE", "VOID"} /\ (pc[u] = "voidWrite" => WhtSeen(u, i) = 0)
    BY <1>8 DEF StatusLockedBy
  <2>3. QED
    BY <1>3, <1>8, <2>1, <2>2
<1>9. pc[u] \in {"voidWrite", "whtWrite"} => req[u].inv \in Invoices
  BY <1>1 DEF ControlOf, RequestComplete
<1>10. QED
  BY <1>1, <1>5, <1>6, <1>7, <1>8, <1>9 DEF StatusLockedBy

\* What somebody has compared is still so, and what he has settled stays settled.
LEMMA OthersStatusHeld ==
  ASSUME TypeOK, ControlOK, LocksExclusive, NEW t \in Txns, Step(t), InvoiceFits(t),
         DraftsLockedBy(t), StatusLockedBy(t), \A i \in Invoices : MatchesMoney(i)',
         TypeOK',
         NEW u \in Txns, u # t, DraftsLockedBy(u), StatusLockedBy(u), StatusHeldBy(u)
  PROVE  StatusHeldBy(u)'
<1>1. /\ pc'[u] = pc[u] /\ req'[u] = req[u] /\ todo'[u] = todo[u]
      /\ rows'[u] = rows[u] /\ wht'[u] = wht[u] /\ stat'[u] = stat[u] /\ seen'[u] = seen[u]
      /\ ControlOf(u)
  BY OthersStay, OthersKeep DEF Same, ControlOK
<1>2. \A i \in Invoices : Pending(u, i)' = Pending(u, i)
  BY <1>1 DEF Pending
<1>3. ASSUME NEW i \in Invoices, ~Pending(u, i) PROVE Settled(u, i)'
  <2>1. CASE Adv(i) \in locks[u] /\ inv[i].status # "NONE"
    BY <1>3, <2>1, LockedInvoiceStays DEF StatusHeldBy, Settled
  <2>2. CASE ~(Adv(i) \in locks[u] /\ inv[i].status # "NONE")
    <3>1. stat[u][i] = None /\ rows[u][i] = 0 /\ (wht[u] = None \/ req[u].inv # i)
      BY <2>2 DEF StatusLockedBy, DraftsLockedBy
    <3>2. /\ StatusSeen(u, i)' = inv'[i].status /\ WhtSeen(u, i)' = inv'[i].wht
          /\ AllocatedSeen(u, i)' = invSum'[i]
      <4>1. invSum'[i] \in Int
        BY DEF TypeOK, CommittedTyped
      <4>2. QED
        BY <1>1, <3>1, <4>1 DEF StatusSeen, WhtSeen, AllocatedSeen
    <3>3. QED
      BY <3>2 DEF MatchesMoney, Settled
  <2>3. QED
    BY <2>1, <2>2
<1>4. ASSUME pc[u] = "cas", NEW i \in Invoices, i = Head(todo[u]).inv
      PROVE  /\ seen[u][1] = StatusSeen(u, i)' /\ seen[u][1] # "VOID"
             /\ seen[u][2] = DerivePaymentStatus(InvTotal[i], WhtSeen(u, i), AllocatedSeen(u, i))'
  <2>1. Pending(u, i)
    <3>1. todo[u] # <<>> /\ todo[u] \in Seq(Line)
      BY <1>1, <1>4 DEF ControlOf, TypeOK, ControlTyped
    <3>2. 1 \in DOMAIN todo[u] /\ Head(todo[u]) = todo[u][1]
      BY <3>1, LenProperties, EmptySeq, HeadTailProperties
    <3>3. QED
      BY <1>4, <3>2 DEF Pending
  <2>2. Adv(i) \in locks[u] /\ inv[i].status # "NONE"
    BY <2>1 DEF StatusLockedBy
  <2>3. /\ StatusSeen(u, i)' = StatusSeen(u, i) /\ WhtSeen(u, i)' = WhtSeen(u, i)
        /\ AllocatedSeen(u, i)' = AllocatedSeen(u, i)
    BY <2>2, LockedInvoiceStays
  <2>4. QED
    BY <1>4, <2>3 DEF StatusHeldBy, DerivePaymentStatus
<1>5. pc[u] = "cas" => Head(todo[u]).inv \in Invoices
  BY <1>1, HeadIsLine DEF ControlOf, TypeOK
<1>6. QED
  BY <1>1, <1>2, <1>3, <1>4, <1>5 DEF StatusHeldBy, DerivePaymentStatus

-----------------------------------------------------------------------------
(* What the statements of a transaction do to statuses.                    *)

\* The lines of a list that is not empty, and of what remains after the first.
LEMMA LinesOf ==
  ASSUME TypeOK, NEW t \in Txns, todo[t] # <<>>
  PROVE  /\ Len(todo[t]) \in Nat \ {0} /\ DOMAIN todo[t] = 1..Len(todo[t])
         /\ Head(todo[t]) = todo[t][1]
         /\ DOMAIN Tail(todo[t]) = 1..(Len(todo[t]) - 1)
         /\ \A n \in 1..(Len(todo[t]) - 1) : Tail(todo[t])[n] = todo[t][n + 1]
<1>1. todo[t] \in Seq(Line)
  BY DEF TypeOK, ControlTyped
<1>2. Len(todo[t]) \in Nat /\ DOMAIN todo[t] = 1..Len(todo[t]) /\ Len(todo[t]) # 0
  BY <1>1, LenProperties, EmptySeq
<1>3. /\ Head(todo[t]) = todo[t][1] /\ Tail(todo[t]) \in Seq(Line)
      /\ Len(Tail(todo[t])) = Len(todo[t]) - 1
      /\ \A n \in 1..(Len(todo[t]) - 1) : Tail(todo[t])[n] = todo[t][n + 1]
  BY <1>1, HeadTailProperties
<1>4. DOMAIN Tail(todo[t]) = 1..(Len(todo[t]) - 1)
  BY <1>3, LenProperties
<1>5. QED
  BY <1>2, <1>3, <1>4

\* Which statement writes what.
LEMMA WhatIsWritten ==
  ASSUME TypeOK, NEW t \in Txns, Reading(t) \/ Locking(t) \/ Writing(t)
  PROVE  /\ wht'[t] = wht[t] \/ (WriteWithholding(t) /\ wht'[t] = Head(todo[t]).amt)
         /\ \A i \in Invoices :
              /\ \/ stat'[t][i] = stat[t][i]
                 \/ WriteVoid(t) /\ i = req[t].inv /\ stat'[t][i] = "VOID"
                 \/ CasStatus(t) /\ i = Head(todo[t]).inv /\ stat'[t][i] = seen[t][2]
              /\ \/ rows'[t][i] = rows[t][i]
                 \/ InsertAllocation(t) /\ i = Head(todo[t]).inv
                 \/ InsertMirrors(t) /\ rows'[t][i] = MirrorRow(t, i)
<1> USE DEF TypeOK, DraftsTyped
<1>1. CASE Reading(t)
  BY <1>1 DEF Reading, GuardAllocation, GuardVoid, GuardWithholding, ReadOriginal, DeriveStatus,
     ReadInvoiced, ReadUnapplied, drafts
<1>2. CASE Locking(t)
  BY <1>2 DEF Locking, ClaimNumber, LockPayment, LockInvoice, WriteBalance, drafts
<1>3. CASE InsertAllocation(t)
  BY <1>3 DEF InsertAllocation
<1>4. CASE InsertMirrors(t)
  BY <1>4 DEF InsertMirrors
<1>5. CASE WriteVoid(t)
  BY <1>5 DEF WriteVoid
<1>6. CASE WriteWithholding(t)
  BY <1>6 DEF WriteWithholding
<1>7. CASE CasStatus(t)
  BY <1>7 DEF CasStatus
<1>8. QED
  BY <1>1, <1>2, <1>3, <1>4, <1>5, <1>6, <1>7 DEF Writing

Settles(t, i) ==
  StatusSeen(t, i) \in {"VOID", DerivePaymentStatus(InvTotal[i], WhtSeen(t, i), AllocatedSeen(t, i))}

\* A status is to be recomputed from the write that moves money on the invoice
\* until it has been compared, and set if it has to change.
LEMMA PendingStep ==
  ASSUME TypeOK, NEW t \in Txns, ControlOf(t), Reading(t) \/ Locking(t) \/ Writing(t),
         NEW i \in Invoices
  PROVE  /\ Pending(t, i)' =>
              \/ Pending(t, i)
              \/ (InsertAllocation(t) \/ WriteWithholding(t)) /\ Head(todo[t]).inv = i
              \/ InsertMirrors(t) /\ \E n \in DOMAIN todo[t] : todo[t][n].inv = i
         /\ Pending(t, i) /\ ~Pending(t, i)' =>
              \/ CasStatus(t) /\ Head(todo[t]).inv = i
              \/ DeriveStatus(t) /\ Head(todo[t]).inv = i /\ Settles(t, i)
         /\ (InsertAllocation(t) \/ WriteWithholding(t)) /\ Head(todo[t]).inv = i => Pending(t, i)'
         /\ InsertMirrors(t) /\ (\E n \in DOMAIN todo[t] : todo[t][n].inv = i) => Pending(t, i)'
<1>1. req' = req
  BY StatementKeeps
<1>2. CASE InsertAllocation(t) \/ WriteWithholding(t)
  <2>1. pc'[t] = "derive" /\ todo' = todo /\ pc[t] \notin {"derive", "cas"}
    BY <1>2, WhereTo DEF InsertAllocation, WriteWithholding
  <2>2. req[t].op # "reverse"
    BY <1>2 DEF InsertAllocation, WriteWithholding, ControlOf
  <2>3. ~InsertMirrors(t)
    BY <2>2 DEF InsertMirrors, ControlOf
  <2>4. QED
    BY <1>1, <1>2, <2>1, <2>2, <2>3 DEF Pending
<1>3. CASE InsertMirrors(t)
  <2>1. /\ pc'[t] = IF todo[t] = <<>> THEN "balInvoices" ELSE "derive"
        /\ todo' = todo /\ pc[t] = "mirror" /\ req[t].op = "reverse"
    BY <1>3 DEF InsertMirrors, Goto, TypeOK, ControlTyped, ControlOf
  <2>2. todo[t] = <<>> => DOMAIN todo[t] = {}
    OBVIOUS
  <2>3. Pending(t, i)' <=> \E n \in DOMAIN todo[t] : todo[t][n].inv = i
    BY <1>1, <2>1, <2>2 DEF Pending
  <2>4. ~InsertAllocation(t) /\ ~WriteWithholding(t) /\ ~Pending(t, i)
    BY <2>1 DEF InsertAllocation, WriteWithholding, Pending
  <2>5. QED
    BY <1>3, <2>3, <2>4
<1>4. ASSUME Goto(t, AfterStatus(t)), NextLine(t), pc[t] \in {"derive", "cas"}
      PROVE  /\ Pending(t, i)' => Pending(t, i)
             /\ Pending(t, i) /\ ~Pending(t, i)' => Head(todo[t]).inv = i
  <2>1. pc'[t] = AfterStatus(t) /\ todo'[t] = Tail(todo[t])
    BY <1>4 DEF Goto, NextLine, TypeOK, ControlTyped
  <2>2. todo[t] # <<>>
    BY <1>4 DEF ControlOf
  <2> DEFINE k == Len(todo[t])
  <2>3. /\ k \in Nat \ {0} /\ DOMAIN todo[t] = 1..k /\ Head(todo[t]) = todo[t][1]
        /\ DOMAIN Tail(todo[t]) = 1..(k - 1)
        /\ \A n \in 1..(k - 1) : Tail(todo[t])[n] = todo[t][n + 1]
    BY <2>2, LinesOf
  <2>4. AfterStatus(t) = IF k = 1 THEN "balInvoices" ELSE IF req[t].op = "reverse" THEN "derive" ELSE "payLock"
    BY DEF AfterStatus
  <2> HIDE DEF k
  <2>5. Pending(t, i)' <=>
          req[t].op = "reverse" /\ k # 1 /\ \E n \in 1..(k - 1) : todo[t][n + 1].inv = i
    BY <1>1, <2>1, <2>3, <2>4 DEF Pending
  <2>6. Pending(t, i) <=> IF req[t].op = "reverse" THEN \E n \in 1..k : todo[t][n].inv = i
                                                   ELSE todo[t][1].inv = i
    BY <1>4, <2>3 DEF Pending
  <2>7. \A n \in 1..(k - 1) : n + 1 \in 1..k
    BY <2>3
  <2>8. \A n \in 1..k : n # 1 => n - 1 \in 1..(k - 1) /\ (n - 1) + 1 = n /\ k # 1
    BY <2>3
  <2>9. QED
    BY <2>3, <2>5, <2>6, <2>7, <2>8
<1>5. CASE CasStatus(t)
  <2>1. Goto(t, AfterStatus(t)) /\ NextLine(t) /\ pc[t] = "cas"
    BY <1>5 DEF CasStatus
  <2>2. ~InsertAllocation(t) /\ ~WriteWithholding(t) /\ ~InsertMirrors(t)
    BY <2>1 DEF InsertAllocation, WriteWithholding, InsertMirrors
  <2>3. QED
    BY <1>4, <1>5, <2>1, <2>2
<1>6. CASE DeriveStatus(t)
  <2>1. pc[t] = "derive" /\ ~InsertAllocation(t) /\ ~WriteWithholding(t) /\ ~InsertMirrors(t)
    BY <1>6 DEF DeriveStatus, InsertAllocation, WriteWithholding, InsertMirrors
  <2>2. CASE Settles(t, Head(todo[t]).inv)
    <3>1. Goto(t, AfterStatus(t)) /\ NextLine(t)
      BY <1>6, <2>2 DEF DeriveStatus, Settles
    <3>2. QED
      BY <1>4, <1>6, <2>1, <2>2, <3>1
  <2>3. CASE ~Settles(t, Head(todo[t]).inv)
    <3>1. Goto(t, "cas") /\ todo' = todo
      BY <1>6, <2>3 DEF DeriveStatus, Settles
    <3>2. pc'[t] = "cas"
      BY <3>1 DEF Goto, TypeOK, ControlTyped
    <3>3. Pending(t, i)' = Pending(t, i)
      BY <1>1, <2>1, <3>1, <3>2 DEF Pending
    <3>4. QED
      BY <2>1, <3>3
  <2>4. QED
    BY <2>2, <2>3
<1>7. CASE /\ ~InsertAllocation(t) /\ ~WriteWithholding(t) /\ ~InsertMirrors(t)
           /\ ~CasStatus(t) /\ ~DeriveStatus(t)
  <2>1. LockInvoice(t) => req[t].op \in {"record", "allocate", "reverse", "void", "withhold"}
    BY DEF LockInvoice, ControlOf
  <2>2. pc'[t] \notin {"derive", "cas"} /\ pc[t] \notin {"derive", "cas"}
    BY <1>7, <2>1, WhereTo DEF Reading, Locking, Writing
  <2>3. QED
    BY <1>7, <2>2 DEF Pending
<1>8. QED
  BY <1>2, <1>3, <1>5, <1>6, <1>7

\* A transaction that has written nothing sees what is stored.
LEMMA CleanSlate ==
  ASSUME TypeOK', \A i \in Invoices : MatchesMoney(i)', NEW t \in Txns,
         \A i \in Invoices : stat'[t][i] = None /\ rows'[t][i] = 0,
         wht'[t] = None,
         pc'[t] \notin {"insert", "voidWrite", "whtWrite", "derive", "cas"}
  PROVE  StatusLockedBy(t)' /\ StatusHeldBy(t)'
<1>1. \A i \in Invoices : ~Pending(t, i)'
  BY DEF Pending
<1>2. ASSUME NEW i \in Invoices
      PROVE  /\ StatusSeen(t, i)' = inv'[i].status /\ WhtSeen(t, i)' = inv'[i].wht
             /\ AllocatedSeen(t, i)' = invSum'[i]
  <2>1. invSum'[i] \in Int
    BY DEF TypeOK, CommittedTyped
  <2>2. QED
    BY <2>1 DEF StatusSeen, WhtSeen, AllocatedSeen
<1>3. \A i \in Invoices : Settled(t, i)'
  BY <1>2 DEF MatchesMoney, Settled
<1>4. StatusLockedBy(t)'
  BY <1>1, NullIsNoStatus DEF StatusLockedBy, Statuses
<1>5. StatusHeldBy(t)'
  BY <1>1, <1>3 DEF StatusHeldBy
<1>6. QED
  BY <1>4, <1>5

\* The lines of a reversal are invoices that are there.
LEMMA MirrorsAreThere ==
  ASSUME TypeOK, MoneyHasInvoices, NEW t \in Txns, ControlOf(t), MirrorsOf(t), pc[t] = "mirror",
         NEW i \in Invoices,
         MirrorRow(t, i) # 0 \/ \E n \in DOMAIN todo[t] : todo[t][n].inv = i
  PROVE  inv[i].status # "NONE"
<1>1. req[t].op = "reverse" /\ req[t].orig \in Payments
  BY DEF ControlOf, TypeOK, ControlTyped, RequestComplete
<1>2. alloc[req[t].orig][i] # 0
  <2>1. CASE \E n \in DOMAIN todo[t] : todo[t][n].inv = i
    BY <1>1, <2>1 DEF MirrorsOf
  <2>2. CASE ~ \E n \in DOMAIN todo[t] : todo[t][n].inv = i
    BY <2>2 DEF MirrorRow
  <2>3. QED
    BY <2>1, <2>2
<1>3. QED
  BY <1>1, <1>2 DEF MoneyHasInvoices

\* A transaction writes on invoices it has locked, that are there and not void.
LEMMA StatusLockedStep ==
  ASSUME TypeOK, MoneyHasInvoices, NEW t \in Txns, ControlOf(t),
         DraftsLockedBy(t), GuardLockedBy(t), InvoiceFits(t), MirrorsOf(t),
         StatusLockedBy(t), StatusHeldBy(t), Reading(t) \/ Locking(t) \/ Writing(t)
  PROVE  StatusLockedBy(t)'
<1>1. req' = req /\ inv' = inv /\ locks[t] \subseteq locks'[t]
  BY StatementKeeps DEF database
<1>2. todo[t] # <<>> => Head(todo[t]).inv \in Invoices
  BY HeadIsLine DEF TypeOK
<1>3. ASSUME NEW i \in Invoices, StatusSeen(t, i) # "VOID", inv[i].status # "NONE"
      PROVE  inv[i].status \notin {"NONE", "VOID"}
  BY <1>3 DEF StatusSeen, StatusLockedBy
<1>4. ASSUME NEW i \in Invoices, stat'[t][i] # None
      PROVE  /\ req[t].op \in {"record", "allocate", "reverse", "void", "withhold"}
             /\ Adv(i) \in locks[t] /\ stat'[t][i] # "NONE" /\ inv[i].status \notin {"NONE", "VOID"}
             /\ stat'[t][i] = "VOID" => req[t].op = "void" /\ WhtSeen(t, i)' = 0
  <2>1. CASE WriteVoid(t) /\ i = req[t].inv /\ stat'[t][i] = "VOID"
    <3>1. pc[t] = "voidWrite" /\ req[t].op = "void" /\ wht' = wht
      BY <2>1 DEF WriteVoid, ControlOf
    <3>2. WhtSeen(t, i) = 0 /\ inv[i].status \notin {"NONE", "VOID"} /\ Adv(i) \in locks[t]
      BY <2>1, <3>1 DEF StatusLockedBy, GuardLockedBy
    <3>3. WhtSeen(t, i)' = WhtSeen(t, i)
      BY <1>1, <3>1 DEF WhtSeen
    <3>4. QED
      BY <2>1, <3>1, <3>2, <3>3
  <2>2. CASE CasStatus(t) /\ i = Head(todo[t]).inv /\ stat'[t][i] = seen[t][2]
    <3>1. /\ pc[t] = "cas" /\ todo[t] # <<>>
          /\ req[t].op \in {"record", "allocate", "reverse", "withhold"}
      BY <2>2 DEF CasStatus, ControlOf
    <3>2. Pending(t, i)
      <4>1. 1 \in DOMAIN todo[t] /\ Head(todo[t]) = todo[t][1]
        BY <3>1, LinesOf
      <4>2. QED
        BY <2>2, <3>1, <4>1 DEF Pending
    <3>3. Adv(i) \in locks[t] /\ inv[i].status # "NONE"
      BY <3>2 DEF StatusLockedBy
    <3>4. StatusSeen(t, i) # "VOID" /\ stat'[t][i] \in {"PAID", "PARTIALLY_PAID", "ISSUED"}
      BY <2>2, <3>1, DerivedStatus DEF StatusHeldBy
    <3>5. inv[i].status \notin {"NONE", "VOID"}
      BY <1>3, <3>3, <3>4
    <3>6. QED
      BY <3>1, <3>3, <3>4, <3>5
  <2>3. CASE stat'[t][i] = stat[t][i]
    <3>1. /\ req[t].op \in {"record", "allocate", "reverse", "void", "withhold"}
          /\ Adv(i) \in locks[t] /\ stat[t][i] # "NONE" /\ inv[i].status \notin {"NONE", "VOID"}
          /\ stat[t][i] = "VOID" => req[t].op = "void" /\ WhtSeen(t, i) = 0
      BY <1>4, <2>3 DEF StatusLockedBy
    <3>2. ASSUME req[t].op = "void" PROVE WhtSeen(t, i)' = WhtSeen(t, i)
      <4>1. wht'[t] = wht[t]
        BY <3>2, WhatIsWritten DEF WriteWithholding, ControlOf
      <4>2. QED
        BY <1>1, <4>1 DEF WhtSeen
    <3>3. QED
      BY <2>3, <3>1, <3>2
  <2>4. QED
    BY <2>1, <2>2, <2>3, WhatIsWritten
<1>5. ASSUME NEW i \in Invoices, rows'[t][i] # 0 PROVE inv[i].status # "NONE"
  <2>1. CASE InsertAllocation(t) /\ i = Head(todo[t]).inv
    BY <2>1 DEF InsertAllocation, StatusLockedBy
  <2>2. CASE InsertMirrors(t) /\ rows'[t][i] = MirrorRow(t, i)
    BY <1>5, <2>2, MirrorsAreThere DEF InsertMirrors
  <2>3. CASE rows'[t][i] = rows[t][i]
    BY <1>5, <2>3 DEF StatusLockedBy
  <2>4. QED
    BY <2>1, <2>2, <2>3, WhatIsWritten
<1>6. ASSUME NEW i \in Invoices, Pending(t, i)' PROVE Adv(i) \in locks[t] /\ inv[i].status # "NONE"
  <2>1. CASE Pending(t, i)
    BY <2>1 DEF StatusLockedBy
  <2>2. CASE InsertAllocation(t) /\ Head(todo[t]).inv = i
    BY <2>2 DEF InsertAllocation, StatusLockedBy, GuardLockedBy
  <2>3. CASE WriteWithholding(t) /\ Head(todo[t]).inv = i
    BY <2>3 DEF WriteWithholding, StatusLockedBy, GuardLockedBy, ControlOf
  <2>4. CASE InsertMirrors(t) /\ \E n \in DOMAIN todo[t] : todo[t][n].inv = i
    BY <2>4, MirrorsAreThere DEF InsertMirrors, GuardLockedBy
  <2>5. QED
    BY <1>6, <2>1, <2>2, <2>3, <2>4, PendingStep
<1>7. ASSUME wht'[t] # None PROVE inv[req[t].inv].status \notin {"NONE", "VOID"}
  <2>1. CASE wht'[t] = wht[t]
    BY <1>7, <2>1 DEF StatusLockedBy
  <2>2. CASE WriteWithholding(t)
    BY <2>2 DEF WriteWithholding, StatusLockedBy
  <2>3. QED
    BY <2>1, <2>2, WhatIsWritten
<1>8. ASSUME pc'[t] = "insert"
      PROVE  inv[Head(todo[t]).inv].status \notin {"NONE", "VOID"} /\ todo' = todo
  <2>1. GuardAllocation(t)
    <3>1. LockInvoice(t) => req[t].op \in {"record", "allocate", "reverse", "void", "withhold"}
      BY DEF LockInvoice, ControlOf
    <3>2. QED
      BY <1>8, <3>1, WhereTo DEF Reading, Locking, Writing
  <2>2. StatusSeen(t, Head(todo[t]).inv) \notin {"NONE", "VOID"} /\ todo' = todo
    BY <2>1 DEF GuardAllocation, AllocationAllowed
  <2>3. Head(todo[t]).inv \in Invoices
    BY <1>2, <2>1 DEF GuardAllocation, ControlOf
  <2>4. QED
    BY <2>2, <2>3 DEF StatusSeen, StatusLockedBy
<1>9. ASSUME pc'[t] \in {"voidWrite", "whtWrite"}
      PROVE  /\ inv[req[t].inv].status \notin {"NONE", "VOID"}
             /\ pc'[t] = "voidWrite" => WhtSeen(t, req[t].inv)' = 0
  <2>1. \/ GuardVoid(t) /\ pc'[t] = "voidWrite"
        \/ GuardWithholding(t) /\ pc'[t] = "whtWrite"
    <3>1. LockInvoice(t) => req[t].op \in {"record", "allocate", "reverse", "void", "withhold"}
      BY DEF LockInvoice, ControlOf
    <3>2. QED
      BY <1>9, <3>1, WhereTo DEF Reading, Locking, Writing
  <2>2. req[t].inv \in Invoices /\ inv[req[t].inv].status # "NONE"
    BY <2>1 DEF GuardVoid, GuardWithholding, ControlOf, InvoiceFits, TypeOK, ControlTyped,
       RequestComplete
  <2>3. StatusSeen(t, req[t].inv) # "VOID" /\ (GuardVoid(t) => WhtSeen(t, req[t].inv) = 0)
    BY <2>1 DEF GuardVoid, VoidAllowed, GuardWithholding, WithholdingAllowed
  <2>4. GuardVoid(t) => WhtSeen(t, req[t].inv)' = WhtSeen(t, req[t].inv)
    BY DEF GuardVoid, WhtSeen, database, drafts
  <2>5. ~(GuardVoid(t) /\ GuardWithholding(t))
    BY DEF GuardVoid, GuardWithholding
  <2>6. QED
    BY <1>3, <2>1, <2>2, <2>3, <2>4
<1>10. StatusLockedBy(t)'
  BY <1>1, <1>4, <1>5, <1>6, <1>7, <1>8, <1>9, NullIsNoStatus DEF StatusLockedBy, Statuses
<1>11. QED
  BY <1>10

\* What a transaction has not written it sees as before.
LEMMA SeenAsBefore ==
  ASSUME NEW t \in Txns, NEW i \in Invoices, inv' = inv, invSum' = invSum, req' = req
  PROVE  /\ stat'[t][i] = stat[t][i] => StatusSeen(t, i)' = StatusSeen(t, i)
         /\ rows'[t][i] = rows[t][i] => AllocatedSeen(t, i)' = AllocatedSeen(t, i)
         /\ wht'[t] = wht[t] => WhtSeen(t, i)' = WhtSeen(t, i)
BY DEF StatusSeen, AllocatedSeen, WhtSeen

\* What a transaction has settled it keeps settled, and what it compares is right.
LEMMA StatusHeldStep ==
  ASSUME TypeOK, NEW t \in Txns, ControlOf(t), MirrorsOf(t), StatusLockedBy(t), StatusHeldBy(t),
         Reading(t) \/ Locking(t) \/ Writing(t)
  PROVE  StatusHeldBy(t)'
<1>1. req' = req /\ inv' = inv /\ invSum' = invSum
  BY StatementKeeps DEF database
<1>2. ASSUME NEW i \in Invoices, CasStatus(t), Head(todo[t]).inv = i PROVE Settled(t, i)'
  <2>1. /\ stat'[t][i] = seen[t][2] /\ pc[t] = "cas" /\ wht' = wht /\ rows' = rows
    BY <1>2 DEF CasStatus, TypeOK, DraftsTyped
  <2>2. seen[t][2] = DerivePaymentStatus(InvTotal[i], WhtSeen(t, i), AllocatedSeen(t, i))
    BY <1>2, <2>1 DEF StatusHeldBy
  <2>3. seen[t][2] # None
    BY <2>2, DerivedStatus, NullIsNoStatus DEF Statuses
  <2>4. /\ StatusSeen(t, i)' = seen[t][2]
        /\ WhtSeen(t, i)' = WhtSeen(t, i) /\ AllocatedSeen(t, i)' = AllocatedSeen(t, i)
    BY <1>1, <2>1, <2>3, SeenAsBefore DEF StatusSeen
  <2>5. QED
    BY <2>2, <2>4 DEF Settled
<1>3. ASSUME NEW i \in Invoices, DeriveStatus(t), Settles(t, i) PROVE Settled(t, i)'
  <2>1. stat' = stat /\ wht' = wht /\ rows' = rows
    BY <1>3 DEF DeriveStatus, drafts
  <2>2. /\ StatusSeen(t, i)' = StatusSeen(t, i)
        /\ WhtSeen(t, i)' = WhtSeen(t, i) /\ AllocatedSeen(t, i)' = AllocatedSeen(t, i)
    BY <1>1, <2>1, SeenAsBefore
  <2>3. QED
    BY <1>3, <2>2 DEF Settled, Settles
<1>4. ASSUME NEW i \in Invoices, Settled(t, i), ~Pending(t, i)',
             ~(CasStatus(t) /\ Head(todo[t]).inv = i)
      PROVE  Settled(t, i)'
  <2>1. rows'[t][i] = rows[t][i]
    <3>1. ~(InsertAllocation(t) /\ i = Head(todo[t]).inv)
      BY <1>4, PendingStep
    <3>2. CASE InsertMirrors(t) /\ rows'[t][i] = MirrorRow(t, i)
      <4>1. ~ \E n \in DOMAIN todo[t] : todo[t][n].inv = i
        BY <1>4, <3>2, PendingStep
      <4>2. pc[t] = "mirror" /\ req[t].op = "reverse"
        BY <3>2 DEF InsertMirrors, ControlOf
      <4>3. rows[t][i] = 0
        BY <4>2 DEF MirrorsOf
      <4>4. QED
        BY <3>2, <4>1, <4>3 DEF MirrorRow
    <3>3. QED
      BY <3>1, <3>2, WhatIsWritten
  <2>2. AllocatedSeen(t, i)' = AllocatedSeen(t, i)
    BY <1>1, <2>1, SeenAsBefore
  <2>3. WhtSeen(t, i)' = WhtSeen(t, i)
    <3>1. CASE wht'[t] = wht[t]
      BY <1>1, <3>1, SeenAsBefore
    <3>2. CASE WriteWithholding(t)
      <4>1. Head(todo[t]).inv = req[t].inv
        BY <3>2 DEF WriteWithholding, ControlOf
      <4>2. i # req[t].inv
        BY <1>4, <3>2, <4>1, PendingStep
      <4>3. QED
        BY <1>1, <4>2 DEF WhtSeen
    <3>3. QED
      BY <3>1, <3>2, WhatIsWritten
  <2>4. CASE stat'[t][i] = stat[t][i]
    <3>1. StatusSeen(t, i)' = StatusSeen(t, i)
      BY <1>1, <2>4, SeenAsBefore
    <3>2. QED
      BY <1>4, <2>2, <2>3, <3>1 DEF Settled
  <2>5. CASE stat'[t][i] = "VOID"
    <3>1. StatusSeen(t, i)' = "VOID"
      BY <2>5, NullIsNoStatus DEF StatusSeen, Statuses
    <3>2. QED
      BY <3>1 DEF Settled
  <2>6. QED
    BY <1>4, <2>4, <2>5, WhatIsWritten
<1>5. ASSUME NEW i \in Invoices, ~Pending(t, i)' PROVE Settled(t, i)'
  <2>1. CASE CasStatus(t) /\ Head(todo[t]).inv = i
    BY <1>2, <2>1
  <2>2. CASE Pending(t, i) /\ ~(CasStatus(t) /\ Head(todo[t]).inv = i)
    BY <1>3, <1>5, <2>2, PendingStep
  <2>3. CASE ~Pending(t, i) /\ ~(CasStatus(t) /\ Head(todo[t]).inv = i)
    BY <1>4, <1>5, <2>3 DEF StatusHeldBy
  <2>4. QED
    BY <2>1, <2>2, <2>3
<1>6. ASSUME pc'[t] = "cas", NEW i \in Invoices, i = Head(todo'[t]).inv
      PROVE  /\ seen'[t][1] = StatusSeen(t, i)' /\ seen'[t][1] # "VOID"
             /\ seen'[t][2] = DerivePaymentStatus(InvTotal[i], WhtSeen(t, i)', AllocatedSeen(t, i)')
  <2>1. DeriveStatus(t)
    <3>1. LockInvoice(t) => req[t].op \in {"record", "allocate", "reverse", "void", "withhold"}
      BY DEF LockInvoice, ControlOf
    <3>2. QED
      BY <1>6, <3>1, WhereTo DEF Reading, Locking, Writing
  <2> DEFINE j    == Head(todo[t]).inv
             next == DerivePaymentStatus(InvTotal[j], WhtSeen(t, j), AllocatedSeen(t, j))
  <2>2. StatusSeen(t, j) \notin {"VOID", next}
    <3>1. ASSUME StatusSeen(t, j) \in {"VOID", next} PROVE FALSE
      <4>1. pc'[t] = AfterStatus(t)
        BY <2>1, <3>1 DEF DeriveStatus, Goto, TypeOK, ControlTyped
      <4>2. QED
        BY <1>6, <4>1, WhereTo
    <3>2. QED
      BY <3>1
  <2>3. seen' = [seen EXCEPT ![t] = <<StatusSeen(t, j), next>>] /\ todo' = todo
    BY <2>1, <2>2 DEF DeriveStatus
  <2>4. seen'[t] = <<StatusSeen(t, j), next>>
    BY <2>3 DEF TypeOK, ControlTyped
  <2>5. i = j
    BY <1>6, <2>3
  <2>6. stat' = stat /\ wht' = wht /\ rows' = rows
    BY <2>1 DEF DeriveStatus, drafts
  <2>7. /\ StatusSeen(t, i)' = StatusSeen(t, i)
        /\ WhtSeen(t, i)' = WhtSeen(t, i) /\ AllocatedSeen(t, i)' = AllocatedSeen(t, i)
    BY <1>1, <2>6, SeenAsBefore
  <2>8. seen'[t][1] = StatusSeen(t, i) /\ seen'[t][2] = next /\ seen'[t][1] # "VOID"
    BY <2>2, <2>4, <2>5
  <2>9. QED
    BY <2>5, <2>7, <2>8
<1>7. pc'[t] = "cas" => Head(todo'[t]).inv \in Invoices
  <2> SUFFICES ASSUME pc'[t] = "cas" PROVE Head(todo'[t]).inv \in Invoices
    OBVIOUS
  <2>1. DeriveStatus(t)
    <3>1. LockInvoice(t) => req[t].op \in {"record", "allocate", "reverse", "void", "withhold"}
      BY DEF LockInvoice, ControlOf
    <3>2. QED
      BY <3>1, WhereTo DEF Reading, Locking, Writing
  <2>2. todo' = todo /\ todo[t] # <<>>
    <3>1. pc'[t] # AfterStatus(t)
      BY WhereTo
    <3>2. todo' = todo \/ Goto(t, AfterStatus(t))
      BY <2>1 DEF DeriveStatus
    <3>3. QED
      BY <2>1, <3>1, <3>2 DEF DeriveStatus, ControlOf, Goto, TypeOK, ControlTyped
  <2>3. QED
    BY <2>2, HeadIsLine DEF TypeOK
<1>8. QED
  BY <1>5, <1>6, <1>7 DEF StatusHeldBy, DerivePaymentStatus

-----------------------------------------------------------------------------
(* The invariant of invoices.                                              *)

\* A transaction that compares the status it has read finds it as it was.
LEMMA NoCasFails ==
  ASSUME NEW t \in Txns, StatusHeldBy(t)
  PROVE  ~CasFails(t)
BY DEF StatusHeldBy, CasFails

\* There is no invoice to begin with.
LEMMA StatusInit == Init => StatusInvariant
<1> SUFFICES ASSUME Init PROVE StatusInvariant
  OBVIOUS
<1>1. NoRequest.op = "none"
  BY DEF NoRequest, Ask
<1>2. \A i \in Invoices : inv[i].status = "NONE" /\ inv[i].wht = 0 /\ invSum[i] = 0
  BY DEF Init
<1>3. MoneyHasInvoices
  BY <1>2 DEF Init, MoneyHasInvoices
<1>4. \A t \in Txns, i \in Invoices : ~Pending(t, i) /\ StatusSeen(t, i) = "NONE"
  BY <1>2 DEF Init, Pending, StatusSeen
<1>5. \A t \in Txns : InvoiceFits(t) /\ StatusLockedBy(t)
  BY <1>1, <1>2, <1>4, NullIsNoStatus DEF Init, InvoiceFits, StatusLockedBy, Statuses
<1>6. \A t \in Txns : StatusHeldBy(t)
  BY <1>4 DEF Init, StatusHeldBy, Settled
<1>7. StatusMatchesMoney
  BY <1>2, <1>6, NoCasFails DEF StatusMatchesMoney
<1>8. QED
  BY <1>2, <1>3, <1>5, <1>6, <1>7 DEF StatusInvariant

\* What a transaction that begins or ends has written: nothing.
LEMMA NothingWritten ==
  ASSUME TypeOK, NEW t \in Txns, ControlOf(t), DraftsLockedBy(t), StatusLockedBy(t),
         Opening(t) \/ Ending(t)
  PROVE  /\ \A i \in Invoices : stat'[t][i] = None /\ rows'[t][i] = 0
         /\ wht'[t] = None
         /\ pc'[t] \notin {"insert", "voidWrite", "whtWrite", "derive", "cas"}
<1>1. CASE Opening(t)
  <2>1. req[t].op = "none" /\ UNCHANGED drafts /\ pc'[t] = BeginsAt(req'[t].op)
    BY <1>1, OpeningFits DEF ControlOf
  <2>2. \A i \in Invoices : stat[t][i] = None /\ rows[t][i] = 0
    BY <2>1 DEF StatusLockedBy, DraftsLockedBy
  <2>3. wht[t] = None
    BY <2>1 DEF DraftsLockedBy
  <2>4. QED
    BY <2>1, <2>2, <2>3 DEF drafts, BeginsAt
<1>2. CASE Ending(t)
  BY <1>2, EndingClears
<1>3. QED
  BY <1>1, <1>2

\* A turn keeps the invoices as they should be.
LEMMA StatusTurn ==
  ASSUME SettlementInvariant, TypeOK', PaymentInvariant, StatusInvariant, NEW t \in Txns, Turn(t)
  PROVE  StatusInvariant'
<1> USE DEF SettlementInvariant
<1>1. /\ Step(t) /\ ControlOf(t) /\ DraftsLockedBy(t) /\ GuardLockedBy(t) /\ MirrorsOf(t)
      /\ InvoiceFits(t) /\ StatusLockedBy(t) /\ StatusHeldBy(t) /\ MoneyHasInvoices
      /\ \A u \in Txns : InvoiceFits(u)
  BY TurnIsStep DEF ControlOK, DraftsAreLocked, GuardsAreLocked, PaymentInvariant, StatusInvariant
<1>2. \A i \in Invoices : MatchesMoney(i)'
  <2>1. \A i \in Invoices : MatchesMoney(i)
    BY DEF StatusInvariant, StatusMatchesMoney, MatchesMoney
  <2>2. QED
    BY <1>1, <2>1, MatchesMoneyStep
<1>3. MoneyHasInvoices'
  BY <1>1, MoneyHasInvoicesStep
<1>4. \A i \in Invoices : inv'[i].status = "VOID" => inv'[i].wht = 0
  BY <1>1, VoidStep DEF StatusInvariant
<1>5. \A u \in Txns : InvoiceFits(u)'
  BY <1>1, InvoiceFitsStep
<1>6. StatusLockedBy(t)' /\ StatusHeldBy(t)'
  <2>1. CASE Opening(t) \/ Ending(t)
    BY <1>1, <1>2, <2>1, NothingWritten, CleanSlate
  <2>2. CASE Reading(t) \/ Locking(t) \/ Writing(t)
    BY <1>1, <2>2, StatusLockedStep, StatusHeldStep
  <2>3. QED
    BY <2>1, <2>2 DEF Turn
<1>7. ASSUME NEW u \in Txns, u # t PROVE StatusLockedBy(u)' /\ StatusHeldBy(u)'
  <2>1. DraftsLockedBy(u) /\ GuardLockedBy(u) /\ StatusLockedBy(u) /\ StatusHeldBy(u)
    BY DEF DraftsAreLocked, GuardsAreLocked, StatusInvariant
  <2>2. StatusLockedBy(u)'
    BY <1>1, <1>7, <2>1, OthersStatusLocked
  <2>3. StatusHeldBy(u)'
    BY <1>1, <1>2, <1>7, <2>1, OthersStatusHeld
  <2>4. QED
    BY <2>2, <2>3
<1>8. \A u \in Txns : InvoiceFits(u)' /\ StatusLockedBy(u)' /\ StatusHeldBy(u)'
  BY <1>5, <1>6, <1>7
<1>9. StatusMatchesMoney'
  <2>1. \A u \in Txns : ~CasFails(u)'
    BY <1>8 DEF StatusHeldBy, CasFails
  <2>2. QED
    BY <1>2, <2>1 DEF StatusMatchesMoney, MatchesMoney
<1>10. QED
  BY <1>3, <1>4, <1>8, <1>9 DEF StatusInvariant

\* Invoices do not depend on the sweeps.
LEMMA StatusStutter ==
  ASSUME StatusInvariant, UNCHANGED <<database, pc, req, todo, locks, drafts, seen>>
  PROVE  StatusInvariant'
<1> USE DEF database, drafts
<1>1. /\ MoneyHasInvoices' /\ \A i \in Invoices : inv'[i].status = "VOID" => inv'[i].wht = 0
  BY DEF StatusInvariant, MoneyHasInvoices
<1>2. \A t \in Txns, i \in Invoices :
        /\ StatusSeen(t, i)' = StatusSeen(t, i) /\ WhtSeen(t, i)' = WhtSeen(t, i)
        /\ AllocatedSeen(t, i)' = AllocatedSeen(t, i) /\ Pending(t, i)' = Pending(t, i)
  BY DEF StatusSeen, WhtSeen, AllocatedSeen, Pending
<1>3. ASSUME NEW t \in Txns PROVE InvoiceFits(t)' /\ StatusLockedBy(t)' /\ StatusHeldBy(t)'
  <2>1. InvoiceFits(t) /\ StatusLockedBy(t) /\ StatusHeldBy(t)
    BY DEF StatusInvariant
  <2>2. InvoiceFits(t)'
    BY <2>1 DEF InvoiceFits
  <2>3. StatusLockedBy(t)'
    BY <2>1 DEF StatusLockedBy, WhtSeen, Pending
  <2>4. StatusHeldBy(t)'
    BY <2>1 DEF StatusHeldBy, Settled, StatusSeen, WhtSeen, AllocatedSeen, Pending, DerivePaymentStatus
  <2>5. QED
    BY <2>2, <2>3, <2>4
<1>4. StatusMatchesMoney'
  <2>1. \A u \in Txns : ~CasFails(u)'
    BY <1>3 DEF StatusHeldBy, CasFails
  <2>2. QED
    BY <2>1 DEF StatusInvariant, StatusMatchesMoney
<1>5. QED
  BY <1>1, <1>3, <1>4 DEF StatusInvariant

\* Every step keeps the invoices as they should be.
LEMMA StatusStep ==
  SettlementInvariant /\ SettlementInvariant' /\ PaymentInvariant /\ StatusInvariant /\ [Next]_vars
    => StatusInvariant'
<1> SUFFICES ASSUME SettlementInvariant, SettlementInvariant', PaymentInvariant, StatusInvariant,
                    [Next]_vars
             PROVE  StatusInvariant'
  OBVIOUS
<1>1. CASE UNCHANGED vars
  BY <1>1, StatusStutter DEF vars
<1>2. ASSUME NEW n \in Crons, StartSweep(n) PROVE StatusInvariant'
  BY <1>2, StatusStutter DEF StartSweep
<1>3. TypeOK'
  BY DEF SettlementInvariant
<1>4. QED
  BY <1>1, <1>2, <1>3, StatusTurn, NextIsATurn

\* Invoices are as they should be in every run.
LEMMA StatusHolds == Spec => []StatusInvariant
<1>1. QED
  BY StatusInit, StatusStep, SettlementHolds, PaymentsHold, PTL DEF Spec

\* However receipts, reversals, withholdings and voids of the same invoices race,
\* every status that is stored is the one its money asks for, and no transaction
\* finds at its compare-and-set that another has moved the status under it.
THEOREM StatusesMatchMoney == Spec => []StatusMatchesMoney
<1>1. StatusInvariant => StatusMatchesMoney
  BY DEF StatusInvariant
<1>2. QED
  BY <1>1, StatusHolds, PTL

\* A void invoice is never paid, withheld from, re-opened or renumbered: its row
\* stays as the voiding left it, with nothing withheld.
THEOREM VoidInvoicesStay ==
  Spec => [][\A i \in Invoices : inv[i].status = "VOID" => inv'[i] = inv[i] /\ inv[i].wht = 0]_vars
<1> DEFINE Stays == \A i \in Invoices : inv[i].status = "VOID" => inv'[i] = inv[i] /\ inv[i].wht = 0
<1>1. ASSUME SettlementInvariant, StatusInvariant, [Next]_vars PROVE [Stays]_vars
  <2>1. ASSUME NEW t \in Txns, Turn(t) PROVE Stays
    <3>1. /\ Step(t) /\ TypeOK /\ DraftsLockedBy(t) /\ InvoiceFits(t) /\ StatusLockedBy(t)
      BY <1>1, <2>1, TurnIsStep DEF SettlementInvariant, DraftsAreLocked, StatusInvariant
    <3>2. QED
      BY <1>1, <3>1, InvoicesOfATurn DEF StatusInvariant
  <2>2. ASSUME NEW n \in Crons, StartSweep(n) PROVE Stays
    BY <1>1, <2>2 DEF StartSweep, database, StatusInvariant
  <2>3. QED
    BY <1>1, <2>1, <2>2, NextIsATurn
<1>2. SettlementInvariant /\ StatusInvariant /\ [Next]_vars => [Stays]_vars
  BY <1>1
<1>3. QED
  BY <1>2, SettlementHolds, StatusHolds, PTL DEF Spec

-----------------------------------------------------------------------------
(* The invariant of numbers.                                               *)

\* Nothing is numbered to begin with.
LEMMA NumberInit == Init => NumberInvariant
<1> SUFFICES ASSUME Init PROVE NumberInvariant
  OBVIOUS
<1>1. NoRequest.op = "none"
  BY DEF NoRequest, Ask
<1>2. Issued = {} /\ Received = {} /\ seq["INVOICE"] = 0 /\ seq["RECEIPT"] = 0
  BY DEF Init, Issued, Received, Kinds
<1>3. Cardinality({}) = 0 /\ IsFiniteSet({})
  BY FS_EmptySet
<1>4. Numbers(Issued, inv, 0) /\ Numbers(Received, pay, 0)
  BY <1>2, <1>3 DEF Numbers
<1>5. NumbersAreGapless
  BY <1>2, <1>4 DEF NumbersAreGapless, Numbers, Issued, Received
<1>6. \A t \in Txns : NumberHeldBy(t)
  BY <1>1 DEF Init, NumberHeldBy
<1>7. QED
  BY <1>2, <1>3, <1>5, <1>6 DEF NumberInvariant, Received

\* A turn leaves no gap in the numbers.
LEMMA NumberTurn ==
  ASSUME SettlementInvariant, PaymentInvariant, StatusInvariant, NumberInvariant,
         NEW t \in Txns, Turn(t)
  PROVE  NumberInvariant'
<1>1. /\ TypeOK /\ LocksExclusive /\ Step(t) /\ ControlOf(t) /\ DraftsLockedBy(t) /\ RequestFits(t)
      /\ InvoiceFits(t) /\ StatusLockedBy(t)
  BY TurnIsStep DEF SettlementInvariant, ControlOK, DraftsAreLocked, PaymentInvariant, StatusInvariant
<1>2. NumbersAreGapless /\ IsFiniteSet(Received) /\ \A u \in Txns : NumberHeldBy(u)
  BY DEF NumberInvariant, Received
<1>3. NumbersAreGapless' /\ IsFiniteSet(Received)'
  BY <1>1, <1>2, GaplessStep
<1>4. NumberHeldBy(t)'
  BY <1>1, <1>2, NumberHeldStep
<1>5. \A u \in Txns : u # t => NumberHeldBy(u)'
  BY <1>1, <1>2, OthersNumbers
<1>6. QED
  BY <1>3, <1>4, <1>5 DEF NumberInvariant, Received

\* Numbers do not depend on the sweeps.
LEMMA NumberStutter ==
  ASSUME NumberInvariant, UNCHANGED <<database, pc, req, locks, num>>
  PROVE  NumberInvariant'
<1>1. NumbersAreGapless' /\ IsFiniteSet({p \in Payments : pay'[p] # None})
  BY DEF NumberInvariant, NumbersAreGapless, database
<1>2. \A t \in Txns : NumberHeldBy(t)'
  BY DEF NumberInvariant, NumberHeldBy, SequenceKind, database
<1>3. QED
  BY <1>1, <1>2 DEF NumberInvariant

\* No step leaves a gap in the numbers.
LEMMA NumberStep ==
  SettlementInvariant /\ PaymentInvariant /\ StatusInvariant /\ NumberInvariant /\ [Next]_vars
    => NumberInvariant'
<1> SUFFICES ASSUME SettlementInvariant, PaymentInvariant, StatusInvariant, NumberInvariant,
                    [Next]_vars
             PROVE  NumberInvariant'
  OBVIOUS
<1>1. CASE UNCHANGED vars
  BY <1>1, NumberStutter DEF vars
<1>2. ASSUME NEW n \in Crons, StartSweep(n) PROVE NumberInvariant'
  BY <1>2, NumberStutter DEF StartSweep
<1>3. QED
  BY <1>1, <1>2, NumberTurn, NextIsATurn

\* Numbers are claimed one at a time in every run.
LEMMA NumbersHold == Spec => []NumberInvariant
<1>1. QED
  BY NumberInit, NumberStep, SettlementHolds, PaymentsHold, StatusHolds, PTL DEF Spec

\* Whatever claims were rolled back by refusals and crashes, receipts and invoices
\* are numbered 1, 2, 3, ... without gap or repetition.
THEOREM DocumentsAreNumbered == Spec => []NumbersAreGapless
<1>1. NumberInvariant => NumbersAreGapless
  BY DEF NumberInvariant
<1>2. QED
  BY <1>1, NumbersHold, PTL

-----------------------------------------------------------------------------
(* The locks a transaction may hold and want.                              *)

\* Locks of different kinds are different locks.
LEMMA LocksDiffer ==
  /\ \A x, y : Adv(x) # InvRow(y) /\ Adv(x) # CustRow(y) /\ Adv(x) # SeqRow(y)
  /\ \A x, y : InvRow(x) # CustRow(y) /\ InvRow(x) # SeqRow(y) /\ CustRow(x) # SeqRow(y)
  /\ \A x, y : Adv(x) = Adv(y) => x = y
  /\ \A x, y : InvRow(x) = InvRow(y) => x = y
  /\ \A x, y : SeqRow(x) = SeqRow(y) => x = y
BY DEF Adv, InvRow, CustRow, SeqRow

\* The invoice a transaction is about to lock is an invoice, and a reversal has not
\* locked it yet.
LEMMA InvoiceToLockIs ==
  ASSUME TypeOK, NEW t \in Txns, ControlOf(t), OneLeftToLock(t), pc[t] = "invLock"
  PROVE  InvoiceToLock(t) \in Invoices
<1>1. todo[t] # <<>>
  BY DEF ControlOf
<1>2. CASE req[t].op # "reverse"
  BY <1>1, <1>2, HeadIsLine DEF InvoiceToLock, TypeOK
<1>3. CASE req[t].op = "reverse"
  <2> DEFINE T == {n \in DOMAIN todo[t] : Adv(todo[t][n].inv) \notin locks[t]}
             First(n) == /\ Adv(todo[t][n].inv) \notin locks[t]
                         /\ \A m \in 1..n-1 : Adv(todo[t][m].inv) \in locks[t]
  <2>1. DOMAIN todo[t] = 1..Len(todo[t]) /\ Len(todo[t]) \in Nat
    BY <1>1, LinesOf
  <2>2. T # {} /\ T \subseteq Nat
    BY <1>3, <2>1 DEF OneLeftToLock
  <2>3. PICK n \in T : \A m \in T : n <= m
    BY <2>2, Least
  <2>4. \A m \in 1..n-1 : m \in DOMAIN todo[t] /\ m \notin T
    BY <2>1, <2>3
  <2>5. First(n) /\ n \in DOMAIN todo[t]
    BY <2>3, <2>4
  <2> DEFINE k == CHOOSE m \in DOMAIN todo[t] : First(m)
  <2>6. k \in DOMAIN todo[t]
    BY <2>5
  <2>7. InvoiceToLock(t) = todo[t][k].inv
    BY <1>3 DEF InvoiceToLock
  <2> HIDE DEF k
  <2>8. todo[t][k] \in Line
    BY <2>6, ElementOfSeq, LenProperties DEF TypeOK, ControlTyped
  <2>9. QED
    BY <2>7, <2>8 DEF Line
<1>4. QED
  BY <1>2, <1>3

\* What holding a lock says of its holder.
LEMMA HolderOf ==
  ASSUME TypeOK, NEW t \in Txns, HeldBy(t)
  PROVE  /\ \A k : SeqRow(k) \in locks[t] =>
              k = SequenceKind(t) /\ req[t].op \in {"create", "record", "reverse"} /\ pc[t] # "claim"
         /\ \A c : CustRow(c) \in locks[t] => pc[t] = "commit"
         /\ \A i : InvRow(i) \in locks[t] => Adv(i) \in locks[t]
         /\ \A x : Adv(x) \in locks[t] =>
              /\ req[t].op \in {"record", "allocate", "reverse", "void", "withhold"}
              /\ pc[t] # "claim"
              /\ req[t].op \in {"allocate", "reverse", "void", "withhold"} => pc[t] # "payLock"
              /\ req[t].op \in {"void", "withhold"} => pc[t] # "invLock"
              /\ req[t].op = "allocate" /\ pc[t] = "invLock" => x = req[t].pay
              /\ req[t].op = "reverse" /\ pc[t] = "readOriginal" => x = req[t].orig
<1>1. \A k : SeqRow(k) \in locks[t] =>
        k = SequenceKind(t) /\ req[t].op \in {"create", "record", "reverse"} /\ pc[t] # "claim"
  BY LocksDiffer DEF HeldBy
<1>2. \A c : CustRow(c) \in locks[t] => pc[t] = "commit"
  BY LocksDiffer DEF HeldBy
<1>3. \A i : InvRow(i) \in locks[t] => Adv(i) \in locks[t]
  BY LocksDiffer DEF HeldBy
<1>4. ASSUME NEW x, Adv(x) \in locks[t]
      PROVE  /\ req[t].op \in {"record", "allocate", "reverse", "void", "withhold"}
             /\ pc[t] # "claim"
             /\ req[t].op \in {"allocate", "reverse", "void", "withhold"} => pc[t] # "payLock"
             /\ req[t].op \in {"void", "withhold"} => pc[t] # "invLock"
             /\ req[t].op = "allocate" /\ pc[t] = "invLock" => x = req[t].pay
             /\ req[t].op = "reverse" /\ pc[t] = "readOriginal" => x = req[t].orig
  BY <1>4, LocksDiffer DEF HeldBy
<1>5. QED
  BY <1>1, <1>2, <1>3, <1>4

\* A transaction holds no lock before it claims a number, before it begins, and
\* nothing but its payment or its sequence before it stands at the invoices.
LEMMA HoldsNothing ==
  ASSUME TypeOK, NEW t \in Txns, HeldBy(t), req[t].op = "none" \/ pc[t] = "claim"
  PROVE  pc[t] # "commit" => locks[t] = {}
<1> SUFFICES ASSUME pc[t] # "commit", NEW lock \in locks[t] PROVE FALSE
  OBVIOUS
<1>1. PICK i \in Invoices : lock = InvRow(i) /\ Adv(i) \in locks[t]
  BY DEF HeldBy
<1>2. QED
  BY <1>1, HolderOf

\* A statement that is granted a lock is granted the one its operation takes there.
LEMMA GrantedLock ==
  ASSUME TypeOK, NEW t \in Txns, ControlOf(t), GuardLockedBy(t), StatusLockedBy(t), HeldBy(t),
         OneLeftToLock(t), Reading(t) \/ Locking(t) \/ Writing(t), NEW lock \in locks'[t],
         lock \notin locks[t]
  PROVE  \/ ClaimNumber(t) /\ lock = SeqRow(SequenceKind(t))
         \/ LockPayment(t) /\ lock = Adv(IF req[t].op = "reverse" THEN req[t].orig ELSE req[t].pay)
         \/ LockInvoice(t) /\ \E i \in Invoices : lock = Adv(i)
         \/ WriteBalance(t) /\ lock = CustRow(req[t].cust)
         \/ \E i \in Invoices : lock = InvRow(i) /\ Adv(i) \in locks[t]
<1> USE DEF TypeOK, ControlTyped
<1>1. Acquire(t) => lock = Wanted(t)
  BY DEF Acquire
<1>2. CASE ClaimNumber(t)
  BY <1>1, <1>2 DEF ClaimNumber, Wanted
<1>3. CASE LockPayment(t)
  BY <1>1, <1>3 DEF LockPayment, Wanted
<1>4. CASE LockInvoice(t)
  <2>1. lock = Adv(InvoiceToLock(t)) /\ pc[t] = "invLock"
    BY <1>1, <1>4 DEF LockInvoice, Wanted
  <2>2. InvoiceToLock(t) \in Invoices
    BY <2>1, InvoiceToLockIs
  <2>3. QED
    BY <1>4, <2>1, <2>2
<1>5. CASE WriteBalance(t)
  BY <1>1, <1>5 DEF WriteBalance, Wanted
<1>6. CASE WriteVoid(t) \/ WriteWithholding(t)
  <2>1. lock = InvRow(req[t].inv) /\ pc[t] \in {"voidWrite", "whtWrite"}
    BY <1>1, <1>6 DEF WriteVoid, WriteWithholding, Wanted
  <2>2. req[t].inv \in Invoices /\ Adv(req[t].inv) \in locks[t]
    BY <2>1 DEF ControlOf, RequestComplete, GuardLockedBy
  <2>3. QED
    BY <2>1, <2>2
<1>7. CASE CasStatus(t)
  <2> DEFINE i == Head(todo[t]).inv
  <2>1. lock = InvRow(i) /\ pc[t] = "cas" /\ todo[t] # <<>>
    BY <1>1, <1>7 DEF CasStatus, Wanted, ControlOf
  <2>2. i \in Invoices
    BY <2>1, HeadIsLine
  <2>3. 1 \in DOMAIN todo[t] /\ Head(todo[t]) = todo[t][1]
    BY <2>1, LinesOf
  <2>4. Pending(t, i)
    BY <2>1, <2>3 DEF Pending
  <2>5. Adv(i) \in locks[t]
    BY <2>2, <2>4 DEF StatusLockedBy
  <2>6. QED
    BY <2>1, <2>2, <2>5
<1>8. CASE Reading(t) \/ InsertAllocation(t) \/ InsertMirrors(t)
  <2>1. locks' = locks
    BY <1>8 DEF Reading, GuardAllocation, GuardVoid, GuardWithholding, ReadOriginal, DeriveStatus,
       ReadInvoiced, ReadUnapplied, InsertAllocation, InsertMirrors
  <2>2. QED
    BY <2>1
<1>9. QED
  BY <1>2, <1>3, <1>4, <1>5, <1>6, <1>7, <1>8 DEF Locking, Writing

\* Which statements lead back to a lock.
LEMMA BackToLocks ==
  ASSUME TypeOK, NEW t \in Txns, ControlOf(t), OneLine(t),
         Reading(t) \/ Locking(t) \/ Writing(t)
  PROVE  /\ pc'[t] # "claim" /\ pc[t] # "commit"
         /\ pc'[t] = "commit" => WriteBalance(t)
         /\ pc'[t] = "payLock" /\ req[t].op # "record" => pc[t] = "claim"
         /\ pc'[t] = "invLock" => LockPayment(t) \/ (LockInvoice(t) /\ req[t].op = "reverse")
                                  \/ ReadOriginal(t)
         /\ pc'[t] = "readOriginal" => pc[t] = "payLock"
         /\ req[t].op = "reverse" /\ pc'[t] = "invLock" => ~LockPayment(t)
<1>1. LockInvoice(t) => req[t].op \in {"record", "allocate", "reverse", "void", "withhold"}
  BY DEF LockInvoice, ControlOf
<1>2. (DeriveStatus(t) \/ CasStatus(t)) /\ req[t].op \in {"allocate", "withhold"} =>
        AfterStatus(t) = "balInvoices"
  BY DEF DeriveStatus, CasStatus, AfterStatus, OneLine, ControlOf
<1>3. (DeriveStatus(t) \/ CasStatus(t)) =>
        req[t].op \in {"record", "allocate", "reverse", "withhold"}
  BY DEF DeriveStatus, CasStatus, ControlOf
<1>4. AfterStatus(t) = "payLock" /\ (DeriveStatus(t) \/ CasStatus(t)) => req[t].op = "record"
  BY <1>2, <1>3, WhereTo
<1>5. CASE Reading(t)
  BY <1>4, <1>5, WhereTo DEF Reading
<1>6. CASE Locking(t)
  BY <1>1, <1>6, WhereTo DEF Locking
<1>7. CASE Writing(t)
  BY <1>4, <1>7, WhereTo DEF Writing
<1>8. QED
  BY <1>5, <1>6, <1>7

\* What a transaction holds fits the statement it stands at, after each of its own.
LEMMA HeldStep ==
  ASSUME TypeOK, NEW t \in Txns, ControlOf(t), GuardLockedBy(t), StatusLockedBy(t), HeldBy(t),
         OneLine(t), OneLeftToLock(t), Turn(t)
  PROVE  HeldBy(t)'
<1>1. CASE Opening(t)
  <2>1. req[t].op = "none" /\ pc[t] = "idle" /\ locks' = locks
    BY <1>1, OpeningFits DEF ControlOf
  <2>2. locks'[t] = {}
    BY <2>1, HoldsNothing
  <2>3. QED
    BY <2>2 DEF HeldBy
<1>2. CASE Ending(t)
  <2>1. locks'[t] = {}
    BY <1>2, EndingClears
  <2>2. QED
    BY <2>1 DEF HeldBy
<1>3. CASE Reading(t) \/ Locking(t) \/ Writing(t)
  <2>1. req' = req /\ locks[t] \subseteq locks'[t]
    BY <1>3, StatementKeeps
  <2> DEFINE op == req[t].op
             p  == IF op = "reverse" THEN req[t].orig ELSE req[t].pay
             Fits(lock) ==
               \/ lock = SeqRow(SequenceKind(t)) /\ op \in {"create", "record", "reverse"}
               \/ /\ op \in {"record", "allocate", "reverse"} /\ lock = Adv(p)
                  /\ op # "record" => pc'[t] # "payLock"
               \/ /\ \E i \in Invoices : lock = Adv(i)
                  /\ op \in {"record", "allocate", "reverse", "void", "withhold"}
                  /\ op \in {"allocate", "void", "withhold"} => pc'[t] \notin {"payLock", "invLock"}
                  /\ op = "reverse" => pc'[t] \notin {"payLock", "readOriginal"}
               \/ \E i \in Invoices : lock = InvRow(i) /\ Adv(i) \in locks'[t]
               \/ lock = CustRow(req[t].cust) /\ pc'[t] = "commit"
  <2>2. pc'[t] # "claim" /\ pc[t] # "commit" /\ (pc'[t] = "commit" => WriteBalance(t))
    BY <1>3, BackToLocks
  <2>3. ASSUME NEW lock \in locks'[t], lock \notin locks[t] PROVE Fits(lock)
    <3>1. CASE ClaimNumber(t) /\ lock = SeqRow(SequenceKind(t))
      BY <3>1 DEF ClaimNumber, ControlOf
    <3>2. CASE LockPayment(t) /\ lock = Adv(p)
      BY <3>2, WhereTo DEF LockPayment, ControlOf
    <3>3. CASE LockInvoice(t) /\ \E i \in Invoices : lock = Adv(i)
      <4>1. op \in {"record", "allocate", "reverse", "void", "withhold"}
        BY <3>3 DEF LockInvoice, ControlOf
      <4>2. /\ op \in {"allocate", "void", "withhold"} => pc'[t] \notin {"payLock", "invLock"}
            /\ op = "reverse" => pc'[t] \notin {"payLock", "readOriginal"}
        BY <3>3, <4>1, WhereTo
      <4>3. QED
        BY <3>3, <4>1, <4>2
    <3>4. CASE WriteBalance(t) /\ lock = CustRow(req[t].cust)
      BY <3>4, WhereTo
    <3>5. CASE \E i \in Invoices : lock = InvRow(i) /\ Adv(i) \in locks[t]
      BY <2>1, <3>5
    <3>6. QED
      BY <1>3, <2>3, <3>1, <3>2, <3>3, <3>4, <3>5, GrantedLock
  <2>4. ASSUME NEW lock \in locks[t] PROVE Fits(lock)
    <3>1. CASE lock = SeqRow(SequenceKind(t)) /\ op \in {"create", "record", "reverse"}
      BY <3>1
    <3>2. CASE /\ op \in {"record", "allocate", "reverse"} /\ lock = Adv(p) /\ pc[t] # "claim"
               /\ op # "record" => pc[t] # "payLock"
      <4>1. op # "record" => pc'[t] # "payLock"
        BY <1>3, <3>2, BackToLocks
      <4>2. QED
        BY <3>2, <4>1
    <3>3. CASE /\ \E i \in Invoices : lock = Adv(i)
               /\ op \in {"record", "allocate", "reverse", "void", "withhold"} /\ pc[t] # "claim"
               /\ op \in {"allocate", "void", "withhold"} => pc[t] \notin {"payLock", "invLock"}
               /\ op = "reverse" => pc[t] \notin {"payLock", "readOriginal"}
      <4>1. op \in {"allocate", "void", "withhold"} => pc'[t] \notin {"payLock", "invLock"}
        BY <1>3, <3>3, BackToLocks DEF LockPayment, ReadOriginal, ControlOf
      <4>2. op = "reverse" => pc'[t] \notin {"payLock", "readOriginal"}
        BY <1>3, <3>3, BackToLocks
      <4>3. QED
        BY <3>3, <4>1, <4>2
    <3>4. CASE \E i \in Invoices : lock = InvRow(i) /\ Adv(i) \in locks[t]
      BY <2>1, <3>4
    <3>5. pc[t] # "commit"
      BY <2>2
    <3>6. QED
      BY <3>1, <3>2, <3>3, <3>4, <3>5 DEF HeldBy
  <2>5. SequenceKind(t)' = SequenceKind(t)
    BY <2>1 DEF SequenceKind
  <2>6. \A lock \in locks'[t] : Fits(lock)
    BY <2>3, <2>4
  <2>7. QED
    BY <2>1, <2>2, <2>5, <2>6 DEF HeldBy
<1>4. QED
  BY <1>1, <1>2, <1>3 DEF Turn

\* allocate() has its one line until it has dealt with it.
LEMMA OneLineStep ==
  ASSUME TypeOK, NEW t \in Txns, ControlOf(t), OneLine(t), Turn(t)
  PROVE  OneLine(t)'
<1> DEFINE Busy == {"payLock", "invLock", "guard", "insert", "derive", "cas"}
<1>1. CASE Opening(t)
  BY <1>1, OpeningFits DEF OneLine
<1>2. CASE Ending(t)
  <2>1. req'[t].op = "none"
    BY <1>2, EndingClears DEF NoRequest, Ask
  <2>2. QED
    BY <2>1 DEF OneLine
<1>3. CASE Reading(t) \/ Locking(t) \/ Writing(t)
  <2> SUFFICES ASSUME req'[t].op = "allocate", pc'[t] \in Busy
               PROVE  Len(todo'[t]) = 1
    BY DEF OneLine
  <2>1. req[t].op = "allocate"
    BY <1>3, StatementKeeps
  <2>2. ~ClaimNumber(t) /\ ~ReadOriginal(t) /\ ~InsertMirrors(t)
    BY <2>1 DEF ClaimNumber, ReadOriginal, InsertMirrors, ControlOf
  <2>3. CASE (DeriveStatus(t) \/ CasStatus(t)) /\ pc'[t] = AfterStatus(t)
    <3>1. Len(todo[t]) = 1
      BY <2>1, <2>3 DEF OneLine, DeriveStatus, CasStatus
    <3>2. AfterStatus(t) = "balInvoices"
      BY <3>1 DEF AfterStatus
    <3>3. QED
      BY <2>3, <3>2
  <2>4. CASE ~((DeriveStatus(t) \/ CasStatus(t)) /\ pc'[t] = AfterStatus(t))
    <3>1. todo' = todo
      <4>1. CASE DeriveStatus(t)
        BY <2>4, <4>1 DEF DeriveStatus, Goto, TypeOK, ControlTyped
      <4>2. CASE CasStatus(t)
        BY <2>4, <4>2, WhereTo
      <4>3. CASE ~DeriveStatus(t) /\ ~CasStatus(t)
        BY <1>3, <2>2, <4>3 DEF Reading, GuardAllocation, GuardVoid, GuardWithholding,
           ReadInvoiced, ReadUnapplied, Locking, LockPayment, LockInvoice, WriteBalance,
           Writing, InsertAllocation, WriteVoid, WriteWithholding
      <4>4. QED
        BY <4>1, <4>2, <4>3
    <3>2. pc[t] \in Busy
      <4>1. ~WriteVoid(t) /\ ~WriteWithholding(t) /\ ~GuardVoid(t) /\ ~GuardWithholding(t)
        BY <2>1 DEF WriteVoid, WriteWithholding, GuardVoid, GuardWithholding, ControlOf
      <4>2. QED
        BY <1>3, <2>2, <4>1, WhereTo DEF Reading, Locking, Writing
    <3>3. QED
      BY <2>1, <3>1, <3>2 DEF OneLine
  <2>5. QED
    BY <2>3, <2>4
<1>4. QED
  BY <1>1, <1>2, <1>3 DEF Turn

\* A reversal locks its invoices until none is left.
LEMMA OneLeftStep ==
  ASSUME TypeOK, NEW t \in Txns, ControlOf(t), HeldBy(t), OneLine(t), Turn(t)
  PROVE  OneLeftToLock(t)'
<1>1. CASE Opening(t)
  BY <1>1, OpeningFits DEF OneLeftToLock, BeginsAt
<1>2. CASE Ending(t)
  <2>1. req'[t].op = "none"
    BY <1>2, EndingClears DEF NoRequest, Ask
  <2>2. QED
    BY <2>1 DEF OneLeftToLock
<1>3. CASE Reading(t) \/ Locking(t) \/ Writing(t)
  <2> SUFFICES ASSUME req'[t].op = "reverse", pc'[t] = "invLock"
               PROVE  \E n \in DOMAIN todo'[t] : Adv(todo'[t][n].inv) \notin locks'[t]
    BY DEF OneLeftToLock
  <2>1. req[t].op = "reverse" /\ RequestComplete(req[t])
    BY <1>3, StatementKeeps DEF TypeOK, ControlTyped
  <2>2. LockInvoice(t) \/ ReadOriginal(t)
    BY <1>3, <2>1, BackToLocks
  <2>3. CASE LockInvoice(t)
    <3>1. /\ todo' = todo /\ locks'[t] = locks[t] \cup {Wanted(t)}
          /\ pc'[t] = AfterInvoiceLock(t)
      BY <2>3 DEF LockInvoice, Acquire, Goto, TypeOK, ControlTyped
    <3>2. ~AllLocked(t)
      BY <2>1, <3>1 DEF AfterInvoiceLock
    <3>3. QED
      BY <3>1, <3>2 DEF AllLocked
  <2>4. CASE ReadOriginal(t)
    <3>1. PICK list \in InvoiceLists :
            /\ todo' = [todo EXCEPT ![t] = [n \in DOMAIN list |->
                          [inv |-> list[n], amt |-> -alloc[req[t].orig][list[n]]]]]
            /\ Goto(t, IF list = <<>> THEN "mirror" ELSE "invLock")
      BY <2>4 DEF ReadOriginal
    <3>2. PICK k \in Nat : list \in [1..k -> Invoices]
      BY InvoiceListsAreLists
    <3>3. list # <<>>
      BY <3>1 DEF Goto, TypeOK, ControlTyped
    <3>4. k # 0
      <4>1. list \in Seq(Invoices) /\ Len(list) = k
        BY <3>2
      <4>2. QED
        BY <3>3, <4>1, EmptySeq
    <3>5. 1 \in DOMAIN list /\ list[1] \in Invoices
      BY <3>2, <3>4
    <3>6. todo'[t] = [n \in DOMAIN list |->
                        [inv |-> list[n], amt |-> -alloc[req[t].orig][list[n]]]]
      BY <3>1 DEF TypeOK, ControlTyped
    <3>7. 1 \in DOMAIN todo'[t] /\ todo'[t][1].inv = list[1]
      BY <3>5, <3>6
    <3>8. Adv(list[1]) \notin locks[t]
      <4>1. req[t].orig \in Payments /\ pc[t] = "readOriginal"
        BY <2>1, <2>4 DEF RequestComplete, ReadOriginal
      <4>2. list[1] # req[t].orig
        BY <3>5, <4>1, IdsAreDistinct
      <4>3. QED
        BY <2>1, <4>1, <4>2, HolderOf
    <3>9. locks' = locks
      BY <2>4 DEF ReadOriginal
    <3>10. QED
      BY <3>7, <3>8, <3>9
  <2>5. QED
    BY <2>2, <2>3, <2>4
<1>4. QED
  BY <1>1, <1>2, <1>3 DEF Turn

-----------------------------------------------------------------------------
(* The invariant of waiting.                                               *)

\* Nobody holds a lock to begin with.
LEMMA WaitInit == Init => WaitInvariant
<1> SUFFICES ASSUME Init PROVE WaitInvariant
  OBVIOUS
<1>1. NoRequest.op = "none"
  BY DEF NoRequest, Ask
<1>2. QED
  BY <1>1 DEF Init, WaitInvariant, HeldBy, OneLine, OneLeftToLock

\* A turn keeps what is held fitting.
LEMMA WaitTurn ==
  ASSUME SettlementInvariant, StatusInvariant, WaitInvariant, NEW t \in Txns, Turn(t)
  PROVE  WaitInvariant'
<1>1. /\ TypeOK /\ Step(t) /\ ControlOf(t) /\ GuardLockedBy(t) /\ StatusLockedBy(t)
      /\ \A u \in Txns : HeldBy(u) /\ OneLine(u) /\ OneLeftToLock(u)
  BY TurnIsStep DEF SettlementInvariant, ControlOK, GuardsAreLocked, StatusInvariant, WaitInvariant
<1>2. HeldBy(t)' /\ OneLine(t)' /\ OneLeftToLock(t)'
  BY <1>1, HeldStep, OneLineStep, OneLeftStep
<1>3. ASSUME NEW u \in Txns, u # t PROVE HeldBy(u)' /\ OneLine(u)' /\ OneLeftToLock(u)'
  <2>1. /\ pc'[u] = pc[u] /\ req'[u] = req[u] /\ todo'[u] = todo[u] /\ locks'[u] = locks[u]
        /\ HeldBy(u) /\ OneLine(u) /\ OneLeftToLock(u)
    BY <1>1, <1>3, OthersStay DEF Same
  <2>2. HeldBy(u)'
    BY <2>1 DEF HeldBy, SequenceKind
  <2>3. OneLine(u)' /\ OneLeftToLock(u)'
    BY <2>1 DEF OneLine, OneLeftToLock
  <2>4. QED
    BY <2>2, <2>3
<1>4. QED
  BY <1>2, <1>3 DEF WaitInvariant

\* Waiting does not depend on the sweeps.
LEMMA WaitStutter ==
  ASSUME WaitInvariant, UNCHANGED <<pc, req, todo, locks>>
  PROVE  WaitInvariant'
<1>1. ASSUME NEW t \in Txns PROVE HeldBy(t)' /\ OneLine(t)' /\ OneLeftToLock(t)'
  <2>1. HeldBy(t) /\ OneLine(t) /\ OneLeftToLock(t)
    BY DEF WaitInvariant
  <2>2. HeldBy(t)'
    BY <2>1 DEF HeldBy, SequenceKind
  <2>3. OneLine(t)' /\ OneLeftToLock(t)'
    BY <2>1 DEF OneLine, OneLeftToLock
  <2>4. QED
    BY <2>2, <2>3
<1>2. QED
  BY <1>1 DEF WaitInvariant

\* Every step keeps what is held fitting.
LEMMA WaitStep ==
  SettlementInvariant /\ StatusInvariant /\ WaitInvariant /\ [Next]_vars => WaitInvariant'
<1> SUFFICES ASSUME SettlementInvariant, StatusInvariant, WaitInvariant, [Next]_vars
             PROVE  WaitInvariant'
  OBVIOUS
<1>1. CASE UNCHANGED vars
  BY <1>1, WaitStutter DEF vars
<1>2. ASSUME NEW n \in Crons, StartSweep(n) PROVE WaitInvariant'
  BY <1>2, WaitStutter DEF StartSweep
<1>3. QED
  BY <1>1, <1>2, WaitTurn, NextIsATurn

\* What is held fits in every run.
LEMMA WaitsHold == Spec => []WaitInvariant
<1>1. QED
  BY WaitInit, WaitStep, SettlementHolds, StatusHolds, PTL DEF Spec

\* Null is not a lock.
LEMMA NothingIsNoLock ==
  ASSUME TypeOK, NEW t \in Txns, ControlOf(t), HeldBy(t)
  PROVE  None \notin locks[t]
<1> SUFFICES ASSUME None \in locks[t] PROVE FALSE
  OBVIOUS
<1>1. /\ SequenceKind(t) \in Kinds
      /\ req[t].op # "none" => req[t].cust \in Customers
      /\ req[t].op \in {"record", "allocate", "reverse"} => req[t].pay \in Payments
      /\ req[t].op = "reverse" => req[t].orig \in Payments
  BY DEF SequenceKind, Kinds, TypeOK, ControlTyped, RequestComplete
<1>2. pc[t] = "commit" => req[t].op # "none"
  BY DEF ControlOf
<1>3. /\ None # SeqRow(SequenceKind(t))
      /\ \A x \in Invoices \cup Payments : None # Adv(x) /\ None # InvRow(x)
      /\ \A c \in Customers : None # CustRow(c)
  BY <1>1, NullIsNoLock DEF SeqRow, Adv, InvRow, CustRow
<1>4. QED
  BY <1>1, <1>3, <1>2 DEF HeldBy

\* A transaction that waits for one that itself waits stands before its number, its
\* payment or an invoice.
LEMMA WhereToWait ==
  ASSUME SettlementInvariant, StatusInvariant, WaitInvariant,
         NEW t \in Txns, NEW u \in Txns, WaitsFor(t, u), pc[u] # "commit"
  PROVE  \/ pc[t] = "claim" /\ SeqRow(SequenceKind(t)) \in locks[u]
         \/ /\ pc[t] = "payLock"
            /\ Adv(IF req[t].op = "reverse" THEN req[t].orig ELSE req[t].pay) \in locks[u]
         \/ pc[t] = "invLock" /\ \E i \in Invoices : Adv(i) \in locks[u]
<1>1. /\ TypeOK /\ LocksExclusive /\ ControlOf(t) /\ GuardLockedBy(t) /\ StatusLockedBy(t)
      /\ ControlOf(u) /\ HeldBy(u) /\ OneLeftToLock(t) /\ t # u /\ Wanted(t) \in locks[u]
  BY DEF SettlementInvariant, ControlOK, GuardsAreLocked, StatusInvariant, WaitInvariant, WaitsFor
<1>2. ASSUME NEW i, InvRow(i) \in locks[u] PROVE Adv(i) \notin locks[t]
  <2>1. Adv(i) \in locks[u]
    BY <1>1, <1>2, HolderOf
  <2>2. QED
    BY <1>1, <2>1 DEF LocksExclusive
<1>3. CASE pc[t] = "claim"
  BY <1>1, <1>3 DEF Wanted
<1>4. CASE pc[t] = "payLock"
  BY <1>1, <1>4 DEF Wanted
<1>5. CASE pc[t] = "invLock"
  <2>1. Adv(InvoiceToLock(t)) \in locks[u]
    BY <1>1, <1>5 DEF Wanted
  <2>2. QED
    BY <1>1, <1>5, <2>1, InvoiceToLockIs
<1>6. CASE pc[t] \in {"voidWrite", "whtWrite"}
  <2>1. InvRow(req[t].inv) \in locks[u]
    BY <1>1, <1>6 DEF Wanted
  <2>2. Adv(req[t].inv) \in locks[t]
    BY <1>1, <1>6 DEF GuardLockedBy
  <2>3. QED
    BY <1>2, <2>1, <2>2
<1>7. CASE pc[t] = "cas"
  <2> DEFINE i == Head(todo[t]).inv
  <2>1. InvRow(i) \in locks[u] /\ todo[t] # <<>>
    BY <1>1, <1>7 DEF Wanted, ControlOf
  <2>2. i \in Invoices /\ 1 \in DOMAIN todo[t] /\ Head(todo[t]) = todo[t][1]
    BY <1>1, <2>1, HeadIsLine, LinesOf DEF TypeOK
  <2>3. Pending(t, i)
    BY <1>7, <2>2 DEF Pending
  <2>4. Adv(i) \in locks[t]
    BY <1>1, <2>2, <2>3 DEF StatusLockedBy
  <2>5. QED
    BY <1>2, <2>1, <2>4
<1>8. CASE pc[t] = "balWrite"
  <2>1. CustRow(req[t].cust) \in locks[u]
    BY <1>1, <1>8 DEF Wanted
  <2>2. QED
    BY <1>1, <2>1, HolderOf
<1>9. CASE pc[t] \notin {"claim", "payLock", "invLock", "voidWrite", "whtWrite", "cas", "balWrite"}
  <2>1. None \in locks[u]
    BY <1>1, <1>9 DEF Wanted
  <2>2. QED
    BY <1>1, <2>1, NothingIsNoLock
<1>10. QED
  BY <1>3, <1>4, <1>5, <1>6, <1>7, <1>8, <1>9

\* One that waits, and that another waits for, is an allocation before its invoice
\* with nothing but its payment locked, or has claimed a receipt number.
LEMMA WaitingHolder ==
  ASSUME SettlementInvariant, NumberInvariant, WaitInvariant, NEW t \in Txns,
         locks[t] # {}, pc[t] \in {"claim", "payLock", "invLock"}
  PROVE  /\ pc[t] \in {"payLock", "invLock"}
         /\ \/ req[t].op = "allocate" /\ pc[t] = "invLock" /\ locks[t] \subseteq {Adv(req[t].pay)}
            \/ req[t].op \in {"record", "reverse"} /\ SeqRow("RECEIPT") \in locks[t]
<1>1. TypeOK /\ ControlOf(t) /\ HeldBy(t) /\ NumberHeldBy(t)
  BY DEF SettlementInvariant, ControlOK, NumberInvariant, WaitInvariant
<1>2. pc[t] \in {"payLock", "invLock"}
  BY <1>1, HoldsNothing
<1>3. req[t].op \in {"record", "allocate", "reverse", "void", "withhold"}
  BY <1>1, <1>2 DEF ControlOf
<1>4. CASE req[t].op \in {"record", "reverse"}
  <2>1. num[t] # 0 /\ SequenceKind(t) = "RECEIPT"
    BY <1>1, <1>2, <1>4 DEF NumberHeldBy, SequenceKind
  <2>2. QED
    BY <1>1, <1>2, <1>4, <2>1 DEF NumberHeldBy
<1>5. ASSUME req[t].op \in {"allocate", "void", "withhold"}, NEW lock \in locks[t]
      PROVE  req[t].op = "allocate" /\ pc[t] = "invLock" /\ lock = Adv(req[t].pay)
  <2>1. PICK y : Adv(y) \in locks[t] /\ (lock = Adv(y) \/ lock = InvRow(y))
    BY <1>1, <1>2, <1>5 DEF HeldBy
  <2>2. req[t].op = "allocate" /\ pc[t] = "invLock"
    BY <1>1, <1>2, <1>5, <2>1, HolderOf
  <2>3. ASSUME lock = InvRow(y) PROVE FALSE
    <3>1. y \in Invoices
      BY <1>1, <1>5, <2>2, <2>3, LocksDiffer DEF HeldBy
    <3>2. y = req[t].pay /\ req[t].pay \in Payments
      BY <1>1, <2>1, <2>2, HolderOf DEF TypeOK, ControlTyped, RequestComplete
    <3>3. QED
      BY <3>1, <3>2, IdsAreDistinct
  <2>4. QED
    BY <1>1, <2>1, <2>2, <2>3, HolderOf
<1>6. QED
  BY <1>2, <1>3, <1>4, <1>5

\* No set of transactions in which each waits for one of the set.
LEMMA NoCircle ==
  ASSUME SettlementInvariant, PaymentInvariant, StatusInvariant, NumberInvariant, WaitInvariant,
         NEW S \in SUBSET Txns, S # {}, \A t \in S : \E u \in S : WaitsFor(t, u)
  PROVE  FALSE
<1>1. TypeOK /\ LocksExclusive
  BY DEF SettlementInvariant
<1>2. \A t \in S : ControlOf(t) /\ HeldBy(t) /\ RequestFits(t)
  BY DEF SettlementInvariant, ControlOK, PaymentInvariant, WaitInvariant
<1>3. ASSUME NEW u \in S, pc[u] = "commit" PROVE FALSE
  <2>1. PICK v \in S : Wanted(u) \in locks[v]
    BY DEF WaitsFor
  <2>2. Wanted(u) = None
    BY <1>3 DEF Wanted
  <2>3. QED
    BY <1>1, <1>2, <2>1, <2>2, NothingIsNoLock
<1>4. \A t \in S : pc[t] \in {"claim", "payLock", "invLock"}
  <2>1. ASSUME NEW t \in S PROVE pc[t] \in {"claim", "payLock", "invLock"}
    <3>1. PICK u \in S : WaitsFor(t, u)
      OBVIOUS
    <3>2. QED
      BY <1>3, <3>1, WhereToWait
  <2>2. QED
    BY <2>1
<1> DEFINE Waits(t, u) == /\ t \in S /\ u \in S /\ WaitsFor(t, u) /\ u # t /\ locks[u] # {}
<1>5. ASSUME NEW t \in S PROVE \E u \in S : Waits(t, u)
  <2>1. PICK u \in S : WaitsFor(t, u)
    OBVIOUS
  <2>2. locks[u] # {} /\ u # t
    BY <2>1 DEF WaitsFor
  <2>3. QED
    BY <2>1, <2>2
<1> DEFINE Allocates(t) == /\ t \in S /\ req[t].op = "allocate" /\ pc[t] = "invLock"
                           /\ locks[t] \subseteq {Adv(req[t].pay)} /\ req[t].pay \in Payments
           Receives(t)  == /\ t \in S /\ req[t].op \in {"record", "reverse"}
                           /\ pc[t] \in {"payLock", "invLock"} /\ SeqRow("RECEIPT") \in locks[t]
\* Whoever is waited for allocates or has claimed the receipt number.
<1>6. ASSUME NEW t \in S, locks[t] # {} PROVE Allocates(t) \/ Receives(t)
  <2>1. req[t].op = "allocate" => req[t].pay \in Payments
    BY <1>1, <1>2 DEF TypeOK, ControlTyped, RequestComplete
  <2>2. QED
    BY <1>4, <1>6, <2>1, WaitingHolder
<1>7. \A t, u : Receives(t) /\ Receives(u) => t = u
  BY <1>1 DEF LocksExclusive
\* The holder of an invoice's lock does not allocate.
<1>8. ASSUME NEW t, Allocates(t), NEW i \in Invoices, Adv(i) \in locks[t] PROVE FALSE
  BY <1>8, IdsAreDistinct, LocksDiffer
<1> HIDE DEF Allocates, Receives
<1>9. ASSUME NEW t, NEW u, Waits(t, u), Allocates(t)
      PROVE  Receives(u) /\ \E i \in Invoices : Adv(i) \in locks[u]
  <2>1. pc[t] = "invLock" /\ pc[u] # "commit"
    BY <1>3, <1>9 DEF Allocates
  <2>2. PICK i \in Invoices : Adv(i) \in locks[u]
    BY <1>9, <2>1, WhereToWait
  <2>3. QED
    BY <1>6, <1>8, <1>9, <2>2
<1>10. \E r : Receives(r)
  <2>1. PICK t \in S : TRUE
    OBVIOUS
  <2>2. PICK u \in S : Waits(t, u)
    BY <1>5
  <2>3. PICK v \in S : Waits(u, v)
    BY <1>5
  <2>4. QED
    BY <1>6, <1>9, <2>2, <2>3
<1>11. PICK r : Receives(r)
  BY <1>10
<1>12. r \in S
  BY <1>11 DEF Receives
<1>13. PICK x \in S : Waits(r, x)
  BY <1>5, <1>12
<1>14. Allocates(x)
  BY <1>6, <1>7, <1>11, <1>13
<1>15. PICK y \in S : Waits(x, y)
  BY <1>5
<1>16. Receives(y) /\ \E i \in Invoices : Adv(i) \in locks[y]
  BY <1>9, <1>14, <1>15
<1>17. PICK j \in Invoices : Adv(j) \in locks[r]
  BY <1>7, <1>11, <1>16
<1>18. pc[x] # "commit" /\ WaitsFor(r, x)
  BY <1>3, <1>13
<1>19. CASE pc[r] = "payLock"
  <2>1. req[r].op = "record"
    BY <1>1, <1>2, <1>11, <1>12, <1>17, <1>19, HolderOf DEF Receives
  <2>2. Adv(req[r].pay) \in locks[x]
    BY <1>12, <1>18, <1>19, <2>1, WhereToWait
  <2>3. req[r].pay = req[x].pay
    BY <1>14, <2>2, LocksDiffer DEF Allocates
  <2>4. RequestFits(r) /\ InsertsPayment(r) /\ x # r
    BY <1>2, <1>12, <1>13, <2>1 DEF InsertsPayment
  <2>5. QED
    BY <2>3, <2>4 DEF RequestFits
<1>20. CASE pc[r] = "invLock"
  <2>1. \E i \in Invoices : Adv(i) \in locks[x]
    BY <1>12, <1>18, <1>20, WhereToWait
  <2>2. QED
    BY <1>8, <1>14, <2>1
<1>21. QED
  BY <1>11, <1>19, <1>20 DEF Receives

\* The transactions of the receivables ledger never wait for each other in a circle,
\* whatever payments, allocations, reversals, voids and withholdings run at once: the
\* order in which the methods of payments.repository.ts and invoices.repository.ts
\* take their locks (sequence, payment, invoices) admits no circle, for any invoices
\* and any number of connections.
THEOREM NoCircleWaits == Spec => []NoDeadlock
<1>1. SettlementInvariant /\ PaymentInvariant /\ StatusInvariant /\ NumberInvariant /\ WaitInvariant
        => NoDeadlock
  <2> SUFFICES ASSUME SettlementInvariant, PaymentInvariant, StatusInvariant, NumberInvariant,
                      WaitInvariant, NEW S \in (SUBSET Txns) \ {{}},
                      \A t \in S : \E u \in S : WaitsFor(t, u)
               PROVE  FALSE
    BY DEF NoDeadlock
  <2>1. QED
    BY NoCircle
<1>2. QED
  BY <1>1, SettlementHolds, PaymentsHold, StatusHolds, NumbersHold, WaitsHold, PTL

-----------------------------------------------------------------------------
(* Sums of rows.                                                           *)

\* What one invoice has of each payment, and what all payments give it.
ColumnOf(table, i) == [p \in Payments |-> table[p][i]]
ColumnTotal(table, i) == MapThenSumSet(LAMBDA p : table[p][i], Payments)
RowTotal(row) == MapThenSumSet(LAMBDA i : row[i], Invoices)

\* What all payments give an invoice is the sum of what each gives it.
LEMMA ColumnSum ==
  ASSUME NEW table \in [Payments -> [Invoices -> Int]], NEW i \in Invoices
  PROVE  ColumnTotal(table, i) = SumOver(ColumnOf(table, i), Payments)
<1> DEFINE w == ColumnOf(table, i)
           Adds(g) == g = [s \in SUBSET Payments |->
                             IF s = {} THEN 0 ELSE table[CHOOSE x \in s : TRUE][i]
                                                   + g[s \ {CHOOSE x \in s : TRUE}]]
<1>1. ColumnTotal(table, i) = (CHOOSE g : Adds(g))[Payments]
  BY DEF ColumnTotal, MapThenSumSet, MapThenFoldSet
<1>2. w \in [Payments -> Int] /\ \A p \in Payments : w[p] = table[p][i]
  BY DEF ColumnOf
<1> HIDE DEF w
<1>3. PICK f \in [SUBSET Payments -> Int] : SumsUp(f, w, Payments)
  BY <1>2, PaymentsAreFinite, SumsExist
<1>4. Adds(f)
  <2>1. ASSUME NEW s \in SUBSET Payments
        PROVE  f[s] = IF s = {} THEN 0 ELSE table[CHOOSE x \in s : TRUE][i]
                                             + f[s \ {CHOOSE x \in s : TRUE}]
    <3>1. f[s] = IF s = {} THEN 0 ELSE w[Pick(s)] + f[s \ {Pick(s)}]
      BY <1>3 DEF SumsUp
    <3>2. s # {} => Pick(s) \in Payments
      BY DEF Pick
    <3>3. QED
      BY <1>2, <3>1, <3>2 DEF Pick
  <2>2. QED
    BY <2>1
<1>5. Adds(CHOOSE g : Adds(g))
  BY <1>4, Zenon
<1>6. \A g : Adds(g) => SumsUp(g, w, Payments)
  <2>1. \A s \in SUBSET Payments : s # {} => Pick(s) \in Payments
    BY DEF Pick
  <2>2. QED
    BY <1>2, <2>1 DEF SumsUp, Pick
<1>7. AddsUp(w, Payments)
  BY <1>2, PaymentsAreFinite, SumsAdd
<1> HIDE DEF Adds
<1>8. QED
  BY <1>1, <1>5, <1>6, <1>7 DEF AddsUp, w

\* The stored sums, in the terms of the lemmas about sums.
LEMMA AggregatesAre ==
  AggregatesExact <=> /\ \A i \in Invoices : invSum[i] = ColumnTotal(alloc, i)
                      /\ \A p \in Payments : paySum[p] = RowTotal(alloc[p])
BY DEF AggregatesExact, ColumnTotal, RowTotal, MapThenSumSet, MapThenFoldSet

\* What is spent, in the terms of the lemmas about sums.
LEMMA SpentIs ==
  \A t : SpentIsOfRows(t) <=> spent[t] = RowTotal(rows[t])
BY DEF SpentIsOfRows, RowTotal, MapThenSumSet, MapThenFoldSet

\* What a payment gives all invoices is the sum of its row.
LEMMA RowSum == \A row : RowTotal(row) = SumOver(row, Invoices)
BY DEF RowTotal, SumOver, MapThenSumSet, MapThenFoldSet


\* The same of the state after a step.
LEMMA AggregatesAreNext ==
  /\ AggregatesExact' <=> /\ \A i \in Invoices : invSum'[i] = ColumnTotal(alloc', i)
                          /\ \A p \in Payments : paySum'[p] = RowTotal(alloc'[p])
  /\ \A t : SpentIsOfRows(t)' <=> spent'[t] = RowTotal(rows'[t])
BY DEF AggregatesExact, SpentIsOfRows, ColumnTotal, RowTotal, MapThenSumSet, MapThenFoldSet

\* Sums of nothing.
LEMMA NothingMakesNothing ==
  /\ \A row \in [Invoices -> Int] : (\A i \in Invoices : row[i] = 0) => RowTotal(row) = 0
  /\ \A table \in [Payments -> [Invoices -> Int]], i \in Invoices :
       (\A p \in Payments : table[p][i] = 0) => ColumnTotal(table, i) = 0
<1>1. ASSUME NEW row \in [Invoices -> Int], \A i \in Invoices : row[i] = 0 PROVE RowTotal(row) = 0
  <2>1. SumOver(row, Invoices) = 0
    BY <1>1, InvoicesAreOrdered, SumOfNothing
  <2>2. QED
    BY <2>1, RowSum
<1>2. ASSUME NEW table \in [Payments -> [Invoices -> Int]], NEW i \in Invoices,
             \A p \in Payments : table[p][i] = 0
      PROVE  ColumnTotal(table, i) = 0
  <2> DEFINE w == ColumnOf(table, i)
  <2>1. w \in [Payments -> Int] /\ \A p \in Payments : w[p] = 0
    BY <1>2 DEF ColumnOf
  <2> HIDE DEF w
  <2>2. SumOver(w, Payments) = 0
    BY <2>1, PaymentsAreFinite, SumOfNothing
  <2>3. QED
    BY <2>2, ColumnSum DEF w
<1>3. QED
  BY <1>1, <1>2

\* A row added to another adds its sum.
LEMMA RowsAddUp ==
  ASSUME NEW a \in [Invoices -> Int], NEW b \in [Invoices -> Int], NEW c \in [Invoices -> Int],
         \A i \in Invoices : a[i] = b[i] + c[i]
  PROVE  RowTotal(a) = RowTotal(b) + RowTotal(c)
<1>1. SumOver(a, Invoices) = SumOver(b, Invoices) + SumOver(c, Invoices)
  <2>1. Both(a, b, c, Invoices)
    BY DEF Both
  <2>2. QED
    BY <2>1, InvoicesAreOrdered, SumOfBoth
<1>2. QED
  BY <1>1, RowSum

\* An invoice has as much more of all payments as of the one that gives it more.
LEMMA ColumnGrows ==
  ASSUME NEW a \in [Payments -> [Invoices -> Int]], NEW b \in [Payments -> [Invoices -> Int]],
         NEW i \in Invoices, NEW p \in Payments, NEW d \in Int,
         a[p][i] = b[p][i] + d, \A q \in Payments \ {p} : a[q][i] = b[q][i]
  PROVE  ColumnTotal(a, i) = ColumnTotal(b, i) + d
<1> DEFINE v == ColumnOf(a, i)
           w == ColumnOf(b, i)
<1>1. /\ v \in [Payments -> Int] /\ w \in [Payments -> Int]
      /\ MoreOf(v, w, Payments, p, d)
  BY DEF ColumnOf, MoreOf
<1>2. ColumnTotal(a, i) = SumOver(v, Payments) /\ ColumnTotal(b, i) = SumOver(w, Payments)
  BY ColumnSum
<1> HIDE DEF v, w
<1>3. SumOver(v, Payments) = SumOver(w, Payments) + d
  BY <1>1, PaymentsAreFinite, SumOfOneMore
<1>4. QED
  BY <1>2, <1>3

-----------------------------------------------------------------------------
(* The stored sums stay exact.                                             *)

\* The stored sums follow the rows a commit publishes.
LEMMA AggregatesStep ==
  ASSUME TypeOK, TypeOK', SumsInvariant, NEW t \in Txns, DraftsLockedBy(t), RequestFits(t), Step(t)
  PROVE  AggregatesExact'
<1>1. CASE ~Commit(t)
  <2>1. UNCHANGED <<alloc, invSum, paySum>>
    BY <1>1, OnlyCommitWrites DEF database
  <2>2. QED
    BY <2>1, AggregatesAre, AggregatesAreNext DEF SumsInvariant
<1>2. CASE Commit(t)
  <2>1. /\ alloc \in [Payments -> [Invoices -> Int]] /\ alloc' \in [Payments -> [Invoices -> Int]]
        /\ rows[t] \in [Invoices -> Int]
    BY DEF TypeOK, CommittedTyped, DraftsTyped
  <2>2. /\ \A i \in Invoices : invSum[i] = ColumnTotal(alloc, i)
        /\ \A p \in Payments : paySum[p] = RowTotal(alloc[p])
        /\ spent[t] = RowTotal(rows[t])
    BY AggregatesAre, SpentIs DEF SumsInvariant
  <2>3. ASSUME NEW i \in Invoices PROVE invSum'[i] = ColumnTotal(alloc', i)
    <3>1. invSum'[i] = invSum[i] + rows[t][i] /\ rows[t][i] \in Int /\ invSum[i] \in Int
      BY <1>2, <2>1 DEF Commit, AllocatedSeen, TypeOK, CommittedTyped
    <3>2. CASE req[t].pay \in Payments
      <4>1. /\ alloc'[req[t].pay][i] = alloc[req[t].pay][i] + rows[t][i]
            /\ \A q \in Payments \ {req[t].pay} : alloc'[q][i] = alloc[q][i]
        BY <1>2, <3>2, RowsOfATurn
      <4>2. ColumnTotal(alloc', i) = ColumnTotal(alloc, i) + rows[t][i]
        BY <2>1, <3>1, <3>2, <4>1, ColumnGrows
      <4>3. QED
        BY <2>2, <3>1, <4>2
    <3>3. CASE req[t].pay \notin Payments
      <4>1. rows[t][i] = 0
        BY <3>3 DEF DraftsLockedBy, TypeOK, ControlTyped, RequestComplete
      <4>2. alloc' = alloc
        <5>1. \A p \in Payments, j \in Invoices : alloc'[p][j] = alloc[p][j]
          BY <1>2, <3>3, RowsOfATurn
        <5>2. \A p \in Payments : alloc'[p] = alloc[p]
          BY <2>1, <5>1
        <5>3. QED
          BY <2>1, <5>2
      <4>3. QED
        BY <2>2, <3>1, <4>1, <4>2
    <3>4. QED
      BY <3>2, <3>3
  <2>4. ASSUME NEW p \in Payments PROVE paySum'[p] = RowTotal(alloc'[p])
    <3>1. CASE req[t].pay = p
      <4>1. /\ paySum'[p] = paySum[p] + spent[t]
            /\ \A i \in Invoices : alloc'[p][i] = alloc[p][i] + rows[t][i]
        BY <1>2, <3>1, RowsOfATurn
      <4>2. alloc[p] \in [Invoices -> Int] /\ alloc'[p] \in [Invoices -> Int]
        BY <2>1
      <4>3. RowTotal(alloc'[p]) = RowTotal(alloc[p]) + RowTotal(rows[t])
        BY <2>1, <4>1, <4>2, RowsAddUp
      <4>4. QED
        BY <2>2, <4>1, <4>3
    <3>2. CASE req[t].pay # p
      <4>1. paySum'[p] = paySum[p] /\ \A i \in Invoices : alloc'[p][i] = alloc[p][i]
        BY <1>2, <3>2, RowsOfATurn
      <4>2. alloc'[p] = alloc[p]
        BY <2>1, <4>1
      <4>3. QED
        BY <2>2, <4>1, <4>2
    <3>3. QED
      BY <3>1, <3>2
  <2>5. QED
    BY <2>3, <2>4, AggregatesAreNext
<1>3. QED
  BY <1>1, <1>2

\* What a transaction counts as spent follows the rows it writes.
LEMMA SpentStep ==
  ASSUME TypeOK, TypeOK', SumsInvariant, NEW t \in Txns, ControlOf(t), MirrorsOf(t), Turn(t)
  PROVE  SpentIsOfRows(t)'
<1>1. spent[t] = RowTotal(rows[t]) /\ \A p \in Payments : paySum[p] = RowTotal(alloc[p])
  BY AggregatesAre, SpentIs DEF SumsInvariant
<1>2. rows[t] \in [Invoices -> Int] /\ rows'[t] \in [Invoices -> Int]
  BY DEF TypeOK, DraftsTyped
<1>3. CASE Ending(t)
  <2>1. spent'[t] = 0 /\ \A i \in Invoices : rows'[t][i] = 0
    BY <1>3, EndingClears
  <2>2. RowTotal(rows'[t]) = 0
    BY <1>2, <2>1, NothingMakesNothing
  <2>3. QED
    BY <2>1, <2>2, AggregatesAreNext
<1>4. CASE InsertAllocation(t)
  <2> DEFINE i == Head(todo[t]).inv
             a == Head(todo[t]).amt
  <2>1. /\ rows[t][i] = 0 /\ rows' = [rows EXCEPT ![t][i] = a]
        /\ spent' = [spent EXCEPT ![t] = @ + a]
    BY <1>4 DEF InsertAllocation, RowIsUnique
  <2>2. i \in Invoices /\ a \in Int
    BY <1>4, HeadIsLine DEF InsertAllocation, ControlOf, TypeOK
  <2>3. rows'[t][i] = a /\ \A j \in Invoices \ {i} : rows'[t][j] = rows[t][j]
    BY <2>1, <2>2 DEF TypeOK, DraftsTyped
  <2>4. spent'[t] = spent[t] + a
    BY <2>1 DEF TypeOK, DraftsTyped
  <2>5. rows'[t][i] = rows[t][i] + a
    BY <2>1, <2>2, <2>3
  <2> HIDE DEF i, a
  <2>6. SumOver(rows'[t], Invoices) = SumOver(rows[t], Invoices) + a
    <3>1. MoreOf(rows'[t], rows[t], Invoices, i, a)
      BY <2>3, <2>5 DEF MoreOf
    <3>2. QED
      BY <1>2, <2>2, <3>1, InvoicesAreOrdered, SumOfOneMore
  <2>7. QED
    BY <1>1, <2>4, <2>6, RowSum, AggregatesAreNext
<1>5. CASE InsertMirrors(t)
  <2>1. req[t].op = "reverse" /\ pc[t] = "mirror" /\ req[t].orig \in Payments
    BY <1>5 DEF InsertMirrors, ControlOf, TypeOK, ControlTyped, RequestComplete
  <2> DEFINE orig == req[t].orig
  <2>2. \A i \in Invoices : rows'[t][i] = -alloc[orig][i]
    BY <1>5, <2>1, MirrorRowsAreAll DEF InsertMirrors, TypeOK, DraftsTyped
  <2>3. spent'[t] = -paySum[orig]
    BY <1>5 DEF InsertMirrors, TypeOK, DraftsTyped
  <2>4. alloc[orig] \in [Invoices -> Int]
    BY <2>1 DEF TypeOK, CommittedTyped
  <2>5. SumOver(rows'[t], Invoices) = -SumOver(alloc[orig], Invoices)
    <3>1. Turned(rows'[t], alloc[orig], Invoices)
      BY <2>2 DEF Turned
    <3>2. QED
      BY <1>2, <2>4, <3>1, InvoicesAreOrdered, SumOfTurned
  <2>6. paySum[orig] = SumOver(alloc[orig], Invoices)
    BY <1>1, <2>1, RowSum
  <2>7. QED
    BY <2>3, <2>5, <2>6, RowSum, AggregatesAreNext
<1>6. CASE Opening(t) \/ ((Reading(t) \/ Locking(t) \/ Writing(t))
                          /\ ~InsertAllocation(t) /\ ~InsertMirrors(t))
  <2>1. rows'[t] = rows[t] /\ spent'[t] = spent[t]
    BY <1>6, OpeningFits, StatementKeeps DEF drafts
  <2>2. QED
    BY <1>1, <2>1, AggregatesAreNext
<1>7. QED
  BY <1>3, <1>4, <1>5, <1>6 DEF Turn

\* The step of one transaction keeps the sums.
LEMMA SumsTurn ==
  ASSUME SettlementInvariant, TypeOK', PaymentInvariant, SumsInvariant, NEW t \in Txns, Turn(t)
  PROVE  SumsInvariant'
<1>1. /\ Step(t) /\ TypeOK /\ ControlOf(t) /\ DraftsLockedBy(t) /\ RequestFits(t) /\ MirrorsOf(t)
  BY TurnIsStep DEF SettlementInvariant, ControlOK, DraftsAreLocked, PaymentInvariant
<1>2. AggregatesExact' /\ SpentIsOfRows(t)'
  BY <1>1, AggregatesStep, SpentStep
<1>3. ASSUME NEW u \in Txns, u # t PROVE SpentIsOfRows(u)'
  <2>1. rows'[u] = rows[u] /\ spent'[u] = spent[u]
    BY <1>1, <1>3, OthersStay, OthersKeep DEF Same
  <2>2. QED
    BY <2>1, SpentIs, AggregatesAreNext DEF SumsInvariant
<1>4. QED
  BY <1>2, <1>3 DEF SumsInvariant

\* So does a step that touches neither rows nor sums.
LEMMA SumsStutter ==
  ASSUME SumsInvariant, UNCHANGED <<alloc, invSum, paySum, rows, spent>>
  PROVE  SumsInvariant'
BY AggregatesAre, SpentIs, AggregatesAreNext DEF SumsInvariant

\* With no rows, all sums are zero.
LEMMA SumsInit == Init => SumsInvariant
<1> SUFFICES ASSUME Init PROVE SumsInvariant
  OBVIOUS
<1>1. /\ alloc \in [Payments -> [Invoices -> Int]] /\ \A t \in Txns : rows[t] \in [Invoices -> Int]
      /\ \A p \in Payments, i \in Invoices : alloc[p][i] = 0
      /\ \A t \in Txns, i \in Invoices : rows[t][i] = 0
      /\ \A p \in Payments : paySum[p] = 0
      /\ \A i \in Invoices : invSum[i] = 0
      /\ \A t \in Txns : spent[t] = 0
  BY DEF Init
<1>2. \A i \in Invoices : ColumnTotal(alloc, i) = 0
  BY <1>1, NothingMakesNothing
<1>3. \A p \in Payments : RowTotal(alloc[p]) = 0
  BY <1>1, NothingMakesNothing
<1>4. \A t \in Txns : RowTotal(rows[t]) = 0
  BY <1>1, NothingMakesNothing
<1>5. QED
  BY <1>1, <1>2, <1>3, <1>4, AggregatesAre, SpentIs DEF SumsInvariant

\* Every step keeps the sums.
LEMMA SumsStep ==
  SettlementInvariant /\ SettlementInvariant' /\ PaymentInvariant /\ SumsInvariant /\ [Next]_vars
    => SumsInvariant'
<1> SUFFICES ASSUME SettlementInvariant, SettlementInvariant', PaymentInvariant, SumsInvariant,
                    [Next]_vars
             PROVE  SumsInvariant'
  OBVIOUS
<1>1. CASE UNCHANGED vars
  BY <1>1, SumsStutter DEF vars, database, drafts
<1>2. ASSUME NEW n \in Crons, StartSweep(n) PROVE SumsInvariant'
  BY <1>2, SumsStutter DEF StartSweep, database, drafts
<1>3. TypeOK'
  BY DEF SettlementInvariant
<1>4. QED
  BY <1>1, <1>2, <1>3, SumsTurn, NextIsATurn

\* The sums are those of the rows in every state.
LEMMA SumsHold == Spec => []SumsInvariant
<1>1. QED
  BY SumsInit, SumsStep, SettlementHolds, PaymentsHold, PTL DEF Spec

\* The sums the guards of guardAndInsertAllocation, voidInvoice and recordWithholding
\* read are always the sums of the allocation rows.
THEOREM AggregatesStayExact == Spec => []AggregatesExact
<1>1. SumsInvariant => AggregatesExact
  BY DEF SumsInvariant
<1>2. QED
  BY <1>1, SumsHold, PTL

-----------------------------------------------------------------------------
(* Void invoices: what makes nothing together is nothing of each payment.  *)

Reversals == {q \in Payments : pay[q] # None /\ pay[q].revOf # None}

\* Where an invoice has nothing of all payments together, it has nothing of a payment
\* that nobody has reversed: receipts give, and a reversal takes at most what its
\* original gave.
LEMMA CleanInvoice ==
  ASSUME TypeOK, RowsHavePayments, ReversalsAreFlatAndSingle, AggregatesExact, AllocationsHaveSigns,
         NEW i \in Invoices, invSum[i] = 0,
         NEW p \in Payments, pay[p] # None, pay[p].revOf = None,
         \A q \in Payments : pay[q] # None => pay[q].revOf # p
  PROVE  alloc[p][i] = 0
<1> DEFINE w == ColumnOf(alloc, i)
           M == Reversals
           of == [q \in M |-> pay[q].revOf]
           Taken(x) == \E q \in M : of[q] = x
           By(x) == CHOOSE q \in M : of[q] = x
           u == [x \in Payments |-> IF x \in M THEN w[x] ELSE IF Taken(x) THEN -w[By(x)] ELSE 0]
           v == [x \in Payments |-> w[x] - u[x]]
<1>1. w \in [Payments -> Int] /\ \A x \in Payments : w[x] = alloc[x][i]
  BY DEF ColumnOf, TypeOK, CommittedTyped
<1>2. SumOver(w, Payments) = 0
  <2>1. ColumnTotal(alloc, i) = 0
    BY AggregatesAre
  <2>2. alloc \in [Payments -> [Invoices -> Int]]
    BY DEF TypeOK, CommittedTyped
  <2>3. QED
    BY <2>1, <2>2, ColumnSum
<1>3. M \in SUBSET Payments /\ \A x \in M : pay[x] # None /\ pay[x].revOf # None /\ pay[x].revOf \in Payments
  BY DEF Reversals, TypeOK, CommittedTyped, Payment
<1>4. \A x \in M : pay[pay[x].revOf] # None /\ pay[pay[x].revOf].revOf = None
  BY <1>3 DEF ReversalsAreFlatAndSingle
<1>5. of \in [M -> Payments \ M] /\ \A m, n \in M : of[m] = of[n] => m = n
  <2>1. \A x \in M : of[x] \in Payments \ M
    BY <1>3, <1>4 DEF Reversals
  <2>2. ASSUME NEW m \in M, NEW n \in M, of[m] = of[n] PROVE m = n
    BY <1>3, <2>2 DEF ReversalsAreFlatAndSingle
  <2>3. QED
    BY <2>1, <2>2
<1>6. \A x \in M : w[x] + w[pay[x].revOf] >= 0
  <2>1. \A x \in M : alloc[x][i] + alloc[pay[x].revOf][i] >= 0
    BY <1>3 DEF AllocationsHaveSigns
  <2>2. QED
    BY <1>1, <1>3, <2>1
<1>7. \A x \in Payments \ M : w[x] >= 0
  BY <1>1 DEF Reversals, AllocationsHaveSigns, RowsHavePayments
<1>8. ~Taken(p) /\ p \notin M
  BY <1>3 DEF Reversals
<1> HIDE DEF w, M
<1>9. \A x \in M : By(of[x]) = x
  BY <1>5
<1>10. \A x \in Payments : Taken(x) => By(x) \in M /\ of[By(x)] = x
  OBVIOUS
<1>11. u \in [Payments -> Int]
  BY <1>1, <1>3, <1>10
<1>12. \A x \in M : u[x] = w[x] /\ u[of[x]] = -w[x]
  <2>1. ASSUME NEW x \in M PROVE u[x] = w[x] /\ u[of[x]] = -w[x]
    <3>1. of[x] \in Payments /\ of[x] \notin M /\ Taken(of[x]) /\ By(of[x]) = x /\ x \in Payments
      BY <1>3, <1>5, <1>9
    <3>2. QED
      BY <3>1
  <2>2. QED
    BY <2>1
<1>13. \A x \in Payments \ M : ~Taken(x) => u[x] = 0
  OBVIOUS
<1>14. v \in [Payments -> Int] /\ \A x \in Payments : v[x] = w[x] - u[x]
  <2> HIDE DEF u
  <2>1. \A x \in Payments : w[x] - u[x] \in Int
    BY <1>1, <1>11
  <2>2. QED
    BY <2>1
<1>15. \A x \in Payments : v[x] >= 0
  <2>1. ASSUME NEW x \in Payments PROVE v[x] >= 0
    <3>1. w[x] \in Int /\ u[x] \in Int /\ v[x] = w[x] - u[x]
      BY <1>1, <1>11, <1>14
    <3>2. CASE x \in M
      <4>1. u[x] = w[x]
        BY <1>12, <3>2
      <4> HIDE DEF u, v
      <4>2. QED
        BY <3>1, <4>1
    <3>3. CASE x \notin M /\ Taken(x)
      <4>1. By(x) \in M /\ of[By(x)] = x /\ pay[By(x)].revOf = x
        BY <1>10, <3>3
      <4>2. u[x] = -w[By(x)] /\ w[By(x)] + w[x] >= 0 /\ w[By(x)] \in Int
        BY <1>1, <1>3, <1>6, <3>3, <4>1
      <4> HIDE DEF u, v, By
      <4>3. QED
        BY <3>1, <4>2
    <3>4. CASE x \notin M /\ ~Taken(x)
      <4>1. u[x] = 0 /\ w[x] >= 0
        BY <1>7, <1>13, <3>4
      <4> HIDE DEF u, v
      <4>2. QED
        BY <3>1, <4>1
    <3>5. QED
      BY <3>2, <3>3, <3>4
  <2>2. QED
    BY <2>1
<1>16. u[p] = 0
  BY <1>8, <1>13
<1>17. \A m \in M : u[of[m]] = -u[m]
  BY <1>12
<1>18. \A x \in Payments \ (M \cup {of[m] : m \in M}) : u[x] = 0
  BY <1>13
<1> HIDE DEF u, v, of
<1>19. SumOver(u, Payments) = 0
  <2> DEFINE rest == Payments \ (M \cup {of[m] : m \in M})
  <2>1. SumOver(u, Payments) = SumOver(u, rest)
    BY <1>3, <1>5, <1>11, <1>17, PaymentsAreFinite, PairsCancel
  <2>2. SumOver(u, rest) = 0
    <3>1. rest \in SUBSET Payments /\ \A x \in rest : u[x] = 0
      BY <1>18
    <3> HIDE DEF rest
    <3>2. QED
      BY <1>11, <3>1, PaymentsAreFinite, SumOfNothing
  <2>3. QED
    BY <2>1, <2>2
<1>20. SumOver(v, Payments) = 0
  <2>1. Both(w, u, v, Payments)
    <3>1. ASSUME NEW x \in Payments PROVE w[x] = u[x] + v[x]
      <4>1. w[x] \in Int /\ u[x] \in Int /\ v[x] = w[x] - u[x]
        BY <1>1, <1>11, <1>14
      <4>2. QED
        BY <4>1
    <3>2. QED
      BY <3>1 DEF Both
  <2>2. SumOver(w, Payments) = SumOver(u, Payments) + SumOver(v, Payments)
    BY <1>1, <1>11, <1>14, <2>1, PaymentsAreFinite, SumOfBoth
  <2>3. AddsUp(v, Payments)
    BY <1>14, PaymentsAreFinite, SumsAdd
  <2>4. SumOver(v, Payments) \in Int
    BY <2>3 DEF AddsUp
  <2>5. QED
    BY <1>2, <1>19, <2>2, <2>4
<1>21. v[p] <= SumOver(v, Payments)
  BY <1>14, <1>15, PaymentsAreFinite, SumAtLeast
<1>22. v[p] = w[p] /\ v[p] >= 0 /\ w[p] \in Int
  BY <1>1, <1>14, <1>15, <1>16
<1>23. w[p] = 0
  BY <1>20, <1>21, <1>22
<1>24. QED
  BY <1>1, <1>23

\* The signs a request begins with: what a client sends is positive, and a reversal
\* is for what its original is, negated.
LEMMA OpeningSigns ==
  ASSUME TypeOK, NEW t \in Txns, Opening(t)
  PROVE  /\ req'[t].op \in {"record", "allocate"} => \A n \in DOMAIN todo'[t] : todo'[t][n].amt > 0
         /\ req'[t].op = "reverse" => req'[t].amt = -pay[req'[t].orig].amt
<1>1. CASE CreateInvoice(t)
  <2>1. PICK i \in Invoices :
          /\ inv[i].status = "NONE"
          /\ \A u \in Txns : req[u].op = "create" => req[u].inv # i
          /\ Begin(t, Ask("create", InvCustomer[i], i, None, 0, None), <<>>, "claim")
    BY <1>1 DEF CreateInvoice
  <2>2. req'[t].op = "create"
    BY <2>1, BeginEffect, AskFields
  <2>3. QED
    BY <2>2
<1>2. CASE RecordPayment(t)
  <2>1. PICK c \in Customers, a \in Amounts, p \in Payments, l \in AllocationLists :
          IsFresh(p) /\ Begin(t, Ask("record", c, None, p, a, None), l, "claim")
    BY <1>2 DEF RecordPayment
  <2>2. req'[t].op = "record" /\ todo'[t] = l
    BY <2>1, BeginEffect, AskFields
  <2>3. \A n \in DOMAIN l : l[n].amt > 0
    BY AmountsArePositive DEF AllocationLists, AllocationLine
  <2>4. QED
    BY <2>2, <2>3
<1>3. CASE Allocate(t)
  <2>1. PICK p \in Payments, line \in AllocationLine :
          /\ pay[p] # None
          /\ Begin(t, Ask("allocate", pay[p].cust, None, p, pay[p].amt, None), <<line>>, "payLock")
    BY <1>3 DEF Allocate
  <2>2. req'[t].op = "allocate" /\ todo'[t] = <<line>>
    BY <2>1, BeginEffect, AskFields
  <2>3. line.amt > 0
    BY AmountsArePositive DEF AllocationLine
  <2>4. QED
    BY <2>2, <2>3
<1>4. CASE ReversePayment(t)
  <2>1. PICK p \in Payments, q \in Payments :
          /\ pay[p] # None /\ IsFresh(q)
          /\ Begin(t, Ask("reverse", pay[p].cust, None, q, -pay[p].amt, p), <<>>, "claim")
    BY <1>4 DEF ReversePayment
  <2>2. req'[t].op = "reverse" /\ req'[t].orig = p /\ req'[t].amt = -pay[p].amt
    BY <2>1, BeginEffect, AskFields
  <2>3. QED
    BY <2>2
<1>5. CASE VoidInvoice(t)
  <2>1. PICK i \in Invoices :
          /\ inv[i].status # "NONE"
          /\ Begin(t, Ask("void", InvCustomer[i], i, None, 0, None),
                   <<[inv |-> i, amt |-> 0]>>, "invLock")
    BY <1>5 DEF VoidInvoice
  <2>2. req'[t].op = "void"
    BY <2>1, BeginEffect, AskFields
  <2>3. QED
    BY <2>2
<1>6. CASE RecordWithholding(t)
  <2>1. PICK i \in Invoices, a \in Amounts \cup {0} :
          /\ inv[i].status # "NONE"
          /\ Begin(t, Ask("withhold", InvCustomer[i], i, None, 0, None),
                   <<[inv |-> i, amt |-> a]>>, "invLock")
    BY <1>6 DEF RecordWithholding
  <2>2. req'[t].op = "withhold"
    BY <2>1, BeginEffect, AskFields
  <2>3. QED
    BY <2>2
<1>7. CASE t \in Crons /\ ReconcileOne(t)
  <2>1. PICK c \in sweep[t] : Begin(t, Ask("reconcile", c, None, None, 0, None), <<>>, "balInvoices")
    BY <1>7 DEF ReconcileOne
  <2>2. req'[t].op = "reconcile"
    BY <2>1, BeginEffect, AskFields
  <2>3. QED
    BY <2>2
<1>8. QED
  BY <1>1, <1>2, <1>3, <1>4, <1>5, <1>6, <1>7 DEF Opening, Arrive

\* The lines of a statement that does not list what a reversal mirrors are those of
\* before, or what remains of them.
LEMMA LinesRemain ==
  ASSUME TypeOK, NEW t \in Txns, ControlOf(t), Reading(t) \/ Locking(t) \/ Writing(t), ~ReadOriginal(t)
  PROVE  todo'[t] = todo[t] \/ (todo[t] # <<>> /\ todo'[t] = Tail(todo[t]))
<1> USE DEF TypeOK, ControlTyped
<1>1. CASE Locking(t)
  BY <1>1 DEF Locking, ClaimNumber, LockPayment, LockInvoice, WriteBalance
<1>2. CASE GuardAllocation(t) \/ GuardVoid(t) \/ GuardWithholding(t) \/ ReadInvoiced(t) \/ ReadUnapplied(t)
  BY <1>2 DEF GuardAllocation, GuardVoid, GuardWithholding, ReadInvoiced, ReadUnapplied
<1>3. CASE DeriveStatus(t)
  BY <1>3 DEF DeriveStatus, NextLine, ControlOf
<1>4. CASE CasStatus(t)
  BY <1>4 DEF CasStatus, NextLine, ControlOf
<1>5. CASE InsertAllocation(t) \/ InsertMirrors(t) \/ WriteVoid(t) \/ WriteWithholding(t)
  BY <1>5 DEF InsertAllocation, InsertMirrors, WriteVoid, WriteWithholding
<1>6. QED
  BY <1>1, <1>2, <1>3, <1>4, <1>5 DEF Reading, Writing

\* What remains of a list of positive lines is positive.
LEMMA RestIsPositive ==
  ASSUME TypeOK, NEW t \in Txns, todo[t] # <<>>, \A n \in DOMAIN todo[t] : todo[t][n].amt > 0
  PROVE  /\ Head(todo[t]).amt > 0
         /\ \A n \in DOMAIN Tail(todo[t]) : Tail(todo[t])[n].amt > 0
<1>1. /\ Len(todo[t]) \in Nat \ {0} /\ DOMAIN todo[t] = 1..Len(todo[t])
      /\ Head(todo[t]) = todo[t][1]
      /\ DOMAIN Tail(todo[t]) = 1..(Len(todo[t]) - 1)
      /\ \A n \in 1..(Len(todo[t]) - 1) : Tail(todo[t])[n] = todo[t][n + 1]
  BY LinesOf
<1>2. 1 \in DOMAIN todo[t] /\ \A n \in 1..(Len(todo[t]) - 1) : n + 1 \in DOMAIN todo[t]
  BY <1>1
<1>3. QED
  BY <1>1, <1>2

\* A receipt gives, a reversal cannot be allocated, and nothing is given to a void
\* invoice: after the transaction's own step as before.
LEMMA SignsStep ==
  ASSUME TypeOK, NEW t \in Txns, ControlOf(t), RequestFits(t), DraftsLockedBy(t), PaymentCovers(t),
         StatusLockedBy(t), SpentIsOfRows(t), AllocationsHaveSigns, RowsHaveSigns(t), Turn(t)
  PROVE  RowsHaveSigns(t)'
<1>1. CASE Opening(t)
  <2>1. /\ pc[t] = "idle" /\ UNCHANGED <<database, drafts>>
        /\ req'[t].op \in {"record", "allocate"} => \A n \in DOMAIN todo'[t] : todo'[t][n].amt > 0
        /\ req'[t].op = "reverse" => req'[t].amt = -pay[req'[t].orig].amt
    BY <1>1, OpeningFits, OpeningSigns
  <2>2. pay' = pay /\ rows' = rows
    BY <2>1 DEF database, drafts
  <2>3. \A i \in Invoices : rows[t][i] = 0
    BY <2>1 DEF ControlOf, DraftsLockedBy
  <2>4. QED
    BY <2>1, <2>2, <2>3 DEF RowsHaveSigns
<1>2. CASE Ending(t)
  <2>1. req'[t].op = "none"
    BY <1>2, EndingClears DEF NoRequest, Ask
  <2>2. QED
    BY <2>1 DEF RowsHaveSigns
<1>3. CASE InsertAllocation(t)
  <2> DEFINE j == Head(todo[t]).inv
             a == Head(todo[t]).amt
  <2>1. /\ pc[t] = "insert" /\ req[t].op \in {"record", "allocate"} /\ todo[t] # <<>>
        /\ req' = req /\ todo' = todo /\ UNCHANGED database
        /\ rows' = [rows EXCEPT ![t][j] = a]
    BY <1>3 DEF InsertAllocation, ControlOf
  <2>2. j \in Invoices /\ a \in Int
    BY <2>1, HeadIsLine DEF TypeOK
  <2>3. \A n \in DOMAIN todo[t] : todo[t][n].amt > 0
    BY <2>1 DEF RowsHaveSigns
  <2>4. a > 0
    BY <2>1, <2>3, RestIsPositive
  <2>5. inv[j].status # "VOID"
    BY <2>1 DEF StatusLockedBy
  <2>6. \A i \in Invoices : rows'[t][i] = IF i = j THEN a ELSE rows[t][i]
    BY <2>1, <2>2 DEF TypeOK, DraftsTyped
  <2>7. ~(req[t].op = "allocate" /\ pay[req[t].pay].revOf # None)
    <3> SUFFICES ASSUME req[t].op = "allocate", pay[req[t].pay].revOf # None PROVE FALSE
      OBVIOUS
    <3> DEFINE p == req[t].pay
    <3>1. /\ p \in Payments /\ pay[p] # None /\ pay[p].amt = req[t].amt /\ paySum[p] \in Int
          /\ req[t].amt \in Int
      BY DEF TypeOK, ControlTyped, CommittedTyped, RequestComplete, RequestFits, Request
    <3>2. paySum[p] >= req[t].amt
      BY <3>1 DEF AllocationsHaveSigns
    <3>3. spent[t] = 0
      <4>1. rows[t] \in [Invoices -> Int] /\ \A i \in Invoices : rows[t][i] = 0
        BY DEF RowsHaveSigns, TypeOK, DraftsTyped
      <4>2. QED
        BY <4>1, NothingMakesNothing, SpentIs
    <3>4. paySum[p] + spent[t] + a <= req[t].amt
      BY <2>1 DEF PaymentCovers
    <3> HIDE DEF p, a
    <3>5. QED
      BY <2>2, <2>4, <3>1, <3>2, <3>3, <3>4
  <2>8. \A i \in Invoices : rows[t][i] >= 0 /\ (rows[t][i] # 0 => inv[i].status # "VOID")
    BY <2>1 DEF RowsHaveSigns
  <2> HIDE DEF j, a
  <2>9. \A i \in Invoices : rows'[t][i] >= 0 /\ (rows'[t][i] # 0 => inv[i].status # "VOID")
    BY <2>2, <2>4, <2>5, <2>6, <2>8
  <2>10. inv' = inv /\ pay' = pay
    BY <2>1 DEF database
  <2>11. QED
    BY <2>1, <2>3, <2>7, <2>9, <2>10 DEF RowsHaveSigns
<1>4. CASE (Reading(t) \/ Locking(t) \/ Writing(t)) /\ ~InsertAllocation(t)
  <2>1. req' = req /\ inv' = inv /\ pay' = pay
    BY <1>4, StatementKeeps DEF database
  <2>2. req[t].op \in {"record", "allocate"} => ~ReadOriginal(t) /\ ~InsertMirrors(t)
    BY DEF ReadOriginal, InsertMirrors, ControlOf
  <2>3. ~InsertMirrors(t) => rows'[t] = rows[t]
    BY <1>4, StatementKeeps
  <2>4. req[t].op \in {"record", "allocate"} => \A n \in DOMAIN todo'[t] : todo'[t][n].amt > 0
    BY <1>4, <2>2, LinesRemain, RestIsPositive DEF RowsHaveSigns
  <2>5. QED
    BY <2>1, <2>2, <2>3, <2>4 DEF RowsHaveSigns
<1>5. QED
  BY <1>1, <1>2, <1>3, <1>4 DEF Turn

\* The same while others take their turns: only a transaction that holds its lock
\* voids an invoice.
LEMMA OthersSigns ==
  ASSUME TypeOK, LocksExclusive, NEW t \in Txns, Step(t), RequestFits(t), InvoiceFits(t),
         DraftsLockedBy(t), StatusLockedBy(t),
         NEW u \in Txns, u # t, RequestFits(u), DraftsLockedBy(u), StatusLockedBy(u), RowsHaveSigns(u)
  PROVE  RowsHaveSigns(u)'
<1>1. req'[u] = req[u] /\ todo'[u] = todo[u] /\ rows'[u] = rows[u]
  BY OthersStay, OthersKeep DEF Same
<1>2. \A p \in Payments : pay[p] # None => pay'[p] = pay[p]
  BY PaymentsOfATurn
<1>3. \A i \in Invoices : rows[u][i] # 0 => inv'[i].status = inv[i].status
  BY LockedInvoiceStays DEF DraftsLockedBy, StatusLockedBy
<1>4. req[u].op = "allocate" => req[u].pay \in Payments /\ pay[req[u].pay] # None
  BY DEF RequestFits, TypeOK, ControlTyped, RequestComplete
<1>5. req[u].op = "reverse" => req[u].orig \in Payments /\ pay[req[u].orig] # None
  BY DEF RequestFits, TypeOK, ControlTyped, RequestComplete
<1>6. QED
  BY <1>1, <1>2, <1>3, <1>4, <1>5 DEF RowsHaveSigns

\* What a transaction voids, or is about to, has nothing allocated.
LEMMA CleanStep ==
  ASSUME TypeOK, NEW t \in Txns, ControlOf(t), DraftsLockedBy(t), StatusHeldBy(t),
         VoidsWhatIsClean(t), Turn(t)
  PROVE  VoidsWhatIsClean(t)'
<1>1. CASE Opening(t)
  <2>1. pc'[t] = BeginsAt(req'[t].op) /\ UNCHANGED <<database, drafts>>
    BY <1>1, OpeningFits
  <2>2. pc'[t] # "voidWrite" /\ stat' = stat /\ invSum' = invSum
    BY <2>1 DEF BeginsAt, database, drafts
  <2>3. QED
    BY <2>2 DEF VoidsWhatIsClean
<1>2. CASE Ending(t)
  <2>1. pc'[t] = "idle" /\ \A i \in Invoices : stat'[t][i] = None
    BY <1>2, EndingClears
  <2>2. QED
    BY <2>1, NullIsNoStatus DEF VoidsWhatIsClean, Statuses
<1>3. CASE Reading(t) \/ Locking(t) \/ Writing(t)
  <2>1. req' = req /\ invSum' = invSum
    BY <1>3, StatementKeeps DEF database
  <2>2. ASSUME NEW i \in Invoices, stat'[t][i] = "VOID" PROVE invSum[i] = 0
    <3>1. CASE stat'[t][i] = stat[t][i]
      BY <2>2, <3>1 DEF VoidsWhatIsClean
    <3>2. CASE WriteVoid(t) /\ i = req[t].inv
      BY <3>2 DEF WriteVoid, VoidsWhatIsClean
    <3>3. CASE CasStatus(t) /\ stat'[t][i] = seen[t][2]
      <4>1. pc[t] = "cas"
        BY <3>3 DEF CasStatus
      <4>2. seen[t][2] \in {"PAID", "PARTIALLY_PAID", "ISSUED"}
        BY <4>1, DerivedStatus DEF StatusHeldBy
      <4>3. QED
        BY <2>2, <3>3, <4>2
    <3>4. QED
      BY <1>3, <3>1, <3>2, <3>3, WhatIsWritten
  <2>3. ASSUME NEW i \in Invoices, pc'[t] = "voidWrite", req[t].inv = i PROVE invSum[i] = 0
    <3>1. GuardVoid(t)
      BY <1>3, <2>3, WhereTo DEF Reading, Locking, Writing, ControlOf
    <3>2. AllocatedSeen(t, i) = 0 /\ pc[t] = "voidGuard"
      BY <2>3, <3>1 DEF GuardVoid, VoidAllowed
    <3>3. rows[t][i] = 0
      BY <3>2 DEF ControlOf, DraftsLockedBy
    <3>4. QED
      BY <3>2, <3>3, SeenAsStored
  <2>4. QED
    BY <2>1, <2>2, <2>3 DEF VoidsWhatIsClean
<1>4. QED
  BY <1>1, <1>2, <1>3 DEF Turn

\* And others allocate nothing to it, for it is locked.
LEMMA OthersClean ==
  ASSUME TypeOK, LocksExclusive, NEW t \in Txns, Step(t), InvoiceFits(t), DraftsLockedBy(t),
         StatusLockedBy(t),
         NEW u \in Txns, u # t, GuardLockedBy(u), StatusLockedBy(u), VoidsWhatIsClean(u)
  PROVE  VoidsWhatIsClean(u)'
<1>1. pc'[u] = pc[u] /\ req'[u] = req[u] /\ stat'[u] = stat[u]
  BY OthersStay, OthersKeep DEF Same
<1>2. ASSUME NEW i \in Invoices, stat[u][i] = "VOID" \/ (pc[u] = "voidWrite" /\ req[u].inv = i)
      PROVE  invSum'[i] = 0
  <2>1. Adv(i) \in locks[u] /\ inv[i].status # "NONE"
    BY <1>2, NullIsNoStatus DEF StatusLockedBy, GuardLockedBy, Statuses
  <2>2. Adv(i) \notin locks[t]
    BY <2>1 DEF LocksExclusive
  <2>3. invSum'[i] = invSum[i]
    BY <2>1, <2>2, InvoicesOfATurn
  <2>4. QED
    BY <1>2, <2>3 DEF VoidsWhatIsClean
<1>3. QED
  BY <1>1, <1>2 DEF VoidsWhatIsClean

\* A receipt goes on to give, and a reversal takes what its original gave, no more.
LEMMA AllocationsStep ==
  ASSUME TypeOK, RowsHavePayments, PaymentNotOverspent, ReversalsAreFlatAndSingle,
         NEW t \in Txns, RequestFits(t), PaymentLockedBy(t), MirrorsOf(t), SpentIsOfRows(t),
         AggregatesExact, AllocationsHaveSigns, RowsHaveSigns(t), Step(t)
  PROVE  AllocationsHaveSigns'
<1> SUFFICES ASSUME NEW p \in Payments, pay'[p] # None
             PROVE  /\ pay'[p].revOf = None => \A i \in Invoices : alloc'[p][i] >= 0
                    /\ pay'[p].revOf # None =>
                         /\ paySum'[p] >= pay'[p].amt
                         /\ \A i \in Invoices : /\ alloc'[p][i] <= 0
                                                /\ alloc'[p][i] + alloc'[pay'[p].revOf][i] >= 0
  BY DEF AllocationsHaveSigns
<1>1. /\ \A q \in Payments, i \in Invoices : alloc[q][i] \in Int
      /\ \A i \in Invoices : rows[t][i] \in Int
      /\ rows[t] \in [Invoices -> Int] /\ spent[t] \in Int /\ paySum[p] \in Int
      /\ RequestComplete(req[t]) /\ req[t].amt \in Int
  BY DEF TypeOK, CommittedTyped, DraftsTyped, ControlTyped, Request
<1>2. CASE Commit(t) /\ req[t].pay = p
  <2>1. /\ paySum'[p] = paySum[p] + spent[t]
        /\ \A i \in Invoices : alloc'[p][i] = alloc[p][i] + rows[t][i]
    BY <1>2, RowsOfATurn
  <2>2. req[t].op \in {"record", "allocate", "reverse"} /\ pc[t] = "commit"
    BY <1>2, NullIsNoValue DEF RequestFits, Commit
  <2>3. CASE req[t].op = "record"
    <3>1. pay'[p].revOf = None
      BY <1>2, <2>3, PaymentsOfATurn DEF InsertsPayment, RequestFits
    <3>2. \A i \in Invoices : alloc[p][i] = 0 /\ rows[t][i] >= 0
      BY <1>2, <2>3 DEF RequestFits, InsertsPayment, RowsHavePayments, RowsHaveSigns
    <3>3. QED
      BY <1>1, <2>1, <3>1, <3>2
  <2>4. CASE req[t].op = "allocate"
    <3>1. pay[p] # None /\ pay'[p] = pay[p]
      BY <1>2, <2>4, PaymentsOfATurn DEF RequestFits
    <3>2. \A i \in Invoices : rows[t][i] >= 0
      BY <2>4 DEF RowsHaveSigns
    <3>3. CASE pay[p].revOf = None
      <4>1. \A i \in Invoices : alloc[p][i] >= 0
        BY <3>1, <3>3 DEF AllocationsHaveSigns
      <4>2. QED
        BY <1>1, <2>1, <3>1, <3>2, <3>3, <4>1
    <3>4. CASE pay[p].revOf # None
      <4>1. \A i \in Invoices : rows[t][i] = 0
        BY <1>2, <2>4, <3>4 DEF RowsHaveSigns
      <4>2. spent[t] = 0
        BY <1>1, <4>1, NothingMakesNothing, SpentIs
      <4>3. pay[p].revOf \in Payments /\ pay[p].revOf # p
        <5>1. pay[p].revOf \in Payments
          BY <3>1, <3>4 DEF TypeOK, CommittedTyped, Payment
        <5>2. QED
          BY <3>1, <3>4, <5>1 DEF ReversalsAreFlatAndSingle
      <4>4. \A i \in Invoices : alloc'[pay[p].revOf][i] = alloc[pay[p].revOf][i]
        BY <1>2, <4>3, RowsOfATurn
      <4>5. paySum'[p] = paySum[p] /\ \A i \in Invoices : alloc'[p][i] = alloc[p][i]
        BY <1>1, <2>1, <4>1, <4>2
      <4>6. QED
        BY <3>1, <3>4, <4>4, <4>5 DEF AllocationsHaveSigns
    <3>5. QED
      BY <3>3, <3>4
  <2>5. CASE req[t].op = "reverse"
    <3> DEFINE o == req[t].orig
    <3>1. /\ o \in Payments /\ pay[o] # None /\ pay[o].revOf = None /\ pay[p] = None /\ o # p
          /\ req[t].amt = -pay[o].amt
      BY <1>1, <1>2, <2>2, <2>5
         DEF RequestComplete, RequestFits, InsertsPayment, PaymentLockedBy, ReversalAllowed, RowsHaveSigns
    <3>2. pay'[p].revOf = o /\ pay'[p].amt = -pay[o].amt
      BY <1>2, <2>5, <3>1, PaymentsOfATurn DEF InsertsPayment
    <3>3. paySum[p] = 0 /\ \A i \in Invoices : alloc[p][i] = 0
      BY <3>1 DEF RowsHavePayments
    <3>4. \A i \in Invoices : rows[t][i] = -alloc[o][i] /\ alloc[o][i] >= 0 /\ alloc[o][i] \in Int
      BY <1>1, <2>2, <2>5, <3>1 DEF MirrorsOf, AllocationsHaveSigns
    <3>5. \A i \in Invoices : alloc'[o][i] = alloc[o][i]
      BY <1>2, <3>1, RowsOfATurn
    <3>6. paySum[o] \in Int /\ paySum[o] <= pay[o].amt /\ pay[o].amt \in Int
      BY <3>1 DEF TypeOK, CommittedTyped, Payment, PaymentNotOverspent
    <3>7. spent[t] = -paySum[o]
      <4>1. alloc[o] \in [Invoices -> Int]
        BY <3>1 DEF TypeOK, CommittedTyped
      <4>2. Turned(rows[t], alloc[o], Invoices)
        BY <3>4 DEF Turned
      <4>3. SumOver(rows[t], Invoices) = -SumOver(alloc[o], Invoices)
        BY <1>1, <4>1, <4>2, InvoicesAreOrdered, SumOfTurned
      <4>4. spent[t] = SumOver(rows[t], Invoices) /\ paySum[o] = SumOver(alloc[o], Invoices)
        BY <3>1, AggregatesAre, SpentIs, RowSum
      <4>5. QED
        BY <4>3, <4>4
    <3> HIDE DEF o
    <3>8. paySum'[p] >= pay'[p].amt
      BY <2>1, <3>2, <3>3, <3>6, <3>7
    <3>9. ASSUME NEW i \in Invoices PROVE alloc'[p][i] <= 0 /\ alloc'[p][i] + alloc'[o][i] >= 0
      <4>1. /\ alloc'[p][i] = 0 + rows[t][i] /\ rows[t][i] = -alloc[o][i] /\ alloc'[o][i] = alloc[o][i]
            /\ alloc[o][i] >= 0 /\ alloc[o][i] \in Int
        BY <2>1, <3>3, <3>4, <3>5
      <4>2. QED
        BY <4>1
    <3>10. pay'[p].revOf # None
      BY <3>1, <3>2, NullIsNoValue
    <3>11. QED
      BY <3>2, <3>8, <3>9, <3>10
  <2>6. QED
    BY <2>2, <2>3, <2>4, <2>5
<1>3. CASE ~(Commit(t) /\ req[t].pay = p)
  <2>1. /\ paySum'[p] = paySum[p] /\ \A i \in Invoices : alloc'[p][i] = alloc[p][i]
        /\ pay[p] # None /\ pay'[p] = pay[p]
    BY <1>3, PaymentsOfATurn, RowsOfATurn
  <2>2. CASE pay[p].revOf = None
    BY <2>1, <2>2 DEF AllocationsHaveSigns
  <2>3. CASE pay[p].revOf # None
    <3> DEFINE o == pay[p].revOf
    <3>1. o \in Payments /\ pay[o] # None
      <4>1. o \in Payments
        BY <2>1, <2>3 DEF TypeOK, CommittedTyped, Payment
      <4>2. QED
        BY <2>1, <4>1 DEF ReversalsAreFlatAndSingle
    <3> HIDE DEF o
    <3>2. \A i \in Invoices : alloc'[o][i] >= alloc[o][i] /\ alloc'[o][i] \in Int
      <4>1. CASE Commit(t) /\ req[t].pay = o
        <5>1. req[t].op = "allocate"
          BY <3>1, <4>1, NullIsNoValue DEF RequestFits, InsertsPayment
        <5>2. \A i \in Invoices : rows[t][i] >= 0
          BY <5>1 DEF RowsHaveSigns
        <5>3. \A i \in Invoices : alloc'[o][i] = alloc[o][i] + rows[t][i]
          BY <3>1, <4>1, RowsOfATurn
        <5>4. QED
          BY <1>1, <3>1, <5>2, <5>3
      <4>2. CASE ~(Commit(t) /\ req[t].pay = o)
        <5>1. \A i \in Invoices : alloc'[o][i] = alloc[o][i]
          BY <3>1, <4>2, RowsOfATurn
        <5>2. QED
          BY <1>1, <3>1, <5>1
      <4>3. QED
        BY <4>1, <4>2
    <3>3. /\ paySum[p] >= pay[p].amt
          /\ \A i \in Invoices : alloc[p][i] <= 0 /\ alloc[p][i] + alloc[o][i] >= 0
      BY <2>1, <2>3 DEF AllocationsHaveSigns, o
    <3>4. \A i \in Invoices : alloc'[p][i] + alloc'[o][i] >= 0
      BY <1>1, <2>1, <3>1, <3>2, <3>3
    <3>5. QED
      BY <2>1, <2>3, <3>3, <3>4 DEF o
  <2>4. QED
    BY <2>2, <2>3
<1>4. QED
  BY <1>2, <1>3

\* Nobody commits a row of a void invoice: receipts are not allocated to one, and an
\* original that is reversed has nothing on it.
LEMMA NoRowsOnVoid ==
  ASSUME TypeOK, RowsHavePayments, ReversalsAreFlatAndSingle, AggregatesExact, AllocationsHaveSigns,
         NEW t \in Txns, RequestFits(t), PaymentLockedBy(t), MirrorsOf(t), DraftsLockedBy(t),
         RowsHaveSigns(t), Commit(t),
         NEW i \in Invoices, inv[i].status = "VOID", invSum[i] = 0
  PROVE  rows[t][i] = 0
<1> SUFFICES ASSUME rows[t][i] # 0 PROVE FALSE
  OBVIOUS
<1>1. req[t].op = "reverse" /\ pc[t] = "commit"
  BY DEF DraftsLockedBy, RowsHaveSigns, Commit
<1>2. /\ req[t].orig \in Payments /\ pay[req[t].orig] # None
      /\ ReversalAllowed(t) /\ rows[t][i] = -alloc[req[t].orig][i]
  BY <1>1 DEF RequestFits, PaymentLockedBy, MirrorsOf, TypeOK, ControlTyped, RequestComplete
<1>3. alloc[req[t].orig][i] = 0
  BY <1>2, CleanInvoice DEF ReversalAllowed
<1>4. -alloc[req[t].orig][i] = 0
  <2>1. alloc[req[t].orig][i] \in Int
    BY <1>2 DEF TypeOK, CommittedTyped
  <2>2. QED
    BY <1>3, <2>1, NegatedZero, Zenon
<1>5. QED
  BY <1>2, <1>4, Zenon

\* An invoice that is void, or becomes so, has nothing allocated.
LEMMA VoidIsCleanStep ==
  ASSUME TypeOK, RowsHavePayments, ReversalsAreFlatAndSingle, AggregatesExact, AllocationsHaveSigns,
         NEW t \in Txns, RequestFits(t), PaymentLockedBy(t), MirrorsOf(t), DraftsLockedBy(t),
         InvoiceFits(t), StatusLockedBy(t), RowsHaveSigns(t), VoidsWhatIsClean(t), Step(t),
         NEW i \in Invoices, inv[i].status = "VOID" => invSum[i] = 0, inv'[i].status = "VOID"
  PROVE  invSum'[i] = 0
<1>1. CASE ~Commit(t)
  BY <1>1, OnlyCommitWrites DEF database
<1>2. CASE Commit(t)
  <2>1. invSum'[i] = AllocatedSeen(t, i)
    BY <1>2, InvoiceOfACommit
  <2>2. CASE inv[i].status = "VOID"
    <3>1. rows[t][i] = 0
      BY <1>2, <2>2, NoRowsOnVoid
    <3>2. QED
      BY <2>1, <2>2, <3>1, SeenAsStored
  <2>3. CASE inv[i].status # "VOID"
    <3>1. ~Creates(t, i)
      BY InvoicesOfATurn
    <3>2. inv'[i] = [status |-> StatusSeen(t, i), wht |-> WhtSeen(t, i), num |-> inv[i].num]
      BY <1>2, <3>1, InvoiceOfACommit
    <3>3. stat[t][i] = "VOID"
      BY <2>3, <3>2 DEF StatusSeen
    <3>4. req[t].op = "void" /\ invSum[i] = 0
      BY <3>3 DEF StatusLockedBy, VoidsWhatIsClean
    <3>5. rows[t][i] = 0
      BY <3>4 DEF DraftsLockedBy
    <3>6. QED
      BY <2>1, <3>4, <3>5, SeenAsStored
  <2>4. QED
    BY <2>2, <2>3
<1>3. QED
  BY <1>1, <1>2

-----------------------------------------------------------------------------
(* The invariant of void invoices.                                         *)

\* At first there is nothing to take back and nothing void.
LEMMA SealInit == Init => SealInvariant
<1> SUFFICES ASSUME Init PROVE SealInvariant
  OBVIOUS
<1>1. AllocationsHaveSigns /\ \A i \in Invoices : inv[i].status = "VOID" => invSum[i] = 0
  BY DEF Init, AllocationsHaveSigns
<1>2. ASSUME NEW t \in Txns PROVE RowsHaveSigns(t) /\ VoidsWhatIsClean(t)
  <2>1. req[t].op = "none" /\ pc[t] = "idle" /\ \A i \in Invoices : stat[t][i] = None
    BY DEF Init, NoRequest, Ask
  <2>2. QED
    BY <2>1, NullIsNoStatus DEF RowsHaveSigns, VoidsWhatIsClean, Statuses
<1>3. QED
  BY <1>1, <1>2 DEF SealInvariant

\* The step of one transaction keeps void invoices clean.
LEMMA SealTurn ==
  ASSUME SettlementInvariant, PaymentInvariant, StatusInvariant, SumsInvariant, SealInvariant,
         NEW t \in Txns, Turn(t)
  PROVE  SealInvariant'
<1>1. /\ TypeOK /\ LocksExclusive /\ Step(t) /\ ControlOf(t) /\ DraftsLockedBy(t)
      /\ \A u \in Txns : DraftsLockedBy(u) /\ GuardLockedBy(u)
  BY TurnIsStep DEF SettlementInvariant, ControlOK, DraftsAreLocked, GuardsAreLocked
<1>2. /\ RowsHavePayments /\ PaymentNotOverspent /\ ReversalsAreFlatAndSingle
      /\ \A u \in Txns : RequestFits(u)
      /\ PaymentLockedBy(t) /\ PaymentCovers(t) /\ MirrorsOf(t)
  BY DEF PaymentInvariant
<1>3. /\ InvoiceFits(t) /\ StatusHeldBy(t) /\ \A u \in Txns : StatusLockedBy(u)
  BY DEF StatusInvariant
<1>4. AggregatesExact /\ SpentIsOfRows(t)
  BY DEF SumsInvariant
<1>5. /\ AllocationsHaveSigns /\ \A i \in Invoices : inv[i].status = "VOID" => invSum[i] = 0
      /\ \A u \in Txns : RowsHaveSigns(u) /\ VoidsWhatIsClean(u)
  BY DEF SealInvariant
<1>6. AllocationsHaveSigns'
  BY <1>1, <1>2, <1>4, <1>5, AllocationsStep
<1>7. \A i \in Invoices : inv'[i].status = "VOID" => invSum'[i] = 0
  BY <1>1, <1>2, <1>3, <1>4, <1>5, VoidIsCleanStep
<1>8. RowsHaveSigns(t)' /\ VoidsWhatIsClean(t)'
  BY <1>1, <1>2, <1>3, <1>4, <1>5, SignsStep, CleanStep
<1>9. ASSUME NEW u \in Txns, u # t PROVE RowsHaveSigns(u)' /\ VoidsWhatIsClean(u)'
  BY <1>1, <1>2, <1>3, <1>5, <1>9, OthersSigns, OthersClean
<1>10. QED
  BY <1>6, <1>7, <1>8, <1>9 DEF SealInvariant

\* So does a step that writes nothing.
LEMMA SealStutter ==
  ASSUME SealInvariant, UNCHANGED <<database, pc, req, todo, rows, stat>>
  PROVE  SealInvariant'
<1>1. /\ AllocationsHaveSigns' /\ \A i \in Invoices : inv'[i].status = "VOID" => invSum'[i] = 0
  BY DEF SealInvariant, AllocationsHaveSigns, database
<1>2. \A t \in Txns : RowsHaveSigns(t)' /\ VoidsWhatIsClean(t)'
  BY DEF SealInvariant, RowsHaveSigns, VoidsWhatIsClean, database
<1>3. QED
  BY <1>1, <1>2 DEF SealInvariant

\* Every step keeps void invoices clean.
LEMMA SealStep ==
  SettlementInvariant /\ PaymentInvariant /\ StatusInvariant /\ SumsInvariant /\ SealInvariant
    /\ [Next]_vars => SealInvariant'
<1> SUFFICES ASSUME SettlementInvariant, PaymentInvariant, StatusInvariant, SumsInvariant,
                    SealInvariant, [Next]_vars
             PROVE  SealInvariant'
  OBVIOUS
<1>1. CASE UNCHANGED vars
  BY <1>1, SealStutter DEF vars, drafts
<1>2. ASSUME NEW n \in Crons, StartSweep(n) PROVE SealInvariant'
  BY <1>2, SealStutter DEF StartSweep, drafts
<1>3. QED
  BY <1>1, <1>2, SealTurn, NextIsATurn

\* Void invoices are clean in every state.
LEMMA SealsHold == Spec => []SealInvariant
<1>1. QED
  BY SealInit, SealStep, SettlementHolds, PaymentsHold, StatusHolds, SumsHold, PTL DEF Spec

\* voidInvoice, guardAndInsertAllocation, recordWithholding and reverse: an invoice once
\* void keeps its status, its number and every allocation, and has neither money nor tax
\* withheld on it, whatever runs at once.
THEOREM VoidInvoicesAreSealed == Spec => VoidIsSealed
<1> DEFINE Sealed == \A i \in Invoices : inv[i].status = "VOID" =>
              /\ inv'[i] = inv[i]
              /\ \A p \in Payments : alloc'[p][i] = alloc[p][i]
              /\ invSum[i] = 0 /\ inv[i].wht = 0
<1>1. ASSUME SettlementInvariant, PaymentInvariant, StatusInvariant, SumsInvariant, SealInvariant,
             [Next]_vars
      PROVE  [Sealed]_vars
  <2>1. \A i \in Invoices : inv[i].status = "VOID" => invSum[i] = 0 /\ inv[i].wht = 0
    BY <1>1 DEF SealInvariant, StatusInvariant
  <2>2. ASSUME NEW t \in Txns, Turn(t) PROVE Sealed
    <3>1. /\ Step(t) /\ TypeOK /\ DraftsLockedBy(t) /\ InvoiceFits(t) /\ StatusLockedBy(t)
          /\ RowsHavePayments /\ ReversalsAreFlatAndSingle /\ AggregatesExact /\ AllocationsHaveSigns
          /\ RequestFits(t) /\ PaymentLockedBy(t) /\ MirrorsOf(t) /\ RowsHaveSigns(t)
      BY <1>1, <2>2, TurnIsStep DEF SettlementInvariant, DraftsAreLocked, StatusInvariant,
         PaymentInvariant, SumsInvariant, SealInvariant
    <3>2. ASSUME NEW i \in Invoices, inv[i].status = "VOID", NEW p \in Payments
          PROVE  alloc'[p][i] = alloc[p][i]
      <4>1. Commit(t) => rows[t][i] = 0
        BY <2>1, <3>1, <3>2, NoRowsOnVoid
      <4>2. alloc[p][i] \in Int
        BY <3>1 DEF TypeOK, CommittedTyped
      <4>3. QED
        BY <3>1, <4>1, <4>2, RowsOfATurn
    <3>3. QED
      BY <2>1, <3>1, <3>2, InvoicesOfATurn
  <2>3. ASSUME NEW n \in Crons, StartSweep(n) PROVE Sealed
    BY <2>1, <2>3 DEF StartSweep, database
  <2>4. QED
    BY <1>1, <2>2, <2>3, NextIsATurn
<1>2. SettlementInvariant /\ PaymentInvariant /\ StatusInvariant /\ SumsInvariant /\ SealInvariant
        /\ [Next]_vars => [Sealed]_vars
  BY <1>1
<1>3. QED
  BY <1>2, SettlementHolds, PaymentsHold, StatusHolds, SumsHold, SealsHold, PTL DEF Spec, VoidIsSealed

-----------------------------------------------------------------------------
(* Owners.                                                                 *)

\* What a request begins with is of its customer.
LEMMA OpeningWorks ==
  ASSUME TypeOK, NEW t \in Txns, Opening(t)
  PROVE  /\ req'[t].op \in {"create", "void", "withhold"} => InvCustomer[req'[t].inv] = req'[t].cust
         /\ req'[t].op = "allocate" => pay[req'[t].pay].cust = req'[t].cust
         /\ req'[t].op = "reverse" => pay[req'[t].orig].cust = req'[t].cust
<1>1. CASE CreateInvoice(t)
  <2>1. PICK i \in Invoices :
          /\ inv[i].status = "NONE"
          /\ \A u \in Txns : req[u].op = "create" => req[u].inv # i
          /\ Begin(t, Ask("create", InvCustomer[i], i, None, 0, None), <<>>, "claim")
    BY <1>1 DEF CreateInvoice
  <2>2. req'[t].op = "create" /\ req'[t].cust = InvCustomer[i] /\ req'[t].inv = i
    BY <2>1, BeginEffect, AskFields
  <2>3. QED
    BY <2>2
<1>2. CASE RecordPayment(t)
  <2>1. PICK c \in Customers, a \in Amounts, p \in Payments, l \in AllocationLists :
          IsFresh(p) /\ Begin(t, Ask("record", c, None, p, a, None), l, "claim")
    BY <1>2 DEF RecordPayment
  <2>2. req'[t].op = "record"
    BY <2>1, BeginEffect, AskFields
  <2>3. QED
    BY <2>2
<1>3. CASE Allocate(t)
  <2>1. PICK p \in Payments, line \in AllocationLine :
          /\ pay[p] # None
          /\ Begin(t, Ask("allocate", pay[p].cust, None, p, pay[p].amt, None), <<line>>, "payLock")
    BY <1>3 DEF Allocate
  <2>2. req'[t].op = "allocate" /\ req'[t].cust = pay[p].cust /\ req'[t].pay = p
    BY <2>1, BeginEffect, AskFields
  <2>3. QED
    BY <2>2
<1>4. CASE ReversePayment(t)
  <2>1. PICK p \in Payments, q \in Payments :
          /\ pay[p] # None /\ IsFresh(q)
          /\ Begin(t, Ask("reverse", pay[p].cust, None, q, -pay[p].amt, p), <<>>, "claim")
    BY <1>4 DEF ReversePayment
  <2>2. req'[t].op = "reverse" /\ req'[t].orig = p /\ req'[t].cust = pay[p].cust
    BY <2>1, BeginEffect, AskFields
  <2>3. QED
    BY <2>2
<1>5. CASE VoidInvoice(t)
  <2>1. PICK i \in Invoices :
          /\ inv[i].status # "NONE"
          /\ Begin(t, Ask("void", InvCustomer[i], i, None, 0, None),
                   <<[inv |-> i, amt |-> 0]>>, "invLock")
    BY <1>5 DEF VoidInvoice
  <2>2. req'[t].op = "void" /\ req'[t].cust = InvCustomer[i] /\ req'[t].inv = i
    BY <2>1, BeginEffect, AskFields
  <2>3. QED
    BY <2>2
<1>6. CASE RecordWithholding(t)
  <2>1. PICK i \in Invoices, a \in Amounts \cup {0} :
          /\ inv[i].status # "NONE"
          /\ Begin(t, Ask("withhold", InvCustomer[i], i, None, 0, None),
                   <<[inv |-> i, amt |-> a]>>, "invLock")
    BY <1>6 DEF RecordWithholding
  <2>2. req'[t].op = "withhold" /\ req'[t].cust = InvCustomer[i] /\ req'[t].inv = i
    BY <2>1, BeginEffect, AskFields
  <2>3. QED
    BY <2>2
<1>7. CASE t \in Crons /\ ReconcileOne(t)
  <2>1. PICK c \in sweep[t] : Begin(t, Ask("reconcile", c, None, None, 0, None), <<>>, "balInvoices")
    BY <1>7 DEF ReconcileOne
  <2>2. req'[t].op = "reconcile"
    BY <2>1, BeginEffect, AskFields
  <2>3. QED
    BY <2>2
<1>8. QED
  BY <1>1, <1>2, <1>3, <1>4, <1>5, <1>6, <1>7 DEF Opening, Arrive

\* The lines of a reversal are invoices of its customer.
LEMMA MirrorsAreOwn ==
  ASSUME TypeOK, RowsFit, NEW t \in Txns, ControlOf(t), MirrorsOf(t), pc[t] = "mirror",
         pay[req[t].orig].cust = req[t].cust,
         NEW i \in Invoices,
         MirrorRow(t, i) # 0 \/ \E n \in DOMAIN todo[t] : todo[t][n].inv = i
  PROVE  InvCustomer[i] = req[t].cust
<1>1. req[t].op = "reverse" /\ req[t].orig \in Payments
  BY DEF ControlOf, TypeOK, ControlTyped, RequestComplete
<1>2. alloc[req[t].orig][i] # 0
  <2>1. CASE \E n \in DOMAIN todo[t] : todo[t][n].inv = i
    BY <1>1, <2>1 DEF MirrorsOf
  <2>2. CASE ~ \E n \in DOMAIN todo[t] : todo[t][n].inv = i
    BY <2>2 DEF MirrorRow
  <2>3. QED
    BY <2>1, <2>2
<1>3. QED
  BY <1>1, <1>2 DEF RowsFit

\* The first line of a status to be compared is pending.
LEMMA HeadIsPending ==
  ASSUME TypeOK, NEW t \in Txns, ControlOf(t), pc[t] = "cas"
  PROVE  Head(todo[t]).inv \in Invoices /\ Pending(t, Head(todo[t]).inv)
<1>1. todo[t] # <<>> /\ todo[t] \in Seq(Line)
  BY DEF ControlOf, TypeOK, ControlTyped
<1>2. 1 \in DOMAIN todo[t] /\ Head(todo[t]) = todo[t][1]
  BY <1>1, LenProperties, EmptySeq, HeadTailProperties
<1>3. QED
  BY <1>1, <1>2, HeadIsLine DEF Pending, TypeOK

\* A transaction works on one customer's rows, after its own step as before.
LEMMA WorksForStep ==
  ASSUME TypeOK, RowsFit, NEW t \in Txns, ControlOf(t), RequestFits(t), DraftsLockedBy(t), StatusLockedBy(t),
         MirrorsOf(t), WorksFor(t), Turn(t)
  PROVE  WorksFor(t)'
<1>1. CASE Opening(t)
  <2>1. /\ pc[t] = "idle" /\ pay' = pay /\ rows' = rows /\ stat' = stat /\ pc'[t] = BeginsAt(req'[t].op)
    BY <1>1, OpeningFits DEF database, drafts
  <2>2. \A i \in Invoices : rows[t][i] = 0 /\ stat[t][i] = None
    BY <2>1 DEF ControlOf, DraftsLockedBy, StatusLockedBy
  <2>3. pc'[t] \notin {"insert", "derive", "cas"}
    BY <2>1 DEF BeginsAt
  <2>4. \A i \in Invoices : ~Pending(t, i)'
    BY <2>3 DEF Pending
  <2>5. QED
    BY <1>1, <2>1, <2>2, <2>3, <2>4, OpeningWorks DEF WorksFor
<1>2. CASE Ending(t)
  <2>1. /\ req'[t].op = "none" /\ pc'[t] = "idle"
        /\ \A i \in Invoices : rows'[t][i] = 0 /\ stat'[t][i] = None
    BY <1>2, EndingClears DEF NoRequest, Ask
  <2>2. \A i \in Invoices : ~Pending(t, i)'
    BY <2>1 DEF Pending
  <2>3. QED
    BY <2>1, <2>2 DEF WorksFor
<1>3. CASE Reading(t) \/ Locking(t) \/ Writing(t)
  <2>1. req' = req /\ pay' = pay
    BY <1>3, StatementKeeps DEF database
  <2>2. ASSUME pc'[t] = "insert" PROVE InvCustomer[Head(todo'[t]).inv] = req[t].cust
    <3>1. GuardAllocation(t)
      BY <1>3, <2>2, WhereTo DEF Reading, Locking, Writing, ControlOf
    <3>2. QED
      BY <3>1 DEF GuardAllocation, AllocationAllowed
  <2>3. ASSUME InsertMirrors(t), NEW i \in Invoices,
               MirrorRow(t, i) # 0 \/ \E n \in DOMAIN todo[t] : todo[t][n].inv = i
        PROVE  InvCustomer[i] = req[t].cust
    <3>1. pc[t] = "mirror" /\ req[t].op = "reverse"
      BY <2>3 DEF InsertMirrors, ControlOf
    <3>2. QED
      BY <2>3, <3>1, MirrorsAreOwn DEF WorksFor
  <2>4. InsertAllocation(t) => pc[t] = "insert" /\ InvCustomer[Head(todo[t]).inv] = req[t].cust
    BY DEF InsertAllocation, WorksFor
  <2>5. WriteWithholding(t) => InvCustomer[Head(todo[t]).inv] = req[t].cust
    BY DEF WriteWithholding, ControlOf, WorksFor
  <2>6. CasStatus(t) => InvCustomer[Head(todo[t]).inv] = req[t].cust
    BY HeadIsPending DEF CasStatus, WorksFor
  <2>7. WriteVoid(t) => InvCustomer[req[t].inv] = req[t].cust
    BY DEF WriteVoid, ControlOf, WorksFor
  <2>8. ASSUME NEW i \in Invoices, rows'[t][i] # 0 PROVE InvCustomer[i] = req[t].cust
    <3>1. \/ rows'[t][i] = rows[t][i]
          \/ InsertAllocation(t) /\ i = Head(todo[t]).inv
          \/ InsertMirrors(t) /\ rows'[t][i] = MirrorRow(t, i)
      BY <1>3, WhatIsWritten
    <3>2. QED
      BY <2>3, <2>4, <2>8, <3>1 DEF WorksFor
  <2>9. ASSUME NEW i \in Invoices, stat'[t][i] # None PROVE InvCustomer[i] = req[t].cust
    <3>1. \/ stat'[t][i] = stat[t][i]
          \/ WriteVoid(t) /\ i = req[t].inv
          \/ CasStatus(t) /\ i = Head(todo[t]).inv
      BY <1>3, WhatIsWritten
    <3>2. QED
      BY <2>6, <2>7, <2>9, <3>1 DEF WorksFor
  <2>10. ASSUME NEW i \in Invoices, Pending(t, i)' PROVE InvCustomer[i] = req[t].cust
    <3>1. \/ Pending(t, i)
          \/ (InsertAllocation(t) \/ WriteWithholding(t)) /\ Head(todo[t]).inv = i
          \/ InsertMirrors(t) /\ \E n \in DOMAIN todo[t] : todo[t][n].inv = i
      BY <1>3, <2>10, PendingStep
    <3>2. QED
      BY <2>3, <2>4, <2>5, <3>1 DEF WorksFor
  <2>11. QED
    BY <2>1, <2>2, <2>8, <2>9, <2>10 DEF WorksFor
<1>4. QED
  BY <1>1, <1>2, <1>3 DEF Turn

\* And while others take their turns.
LEMMA OthersWorkFor ==
  ASSUME TypeOK, NEW t \in Txns, Step(t), RequestFits(t), NEW u \in Txns, u # t, RequestFits(u), WorksFor(u)
  PROVE  WorksFor(u)'
<1>1. pc'[u] = pc[u] /\ req'[u] = req[u] /\ todo'[u] = todo[u] /\ rows'[u] = rows[u] /\ stat'[u] = stat[u]
  BY OthersStay, OthersKeep DEF Same
<1>2. \A p \in Payments : pay[p] # None => pay'[p] = pay[p]
  BY PaymentsOfATurn
<1>3. \A i \in Invoices : Pending(u, i)' = Pending(u, i)
  BY <1>1 DEF Pending
<1>4. req[u].op = "allocate" => req[u].pay \in Payments /\ pay[req[u].pay] # None
  BY DEF RequestFits, TypeOK, ControlTyped, RequestComplete
<1>5. req[u].op = "reverse" => req[u].orig \in Payments /\ pay[req[u].orig] # None
  BY DEF RequestFits, TypeOK, ControlTyped, RequestComplete
<1>6. QED
  BY <1>1, <1>2, <1>3, <1>4, <1>5 DEF WorksFor

\* The payment a commit works on is of the customer of its request.
LEMMA PayerOf ==
  ASSUME TypeOK, NEW t \in Txns, RequestFits(t), WorksFor(t), Commit(t), NEW p \in Payments, req[t].pay = p
  PROVE  pay'[p] # None /\ pay'[p].cust = req[t].cust
<1>1. req[t].op \in {"record", "allocate", "reverse"}
  BY NullIsNoValue DEF RequestFits
<1>2. CASE InsertsPayment(t)
  <2>1. pay'[p] = [cust |-> req[t].cust, amt |-> req[t].amt, revOf |-> req[t].orig, num |-> num[t]]
    BY <1>2 DEF Commit, PaymentSeen
  <2>2. pay'[p] # None
    BY <1>2, TurnIsStep, PaymentsOfATurn DEF Turn, Ending, Step
  <2>3. QED
    BY <2>1, <2>2
<1>3. CASE ~InsertsPayment(t)
  <2>1. req[t].op = "allocate" /\ pay'[p] = pay[p] /\ pay[p] # None
    BY <1>1, <1>3 DEF InsertsPayment, RequestFits, Commit, PaymentSeen
  <2>2. QED
    BY <2>1 DEF WorksFor
<1>4. QED
  BY <1>2, <1>3

\* Allocations stay within one customer.
LEMMA RowsFitStep ==
  ASSUME TypeOK, RowsFit, NEW t \in Txns, RequestFits(t), WorksFor(t), Step(t)
  PROVE  RowsFit'
<1> SUFFICES ASSUME NEW p \in Payments, NEW i \in Invoices, alloc'[p][i] # 0
             PROVE  pay'[p] # None /\ pay'[p].cust = InvCustomer[i]
  BY DEF RowsFit
<1>1. pay[p] # None => pay'[p] = pay[p]
  BY PaymentsOfATurn
<1>2. CASE alloc[p][i] # 0
  BY <1>1, <1>2 DEF RowsFit
<1>3. CASE alloc[p][i] = 0
  <2>1. Commit(t) /\ req[t].pay = p
    BY <1>3, RowsOfATurn
  <2>2. alloc'[p][i] = alloc[p][i] + rows[t][i] /\ rows[t][i] \in Int
    BY <2>1, RowsOfATurn DEF TypeOK, DraftsTyped
  <2>3. rows[t][i] # 0
    BY <1>3, <2>2
  <2>4. QED
    BY <2>1, <2>3, PayerOf DEF WorksFor
<1>4. QED
  BY <1>2, <1>3

\* At first nothing is allocated, and nobody works.
LEMMA OwnersInit == Init => OwnersInvariant
<1> SUFFICES ASSUME Init PROVE OwnersInvariant
  OBVIOUS
<1>1. RowsFit
  BY DEF Init, RowsFit
<1>2. ASSUME NEW t \in Txns PROVE WorksFor(t)
  <2>1. req[t].op = "none" /\ pc[t] = "idle" /\ \A i \in Invoices : stat[t][i] = None /\ rows[t][i] = 0
    BY DEF Init, NoRequest, Ask
  <2>2. QED
    BY <2>1 DEF WorksFor, Pending
<1>3. QED
  BY <1>1, <1>2 DEF OwnersInvariant

\* The step of one transaction stays with its customer.
LEMMA OwnersTurn ==
  ASSUME SettlementInvariant, PaymentInvariant, StatusInvariant, OwnersInvariant, NEW t \in Txns, Turn(t)
  PROVE  OwnersInvariant'
<1>1. /\ TypeOK /\ Step(t) /\ ControlOf(t) /\ DraftsLockedBy(t)
      /\ \A u \in Txns : RequestFits(u) /\ WorksFor(u)
      /\ MirrorsOf(t) /\ StatusLockedBy(t) /\ RowsFit
  BY TurnIsStep DEF SettlementInvariant, ControlOK, DraftsAreLocked, PaymentInvariant, StatusInvariant,
     OwnersInvariant
<1>2. RowsFit' /\ WorksFor(t)'
  BY <1>1, RowsFitStep, WorksForStep
<1>3. \A u \in Txns \ {t} : WorksFor(u)'
  BY <1>1, OthersWorkFor
<1>4. QED
  BY <1>2, <1>3 DEF OwnersInvariant

\* Every step stays with its customer.
LEMMA OwnersStep ==
  SettlementInvariant /\ PaymentInvariant /\ StatusInvariant /\ OwnersInvariant /\ [Next]_vars
    => OwnersInvariant'
<1> SUFFICES ASSUME SettlementInvariant, PaymentInvariant, StatusInvariant, OwnersInvariant, [Next]_vars
             PROVE  OwnersInvariant'
  OBVIOUS
<1>1. ASSUME UNCHANGED <<database, pc, req, todo, rows, stat>> PROVE OwnersInvariant'
  <2>1. RowsFit'
    BY <1>1 DEF OwnersInvariant, RowsFit, database
  <2>2. ASSUME NEW t \in Txns PROVE WorksFor(t)'
    <3>1. \A i \in Invoices : Pending(t, i)' = Pending(t, i)
      BY <1>1 DEF Pending
    <3>2. QED
      BY <1>1, <3>1 DEF OwnersInvariant, WorksFor, database
  <2>3. QED
    BY <2>1, <2>2 DEF OwnersInvariant
<1>2. CASE UNCHANGED vars
  BY <1>1, <1>2 DEF vars, drafts
<1>3. ASSUME NEW n \in Crons, StartSweep(n) PROVE OwnersInvariant'
  BY <1>1, <1>3 DEF StartSweep, drafts
<1>4. QED
  BY <1>2, <1>3, OwnersTurn, NextIsATurn

\* Allocations and transactions stay with one customer in every state.
LEMMA OwnersHold == Spec => []OwnersInvariant
<1>1. QED
  BY OwnersInit, OwnersStep, SettlementHolds, PaymentsHold, StatusHolds, PTL DEF Spec

\* Every reachable state of the ledger satisfies the whole inductive invariant that the
\* runs check: settlement, payments, statuses, numbers, what
\* may be waited for, sums, void invoices and owners.
THEOREM InductiveHolds == Spec => []Inductive
<1>1. QED
  BY SettlementHolds, PaymentsHold, StatusHolds, NumbersHold, WaitsHold, SumsHold, SealsHold,
     OwnersHold, PTL DEF Inductive

-----------------------------------------------------------------------------
(* What balances are summed from.                                          *)

OpenOf(c, status) == {i \in Invoices : InvCustomer[i] = c /\ status[i] \notin {"NONE", "VOID"}}
DueOn(withheld, allocated, S) == [i \in S |-> InvTotal[i] - withheld[i] - allocated[i]]

LiveOf(c, table) == {p \in Payments : IsLive(table, p) /\ table[p].cust = c}
LeftOf(table, allocated, S) == [p \in S |-> table[p].amt - allocated[p]]

\* What a customer was invoiced is a sum over the open invoices.
LEMMA InvoicedIs ==
  ASSUME NEW c, NEW status, NEW withheld \in [Invoices -> Int], NEW allocated \in [Invoices -> Int],
         NEW S, S = OpenOf(c, status)
  PROVE  InvoicedBalance(c, status, withheld, allocated) = SumOver(DueOn(withheld, allocated, S), S)
<1> DEFINE w == DueOn(withheld, allocated, S)
           Adds(g) == g = [s \in SUBSET S |->
                             IF s = {} THEN 0 ELSE (InvTotal[CHOOSE x \in s : TRUE]
                                                      - withheld[CHOOSE x \in s : TRUE]
                                                      - allocated[CHOOSE x \in s : TRUE])
                                                   + g[s \ {CHOOSE x \in s : TRUE}]]
<1>1. InvoicedBalance(c, status, withheld, allocated) = (CHOOSE g : Adds(g))[S]
  BY DEF InvoicedBalance, OpenOf, MapThenSumSet, MapThenFoldSet
<1>2. /\ S \subseteq Invoices /\ IsFiniteSet(S)
      /\ w \in [S -> Int] /\ \A i \in S : w[i] = InvTotal[i] - withheld[i] - allocated[i]
  <2>1. S \subseteq Invoices /\ IsFiniteSet(S)
    BY InvoicesAreOrdered, FS_Subset DEF OpenOf
  <2>2. \A i \in S : InvTotal[i] - withheld[i] - allocated[i] \in Int
    BY <2>1, TotalsArePositive
  <2>3. QED
    BY <2>1, <2>2 DEF DueOn
<1> HIDE DEF w
<1>3. PICK f \in [SUBSET S -> Int] : SumsUp(f, w, S)
  BY <1>2, SumsExist
<1>4. Adds(f)
  <2>1. ASSUME NEW s \in SUBSET S
        PROVE  f[s] = IF s = {} THEN 0 ELSE (InvTotal[CHOOSE x \in s : TRUE]
                                               - withheld[CHOOSE x \in s : TRUE]
                                               - allocated[CHOOSE x \in s : TRUE])
                                             + f[s \ {CHOOSE x \in s : TRUE}]
    <3>1. f[s] = IF s = {} THEN 0 ELSE w[Pick(s)] + f[s \ {Pick(s)}]
      BY <1>3 DEF SumsUp
    <3>2. s # {} => Pick(s) \in S
      BY DEF Pick
    <3>3. QED
      BY <1>2, <3>1, <3>2 DEF Pick
  <2>2. QED
    BY <2>1
<1>5. Adds(CHOOSE g : Adds(g))
  <2> HIDE DEF Adds
  <2>1. QED
    BY <1>4, Zenon
<1>6. \A g : Adds(g) => SumsUp(g, w, S)
  <2>1. \A s \in SUBSET S : s # {} => Pick(s) \in S
    BY DEF Pick
  <2>2. QED
    BY <1>2, <2>1 DEF SumsUp, Pick
<1>7. AddsUp(w, S)
  BY <1>2, SumsAdd
<1> HIDE DEF Adds
<1>8. QED
  BY <1>1, <1>5, <1>6, <1>7 DEF AddsUp, w

\* What of a customer's payments is left is a sum over the live ones.
LEMMA UnappliedIs ==
  ASSUME NEW c, NEW table, NEW allocated \in [Payments -> Int],
         \A p \in Payments : table[p] # None => table[p].amt \in Int,
         NEW S, S = LiveOf(c, table)
  PROVE  UnappliedCash(c, table, allocated) = SumOver(LeftOf(table, allocated, S), S)
<1> DEFINE w == LeftOf(table, allocated, S)
           Adds(g) == g = [s \in SUBSET S |->
                             IF s = {} THEN 0 ELSE (table[CHOOSE x \in s : TRUE].amt
                                                      - allocated[CHOOSE x \in s : TRUE])
                                                   + g[s \ {CHOOSE x \in s : TRUE}]]
<1>1. UnappliedCash(c, table, allocated) = (CHOOSE g : Adds(g))[S]
  BY DEF UnappliedCash, LiveOf, MapThenSumSet, MapThenFoldSet
<1>2. /\ S \subseteq Payments /\ IsFiniteSet(S)
      /\ w \in [S -> Int] /\ \A p \in S : w[p] = table[p].amt - allocated[p]
  <2>1. S \subseteq Payments /\ IsFiniteSet(S)
    BY PaymentsAreFinite, FS_Subset DEF LiveOf
  <2>2. \A p \in S : table[p].amt - allocated[p] \in Int
    BY <2>1 DEF LiveOf, IsLive
  <2>3. QED
    BY <2>1, <2>2 DEF LeftOf
<1> HIDE DEF w
<1>3. PICK f \in [SUBSET S -> Int] : SumsUp(f, w, S)
  BY <1>2, SumsExist
<1>4. Adds(f)
  <2>1. ASSUME NEW s \in SUBSET S
        PROVE  f[s] = IF s = {} THEN 0 ELSE (table[CHOOSE x \in s : TRUE].amt
                                               - allocated[CHOOSE x \in s : TRUE])
                                             + f[s \ {CHOOSE x \in s : TRUE}]
    <3>1. f[s] = IF s = {} THEN 0 ELSE w[Pick(s)] + f[s \ {Pick(s)}]
      BY <1>3 DEF SumsUp
    <3>2. s # {} => Pick(s) \in S
      BY DEF Pick
    <3>3. QED
      BY <1>2, <3>1, <3>2 DEF Pick
  <2>2. QED
    BY <2>1
<1>5. Adds(CHOOSE g : Adds(g))
  <2> HIDE DEF Adds
  <2>1. QED
    BY <1>4, Zenon
<1>6. \A g : Adds(g) => SumsUp(g, w, S)
  <2>1. \A s \in SUBSET S : s # {} => Pick(s) \in S
    BY DEF Pick
  <2>2. ASSUME NEW g, Adds(g) PROVE SumsUp(g, w, S)
    <3>1. \A s \in SUBSET S : (IF s = {} THEN 0 ELSE (table[CHOOSE x \in s : TRUE].amt
                                               - allocated[CHOOSE x \in s : TRUE])
                                             + g[s \ {CHOOSE x \in s : TRUE}])
                               = (IF s = {} THEN 0 ELSE w[Pick(s)] + g[s \ {Pick(s)}])
      BY <1>2, <2>1 DEF Pick
    <3>2. QED
      BY <2>2, <3>1 DEF SumsUp
  <2>3. QED
    BY <2>2
<1>7. AddsUp(w, S)
  BY <1>2, SumsAdd
<1> HIDE DEF Adds
<1>8. QED
  BY <1>1, <1>5, <1>6, <1>7 DEF AddsUp, w

\* Status, tax withheld and allocations agree on the invoices of a customer.
SameInvoices(c, s1, w1, a1, s2, w2, a2) ==
  \A i \in Invoices : InvCustomer[i] = c => s1[i] = s2[i] /\ w1[i] = w2[i] /\ a1[i] = a2[i]

\* Then so does what the customer was invoiced.
LEMMA InvoicedSame ==
  ASSUME NEW c, NEW s1, NEW s2,
         NEW w1 \in [Invoices -> Int], NEW a1 \in [Invoices -> Int],
         NEW w2 \in [Invoices -> Int], NEW a2 \in [Invoices -> Int],
         SameInvoices(c, s1, w1, a1, s2, w2, a2)
  PROVE  InvoicedBalance(c, s1, w1, a1) = InvoicedBalance(c, s2, w2, a2)
<1> DEFINE S == OpenOf(c, s1)
<1>1. OpenOf(c, s2) = S
  BY DEF SameInvoices, OpenOf
<1>2. DueOn(w1, a1, S) = DueOn(w2, a2, S)
  BY DEF SameInvoices, OpenOf, DueOn
<1> HIDE DEF S
<1>3. InvoicedBalance(c, s1, w1, a1) = SumOver(DueOn(w1, a1, S), S)
  BY InvoicedIs DEF S
<1>4. InvoicedBalance(c, s2, w2, a2) = SumOver(DueOn(w2, a2, S), S)
  BY <1>1, InvoicedIs
<1>5. QED
  BY <1>2, <1>3, <1>4

\* The amounts of a table of payments, and of what is allocated of them, are amounts.
CashTyped(table, allocated) ==
  /\ allocated \in [Payments -> Int]
  /\ \A p \in Payments : table[p] # None => table[p].amt \in Int

\* Two tables of payments differ by what is no business of a customer.
SameCash(c, t1, a1, t2, a2) ==
  \A q \in Payments :
    /\ t2[q] # t1[q] =>
         /\ t1[q] = None /\ t2[q].cust # c
         /\ \A p \in Payments : t2[q].revOf = p => t1[p] # None /\ t1[p].cust # c
    /\ t2[q] # None /\ t2[q].cust = c => a2[q] = a1[q]

\* Then the customer has the same left.
LEMMA UnappliedSame ==
  ASSUME NEW c, NEW t1, NEW t2, NEW a1, NEW a2,
         CashTyped(t1, a1), CashTyped(t2, a2), SameCash(c, t1, a1, t2, a2)
  PROVE  UnappliedCash(c, t1, a1) = UnappliedCash(c, t2, a2)
<1> DEFINE S == LiveOf(c, t1)
<1>1. ASSUME NEW p \in S PROVE p \in LiveOf(c, t2)
  <2>1. p \in Payments /\ t1[p] # None /\ t1[p].cust = c /\ t1[p].revOf = None
        /\ \A q \in Payments : t1[q] # None => t1[q].revOf # p
    BY DEF LiveOf, IsLive
  <2>2. t2[p] = t1[p]
    BY <2>1 DEF SameCash
  <2>3. \A q \in Payments : t2[q] # None => t2[q].revOf # p
    BY <2>1 DEF SameCash
  <2>4. QED
    BY <2>1, <2>2, <2>3 DEF LiveOf, IsLive
<1>2. ASSUME NEW p \in LiveOf(c, t2) PROVE p \in S
  <2>1. p \in Payments /\ t2[p] # None /\ t2[p].cust = c /\ t2[p].revOf = None
        /\ \A q \in Payments : t2[q] # None => t2[q].revOf # p
    BY DEF LiveOf, IsLive
  <2>2. t2[p] = t1[p]
    BY <2>1 DEF SameCash
  <2>3. \A q \in Payments : t1[q] # None => t1[q].revOf # p
    BY <2>1 DEF SameCash
  <2>4. QED
    BY <2>1, <2>2, <2>3 DEF LiveOf, IsLive
<1>3. LiveOf(c, t2) = S
  BY <1>1, <1>2
<1>4. \A p \in S : t1[p].amt - a1[p] = t2[p].amt - a2[p]
  BY <1>1 DEF SameCash, LiveOf, IsLive
<1> HIDE DEF S
<1>5. LeftOf(t1, a1, S) = LeftOf(t2, a2, S)
  BY <1>4 DEF LeftOf
<1>6. UnappliedCash(c, t1, a1) = SumOver(LeftOf(t1, a1, S), S)
  BY UnappliedIs DEF CashTyped, S
<1>7. UnappliedCash(c, t2, a2) = SumOver(LeftOf(t2, a2, S), S)
  BY <1>3, UnappliedIs DEF CashTyped
<1>8. QED
  BY <1>5, <1>6, <1>7

\* What a transaction sees are amounts.
LEMMA SeenAmounts ==
  ASSUME TypeOK, NEW t \in Txns
  PROVE  /\ [i \in Invoices |-> WhtSeen(t, i)] \in [Invoices -> Int]
         /\ [i \in Invoices |-> AllocatedSeen(t, i)] \in [Invoices -> Int]
         /\ CashTyped([p \in Payments |-> PaymentSeen(t, p)], [p \in Payments |-> SpentSeen(t, p)])
<1>1. \A i \in Invoices : WhtSeen(t, i) \in Int /\ AllocatedSeen(t, i) \in Int
  BY NullIsNoValue DEF WhtSeen, AllocatedSeen, TypeOK, CommittedTyped, DraftsTyped, Invoice
<1>2. \A p \in Payments : SpentSeen(t, p) \in Int
  BY DEF SpentSeen, TypeOK, CommittedTyped, DraftsTyped
<1>3. \A p \in Payments : PaymentSeen(t, p) # None => PaymentSeen(t, p).amt \in Int
  <2>1. \A p \in Payments : pay[p] # None => pay[p].amt \in Int
    BY DEF TypeOK, CommittedTyped, Payment
  <2>2. req[t].amt \in Int
    BY DEF TypeOK, ControlTyped, Request
  <2>3. QED
    BY <2>1, <2>2 DEF PaymentSeen
<1>4. QED
  BY <1>1, <1>2, <1>3 DEF CashTyped

\* What is stored are amounts.
LEMMA StoredAmounts ==
  ASSUME TypeOK
  PROVE  /\ [i \in Invoices |-> inv[i].wht] \in [Invoices -> Int]
         /\ invSum \in [Invoices -> Int]
         /\ CashTyped(pay, paySum)
<1>1. \A i \in Invoices : inv[i].wht \in Int
  BY DEF TypeOK, CommittedTyped, Invoice
<1>2. QED
  BY <1>1 DEF CashTyped, TypeOK, CommittedTyped, Payment

\* The stored invoices of a customer, and the stored payments, before and after a step.
InvoicesStay(c) ==
  \A i \in Invoices : InvCustomer[i] = c =>
    inv'[i].status = inv[i].status /\ inv'[i].wht = inv[i].wht /\ invSum'[i] = invSum[i]

CashStays(c) == SameCash(c, pay, paySum, pay', paySum')

\* A commit for another customer is no business of a customer.
LEMMA OthersBusiness ==
  ASSUME TypeOK, TypeOK', NEW t \in Txns, Step(t), RequestFits(t), WorksFor(t), DraftsLockedBy(t),
         NEW c, Commit(t) => c # req[t].cust
  PROVE  InvoicesStay(c) /\ CashStays(c)
<1>1. CASE ~Commit(t)
  <2>1. inv' = inv /\ invSum' = invSum /\ pay' = pay /\ paySum' = paySum
    BY <1>1, OnlyCommitWrites DEF database
  <2>2. QED
    BY <2>1 DEF InvoicesStay, CashStays, SameCash
<1>2. CASE Commit(t)
  <2>1. c # req[t].cust
    BY <1>2
  <2>2. ASSUME NEW i \in Invoices, InvCustomer[i] = c
        PROVE  inv'[i].status = inv[i].status /\ inv'[i].wht = inv[i].wht /\ invSum'[i] = invSum[i]
    <3>1. rows[t][i] = 0 /\ stat[t][i] = None
      BY <2>1, <2>2 DEF WorksFor
    <3>2. ~Creates(t, i) /\ (wht[t] = None \/ req[t].inv # i)
      BY <2>1, <2>2 DEF WorksFor, Creates, DraftsLockedBy
    <3>3. /\ invSum'[i] = AllocatedSeen(t, i)
          /\ inv'[i] = [status |-> StatusSeen(t, i), wht |-> WhtSeen(t, i), num |-> inv[i].num]
      BY <1>2, <3>2, InvoiceOfACommit
    <3>4. QED
      BY <3>1, <3>2, <3>3, SeenAsStored
  <2>3. ASSUME NEW q \in Payments, pay'[q] # pay[q]
        PROVE  /\ pay[q] = None /\ pay'[q].cust # c
               /\ \A p \in Payments : pay'[q].revOf = p => pay[p] # None /\ pay[p].cust # c
    <3>1. /\ pay[q] = None /\ InsertsPayment(t) /\ req[t].pay = q
          /\ pay'[q] # None /\ pay'[q].revOf = req[t].orig
      BY <2>3, PaymentsOfATurn
    <3>2. pay'[q].cust # c
      BY <1>2, <2>1, <3>1, PayerOf
    <3>3. ASSUME NEW p \in Payments, pay'[q].revOf = p PROVE pay[p] # None /\ pay[p].cust # c
      <4>1. req[t].op = "reverse" /\ req[t].orig = p
        BY <3>1, <3>3, NullIsNoValue DEF RequestFits
      <4>2. QED
        BY <2>1, <4>1 DEF RequestFits, WorksFor
    <3>4. QED
      BY <3>1, <3>2, <3>3
  <2>4. ASSUME NEW q \in Payments, pay'[q] # None, pay'[q].cust = c PROVE paySum'[q] = paySum[q]
    <3>1. req[t].pay # q
      BY <1>2, <2>1, <2>4, PayerOf
    <3>2. QED
      BY <3>1, RowsOfATurn
  <2>5. QED
    BY <2>2, <2>3, <2>4 DEF InvoicesStay, CashStays, SameCash
<1>3. QED
  BY <1>1, <1>2

\* What a balance is computed from, with what is stored after the step.
LEMMA AfterNext ==
  \A t :
    /\ InvoicedAfter(t)' =
         InvoicedBalance(req'[t].cust,
           [i \in Invoices |-> IF req'[t].op = "create" /\ req'[t].inv = i
                                 THEN "ISSUED" ELSE StatusSeen(t, i)'],
           [i \in Invoices |-> WhtSeen(t, i)'], [i \in Invoices |-> AllocatedSeen(t, i)'])
    /\ UnappliedAfter(t)' =
         UnappliedCash(req'[t].cust, [p \in Payments |-> PaymentSeen(t, p)'],
                       [p \in Payments |-> SpentSeen(t, p)'])
BY DEF InvoicedAfter, UnappliedAfter, InvoicedBalance, UnappliedCash, StatusSeen, WhtSeen, AllocatedSeen,
   PaymentSeen, SpentSeen, InsertsPayment, IsLive, MapThenSumSet, MapThenFoldSet

-----------------------------------------------------------------------------
(* What a transaction will have left when it commits.                      *)

\* The drafts of a transaction that a balance counts.
DraftsStay(t) ==
  req'[t] = req[t] /\ stat'[t] = stat[t] /\ wht'[t] = wht[t] /\ rows'[t] = rows[t]
  /\ num'[t] = num[t] /\ spent'[t] = spent[t]

\* What a transaction will have invoiced stays, with the invoices of its customer.
LEMMA InvoicedStays ==
  ASSUME TypeOK, TypeOK', NEW t \in Txns, DraftsStay(t), InvoicesStay(req[t].cust)
  PROVE  InvoicedAfter(t)' = InvoicedAfter(t)
<1> DEFINE c  == req[t].cust
           s1 == [i \in Invoices |-> IF req[t].op = "create" /\ req[t].inv = i
                                       THEN "ISSUED" ELSE StatusSeen(t, i)]
           s2 == [i \in Invoices |-> IF req'[t].op = "create" /\ req'[t].inv = i
                                       THEN "ISSUED" ELSE StatusSeen(t, i)']
           w1 == [i \in Invoices |-> WhtSeen(t, i)]
           w2 == [i \in Invoices |-> WhtSeen(t, i)']
           a1 == [i \in Invoices |-> AllocatedSeen(t, i)]
           a2 == [i \in Invoices |-> AllocatedSeen(t, i)']
<1>1. ASSUME NEW i \in Invoices, InvCustomer[i] = c
      PROVE  s1[i] = s2[i] /\ w1[i] = w2[i] /\ a1[i] = a2[i]
  <2>1. inv'[i].status = inv[i].status /\ inv'[i].wht = inv[i].wht /\ invSum'[i] = invSum[i]
    BY <1>1 DEF InvoicesStay
  <2>2. StatusSeen(t, i)' = StatusSeen(t, i)
    BY <2>1 DEF DraftsStay, StatusSeen
  <2>3. WhtSeen(t, i)' = WhtSeen(t, i)
    BY <2>1 DEF DraftsStay, WhtSeen
  <2>4. AllocatedSeen(t, i)' = AllocatedSeen(t, i)
    BY <2>1 DEF DraftsStay, AllocatedSeen
  <2>5. QED
    BY <2>2, <2>3, <2>4 DEF DraftsStay
<1>2. /\ w1 \in [Invoices -> Int] /\ a1 \in [Invoices -> Int]
  BY SeenAmounts
<1>3. w2 \in [Invoices -> Int] /\ a2 \in [Invoices -> Int]
  <2>1. \A i \in Invoices : WhtSeen(t, i)' \in Int /\ AllocatedSeen(t, i)' \in Int
    BY NullIsNoValue DEF WhtSeen, AllocatedSeen, TypeOK, CommittedTyped, DraftsTyped, Invoice
  <2>2. QED
    BY <2>1
<1>4. InvoicedAfter(t) = InvoicedBalance(c, s1, w1, a1)
  BY DEF InvoicedAfter
<1>5. InvoicedAfter(t)' = InvoicedBalance(c, s2, w2, a2)
  BY AfterNext DEF DraftsStay
<1>6. SameInvoices(c, s1, w1, a1, s2, w2, a2)
  BY <1>1 DEF SameInvoices
<1> HIDE DEF c, s1, s2, w1, w2, a1, a2
<1>7. InvoicedBalance(c, s1, w1, a1) = InvoicedBalance(c, s2, w2, a2)
  BY <1>2, <1>3, <1>6, InvoicedSame
<1>8. QED
  BY <1>4, <1>5, <1>7

\* What a transaction will have left unapplied stays, with the payments of its customer.
LEMMA UnappliedStays ==
  ASSUME TypeOK, TypeOK', NEW t \in Txns, DraftsStay(t), RequestFits(t), CashStays(req[t].cust),
         \A q \in Payments : InsertsPayment(t) /\ req[t].pay = q => pay'[q] = pay[q] /\ paySum'[q] = paySum[q]
  PROVE  UnappliedAfter(t)' = UnappliedAfter(t)
<1> DEFINE c  == req[t].cust
           t1 == [p \in Payments |-> PaymentSeen(t, p)]
           t2 == [p \in Payments |-> PaymentSeen(t, p)']
           a1 == [p \in Payments |-> SpentSeen(t, p)]
           a2 == [p \in Payments |-> SpentSeen(t, p)']
           Own(q) == InsertsPayment(t) /\ req[t].pay = q
<1>1. ASSUME NEW q \in Payments, ~Own(q) PROVE t1[q] = pay[q] /\ t2[q] = pay'[q]
  BY <1>1 DEF PaymentSeen, InsertsPayment, DraftsStay
<1>2. ASSUME NEW q \in Payments, Own(q) PROVE t2[q] = t1[q]
  BY <1>2 DEF PaymentSeen, InsertsPayment, DraftsStay
<1>3. ASSUME NEW q \in Payments, paySum'[q] = paySum[q] PROVE a2[q] = a1[q]
  BY <1>3 DEF SpentSeen, DraftsStay
<1>4. \A q \in Payments : Own(q) => pay[q] = None
  BY DEF RequestFits
<1>5. CashTyped(t1, a1)
  BY SeenAmounts
<1>6. CashTyped(t2, a2)
  <2>1. \A p \in Payments : SpentSeen(t, p)' \in Int
    BY DEF SpentSeen, TypeOK, CommittedTyped, DraftsTyped
  <2>2. \A p \in Payments : PaymentSeen(t, p)' # None => PaymentSeen(t, p)'.amt \in Int
    <3>1. \A p \in Payments : pay'[p] # None => pay'[p].amt \in Int
      BY DEF TypeOK, CommittedTyped, Payment
    <3>2. req'[t].amt \in Int
      BY DEF TypeOK, ControlTyped, Request
    <3>3. QED
      BY <3>1, <3>2 DEF PaymentSeen
  <2>3. QED
    BY <2>1, <2>2 DEF CashTyped
<1> HIDE DEF t1, t2, a1, a2
<1>7. ASSUME NEW q \in Payments, t2[q] # t1[q]
      PROVE  /\ t1[q] = None /\ t2[q].cust # c
             /\ \A p \in Payments : t2[q].revOf = p => t1[p] # None /\ t1[p].cust # c
  <2>1. ~Own(q) /\ t1[q] = pay[q] /\ t2[q] = pay'[q]
    BY <1>1, <1>2, <1>7
  <2>2. /\ pay[q] = None /\ pay'[q].cust # c
        /\ \A p \in Payments : pay'[q].revOf = p => pay[p] # None /\ pay[p].cust # c
    BY <1>7, <2>1 DEF CashStays, SameCash
  <2>3. ASSUME NEW p \in Payments, t2[q].revOf = p PROVE t1[p] # None /\ t1[p].cust # c
    <3>1. pay[p] # None /\ pay[p].cust # c
      BY <2>1, <2>2, <2>3
    <3>2. QED
      BY <1>1, <1>4, <3>1
  <2>4. QED
    BY <2>1, <2>2, <2>3
<1>8. ASSUME NEW q \in Payments, t2[q] # None, t2[q].cust = c PROVE a2[q] = a1[q]
  <2>1. CASE Own(q)
    BY <1>3, <2>1
  <2>2. CASE ~Own(q)
    <3>1. pay'[q] # None /\ pay'[q].cust = c
      BY <1>1, <1>8, <2>2
    <3>2. paySum'[q] = paySum[q]
      BY <3>1 DEF CashStays, SameCash
    <3>3. QED
      BY <1>3, <3>2
  <2>3. QED
    BY <2>1, <2>2
<1>9. SameCash(c, t1, a1, t2, a2)
  BY <1>7, <1>8 DEF SameCash
<1>10. UnappliedCash(c, t1, a1) = UnappliedCash(c, t2, a2)
  BY <1>5, <1>6, <1>9, UnappliedSame
<1>11. UnappliedAfter(t) = UnappliedCash(c, t1, a1)
  BY DEF UnappliedAfter, t1, a1
<1>12. UnappliedAfter(t)' = UnappliedCash(c, t2, a2)
  BY AfterNext DEF DraftsStay, t2, a2
<1>13. QED
  BY <1>10, <1>11, <1>12

\* The stored balance is what the committed rows make, in the terms of these lemmas.
LEMMA CommittedIs ==
  \A c : CommittedBalance(c) =
           InvoicedBalance(c, [i \in Invoices |-> inv[i].status], [i \in Invoices |-> inv[i].wht], invSum)
             - UnappliedCash(c, pay, paySum)
BY DEF CommittedBalance

\* The same of the state after a step.
LEMMA CommittedIsNext ==
  \A c : CommittedBalance(c)' =
           InvoicedBalance(c, [i \in Invoices |-> inv'[i].status], [i \in Invoices |-> inv'[i].wht], invSum')
             - UnappliedCash(c, pay', paySum')
BY DEF CommittedBalance, InvoicedBalance, UnappliedCash, IsLive, MapThenSumSet, MapThenFoldSet

\* The committed rows of a customer come to the same after a commit for another one.
LEMMA CommittedStays ==
  ASSUME TypeOK, TypeOK', NEW c \in Customers, InvoicesStay(c), CashStays(c)
  PROVE  CommittedBalance(c)' = CommittedBalance(c)
<1> DEFINE s1 == [i \in Invoices |-> inv[i].status]
           s2 == [i \in Invoices |-> inv'[i].status]
           w1 == [i \in Invoices |-> inv[i].wht]
           w2 == [i \in Invoices |-> inv'[i].wht]
<1>1. SameInvoices(c, s1, w1, invSum, s2, w2, invSum')
  BY DEF SameInvoices, InvoicesStay
<1>2. w1 \in [Invoices -> Int] /\ invSum \in [Invoices -> Int] /\ CashTyped(pay, paySum)
  BY StoredAmounts
<1>3. w2 \in [Invoices -> Int] /\ invSum' \in [Invoices -> Int] /\ CashTyped(pay', paySum')
  <2>1. \A i \in Invoices : inv'[i].wht \in Int
    BY DEF TypeOK, CommittedTyped, Invoice
  <2>2. QED
    BY <2>1 DEF CashTyped, TypeOK, CommittedTyped, Payment
<1> HIDE DEF s1, s2, w1, w2
<1>4. InvoicedBalance(c, s1, w1, invSum) = InvoicedBalance(c, s2, w2, invSum')
  BY <1>1, <1>2, <1>3, InvoicedSame
<1>5. UnappliedCash(c, pay, paySum) = UnappliedCash(c, pay', paySum')
  BY <1>2, <1>3, UnappliedSame DEF CashStays
<1>6. QED
  BY <1>4, <1>5, CommittedIs, CommittedIsNext DEF s1, s2, w1, w2

\* What a transaction commits is what it has computed its balance from.
LEMMA CommitsWhatItCounted ==
  ASSUME TypeOK, TypeOK', NEW t \in Txns, Commit(t), InvoiceFits(t), MoneyHasInvoices, DraftsLockedBy(t),
         NEW c, c = req[t].cust
  PROVE  CommittedBalance(c)' = InvoicedAfter(t) - UnappliedAfter(t)
<1>1. ASSUME NEW i \in Invoices
      PROVE  /\ inv'[i].status = IF req[t].op = "create" /\ req[t].inv = i THEN "ISSUED" ELSE StatusSeen(t, i)
             /\ inv'[i].wht = WhtSeen(t, i)
  <2>1. CASE Creates(t, i)
    <3>1. inv'[i] = [status |-> "ISSUED", wht |-> 0, num |-> num[t]]
      BY <2>1, InvoiceOfACommit, Zenon
    <3>2. inv[i].wht = 0 /\ wht[t] = None
      BY <2>1 DEF Creates, InvoiceFits, MoneyHasInvoices, DraftsLockedBy
    <3>3. QED
      BY <2>1, <3>1, <3>2 DEF Creates, WhtSeen
  <2>2. CASE ~Creates(t, i)
    <3>1. inv'[i] = [status |-> StatusSeen(t, i), wht |-> WhtSeen(t, i), num |-> inv[i].num]
      BY <2>2, InvoiceOfACommit, Zenon
    <3>2. QED
      BY <2>2, <3>1 DEF Creates
  <2>3. QED
    BY <2>1, <2>2
<1>2. /\ invSum' = [i \in Invoices |-> AllocatedSeen(t, i)]
      /\ pay' = [p \in Payments |-> PaymentSeen(t, p)]
      /\ paySum' = [p \in Payments |-> SpentSeen(t, p)]
  BY DEF Commit
<1>3. InvoicedAfter(t) = InvoicedBalance(c, [i \in Invoices |-> inv'[i].status], [i \in Invoices |-> inv'[i].wht], invSum')
  <2>1. [i \in Invoices |-> inv'[i].status]
          = [i \in Invoices |-> IF req[t].op = "create" /\ req[t].inv = i THEN "ISSUED" ELSE StatusSeen(t, i)]
    BY <1>1
  <2>2. [i \in Invoices |-> inv'[i].wht] = [i \in Invoices |-> WhtSeen(t, i)]
    BY <1>1
  <2>3. QED
    BY <1>2, <2>1, <2>2 DEF InvoicedAfter
<1>4. UnappliedAfter(t) = UnappliedCash(c, pay', paySum')
  BY <1>2 DEF UnappliedAfter
<1>5. QED
  BY <1>3, <1>4, CommittedIsNext

\* A step of one transaction leaves the balance another computes alone.
LEMMA OthersCount ==
  ASSUME TypeOK, NEW t \in Txns, Turn(t), NEW u \in Txns, u # t
  PROVE  bal'[u] = bal[u]
<1> USE DEF TypeOK, ControlTyped
<1>1. CASE Opening(t)
  <2>1. Arriving(t)
    BY <1>1, TurnIsStep
  <2>2. QED
    BY <2>1 DEF Arriving, Arrives, Begin
<1>2. CASE Locking(t)
  BY <1>2 DEF Locking, ClaimNumber, LockPayment, LockInvoice, WriteBalance
<1>3. CASE Reading(t)
  BY <1>3 DEF Reading, GuardAllocation, GuardVoid, GuardWithholding, ReadOriginal, DeriveStatus,
     ReadInvoiced, ReadUnapplied
<1>4. CASE Writing(t)
  BY <1>4 DEF Writing, InsertAllocation, InsertMirrors, WriteVoid, WriteWithholding, CasStatus
<1>5. CASE Ending(t)
  BY <1>5 DEF Ending, Commit, Refuse, Crash, Finish
<1>6. QED
  BY <1>1, <1>2, <1>3, <1>4, <1>5 DEF Turn

\* Two transactions in flight are for different customers.
LEMMA ApartStep ==
  ASSUME TypeOK, Apart, NEW t \in Txns, ControlOf(t), Turn(t), OnePerCustomer
  PROVE  Apart'
<1>1. ASSUME NEW u \in Txns, u # t PROVE pc'[u] = pc[u] /\ req'[u] = req[u]
  BY <1>1, TurnIsStep, OthersStay DEF Same
<1>2. ASSUME NEW u \in Txns, u # t, pc'[t] # "idle", pc'[u] # "idle"
      PROVE  req'[t].cust # req'[u].cust
  <2>1. CASE pc[t] = "idle"
    BY <1>1, <1>2, <2>1 DEF OnePerCustomer
  <2>2. CASE pc[t] # "idle"
    <3>1. ~Opening(t)
      <4>1. Opening(t) => pc[t] = "idle"
        BY OpeningFits
      <4>2. QED
        BY <2>2, <4>1
    <3>2. ~Ending(t)
      BY <1>2, EndingClears
    <3>3. req' = req
      BY <3>1, <3>2, StatementKeeps DEF Turn
    <3>4. QED
      BY <1>1, <1>2, <2>2, <3>3 DEF Apart
  <2>3. QED
    BY <2>1, <2>2
<1>3. QED
  BY <1>1, <1>2 DEF Apart

\* After a step of its own, a transaction has counted what it will commit.
LEMMA OwnBalance ==
  ASSUME TypeOK, TypeOK', NEW t \in Txns, ControlOf(t), RequestFits(t), BalanceOf(t), Turn(t)
  PROVE  BalanceOf(t)'
<1>1. CASE Opening(t)
  <2>1. pc'[t] \notin {"balPayments", "balWrite", "commit"}
    BY <1>1, OpeningFits DEF BeginsAt
  <2>2. QED
    BY <2>1 DEF BalanceOf
<1>2. CASE Ending(t)
  <2>1. pc'[t] = "idle"
    BY <1>2, EndingClears
  <2>2. QED
    BY <2>1 DEF BalanceOf
<1>3. CASE Reading(t) \/ Locking(t) \/ Writing(t)
  <2>1. pc'[t] = "balPayments" => ReadInvoiced(t)
    BY <1>3, WhereTo DEF Reading, Locking, Writing, ControlOf
  <2>2. pc'[t] = "balWrite" => ReadUnapplied(t)
    BY <1>3, WhereTo DEF Reading, Locking, Writing, ControlOf
  <2>3. pc'[t] = "commit" => WriteBalance(t)
    BY <1>3, WhereTo DEF Reading, Locking, Writing, ControlOf
  <2>4. CASE ReadInvoiced(t) \/ ReadUnapplied(t) \/ WriteBalance(t)
    <3>1. UNCHANGED database /\ req' = req /\ drafts' = drafts /\ num' = num
      BY <2>4 DEF ReadInvoiced, ReadUnapplied, WriteBalance
    <3>2. DraftsStay(t) /\ InvoicesStay(req[t].cust) /\ CashStays(req[t].cust)
      BY <3>1 DEF DraftsStay, InvoicesStay, CashStays, SameCash, database, drafts
    <3>3. InvoicedAfter(t)' = InvoicedAfter(t)
      BY <3>2, InvoicedStays
    <3>4. UnappliedAfter(t)' = UnappliedAfter(t)
      <4>1. \A q \in Payments : pay'[q] = pay[q] /\ paySum'[q] = paySum[q]
        BY <3>1 DEF database
      <4>2. QED
        BY <3>2, <4>1, UnappliedStays
    <3>5. CASE ReadInvoiced(t)
      <4>1. pc'[t] = "balPayments" /\ bal'[t] = InvoicedAfter(t)
        BY <3>5 DEF ReadInvoiced, InvoicedAfter, Goto, TypeOK, ControlTyped
      <4>2. QED
        BY <3>3, <4>1 DEF BalanceOf
    <3>6. CASE ReadUnapplied(t)
      <4>1. pc[t] = "balPayments" /\ pc'[t] = "balWrite" /\ bal'[t] = bal[t] - UnappliedAfter(t)
        BY <3>6 DEF ReadUnapplied, UnappliedAfter, Goto, TypeOK, ControlTyped
      <4>2. bal[t] = InvoicedAfter(t)
        BY <4>1 DEF BalanceOf
      <4>3. QED
        BY <3>3, <3>4, <4>1, <4>2 DEF BalanceOf
    <3>7. CASE WriteBalance(t)
      <4>1. pc[t] = "balWrite" /\ pc'[t] = "commit" /\ bal' = bal
        BY <3>7 DEF WriteBalance, Goto, TypeOK, ControlTyped
      <4>2. bal[t] = InvoicedAfter(t) - UnappliedAfter(t)
        BY <4>1 DEF BalanceOf
      <4>3. QED
        BY <3>3, <3>4, <4>1, <4>2 DEF BalanceOf
    <3>8. QED
      BY <2>4, <3>5, <3>6, <3>7
  <2>5. CASE ~(ReadInvoiced(t) \/ ReadUnapplied(t) \/ WriteBalance(t))
    BY <2>1, <2>2, <2>3, <2>5 DEF BalanceOf
  <2>6. QED
    BY <2>4, <2>5
<1>4. QED
  BY <1>1, <1>2, <1>3 DEF Turn

\* And so it has after a step of another, which is for another customer.
LEMMA OthersBalance ==
  ASSUME TypeOK, TypeOK', Apart, NEW t \in Txns, Turn(t), ControlOf(t), RequestFits(t), WorksFor(t),
         DraftsLockedBy(t), NEW u \in Txns, u # t, RequestFits(u), BalanceOf(u)
  PROVE  BalanceOf(u)'
<1>1. Step(t) /\ pc'[u] = pc[u] /\ bal'[u] = bal[u] /\ DraftsStay(u)
  <2>1. Step(t)
    BY TurnIsStep
  <2>2. QED
    BY <2>1, OthersStay, OthersKeep, OthersCount DEF Same, DraftsStay
<1>2. CASE pc[u] = "idle"
  BY <1>1, <1>2 DEF BalanceOf
<1>3. CASE pc[u] # "idle"
  <2>1. Commit(t) => req[u].cust # req[t].cust
    BY <1>3 DEF Apart, Commit
  <2>2. InvoicesStay(req[u].cust) /\ CashStays(req[u].cust)
    BY <1>1, <2>1, OthersBusiness
  <2>3. InvoicedAfter(u)' = InvoicedAfter(u)
    BY <1>1, <2>2, InvoicedStays
  <2>4. ASSUME NEW q \in Payments, InsertsPayment(u), req[u].pay = q
        PROVE  pay'[q] = pay[q] /\ paySum'[q] = paySum[q]
    <3>1. req[t].pay # q
      BY <2>4 DEF RequestFits
    <3>2. QED
      BY <1>1, <3>1, PaymentsOfATurn, RowsOfATurn
  <2>5. UnappliedAfter(u)' = UnappliedAfter(u)
    BY <1>1, <2>2, <2>4, UnappliedStays
  <2>6. QED
    BY <1>1, <2>3, <2>5 DEF BalanceOf
<1>4. QED
  BY <1>2, <1>3

\* The balances stored stay exact.
LEMMA ExactStep ==
  ASSUME TypeOK, TypeOK', BalancesAreExact, NEW t \in Txns, Turn(t), RequestFits(t), WorksFor(t),
         InvoiceFits(t), MoneyHasInvoices, DraftsLockedBy(t), BalanceOf(t)
  PROVE  BalancesAreExact'
<1> SUFFICES ASSUME NEW c \in Customers PROVE balance'[c] = CommittedBalance(c)'
  BY DEF BalancesAreExact
<1>1. Step(t) /\ balance[c] = CommittedBalance(c)
  BY TurnIsStep DEF BalancesAreExact
<1>2. CASE Commit(t) /\ c = req[t].cust
  <2>1. balance'[c] = bal[t]
    BY <1>2 DEF Commit, TypeOK, CommittedTyped
  <2>2. bal[t] = InvoicedAfter(t) - UnappliedAfter(t)
    BY <1>2 DEF Commit, BalanceOf
  <2>3. CommittedBalance(c)' = InvoicedAfter(t) - UnappliedAfter(t)
    BY <1>2, CommitsWhatItCounted
  <2>4. QED
    BY <2>1, <2>2, <2>3
<1>3. CASE ~(Commit(t) /\ c = req[t].cust)
  <2>1. balance'[c] = balance[c]
    <3>1. CASE Commit(t)
      BY <1>3, <3>1 DEF Commit, TypeOK, CommittedTyped
    <3>2. CASE ~Commit(t)
      BY <1>1, <3>2, OnlyCommitWrites DEF database
    <3>3. QED
      BY <3>1, <3>2
  <2>2. CommittedBalance(c)' = CommittedBalance(c)
    BY <1>1, <1>3, OthersBusiness, CommittedStays
  <2>3. QED
    BY <1>1, <2>1, <2>2
<1>4. QED
  BY <1>2, <1>3

\* At the beginning there is nothing to balance.
LEMMA CalmInit == Init => CalmInvariant
<1> SUFFICES ASSUME Init PROVE CalmInvariant
  OBVIOUS
<1>1. ASSUME NEW c \in Customers PROVE balance[c] = CommittedBalance(c)
  <2> DEFINE s == [i \in Invoices |-> inv[i].status]
             w == [i \in Invoices |-> inv[i].wht]
  <2>1. balance[c] = 0
    BY DEF Init
  <2>2. w \in [Invoices -> Int] /\ invSum \in [Invoices -> Int] /\ CashTyped(pay, paySum)
    BY DEF Init, CashTyped
  <2>3. OpenOf(c, s) = {}
    BY DEF Init, OpenOf
  <2>4. LiveOf(c, pay) = {}
    BY DEF Init, LiveOf, IsLive
  <2> HIDE DEF s, w
  <2>5. \A v \in [{} -> Int] : SumOver(v, {}) = 0
    BY SumOfNothing, FS_EmptySet
  <2>9. DueOn(w, invSum, {}) \in [{} -> Int] /\ LeftOf(pay, paySum, {}) \in [{} -> Int]
    BY DEF DueOn, LeftOf
  <2>6. InvoicedBalance(c, s, w, invSum) = 0
    <3>1. InvoicedBalance(c, s, w, invSum) = SumOver(DueOn(w, invSum, OpenOf(c, s)), OpenOf(c, s))
      BY <2>2, InvoicedIs
    <3>2. QED
      BY <2>3, <2>5, <2>9, <3>1
  <2>7. UnappliedCash(c, pay, paySum) = 0
    <3>1. UnappliedCash(c, pay, paySum)
            = SumOver(LeftOf(pay, paySum, LiveOf(c, pay)), LiveOf(c, pay))
      BY <2>2, UnappliedIs DEF CashTyped
    <3>2. QED
      BY <2>4, <2>5, <2>9, <3>1
  <2>8. QED
    BY <2>1, <2>6, <2>7, CommittedIs DEF s, w
<1>2. \A t \in Txns : pc[t] = "idle"
  BY DEF Init
<1>3. QED
  BY <1>1, <1>2 DEF CalmInvariant, Apart, BalancesAreExact, BalanceOf

-----------------------------------------------------------------------------
(* The invariant of calm.                                                  *)

\* Every execution in which the transactions of a customer do not overlap is an execution.
LEMMA CalmIsAllowed == CalmSpec => Spec
<1>1. [Next /\ OnePerCustomer]_vars => [Next]_vars
  OBVIOUS
<1>2. QED
  BY <1>1, PTL DEF CalmSpec, Spec

\* A turn of one transaction.
LEMMA CalmTurn ==
  ASSUME SettlementInvariant, TypeOK', PaymentInvariant, StatusInvariant, OwnersInvariant, CalmInvariant,
         NEW t \in Txns, Turn(t), OnePerCustomer
  PROVE  CalmInvariant'
<1>1. /\ TypeOK /\ ControlOf(t) /\ DraftsLockedBy(t) /\ MoneyHasInvoices /\ InvoiceFits(t)
      /\ \A u \in Txns : RequestFits(u) /\ WorksFor(u) /\ BalanceOf(u)
      /\ Apart /\ BalancesAreExact
  BY DEF SettlementInvariant, ControlOK, DraftsAreLocked, PaymentInvariant, StatusInvariant,
     OwnersInvariant, CalmInvariant
<1>2. Apart'
  BY <1>1, ApartStep
<1>3. BalancesAreExact'
  BY <1>1, ExactStep
<1>4. BalanceOf(t)'
  BY <1>1, OwnBalance
<1>5. \A u \in Txns \ {t} : BalanceOf(u)'
  BY <1>1, OthersBalance
<1>6. QED
  BY <1>2, <1>3, <1>4, <1>5 DEF CalmInvariant

\* A step that leaves everything but the sweep alone.
LEMMA CalmStutter ==
  ASSUME TypeOK, TypeOK', PaymentInvariant, CalmInvariant,
         UNCHANGED <<database, pc, req, drafts, num, bal>>
  PROVE  CalmInvariant'
<1>1. inv' = inv /\ invSum' = invSum /\ pay' = pay /\ paySum' = paySum /\ balance' = balance
  BY DEF database
<1>2. \A c : InvoicesStay(c) /\ CashStays(c)
  BY <1>1 DEF InvoicesStay, CashStays, SameCash
<1>3. ASSUME NEW c \in Customers PROVE balance'[c] = CommittedBalance(c)'
  <2>1. balance[c] = CommittedBalance(c)
    BY DEF CalmInvariant, BalancesAreExact
  <2>2. CommittedBalance(c)' = CommittedBalance(c)
    BY <1>2, CommittedStays
  <2>3. QED
    BY <1>1, <2>1, <2>2
<1>4. ASSUME NEW t \in Txns PROVE BalanceOf(t)'
  <2>1. DraftsStay(t)
    BY DEF DraftsStay, drafts
  <2>2. InvoicedAfter(t)' = InvoicedAfter(t)
    BY <1>2, <2>1, InvoicedStays
  <2>3. UnappliedAfter(t)' = UnappliedAfter(t)
    BY <1>1, <1>2, <2>1, UnappliedStays DEF PaymentInvariant
  <2>4. BalanceOf(t)
    BY DEF CalmInvariant
  <2>5. QED
    BY <2>2, <2>3, <2>4 DEF BalanceOf
<1>5. Apart'
  BY DEF CalmInvariant, Apart
<1>6. QED
  BY <1>3, <1>4, <1>5 DEF CalmInvariant, BalancesAreExact

\* Every calm step keeps the balances exact.
LEMMA CalmStep ==
  SettlementInvariant /\ SettlementInvariant' /\ PaymentInvariant /\ StatusInvariant
    /\ OwnersInvariant /\ CalmInvariant /\ [Next /\ OnePerCustomer]_vars
  => CalmInvariant'
<1> SUFFICES ASSUME SettlementInvariant, SettlementInvariant', PaymentInvariant, StatusInvariant,
                    OwnersInvariant, CalmInvariant, [Next /\ OnePerCustomer]_vars
             PROVE  CalmInvariant'
  OBVIOUS
<1>1. TypeOK /\ TypeOK'
  BY DEF SettlementInvariant
<1>2. CASE UNCHANGED vars
  BY <1>1, <1>2, CalmStutter DEF vars
<1>3. ASSUME NEW n \in Crons, StartSweep(n) PROVE CalmInvariant'
  BY <1>1, <1>3, CalmStutter DEF StartSweep
<1>4. ASSUME NEW t \in Txns, Turn(t), OnePerCustomer PROVE CalmInvariant'
  BY <1>1, <1>4, CalmTurn
<1>5. QED
  BY <1>2, <1>3, <1>4, NextIsATurn

\* It is only by overlapping that two transactions of one customer leave a wrong
\* balance behind: where they do not, whatever transactions of other customers overlap
\* with them, are refused or crash, every balance stored is at any time the one that
\* recomputeCustomerBalance would derive, and the sums stored are those of the rows.
THEOREM BalancesAreExactInCalm == CalmSpec => [](StoredSumsAreExact /\ BalancesAreExact)
<1>1. Init => CalmInvariant
  BY CalmInit
<1>2. CalmInvariant => BalancesAreExact
  BY DEF CalmInvariant
<1>3. AggregatesExact /\ BalancesAreExact => StoredSumsAreExact
  BY DEF StoredSumsAreExact, BalanceExactAtRest
<1>4. Spec => []SettlementInvariant
  BY SettlementHolds
<1>5. Spec => []PaymentInvariant
  BY PaymentsHold
<1>6. Spec => []StatusInvariant
  BY StatusHolds
<1>7. Spec => []OwnersInvariant
  BY OwnersHold
<1>8. Spec => []AggregatesExact
  BY AggregatesStayExact
<1>9. CalmSpec => Spec
  BY CalmIsAllowed
<1>10. CalmSpec => []CalmInvariant
  BY <1>1, <1>4, <1>5, <1>6, <1>7, <1>9, CalmStep, PTL DEF CalmSpec
<1>11. QED
  BY <1>2, <1>3, <1>8, <1>9, <1>10, PTL
=============================================================================
