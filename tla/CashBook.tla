------------------------------ MODULE CashBook ------------------------------
(***************************************************************************)
(* Expenses and the lines of the bank statements they are reconciled with. *)
(* Both books are append-only: a correction is a second row that mirrors   *)
(* the first.  A line may be linked to one payment or one expense.         *)
(*                                                                         *)
(* Requests run statement by statement in READ COMMITTED transactions; the *)
(* number of an expense is a counter row, reversals take an advisory lock. *)
(***************************************************************************)
EXTENDS FiniteSetsExt, Integers, TLC

CONSTANTS
  Txns,        \* connections of the API
  Accounts,    \* bank accounts
  NoAccount,   \* bank_account_id is null
  Payments,    \* payments received, which only Ledger changes
  AccountOf,   \* the account of each payment
  Amounts,     \* amounts users enter
  Starts,      \* the books to begin with
  Offered,     \* the kinds of request clients send
  MaxRequests, \* bound: requests ever sent
  MaxCrashes,  \* bound: processes that die
  None         \* no row, nobody

EveryPaymentHasAPlace == AccountOf \in [Payments -> Accounts \cup {NoAccount}]
AmountsAreWhole       == Amounts \subseteq Int
BoundIsNatural        == MaxRequests \in Nat
NoneIsApart ==
  /\ None \notin Int /\ None \notin Txns
  /\ None \notin ({"payment"} \X Payments) \cup ({"expense"} \X Int)

VARIABLES
  expenses,  \* committed expenses
  lines,     \* committed bank_transactions
  counter,   \* last_value of the EXPENSE sequence, committed
  lock,      \* who holds the advisory lock of each row
  tx,        \* each connection's request and transaction
  asked, crashes

vars == <<expenses, lines, counter, lock, tx, asked, crashes>>

\* Rows that were there have ids below those of requests.
StartIds == UNION {{r.id : r \in s.expenses \cup s.lines} : s \in Starts}
Ids == StartIds \cup 1..MaxRequests

Expense(id, no, amount, account, of) ==
  [id |-> id, no |-> no, amount |-> amount, account |-> account, of |-> of]

Line(id, amount, account, link, of) ==
  [id |-> id, amount |-> amount, account |-> account, link |-> link, of |-> of]

Idle == [pc |-> "idle", req |-> [op |-> "none"], id |-> 0, no |-> 0, spent |-> {}, entered |-> {}]

Init ==
  /\ \E s \in Starts : expenses = s.expenses /\ lines = s.lines /\ counter = Cardinality(s.expenses)
  /\ lock = [i \in Ids |-> None]
  /\ tx = [t \in Txns |-> Idle]
  /\ asked = 0 /\ crashes = 0

Become(t, x) == tx' = [tx EXCEPT ![t] = x]

Others(t) == Txns \ {t}

Released(t) == [i \in Ids |-> IF lock[i] = t THEN None ELSE lock[i]]

\* The transaction is over; its advisory lock goes with it.
End(t) == Become(t, Idle) /\ lock' = Released(t)

Row(set, id) == CHOOSE r \in set : r.id = id

Has(set, id) == \E r \in set : r.id = id

Reversed(set, id) == \E r \in set : r.of = id

\* What a line can be linked to.
DocumentsWith(spent) ==
  {<<"payment", p>> : p \in Payments} \cup {<<"expense", e.id>> : e \in spent}

Documents == DocumentsWith(expenses)

AccountWith(spent, d) ==
  IF d[1] = "payment" THEN AccountOf[d[2]] ELSE Row(spent, d[2]).account

AccountOfDocument(d) == AccountWith(expenses, d)

\* findUnreconciled, whose cap of 200 is not met here.
Unreconciled(account) ==
  {d \in Documents : AccountOfDocument(d) = account /\ \A l \in lines : l.link # d}

Sendable ==
  [op : {"spend"}, amount : Amounts, account : Accounts \cup {NoAccount, "unknown"}]
  \cup [op : {"unspend"}, of : {e.id : e \in expenses}]
  \cup [op : {"enter"}, amount : Amounts, account : Accounts, link : Documents \cup {None}]
  \cup [op : {"undo"}, of : {l.id : l \in lines}, account : Accounts]

FirstStep == [spend |-> "claim", unspend |-> "claim", enter |-> "look", undo |-> "lock"]

Ask(t) == \E req \in Sendable :
  /\ tx[t] = Idle /\ asked < MaxRequests /\ req.op \in Offered
  /\ asked' = asked + 1
  /\ Become(t, [Idle EXCEPT !.req = req, !.id = asked + 1, !.pc = FirstStep[req.op]])
  /\ UNCHANGED <<expenses, lines, counter, lock, crashes>>

-----------------------------------------------------------------------------

\* Whoever has claimed a number holds the counter until it commits.
CounterFree(t) == \A u \in Others(t) : tx[u].no = 0

ClaimNumber(t) ==
  LET x == tx[t] IN
  /\ x.pc = "claim" /\ CounterFree(t)
  /\ Become(t, [x EXCEPT !.no = counter + 1, !.pc = IF x.req.op = "spend" THEN "spend" ELSE "lock"])
  /\ UNCHANGED <<expenses, lines, counter, lock, asked, crashes>>

\* The insert of record: a foreign key refuses an unknown account.
Spend(t) ==
  LET x == tx[t] IN
  /\ x.pc = "spend"
  /\ IF x.req.account = "unknown" THEN End(t)
     ELSE /\ Become(t, [x EXCEPT !.pc = "commit", !.spent =
                          {Expense(x.id, x.no, x.req.amount, x.req.account, None)}])
          /\ UNCHANGED lock
  /\ UNCHANGED <<expenses, lines, counter, asked, crashes>>

\* pg_advisory_xact_lock on the row to reverse.
TakeLock(t) ==
  LET i == tx[t].req.of IN lock[i] = None /\ lock' = [lock EXCEPT ![i] = t]

LockRow(t) ==
  /\ tx[t].pc = "lock"
  /\ TakeLock(t)
  /\ Become(t, [tx[t] EXCEPT !.pc = "read"])
  /\ UNCHANGED <<expenses, lines, counter, asked, crashes>>

Unspendable(e) == e.of = None

\* Of the account in the path, no mirror, not linked.
Undoable(l, req) == l.account = req.account /\ l.of = None /\ l.link = None

\* The original; a row once written never changes.
ReadOriginal(t) ==
  LET x == tx[t] IN
  /\ x.pc = "read"
  /\ IF IF x.req.op = "unspend" THEN Unspendable(Row(expenses, x.req.of))
                                ELSE Undoable(Row(lines, x.req.of), x.req)
     THEN Become(t, [x EXCEPT !.pc = "once"]) /\ UNCHANGED lock
     ELSE End(t)
  /\ UNCHANGED <<expenses, lines, counter, asked, crashes>>

AlreadyReversed(req) ==
  IF req.op = "unspend" THEN Reversed(expenses, req.of) ELSE Reversed(lines, req.of)

CheckOnce(t) ==
  LET x == tx[t] IN
  /\ x.pc = "once"
  /\ IF AlreadyReversed(x.req) THEN End(t)
     ELSE Become(t, [x EXCEPT !.pc = "mirror"]) /\ UNCHANGED lock
  /\ UNCHANGED <<expenses, lines, counter, asked, crashes>>

MirrorExpense(e, x) == Expense(x.id, x.no, -e.amount, e.account, e.id)

\* The link stays with the original.
MirrorLine(l, x) == Line(x.id, -l.amount, l.account, None, l.id)

InsertMirror(t) ==
  LET x == tx[t] IN
  /\ x.pc = "mirror"
  /\ Become(t, IF x.req.op = "unspend"
               THEN [x EXCEPT !.pc = "commit", !.spent = {MirrorExpense(Row(expenses, x.req.of), x)}]
               ELSE [x EXCEPT !.pc = "commit", !.entered = {MirrorLine(Row(lines, x.req.of), x)}])
  /\ UNCHANGED <<expenses, lines, counter, lock, asked, crashes>>

\* Mutant: a document of another account can be linked.
LinkAllowedAnywhere(req) == TRUE

LinkAllowed(req) ==
  req.link # None => AccountOfDocument(req.link) \in {NoAccount, req.account}

\* record of a bank line: the document it is to be linked to.
LookAtLink(t) ==
  LET x == tx[t] IN
  /\ x.pc = "look"
  /\ IF LinkAllowed(x.req) THEN Become(t, [x EXCEPT !.pc = "enter"]) /\ UNCHANGED lock
     ELSE End(t)
  /\ UNCHANGED <<expenses, lines, counter, asked, crashes>>

LinkedBy(set, link) == link # None /\ \E l \in set : l.link = link

\* bank_transactions_payment_uk and _expense_uk
LinkTaken(link) == LinkedBy(lines, link)

EnterLine(t) ==
  LET x == tx[t] IN
  /\ x.pc = "enter"
  /\ \A u \in Others(t) : ~LinkedBy(tx[u].entered, x.req.link)
  /\ IF LinkTaken(x.req.link) THEN End(t)
     ELSE /\ Become(t, [x EXCEPT !.pc = "commit", !.entered =
                          {Line(x.id, x.req.amount, x.req.account, x.req.link, None)}])
          /\ UNCHANGED lock
  /\ UNCHANGED <<expenses, lines, counter, asked, crashes>>

Commit(t) ==
  LET x == tx[t] IN
  /\ x.pc = "commit"
  /\ expenses' = expenses \cup x.spent
  /\ lines' = lines \cup x.entered
  /\ counter' = IF x.no # 0 THEN x.no ELSE counter
  /\ End(t)
  /\ UNCHANGED <<asked, crashes>>

\* The process or its connection dies: the transaction rolls back.
Crash(t) ==
  /\ tx[t] # Idle /\ crashes < MaxCrashes
  /\ crashes' = crashes + 1
  /\ End(t)
  /\ UNCHANGED <<expenses, lines, counter, asked>>

Step(t) ==
  \/ ClaimNumber(t) \/ Spend(t)
  \/ LockRow(t) \/ ReadOriginal(t) \/ CheckOnce(t) \/ InsertMirror(t)
  \/ LookAtLink(t) \/ EnterLine(t) \/ Commit(t)

Next == \E t \in Txns : Ask(t) \/ Step(t) \/ Crash(t)

Spec == Init /\ [][Next]_vars
-----------------------------------------------------------------------------
(* Sound books.                                                            *)

ExpenseRows ==
  [id : Int, no : Nat, amount : Int, account : Accounts \cup {NoAccount}, of : Int \cup {None}]

LineRows ==
  [id : Int, amount : Int, account : Accounts, of : Int \cup {None},
   link : ({"payment"} \X Payments) \cup ({"expense"} \X Int) \cup {None}]

OneRowPerId(set) == \A r, s \in set : r.id = s.id => r = s

\* A mirror has an original that is no mirror, on its account, and is its only mirror.
FlatAndSingle(set) ==
  \A m \in set : m.of # None =>
    /\ Has(set, m.of) /\ Row(set, m.of).of = None
    /\ m.account = Row(set, m.of).account
    /\ \A n \in set : n.of = m.of => n = m

\* A row and its mirror make nothing.
MirrorsCancel(set) ==
  \A m \in set : m.of # None => m.amount = -Row(set, m.of).amount

Gapless(spent) == {e.no : e \in spent} = 1..Cardinality(spent)

\* A link is to a document of the line's account or of none, is the only one to it,
\* and is on a line that stands.
LinksFit(spent, entered) ==
  \A l \in entered : l.link # None =>
    /\ l.link \in DocumentsWith(spent) /\ AccountWith(spent, l.link) \in {NoAccount, l.account}
    /\ l.of = None /\ ~Reversed(entered, l.id)
    /\ \A k \in entered : k.link = l.link => k = l

Sound(spent, entered) ==
  /\ spent \subseteq ExpenseRows /\ entered \subseteq LineRows
  /\ IsFiniteSet(spent) /\ IsFiniteSet(entered)
  /\ OneRowPerId(spent) /\ FlatAndSingle(spent) /\ MirrorsCancel(spent)
  /\ OneRowPerId(entered) /\ FlatAndSingle(entered) /\ MirrorsCancel(entered)
  /\ Gapless(spent) /\ LinksFit(spent, entered)

StartsAreSound ==
  \A s \in Starts : Sound(s.expenses, s.lines) /\ \A r \in s.expenses \cup s.lines : r.id <= 0

-----------------------------------------------------------------------------
(* Properties.                                                             *)

Total(set) == MapThenSumSet(LAMBDA r : r.amount, set)

\* The rows nobody has taken back.
Live(set) == {r \in set : r.of = None /\ ~Reversed(set, r.id)}

\* Types; the advisory lock of a row is held by a reversal of that row.
TypeOK ==
  /\ \A e \in expenses : e.amount \in Int /\ e.account \in Accounts \cup {NoAccount}
  /\ \A l \in lines : l.amount \in Int /\ l.account \in Accounts
  /\ counter \in Nat
  /\ \A i \in Ids : lock[i] # None => tx[lock[i]].req.op \in {"unspend", "undo"} /\ tx[lock[i]].req.of = i

\* "Double-reversal guard", "Reversal-of-a-reversal guard": a row is taken back
\* at most once, a mirror never, however many people press the button; and an
\* original and its mirror stand on the same account.
ReversalsAreFlatAndSingle == FlatAndSingle(expenses) /\ FlatAndSingle(lines)

\* "The account's balanceEtb absorbs a reversal for free": the plain sum of all
\* rows is the sum of those that stand, for every account and for expenses.
BalanceIsOfTheLive ==
  /\ Total(expenses) = Total(Live(expenses))
  /\ \A a \in Accounts :
       LET here == {l \in lines : l.account = a} IN Total(here) = Total(Live(here))

\* "silently and PERMANENTLY stop listing this payment for the account it
\* actually belongs to": a document of an account is off that account's list
\* only for a line of that very account which still stands, and for only one.
OffTheListForAReason ==
  \A d \in Documents :
    LET linked == {l \in lines : l.link = d}
        a      == AccountOfDocument(d)
    IN  /\ Cardinality(linked) <= 1
        /\ linked \subseteq Live(lines)
        /\ a # NoAccount /\ d \notin Unreconciled(a) => \E l \in linked : l.account = a

\* The series of expense numbers has no gap and no number twice, although
\* requests fail after they have claimed one.
NumbersAreGapless == Gapless(expenses) /\ counter = Cardinality(expenses)
=============================================================================
