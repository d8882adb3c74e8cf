---------------------------- MODULE Instalments ----------------------------
(***************************************************************************)
(* The payment schedule of one contract: replaced as a whole while the     *)
(* contract is a draft, marked invoiced row by row once it is signed.      *)
(*                                                                         *)
(* Rows have versions: an update or a delete takes a committed row away,   *)
(* an update or an insert brings one; both are the transaction's alone     *)
(* until it commits, and whoever wants the same row waits.                 *)
(***************************************************************************)
EXTENDS MoneyRules, TLC

CONSTANTS
  Txns,         \* connections of the API
  Value,        \* contractValueEtb
  Terms,        \* the percentages a proforma may carry
  Schedules,    \* the schedules users send: sequences of amounts
  Invoices,     \* invoices that exist
  Ours,         \* those of the customer the contract is with
  MaxRequests,  \* bound: requests ever sent
  MaxCrashes,   \* bound: processes that die
  Nothing       \* no invoice

OursAreInvoices == Ours \subseteq Invoices /\ Nothing \notin Invoices

VARIABLES
  contract,  \* status of the contract
  rows,      \* committed contract_instalments
  tx,        \* each connection's request and transaction
  asked, crashes

vars == <<contract, rows, tx, asked, crashes>>

Row(id, seq, amount) ==
  [id |-> id, seq |-> seq, amount |-> amount, status |-> "PENDING", invoice |-> Nothing]

RowsOf(request, amounts) == {Row(<<request, n>>, n, amounts[n]) : n \in DOMAIN amounts}

Idle ==
  [pc |-> "idle", req |-> [op |-> "none"], no |-> 0, read |-> {}, del |-> {}, ins |-> {}]

\* A contract as issueFromProforma leaves it.
Init ==
  /\ contract = "DRAFT"
  /\ \E percents \in Terms : rows = RowsOf(0, InstalmentsFromPercents(percents, Value))
  /\ tx = [t \in Txns |-> Idle]
  /\ asked = 0 /\ crashes = 0

Become(t, x) == tx' = [tx EXCEPT ![t] = x]

Refuse(t) == Become(t, Idle)

View(t) == (rows \ tx[t].del) \cup tx[t].ins

\* The committed rows a statement that chose these ids finds once it has waited.
Now(ids) == {r \in rows : r.id \in ids}

Ids(set) == {r.id : r \in set}

Others(t) == Txns \ {t}

Requests ==
  [op : {"replace"}, amounts : Schedules]
  \cup [op : {"mark"}, id : Ids(rows), invoice : Invoices]

Ask(t) == \E req \in Requests :
  /\ tx[t] = Idle /\ asked < MaxRequests
  /\ asked' = asked + 1
  /\ Become(t, [Idle EXCEPT !.req = req, !.no = asked + 1, !.pc = req.op])
  /\ UNCHANGED <<contract, rows, crashes>>

-----------------------------------------------------------------------------
(* replaceSchedule.                                                        *)

\* The gate, read without a lock, and the sum.
ScheduleRefused(amounts) == contract # "DRAFT" \/ ScheduleMismatch(amounts, Value)

ReplaceGate(t) ==
  LET x == tx[t] IN
  /\ x.pc = "replace"
  /\ IF ScheduleRefused(x.req.amounts) THEN Refuse(t) ELSE Become(t, [x EXCEPT !.pc = "find"])
  /\ UNCHANGED <<contract, rows, asked, crashes>>

\* The DELETE sees the rows of its own moment ...
FindRows(t) ==
  LET x == tx[t] IN
  /\ x.pc = "find"
  /\ Become(t, [x EXCEPT !.pc = "delete", !.read = Ids(rows)])
  /\ UNCHANGED <<contract, rows, asked, crashes>>

\* ... waits for those others write, and removes what is left of them.
DeleteRows(t) ==
  LET x == tx[t] IN
  /\ x.pc = "delete"
  /\ \A u \in Others(t) : Ids(tx[u].del) \cap x.read = {}
  /\ Become(t, [x EXCEPT !.pc = IF x.req.amounts = <<>> THEN "commit" ELSE "insert",
                         !.del = Now(x.read)])
  /\ UNCHANGED <<contract, rows, asked, crashes>>

\* Mutant: the sequence is not unique.
SequenceTakenNever(t, new) == FALSE

\* unique (contract, sequence)
SequenceTaken(t, new) == \E r \in View(t), n \in new : r.seq = n.seq

InsertRows(t) ==
  LET x   == tx[t]
      new == RowsOf(x.no, x.req.amounts)
  IN  /\ x.pc = "insert"
      /\ \A u \in Others(t) : \A r \in tx[u].del \cup tx[u].ins, n \in new : r.seq # n.seq
      /\ IF SequenceTaken(t, new) THEN Refuse(t)
         ELSE Become(t, [x EXCEPT !.pc = "commit", !.ins = new])
      /\ UNCHANGED <<contract, rows, asked, crashes>>

-----------------------------------------------------------------------------
(* markInvoiced.                                                           *)

Markable == {"SIGNED", "COMPLETED"}

\* The row with its contract, and whose invoice it is: invoices do not change
\* hands.
MarkGate(t) ==
  LET x == tx[t] IN
  /\ x.pc = "mark"
  /\ IF Now({x.req.id}) = {} \/ contract \notin Markable \/ x.req.invoice \notin Ours
     THEN Refuse(t) ELSE Become(t, [x EXCEPT !.pc = "linked"])
  /\ UNCHANGED <<contract, rows, asked, crashes>>

LinkedElsewhere(req) == \E r \in rows : r.invoice = req.invoice /\ r.id # req.id

MarkLinked(t) ==
  LET x == tx[t] IN
  /\ x.pc = "linked"
  /\ IF LinkedElsewhere(x.req) THEN Refuse(t) ELSE Become(t, [x EXCEPT !.pc = "set"])
  /\ UNCHANGED <<contract, rows, asked, crashes>>

StillPending(r) == r.status = "PENDING"

Marked(r, invoice) == [r EXCEPT !.status = "INVOICED", !.invoice = invoice]

\* The compare-and-set PENDING -> INVOICED.
MarkSet(t) ==
  LET x    == tx[t]
      hits == {r \in Now({x.req.id}) : StillPending(r)}
  IN  /\ x.pc = "set"
      /\ \A u \in Others(t) : x.req.id \notin Ids(tx[u].del)
      /\ IF hits = {} THEN Refuse(t)
         ELSE Become(t, [x EXCEPT !.pc = "commit", !.del = hits,
                                        !.ins = {Marked(r, x.req.invoice) : r \in hits}])
      /\ UNCHANGED <<contract, rows, asked, crashes>>

-----------------------------------------------------------------------------
Commit(t) ==
  /\ tx[t].pc = "commit"
  /\ rows' = View(t)
  /\ Become(t, Idle)
  /\ UNCHANGED <<contract, asked, crashes>>

\* sign, cancel and handover: one compare-and-set of the contract's row, which
\* nothing here locks (module Sales has their transactions).
ContractMoves ==
  [DRAFT |-> {"SIGNED", "CANCELLED"}, SIGNED |-> {"COMPLETED", "CANCELLED"},
   COMPLETED |-> {}, CANCELLED |-> {}]

MoveContract ==
  /\ \E to \in ContractMoves[contract] : contract' = to
  /\ UNCHANGED <<rows, tx, asked, crashes>>

\* The process or its connection dies: the transaction rolls back.
Crash(t) ==
  /\ tx[t] # Idle /\ crashes < MaxCrashes
  /\ crashes' = crashes + 1
  /\ Refuse(t)
  /\ UNCHANGED <<contract, rows, asked>>

Step(t) ==
  \/ ReplaceGate(t) \/ FindRows(t) \/ DeleteRows(t) \/ InsertRows(t)
  \/ MarkGate(t) \/ MarkLinked(t) \/ MarkSet(t) \/ Commit(t)

Next == (\E t \in Txns : Ask(t) \/ Step(t) \/ Crash(t)) \/ MoveContract

Spec == Init /\ [][Next]_vars
-----------------------------------------------------------------------------
(* Properties.                                                             *)

\* Types; a row bears an invoice exactly when it is invoiced.
TypeOK ==
  /\ contract \in DOMAIN ContractMoves
  /\ \A r \in rows :
       /\ r.seq \in Nat /\ r.amount \in Int
       /\ IF r.status = "INVOICED" THEN r.invoice \in Invoices
          ELSE r.status = "PENDING" /\ r.invoice = Nothing
  /\ \A t \in Txns : tx[t].pc \in {"idle", "replace", "find", "delete", "insert", "mark", "linked",
                                    "set", "commit"}

\* "a payment schedule must add up to the agreed value": whoever replaces it
\* together with whom, nobody ever sees half of one schedule with half of another.
ScheduleMakesTheValue ==
  rows # {} =>
    /\ MapThenFoldSet(+, 0, LAMBDA r : r.amount, LAMBDA R : CHOOSE r \in R : TRUE, rows) = Value
    /\ {r.seq : r \in rows} = 1..Cardinality(rows)

\* "an instalment can only be invoiced against a signed agreement", of the
\* customer the invoice bills.
InvoicedOnlyOnceSigned ==
  \A r \in rows : r.status = "INVOICED" => contract # "DRAFT" /\ r.invoice \in Ours

\* An invoice recorded for an instalment is not replaced by another one's.
LinkIsFinal ==
  [][\A r \in rows, s \in rows' :
       r.id = s.id /\ r.status = "INVOICED" => s.invoice = r.invoice]_vars

\* "That invoice is already recorded against another instalment."
InvoiceLinkedOnce ==
  \A r, s \in rows : r.invoice = s.invoice /\ r.invoice # Nothing => r = s

\* "no row deleted here can be carrying an invoice link".
LinksSurvive ==
  [][\A r \in rows : r.status = "INVOICED" => r.id \in Ids(rows')]_vars

\* "Once a contract is SIGNED the customer holds a copy of the schedule they
\* signed, so the amounts stop being editable at all."
SignedAmountsAreFixed ==
  [][contract # "DRAFT" =>
       {<<r.seq, r.amount>> : r \in rows'} = {<<r.seq, r.amount>> : r \in rows}]_vars
=============================================================================
