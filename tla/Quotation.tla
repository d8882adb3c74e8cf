----------------------------- MODULE Quotation -----------------------------
(***************************************************************************)
(* One quotation: its header, its lines, its payment terms, and the        *)
(* requests that edit, price, sign off, submit, approve and finally freeze *)
(* it into a proforma.                                                     *)
(*                                                                         *)
(* A request runs statement by statement.  Its transaction sees what is    *)
(* committed and its own writes (READ COMMITTED); a row it has written     *)
(* stays locked until it ends; a unique index makes an insert wait for     *)
(* whoever holds the same key and then refuse.  The gate requireDraft      *)
(* reads the status without a lock.                                        *)
(*                                                                         *)
(* A calculator run is its list price; a line is one unit of it.           *)
(***************************************************************************)
EXTENDS MoneyRules

CONSTANTS
  Txns,         \* connections of the API
  Lines,        \* line ids
  Legacy,       \* the id of the line a header alone stands for
  ListPrices,   \* what the calculator says a line is worth
  Grands,       \* totals agreed with the customer
  VatPercent,   \* the VAT rate of each rate version, oldest first
  TermSets,     \* payment schedules a user may send, in basis points
  Threshold,    \* discountApprovalThresholdPercent
  Starts,       \* the quotations to begin with
  Offered,      \* the kinds of request clients send
  MaxRequests,  \* bound: requests ever sent
  MaxCrashes    \* bound: processes that die

LegacyIsALine == Legacy \in Lines
VatVersions == VatPercent \in Seq(Nat) /\ VatPercent # <<>>

VARIABLES
  hdr,       \* the quotations row
  lines,     \* committed quotation_lines: sequence, list price, price
  terms,     \* committed quotation_payment_terms: a set of rows
  proformas, \* what the proformas issued from it froze
  openVat,   \* the open VAT rate version
  tx,        \* each connection's request and transaction
  asked, crashes,
  deal       \* the total last agreed with the customer; Null once lines changed

vars == <<hdr, lines, terms, proformas, openVat, tx, asked, crashes, deal>>

Gone == [seq |-> 0, list |-> 0, price |-> 0]  \* a line that is not there

\* EDITABLE_STATUSES
Editable == {"DRAFT", "PENDING_APPROVAL"}

Transitions ==
  [DRAFT            |-> {"PENDING_APPROVAL", "EXPIRED"},
   PENDING_APPROVAL |-> {"APPROVED", "REJECTED", "EXPIRED"},
   APPROVED         |-> {"CONVERTED_TO_PROFORMA"},
   REJECTED |-> {}, EXPIRED |-> {}, CONVERTED_TO_PROFORMA |-> {}]

Header ==
  [status : DOMAIN Transitions, rate : Nat, version : DOMAIN VatPercent, sub : Nat, tax : Nat,
   total : Nat, calc : Nat \cup {Null}, signed : Nat \cup {Null}, spec : Nat]

Row == [seq : Nat, list : Nat, price : Nat]

LinesAreFinite == IsFiniteSet(Lines)

\* A quotation to begin with was not issued yet.
StartsAreQuotes ==
  \A s \in Starts :
    /\ s.hdr \in Header /\ s.hdr.status # "CONVERTED_TO_PROFORMA"
    /\ s.lines \in [Lines -> Row]

-----------------------------------------------------------------------------
(* Rows.                                                                   *)

Live(f) == {l \in Lines : f[l] # Gone}

\* The lines in print order.
InOrder(f) ==
  LET n == Cardinality(Live(f)) IN
  CHOOSE s \in [1..n -> Live(f)] : \A i, j \in 1..n : i < j => s[i] # s[j] /\ f[s[i]].seq <= f[s[j]].seq

Column(f, order, column) == [n \in DOMAIN order |-> f[order[n]][column]]

NoSheet(seq) == [n \in DOMAIN seq |-> Null]

\* The one line a header without line rows stands for.
LegacyRow(h) == [seq |-> 1, list |-> h.spec, price |-> h.total - h.tax]

\* A quotation as createForProject leaves it.
Created(list) ==
  LET t == QuoteTotals(<<list>>, <<Null>>, VatPercent[1]) IN
  [status |-> "DRAFT", rate |-> VatPercent[1], version |-> 1, sub |-> t.sub, tax |-> t.tax,
   total |-> t.total, calc |-> Null, signed |-> Null, spec |-> list]

\* The columns of f in place of those of g.
Over(f, g) == [c \in DOMAIN f \cup DOMAIN g |-> IF c \in DOMAIN f THEN f[c] ELSE g[c]]

\* hdr: the columns of the header it has written; own: the lines it has written.
Idle ==
  [pc |-> "idle", req |-> [op |-> "none"], seen |-> <<>>, vat |-> 0, plan |-> <<>>, doc |-> <<>>,
   todo |-> <<>>, next |-> "commit", hdr |-> <<>>, own |-> <<>>, keys |-> {},
   read |-> {}, del |-> {}, ins |-> {}, copy |-> {}]

Init ==
  /\ \E s \in Starts : hdr = s.hdr /\ lines = s.lines /\ terms = s.terms /\ deal = s.deal
  /\ proformas = {} /\ openVat = 1
  /\ tx = [t \in Txns |-> Idle]
  /\ asked = 0 /\ crashes = 0

\* What a statement of t reads.
View(t)     == Over(tx[t].own, lines)
HdrView(t)  == Over(tx[t].hdr, hdr)
TermView(t) == (terms \ tx[t].del) \cup tx[t].ins

Become(t, r) == tx' = [tx EXCEPT ![t] = r]

-----------------------------------------------------------------------------
(* Requests.                                                               *)

Requests ==
  [op : {"add"}, list : ListPrices]
  \cup [op : {"update"}, id : Lines, list : ListPrices]
  \cup [op : {"remove"}, id : Lines]
  \cup [op : {"reorder"}, ids : UNION {[1..n -> Lines] : n \in 1..Cardinality(Lines)}]
  \cup [op : {"setVat"}, applies : BOOLEAN]
  \cup [op : {"price"}, grand : Grands]
  \cup [op : {"terms"}, percents : TermSets]
  \cup [op : {"signoff", "issue"}]
  \cup [op : {"status"}, to : {"PENDING_APPROVAL", "APPROVED", "REJECTED", "EXPIRED"}]

\* A reorder that does not name distinct existing lines is refused at once and
\* never asked; updateTerms refuses a schedule that is not 100%.
Sensible(req) ==
  /\ req.op \in Offered
  /\ req.op = "reorder" => \A i, j \in DOMAIN req.ids : i # j => req.ids[i] # req.ids[j]
  /\ req.op = "terms" => ~PaymentTermsMismatch(req.percents)

Ask(t) == \E req \in Requests :
  /\ tx[t].pc = "idle" /\ asked < MaxRequests /\ Sensible(req)
  /\ asked' = asked + 1
  /\ Become(t, [Idle EXCEPT !.req = req,
       !.pc = CASE req.op \in {"setVat", "price", "signoff", "status"} -> "read"
                [] req.op = "issue" -> "issue"
                [] OTHER            -> "gate"])
  /\ UNCHANGED <<hdr, lines, terms, proformas, openVat, crashes, deal>>

\* A statement, and the label after the last of them.
SetHeader(set)  == [kind |-> "header", from |-> DOMAIN Transitions, set |-> set]
Cas(from, set)  == [kind |-> "header", from |-> from, set |-> set]
Insert(l, row)  == [kind |-> "insert", id |-> l, set |-> row]
Delete(l)       == [kind |-> "delete", id |-> l]
SetLine(l, set) == [kind |-> "line", id |-> l, set |-> set]
MustSet(l, set) == [kind |-> "must", id |-> l, set |-> set]

Run(t, x, todo, next) == Become(t, [x EXCEPT !.pc = "write", !.todo = todo, !.next = next])

Refuse(t) == Become(t, Idle)

\* A negotiated discount above the threshold without a signature.
Unsigned(h) ==
  /\ h.calc # Null
  /\ DiscountNeedsSignOff(ComputeDiscount(h.calc, h.total).percent, h.signed # Null, Threshold)

\* getById, in a transaction of its own; what follows is decided on this copy.
ReadQuote(t) ==
  LET x == tx[t] IN
  /\ x.pc = "read"
  /\ CASE x.req.op = "status" ->
            IF x.req.to \notin Transitions[hdr.status]
               \/ (x.req.to = "PENDING_APPROVAL" /\ Unsigned(hdr))
            THEN Refuse(t)
            ELSE Run(t, x, <<Cas({hdr.status}, [status |-> x.req.to])>>, "commit")
       [] x.req.op = "signoff" /\ hdr.calc = Null -> Refuse(t)
       [] OTHER -> Become(t, [x EXCEPT !.seen = hdr, !.vat = openVat,
                     !.pc = IF x.req.op = "price" THEN "readLines" ELSE "gate"])
  /\ UNCHANGED <<hdr, lines, terms, proformas, openVat, asked, crashes, deal>>

\* listLines, in another, and the arithmetic of priceFromGrandTotal.
ReadLines(t) ==
  LET x       == tx[t]
      rows    == IF Live(lines) # {} THEN lines ELSE [lines EXCEPT ![Legacy] = LegacyRow(hdr)]
      ids     == InOrder(rows)
      lists   == Column(rows, ids, "list")
      calc    == QuoteTotals(lists, NoSheet(lists), x.seen.rate).total
      quoted  == DeriveFromGrandTotal(x.req.grand, x.seen.rate)
      percent == ComputeDiscount(calc, quoted.total).percent
  IN  /\ x.pc = "readLines"
      /\ IF percent > 99999 \/ -percent > 99999 THEN Refuse(t)
         ELSE Become(t, [x EXCEPT !.pc = "gate",
                !.plan = [ids |-> ids, prices |-> AllocateToLines(lists, quoted.sub),
                          set |-> [sub |-> quoted.sub, tax |-> quoted.tax, total |-> quoted.total,
                                   calc |-> calc, signed |-> Null]]])
      /\ UNCHANGED <<hdr, lines, terms, proformas, openVat, asked, crashes, deal>>

-----------------------------------------------------------------------------
(* The transaction: the gate, the lines, the statements.                   *)

\* requireDraft: a plain read of the status.
Gate(t) ==
  LET x == tx[t] IN
  /\ x.pc = "gate"
  /\ IF hdr.status \notin Editable THEN Refuse(t)
     ELSE IF x.req.op = "signoff"
          THEN Run(t, x, <<SetHeader([signed |-> x.seen.total])>>, "commit")
          ELSE Become(t, [x EXCEPT !.doc = hdr,
                 !.pc = IF x.req.op = "terms" THEN "readTerms" ELSE "lines"])
  /\ UNCHANGED <<hdr, lines, terms, proformas, openVat, asked, crashes, deal>>

\* resequence: out of the way first, the sequence being unique.
Renumber(ids) ==
  [n \in DOMAIN ids |-> SetLine(ids[n], [seq |-> -n])] \o [n \in DOMAIN ids |-> SetLine(ids[n], [seq |-> n])]

\* Those of the lines that are in the set, in print order.
InOrderOf(f, set) == InOrder([l \in Lines |-> IF l \in set THEN f[l] ELSE Gone])

Unused(l) == l # Legacy /\ lines[l] = Gone /\ \A u \in Txns : l \notin DOMAIN tx[u].own

FreshLine == CHOOSE l \in Lines : Unused(l)

Room == \E l \in Lines : Unused(l)

RemovalAllowed(ids, l) == (\E n \in DOMAIN ids : ids[n] = l) /\ Len(ids) > 1

StillTheLines(live, ids) == live = {ids[n] : n \in DOMAIN ids}

\* materializeLegacyLine, and what the request makes of the lines it returns.
LinesRead(t) ==
  LET x     == tx[t]
      rows  == IF Live(lines) # {} THEN lines ELSE [lines EXCEPT ![Legacy] = LegacyRow(x.doc)]
      ids   == InOrder(rows)
      first == IF Live(lines) # {} THEN <<>> ELSE <<Insert(Legacy, rows[Legacy])>>
  IN
  /\ x.pc = "lines"
  /\ CASE x.req.op = "add" ->
            /\ Room
            /\ Run(t, x, first \o <<Insert(FreshLine, [seq |-> rows[ids[Len(ids)]].seq + 1,
                                     list |-> x.req.list, price |-> x.req.list])>>, "resync")
       [] x.req.op = "update" ->
            Run(t, x, first \o <<MustSet(x.req.id, [list |-> x.req.list, price |-> x.req.list])>>, "resync")
       [] x.req.op = "remove" ->
            IF ~RemovalAllowed(ids, x.req.id) THEN Refuse(t)
            ELSE Run(t, x, first \o <<Delete(x.req.id)>> \o Renumber(InOrderOf(rows, Lines \ {x.req.id})), "resync")
       [] x.req.op = "reorder" ->
            IF Live(rows) # {x.req.ids[n] : n \in DOMAIN x.req.ids} THEN Refuse(t)
            ELSE Run(t, x, first \o Renumber(x.req.ids), "respec")
       [] x.req.op = "setVat" ->
            LET rate == IF x.req.applies THEN VatPercent[x.vat] ELSE 0 IN
            Run(t, [x EXCEPT !.doc.rate = rate],
                first \o <<SetHeader([rate |-> rate, version |-> x.vat])>>, "resync")
       [] x.req.op = "price" ->
            IF ~StillTheLines(Live(rows), x.plan.ids) THEN Refuse(t)
            ELSE Run(t, x, first \o [n \in DOMAIN x.plan.ids |->
                                       SetLine(x.plan.ids[n], [price |-> x.plan.prices[n]])]
                             \o <<SetHeader(x.plan.set)>>, "commit")
  /\ UNCHANGED <<hdr, lines, terms, proformas, openVat, asked, crashes, deal>>

\* Mutant: the sign-off survives.
RebuiltKeepingSignOff(t, lists) ==
  Over([sub |-> t.sub, tax |-> t.tax, total |-> t.total, calc |-> Null],
       IF lists = <<>> THEN <<>> ELSE [spec |-> lists[1]])

Rebuilt(t, lists) ==
  Over([sub |-> t.sub, tax |-> t.tax, total |-> t.total, calc |-> Null, signed |-> Null],
       IF lists = <<>> THEN <<>> ELSE [spec |-> lists[1]])

\* Lines whose price is not their list price.
Stale(rows) == InOrderOf(rows, {l \in Lines : rows[l].price # rows[l].list})

\* resyncHeaderFromLines: lines back to list, the header their sum at the rate
\* the gate read, and the negotiated price with its sign-off gone.
Resync(t) ==
  LET x     == tx[t]
      rows  == View(t)
      ids   == InOrder(rows)
      lists == Column(rows, ids, "list")
      total == QuoteTotals(lists, NoSheet(lists), x.doc.rate)
      stale == Stale(rows)
  IN  /\ x.pc = "resync"
      /\ Run(t, x, [n \in DOMAIN stale |-> SetLine(stale[n], [price |-> rows[stale[n]].list])]
                   \o <<SetHeader(Rebuilt(total, lists))>>, "commit")
      /\ UNCHANGED <<hdr, lines, terms, proformas, openVat, asked, crashes, deal>>

\* A reorder mirrors the line now in front onto the header.
Respec(t) ==
  LET x == tx[t]
      rows == View(t)
  IN  /\ x.pc = "respec"
      /\ IF Live(rows) = {} THEN Become(t, [x EXCEPT !.pc = "commit"])
         ELSE Run(t, x, <<SetHeader([spec |-> rows[InOrder(rows)[1]].list])>>, "commit")
      /\ UNCHANGED <<hdr, lines, terms, proformas, openVat, asked, crashes, deal>>

-----------------------------------------------------------------------------
(* Execution of a statement.                                               *)

Pop(x) ==
  IF Len(x.todo) = 1 THEN [x EXCEPT !.todo = <<>>, !.pc = x.next]
  ELSE [x EXCEPT !.todo = Tail(@), !.pc = "write"]

Others(t) == Txns \ {t}

\* Mutant: an issue under way does not keep editors from the row.
HoldsHeaderToEdit(u) == DOMAIN tx[u].hdr # {} /\ tx[u].req.op # "issue"

HoldsHeader(u) == DOMAIN tx[u].hdr # {}

\* An UPDATE of the header: waits for the row, then its condition is tried on
\* the row as it is by then; an update that finds none refuses the request.
WriteHeader(t) ==
  LET x == tx[t]
      s == Head(x.todo)
      h == HdrView(t)
  IN  /\ x.pc = "write" /\ s.kind = "header"
      /\ \A u \in Others(t) : ~HoldsHeader(u)
      /\ IF h.status \notin s.from THEN Refuse(t) ELSE Become(t, Pop([x EXCEPT !.hdr = Over(s.set, @)]))
      /\ UNCHANGED <<hdr, lines, terms, proformas, openVat, asked, crashes, deal>>

\* A statement on a line: waits for the row.  Another one's deletion leaves
\* nothing to write: only updateLine looks at that, the others go on.
WriteLine(t) ==
  LET x   == tx[t]
      s   == Head(x.todo)
      row == View(t)[s.id]
      new == CASE s.kind = "delete" -> Gone
               [] s.kind = "insert" -> s.set
               [] OTHER             -> Over(s.set, row)
      y   == [x EXCEPT !.own = Over([l \in {s.id} |-> new], @), !.keys = IF row = Gone THEN @ ELSE @ \cup {row.seq}]
  IN  /\ x.pc = "write" /\ s.kind # "header"
      /\ \A u \in Others(t) : s.id \notin DOMAIN tx[u].own
      /\ IF s.kind = "insert"
         THEN IF row = Gone THEN Become(t, [y EXCEPT !.pc = "index"]) ELSE Refuse(t)
         ELSE IF row = Gone
              THEN IF s.kind = "must" THEN Refuse(t) ELSE Become(t, Pop(x))
              ELSE IF "seq" \in DOMAIN new /\ new.seq # row.seq /\ new # Gone
                   THEN Become(t, [y EXCEPT !.pc = "index"]) ELSE Become(t, Pop(y))
      /\ UNCHANGED <<hdr, lines, terms, proformas, openVat, asked, crashes, deal>>

IndexTaken(t, l, n) == \E k \in Lines \ {l} : View(t)[k] # Gone /\ View(t)[k].seq = n

\* unique (quotation, sequence): waits for a transaction that has the entry,
\* refuses when the entry is another line's.
IndexLine(t) ==
  LET x == tx[t]
      l == Head(x.todo).id
      n == x.own[l].seq
  IN  /\ x.pc = "index"
      /\ \A u \in Others(t) : n \notin tx[u].keys
      /\ IF IndexTaken(t, l, n) THEN Refuse(t)
         ELSE Become(t, Pop([x EXCEPT !.keys = @ \cup {n}]))
      /\ UNCHANGED <<hdr, lines, terms, proformas, openVat, asked, crashes, deal>>

\* replacePaymentTerms: the DELETE removes the rows of its own snapshot.
ReadTerms(t) ==
  LET x == tx[t] IN
  /\ x.pc = "readTerms"
  /\ Become(t, [x EXCEPT !.pc = "deleteTerms", !.read = terms])
  /\ UNCHANGED <<hdr, lines, terms, proformas, openVat, asked, crashes, deal>>

DeleteTerms(t) ==
  LET x == tx[t] IN
  /\ x.pc = "deleteTerms"
  /\ \A u \in Others(t) : tx[u].del \cap x.read = {}
  /\ Become(t, [x EXCEPT !.pc = IF x.req.percents = <<>> THEN "commit" ELSE "insertTerms",
                         !.del = x.read \cap terms])
  /\ UNCHANGED <<hdr, lines, terms, proformas, openVat, asked, crashes, deal>>

TermsCollide(t, rows) == \E r \in TermView(t), n \in rows : r.seq = n.seq

\* One INSERT of all rows, unique (quotation, sequence); asked makes rows distinct.
InsertTerms(t) ==
  LET x    == tx[t]
      rows == {[seq |-> n, percent |-> x.req.percents[n], by |-> asked, txn |-> t] : n \in DOMAIN x.req.percents}
  IN  /\ x.pc = "insertTerms"
      /\ \A u \in Others(t) : \A r \in tx[u].ins \cup tx[u].del, n \in rows : r.seq # n.seq
      /\ IF TermsCollide(t, rows) THEN Refuse(t)
         ELSE Become(t, [x EXCEPT !.pc = "commit", !.ins = rows])
      /\ UNCHANGED <<hdr, lines, terms, proformas, openVat, asked, crashes, deal>>

-----------------------------------------------------------------------------
(* Proforma issue.                                                         *)

\* The compare-and-set that claims the quotation holds its row to the end.
IssueClaim(t) ==
  LET x == tx[t] IN
  /\ x.pc = "issue"
  /\ Run(t, x, <<Cas({"PENDING_APPROVAL", "APPROVED"}, [status |-> "CONVERTED_TO_PROFORMA"])>>, "guard")
  /\ UNCHANGED <<hdr, lines, terms, proformas, openVat, asked, crashes, deal>>

\* Mutant: what was signed at submission is not looked at again.
IssueRefusedOnVat(h) == h.version # openVat

IssueRefused(h) == h.version # openVat \/ Unsigned(h)

IssueGuard(t) ==
  LET x == tx[t] IN
  /\ x.pc = "guard"
  /\ IF IssueRefused(HdrView(t)) THEN Refuse(t)
     ELSE Become(t, [x EXCEPT !.pc = "copyTerms"])
  /\ UNCHANGED <<hdr, lines, terms, proformas, openVat, asked, crashes, deal>>

CopyTerms(t) ==
  LET x == tx[t] IN
  /\ x.pc = "copyTerms"
  /\ Become(t, [x EXCEPT !.pc = "copyLines", !.read = TermView(t)])
  /\ UNCHANGED <<hdr, lines, terms, proformas, openVat, asked, crashes, deal>>

CopyLines(t) ==
  LET x == tx[t]
      h == HdrView(t)
  IN
  /\ x.pc = "copyLines"
  /\ Become(t, [x EXCEPT !.pc = "commit",
                 !.copy = {[sub |-> h.total - h.tax, tax |-> h.tax, total |-> h.total,
                            calc |-> h.calc, signed |-> h.signed, terms |-> x.read,
                            prices |-> Column(View(t), InOrder(View(t)), "price")]}])
  /\ UNCHANGED <<hdr, lines, terms, proformas, openVat, asked, crashes, deal>>

-----------------------------------------------------------------------------
(* Ends of transactions.                                                   *)

\* The service's second transaction of setVat: the agreed total applied again.
Continued(x) ==
  IF x.req.op = "setVat" /\ x.seen.calc # Null
  THEN [Idle EXCEPT !.req = [op |-> "price", grand |-> x.seen.total], !.pc = "read"]
  ELSE Idle

Commit(t) ==
  LET x == tx[t] IN
  /\ x.pc = "commit"
  /\ hdr'   = HdrView(t)
  /\ lines' = View(t)
  /\ terms' = TermView(t)
  /\ proformas' = proformas \cup x.copy
  /\ deal' = CASE x.req.op = "price"                      -> x.req.grand
               [] x.req.op \in {"add", "update", "remove"} -> Null
               [] OTHER                                    -> deal
  /\ Become(t, Continued(x))
  /\ UNCHANGED <<openVat, asked, crashes>>

\* Whom t waits for.
WaitsFor(t) ==
  LET x == tx[t] IN
  {u \in Others(t) :
     CASE x.pc = "write" /\ Head(x.todo).kind = "header"  -> HoldsHeader(u)
       [] x.pc = "write" /\ Head(x.todo).kind # "header"  -> Head(x.todo).id \in DOMAIN tx[u].own
       [] x.pc = "index"       -> x.own[Head(x.todo).id].seq \in tx[u].keys
       [] x.pc = "deleteTerms" -> tx[u].del \cap x.read # {}
       [] x.pc = "insertTerms" -> \E r \in tx[u].ins \cup tx[u].del : r.seq \in DOMAIN x.req.percents
       [] OTHER                -> FALSE}

\* PostgreSQL ends one of the transactions that wait in a circle.
DeadlockAbort(t) ==
  /\ \E S \in SUBSET Txns : t \in S /\ \A u \in S : WaitsFor(u) \cap S # {}
  /\ Refuse(t)
  /\ UNCHANGED <<hdr, lines, terms, proformas, openVat, asked, crashes, deal>>

\* The process or its connection dies: the transaction rolls back.
Crash(t) ==
  /\ tx[t].pc # "idle" /\ crashes < MaxCrashes
  /\ crashes' = crashes + 1
  /\ Refuse(t)
  /\ UNCHANGED <<hdr, lines, terms, proformas, openVat, asked, deal>>

\* The VAT rate is rotated (module Rates).
RotateVat ==
  /\ openVat < Len(VatPercent)
  /\ openVat' = openVat + 1
  /\ UNCHANGED <<hdr, lines, terms, proformas, tx, asked, crashes, deal>>

Step(t) ==
  \/ ReadQuote(t) \/ ReadLines(t) \/ Gate(t) \/ LinesRead(t) \/ Resync(t) \/ Respec(t)
  \/ WriteHeader(t) \/ WriteLine(t) \/ IndexLine(t)
  \/ ReadTerms(t) \/ DeleteTerms(t) \/ InsertTerms(t)
  \/ IssueClaim(t) \/ IssueGuard(t) \/ CopyTerms(t) \/ CopyLines(t)
  \/ Commit(t) \/ DeadlockAbort(t)

Next == (\E t \in Txns : Ask(t) \/ Step(t) \/ Crash(t)) \/ RotateVat

Spec == Init /\ [][Next]_vars
-----------------------------------------------------------------------------
(* Properties.                                                             *)

AtRest == \A t \in Txns : tx[t].pc = "idle"

Labels ==
  {"idle", "read", "readLines", "gate", "lines", "resync", "respec", "write", "index",
   "readTerms", "deleteTerms", "insertTerms", "issue", "guard", "copyTerms", "copyLines", "commit"}

\* Types; committed lines carry positive, distinct sequence numbers.
TypeOK ==
  /\ hdr \in Header
  /\ lines \in [Lines -> Row]
  /\ \A l \in Live(lines) : lines[l].seq > 0
  /\ \A k, l \in Live(lines) : lines[k].seq = lines[l].seq => k = l
  /\ \A t \in Txns : tx[t].pc \in Labels

\* No proforma carries a discount above the threshold that nobody signed,
\* whatever was repriced between submission and issue.
IssuedDiscountsAreSigned ==
  \A p \in proformas : ~Unsigned(p)

\* A proforma freezes one version of the quotation: its figures and its lines
\* are those committed at the moment it appears, although they are read in
\* several statements while editors pass the gate.
ProformaIsOneVersion ==
  [][\A p \in proformas' \ proformas :
       /\ p.total = hdr.total /\ p.tax = hdr.tax
       /\ p.prices = Column(lines, InOrder(lines), "price")]_vars

\* "Claim it first": whatever requests race, a quotation becomes at most one
\* proforma, exactly when its status says so.
ConvertedOnce ==
  /\ \A p, q \in proformas : p = q
  /\ proformas # {} <=> hdr.status = "CONVERTED_TO_PROFORMA"

\* Every change of status is one of the table, or an issue from a status it may
\* be issued in, although requests decide on what they have read before.
StatusMoves ==
  hdr'.status # hdr.status =>
    hdr'.status \in Transitions[hdr.status] \cup
      (IF hdr.status = "PENDING_APPROVAL" THEN {"CONVERTED_TO_PROFORMA"} ELSE {})

\* "a payment schedule must add up to exactly 100%", whoever replaces it
\* together with whom.
TermsMakeAWhole ==
  \A S \in {terms} \cup {p.terms : p \in proformas} :
    S # {} => MapThenFoldSet(+, 0, LAMBDA r : r.percent, LAMBDA R : CHOOSE r \in R : TRUE, S) = Whole

\* "the header's subtotal_etb is the sum of the lines' line_total_etb".
HeaderIsTheSumOfItsLines ==
  AtRest /\ Live(lines) # {} =>
    hdr.sub = Total(Column(lines, InOrder(lines), "price"))

\* "a bigger discount must be signed off again": a signature stands for the
\* total its signer was shown.
SignOffCoversThePrice == AtRest /\ hdr.signed # Null => hdr.signed = hdr.total

\* Every request that moves the total takes the signature off in the same commit,
\* whoever signs meanwhile; and a signature is for the total its signer read.  So
\* one that does not cover the price was given for a price changed since that read.
SignOffFallsWithThePrice ==
  /\ hdr'.total # hdr.total => hdr'.signed = Null
  /\ hdr'.signed \notin {hdr.signed, Null} =>
       \E t \in Txns : tx[t].req.op = "signoff" /\ tx'[t] = Idle /\ hdr'.signed = tx[t].seen.total

\* The header shows the spec of the line printed first, the print order has no
\* gap, and a quotation that had lines keeps one.
LinesAreInOrder ==
  AtRest /\ Live(lines) # {} =>
    LET ids == InOrder(lines) IN
    /\ hdr.spec = lines[ids[1]].list
    /\ \A n \in DOMAIN ids : lines[ids[n]].seq = n

\* "a quotation must keep at least one line item".
KeepsALine == Live(lines) # {} => Live(lines') # {}

\* "what the customer pays does not move": the total agreed with the customer
\* is the header's until a line changes.
DealHolds == AtRest /\ deal # Null => hdr.total = deal

\* A process that dies between the two transactions of setVat costs the deal, and
\* then all of it: the header is at list price, with no discount and no signature.
DealHoldsOrIsGone ==
  AtRest /\ deal # Null =>
    \/ hdr.total = deal
    \/ crashes > 0 /\ hdr.calc = Null /\ hdr.signed = Null
       /\ \A l \in Live(lines) : lines[l].price = lines[l].list

\* "a concurrent submit cannot slip a line onto a quotation that has already
\* left": once it is approved, rejected, expired or issued, it is fixed.
KeepsApproved ==
  hdr.status \notin {"DRAFT", "PENDING_APPROVAL"} =>
    /\ lines' = lines /\ terms' = terms
    /\ [hdr' EXCEPT !.status = hdr.status] = hdr
=============================================================================
