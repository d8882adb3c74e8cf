----------------------------- MODULE SalesProofs -----------------------------
(***************************************************************************)
(* Proofs about Sales, for any projects, quotations, connections and       *)
(* requests, from any sound database: papers and stages only move forward, *)
(* a signed contract's project is won, and no circle of requests waits.    *)
(***************************************************************************)
EXTENDS Sales, SequenceTheorems, TLAPS

\* What the theorems ask of the constants.
Parameters == EveryDealHasAProject /\ SameIsNoStatus /\ StartsAreSound

Statement ==
  [kind : {"check"}, rows : SUBSET Rows, in : SUBSET Statuses]
  \cup [kind : {"cas", "quiet"}, row : Rows, from : SUBSET Statuses, to : Statuses]
  \cup [kind : {"touch"}, row : Rows]
  \cup [kind : {"insert"}, row : Rows, to : Statuses]
  \cup [kind : {"move", "advance"}, row : {"project"} \X Projects, to : Stages]

NoRequest == [op |-> "none"]

Transaction ==
  [req : Requests \cup {NoRequest}, todo : Seq(Statement), own : [Rows -> Statuses \cup {Same}]]

\* A connection without a request has nothing to do and nothing written.
Types ==
  /\ db \in [Rows -> Statuses]
  /\ tx \in [Txns -> Transaction]
  /\ \A t \in Txns : tx[t].req = NoRequest => tx[t] = Idle

\* A row has one writer at a time.
WritersAreAlone ==
  \A t, u \in Txns, r \in Rows : t # u /\ tx[t].own[r] # Same => tx[u].own[r] = Same

\* The order in which every request takes its rows.
Level(r) ==
  [quotation |-> 0, sequence |-> 1, proforma |-> 2, contract |-> 2, invoice |-> 2,
   project |-> 3, won |-> 4, customer |-> 5][r[1]]

Prog(t) == Program(tx[t].req)

\* What a statement that has run has left, as long as its transaction goes on.
Effect(t, s) ==
  /\ s.kind = "cas"     => tx[t].own[s.row] = s.to /\ db[s.row] \in s.from
  /\ s.kind = "insert"  => tx[t].own[s.row] = s.to /\ db[s.row] = "NONE"
  /\ s.kind = "touch"   => tx[t].own[s.row] = db[s.row]
  /\ s.kind = "advance" /\ tx[t].own[s.row] # Same =>
       /\ tx[t].own[s.row] = s.to
       /\ db[s.row] \in DOMAIN Rank /\ Rank[db[s.row]] < Rank[s.to]

\* The first k statements have run, and nothing but their rows is written.
RanUpTo(t, k) ==
  /\ \A m \in 1..k : Effect(t, Prog(t)[m])
  /\ \A r \in Rows : tx[t].own[r] # Same => \E m \in 1..k : Prog(t)[m].kind # "check" /\ r = Prog(t)[m].row

\* Between two statements of its program.
AtStatement(t, k) ==
  /\ k \in 0..Len(Prog(t))
  /\ tx[t].todo = SubSeq(Prog(t), k + 1, Len(Prog(t)))
  /\ RanUpTo(t, k)

\* Between the two statements of autoAdvanceProject.
AtAdvance(t) ==
  LET n == Len(Prog(t)) IN
  \E now \in DOMAIN Rank :
    /\ n > 0 /\ Prog(t)[n].kind = "advance"
    /\ Rank[now] < Rank[Prog(t)[n].to]
    /\ tx[t].todo = <<Quiet(Prog(t)[n].row, {now}, Prog(t)[n].to)>>
    /\ RanUpTo(t, n - 1)

\* Within updateStatus of a project: before, between and after its writes.
AtMove(t) ==
  LET row == <<"project", tx[t].req.of>>
      won == <<"won", tx[t].req.of>>
      to  == tx[t].req.to
      Stamp == Quiet(won, {"NONE", "YES"}, "YES")
  IN  /\ tx[t].req.op = "moveProject"
      /\ \/ \E now \in DOMAIN StageMoves :
              /\ to \in StageMoves[now]
              /\ tx[t].todo \in {<<Cas(row, {now}, to)>>, <<Cas(row, {now}, to), Stamp>>}
              /\ \A r \in Rows : tx[t].own[r] = Same
         \/ /\ tx[t].own[row] = to
            /\ db[row] \in DOMAIN StageMoves /\ to \in StageMoves[db[row]]
            /\ \/ tx[t].todo = <<Stamp>> /\ \A r \in Rows \ {row} : tx[t].own[r] = Same
               \/ tx[t].todo = <<>> /\ \A r \in Rows \ {row, won} : tx[t].own[r] = Same

\* A request under way is somewhere in its program.
Placed(t) ==
  tx[t].req # NoRequest =>
    \/ \E k \in Nat : AtStatement(t, k) /\ (tx[t].req.op = "moveProject" => k = 0)
    \/ AtAdvance(t)
    \/ AtMove(t)

-----------------------------------------------------------------------------
(* Programs.                                                               *)

\* Every row of a statement is a row of a table.
LEMMA RowsOfTables ==
  ASSUME EveryDealHasAProject
  PROVE  /\ <<"customer">> \in Rows
         /\ \A p \in Projects : <<"project", p>> \in Rows /\ <<"won", p>> \in Rows
         /\ \A d \in Deals : /\ \A paper \in Papers : <<paper, d>> \in Rows
                             /\ <<"project", ProjectOf[d]>> \in Rows /\ ProjectOf[d] \in Projects
         /\ \A c \in Counters : <<"sequence", c>> \in Rows
BY DEF Rows, EveryDealHasAProject

\* A request has the fields of its kind.
LEMMA RequestOf ==
  ASSUME NEW req \in Requests
  PROVE  \/ req.op = "createProject" /\ req.of \in Projects
         \/ req.op = "moveProject" /\ req.of \in Projects /\ req.to \in Stages
         \/ /\ req.op \in {"createQuotation", "submitQuotation", "issueProforma", "cancelProforma",
                           "issueContract", "signContract", "cancelContract", "handover",
                           "issueInvoice", "voidInvoice"}
            /\ req.of \in Deals
         \/ req.op = "deleteCustomer"
BY DEF Requests

\* What the constructors of statements make.
LEMMA StatementsAre ==
  /\ \A rows \in SUBSET Rows, in \in SUBSET Statuses : Check(rows, in) \in Statement
  /\ \A row \in Rows, from \in SUBSET Statuses, to \in Statuses :
       Cas(row, from, to) \in Statement /\ Quiet(row, from, to) \in Statement
  /\ \A row \in Rows, to \in Statuses : Touch(row) \in Statement /\ Insert(row, to) \in Statement
  /\ \A p \in Projects, to \in Stages : Move(p, to) \in Statement /\ Advance(p, to) \in Statement
BY DEF Statement, Check, Cas, Quiet, Touch, Insert, Move, Advance

\* The statuses programs write and ask for.
LEMMA StatusesAre ==
  /\ Exists \subseteq Statuses /\ Stages \subseteq Statuses
  /\ {"NONE", "LIVE", "DELETED", "YES", "DRAFT", "PENDING_APPROVAL", "CONVERTED_TO_PROFORMA",
      "ISSUED", "SIGNED", "COMPLETED", "CANCELLED", "VOID"} \subseteq Statuses
  /\ {"LEAD", "QUOTATION", "CONTRACT", "COMPLETED"} \subseteq Stages
BY DEF Statuses, Exists, Stages

\* A program is a sequence of statements.
LEMMA ProgramTyped ==
  ASSUME EveryDealHasAProject, NEW req \in Requests
  PROVE  Program(req) \in Seq(Statement)
<1>1. ASSUME NEW p \in Projects PROVE CreateProject(p) \in Seq(Statement)
  <2>1. Insert(<<"project", p>>, "LEAD") \in Statement
    BY RowsOfTables, StatementsAre, StatusesAre
  <2>2. QED
    BY <2>1 DEF CreateProject
<1>2. ASSUME NEW p \in Projects, NEW to \in Stages PROVE MoveProject(p, to) \in Seq(Statement)
  BY StatementsAre DEF MoveProject
<1>3. ASSUME NEW d \in Deals PROVE CreateQuotation(d) \in Seq(Statement)
  <2>1. Check({<<"project", ProjectOf[d]>>}, Exists) \in Statement
    BY RowsOfTables, StatementsAre, StatusesAre
  <2>2. /\ Insert(<<"quotation", d>>, "DRAFT") \in Statement
        /\ Advance(ProjectOf[d], "QUOTATION") \in Statement
    BY RowsOfTables, StatementsAre, StatusesAre DEF Papers
  <2>3. QED
    BY <2>1, <2>2 DEF CreateQuotation
<1>4. ASSUME NEW d \in Deals PROVE SubmitQuotation(d) \in Seq(Statement)
  <2>1. Cas(<<"quotation", d>>, {"DRAFT"}, "PENDING_APPROVAL") \in Statement
    BY RowsOfTables, StatementsAre, StatusesAre DEF Papers
  <2>2. QED
    BY <2>1 DEF SubmitQuotation
<1>5. ASSUME NEW d \in Deals PROVE IssueProforma(d) \in Seq(Statement)
  <2>1. Cas(<<"quotation", d>>, {"PENDING_APPROVAL"}, "CONVERTED_TO_PROFORMA") \in Statement
    BY RowsOfTables, StatementsAre, StatusesAre DEF Papers
  <2>2. /\ Claim("PROFORMA") \in Statement
        /\ Insert(<<"proforma", d>>, "ISSUED") \in Statement
        /\ Advance(ProjectOf[d], "QUOTATION") \in Statement
    BY RowsOfTables, StatementsAre, StatusesAre DEF Papers, Counters, Claim
  <2>3. QED
    BY <2>1, <2>2 DEF IssueProforma
<1>6. ASSUME NEW d \in Deals PROVE CancelProforma(d) \in Seq(Statement)
  <2>1. Cas(<<"proforma", d>>, {"ISSUED"}, "CANCELLED") \in Statement
    BY RowsOfTables, StatementsAre, StatusesAre DEF Papers
  <2>2. QED
    BY <2>1 DEF CancelProforma
<1>7. ASSUME NEW d \in Deals PROVE IssueContract(d) \in Seq(Statement)
  <2>1. Check({<<"proforma", d>>}, {"ISSUED"}) \in Statement
    BY RowsOfTables, StatementsAre, StatusesAre DEF Papers
  <2>2. Check({<<"contract", d>>}, {"NONE"}) \in Statement
    BY RowsOfTables, StatementsAre, StatusesAre DEF Papers
  <2>3. Claim("CONTRACT") \in Statement /\ Insert(<<"contract", d>>, "DRAFT") \in Statement
    BY RowsOfTables, StatementsAre, StatusesAre DEF Papers, Counters, Claim
  <2>4. QED
    BY <2>1, <2>2, <2>3 DEF IssueContract
<1>8. ASSUME NEW d \in Deals PROVE SignContract(d) \in Seq(Statement)
  <2>1. Cas(<<"contract", d>>, {"DRAFT"}, "SIGNED") \in Statement
    BY RowsOfTables, StatementsAre, StatusesAre DEF Papers
  <2>2. Advance(ProjectOf[d], "CONTRACT") \in Statement
    BY RowsOfTables, StatementsAre, StatusesAre
  <2>3. QED
    BY <2>1, <2>2 DEF SignContract
<1>9. ASSUME NEW d \in Deals PROVE CancelContract(d) \in Seq(Statement)
  <2>1. Cas(<<"contract", d>>, {"DRAFT", "SIGNED"}, "CANCELLED") \in Statement
    BY RowsOfTables, StatementsAre, StatusesAre DEF Papers
  <2>2. QED
    BY <2>1 DEF CancelContract
<1>10. ASSUME NEW d \in Deals PROVE Handover(d) \in Seq(Statement)
  <2>1. Cas(<<"contract", d>>, {"SIGNED"}, "COMPLETED") \in Statement
    BY RowsOfTables, StatementsAre, StatusesAre DEF Papers
  <2>2. Advance(ProjectOf[d], "COMPLETED") \in Statement
    BY RowsOfTables, StatementsAre, StatusesAre
  <2>3. QED
    BY <2>1, <2>2 DEF Handover
<1>11. ASSUME NEW d \in Deals PROVE IssueInvoice(d) \in Seq(Statement)
  <2>1. Check({<<"proforma", d>>}, {"ISSUED"}) \in Statement
    BY RowsOfTables, StatementsAre, StatusesAre DEF Papers
  <2>2. /\ Claim("INVOICE") \in Statement /\ Insert(<<"invoice", d>>, "ISSUED") \in Statement
        /\ Touch(<<"customer">>) \in Statement
    BY RowsOfTables, StatementsAre, StatusesAre DEF Papers, Counters, Claim
  <2>3. QED
    BY <2>1, <2>2 DEF IssueInvoice
<1>12. ASSUME NEW d \in Deals PROVE VoidInvoice(d) \in Seq(Statement)
  <2>1. Cas(<<"invoice", d>>, {"ISSUED"}, "VOID") \in Statement
    BY RowsOfTables, StatementsAre, StatusesAre DEF Papers
  <2>2. Touch(<<"customer">>) \in Statement
    BY RowsOfTables, StatementsAre, StatusesAre
  <2>3. QED
    BY <2>1, <2>2 DEF VoidInvoice
<1>13. DeleteCustomer \in Seq(Statement)
  <2>1. /\ Check({"project"} \X Projects, {"NONE"}) \in Statement
        /\ Check({"invoice"} \X Deals, {"NONE", "VOID"}) \in Statement
    BY StatementsAre, StatusesAre DEF Rows, Papers
  <2>2. Cas(<<"customer">>, {"LIVE"}, "DELETED") \in Statement
    BY RowsOfTables, StatementsAre, StatusesAre
  <2>3. QED
    BY <2>1, <2>2 DEF DeleteCustomer
<1>14. QED
  BY <1>1, <1>2, <1>3, <1>4, <1>5, <1>6, <1>7, <1>8, <1>9, <1>10, <1>11, <1>12, <1>13, RequestOf
  DEF Program

\* Programs take rows in the order of Level, each once, and read the stage of a project
\* with nothing left to do after it.
LEMMA ProgramAscends ==
  ASSUME EveryDealHasAProject, NEW req \in Requests,
         NEW m \in 1..Len(Program(req)), NEW n \in 1..Len(Program(req))
  PROVE  LET P == Program(req) IN
         /\ m < n /\ P[m].kind # "check" /\ P[n].kind # "check" => Level(P[m].row) < Level(P[n].row)
         /\ P[n].kind = "advance" => n = Len(P) /\ P[n].row[1] = "project"
         /\ P[n].kind = "move" <=> req.op = "moveProject"
         /\ P[n].kind # "quiet"
<1> USE RequestOf DEF Level, Check, Cas, Touch, Insert, Move, Advance, Claim
<1>1. CASE req.op = "createProject"
  BY <1>1 DEF Program, CreateProject
<1>2. CASE req.op = "moveProject"
  BY <1>2 DEF Program, MoveProject
<1>3. CASE req.op = "createQuotation"
  BY <1>3 DEF Program, CreateQuotation
<1>4. CASE req.op = "submitQuotation"
  BY <1>4 DEF Program, SubmitQuotation
<1>5. CASE req.op = "issueProforma"
  BY <1>5 DEF Program, IssueProforma
<1>6. CASE req.op = "cancelProforma"
  BY <1>6 DEF Program, CancelProforma
<1>7. CASE req.op = "issueContract"
  BY <1>7 DEF Program, IssueContract
<1>8. CASE req.op = "signContract"
  BY <1>8 DEF Program, SignContract
<1>9. CASE req.op = "cancelContract"
  BY <1>9 DEF Program, CancelContract
<1>10. CASE req.op = "handover"
  BY <1>10 DEF Program, Handover
<1>11. CASE req.op = "issueInvoice"
  BY <1>11 DEF Program, IssueInvoice
<1>12. CASE req.op = "voidInvoice"
  BY <1>12 DEF Program, VoidInvoice
<1>13. CASE req.op = "deleteCustomer"
  BY <1>13 DEF Program, DeleteCustomer
<1>14. QED
  BY <1>1, <1>2, <1>3, <1>4, <1>5, <1>6, <1>7, <1>8, <1>9, <1>10, <1>11, <1>12, <1>13

\* Where a program may advance a project to, and for which request.
LEMMA AdvanceTargets ==
  ASSUME EveryDealHasAProject, NEW req \in Requests,
         NEW n \in 1..Len(Program(req)), Program(req)[n].kind = "advance"
  PROVE  LET s == Program(req)[n] IN
         /\ s.to \in DOMAIN Rank /\ req.of \in Deals /\ s.row = <<"project", ProjectOf[req.of]>>
         /\ \/ req.op \in {"createQuotation", "issueProforma"} /\ s.to = "QUOTATION"
            \/ req.op = "signContract" /\ s.to = "CONTRACT"
            \/ req.op = "handover" /\ s.to = "COMPLETED"
<1> USE RequestOf DEF Rank, Check, Cas, Touch, Insert, Move, Advance, Claim
<1>1. CASE req.op = "createProject"
  BY <1>1 DEF Program, CreateProject
<1>2. CASE req.op = "moveProject"
  BY <1>2 DEF Program, MoveProject
<1>3. CASE req.op = "createQuotation"
  BY <1>3 DEF Program, CreateQuotation
<1>4. CASE req.op = "submitQuotation"
  BY <1>4 DEF Program, SubmitQuotation
<1>5. CASE req.op = "issueProforma"
  BY <1>5 DEF Program, IssueProforma
<1>6. CASE req.op = "cancelProforma"
  BY <1>6 DEF Program, CancelProforma
<1>7. CASE req.op = "issueContract"
  BY <1>7 DEF Program, IssueContract
<1>8. CASE req.op = "signContract"
  BY <1>8 DEF Program, SignContract
<1>9. CASE req.op = "cancelContract"
  BY <1>9 DEF Program, CancelContract
<1>10. CASE req.op = "handover"
  BY <1>10 DEF Program, Handover
<1>11. CASE req.op = "issueInvoice"
  BY <1>11 DEF Program, IssueInvoice
<1>12. CASE req.op = "voidInvoice"
  BY <1>12 DEF Program, VoidInvoice
<1>13. CASE req.op = "deleteCustomer"
  BY <1>13 DEF Program, DeleteCustomer
<1>14. QED
  BY <1>1, <1>2, <1>3, <1>4, <1>5, <1>6, <1>7, <1>8, <1>9, <1>10, <1>11, <1>12, <1>13

\* Levels are numbers.
LEMMA LevelIsNumber == \A r \in Rows : Level(r) \in 0..5
BY DEF Level, Rows, Papers

-----------------------------------------------------------------------------
(* Where a transaction is in its program.                                  *)

\* A request under way has a program.
LEMMA ProgOf ==
  ASSUME EveryDealHasAProject, Types, NEW t \in Txns
  PROVE  /\ tx[t].req # NoRequest => tx[t].req \in Requests /\ Prog(t) \in Seq(Statement)
         /\ tx[t].todo \in Seq(Statement)
         /\ tx[t].own \in [Rows -> Statuses \cup {Same}]
BY ProgramTyped DEF Types, Transaction, Prog

\* The statement that runs next is the one after those that have run.
LEMMA HeadAt ==
  ASSUME EveryDealHasAProject, Types, NEW t \in Txns, tx[t].req # NoRequest, NEW k,
         AtStatement(t, k)
  PROVE  /\ tx[t].todo = <<>> <=> k = Len(Prog(t))
         /\ tx[t].todo # <<>> => /\ k + 1 \in 1..Len(Prog(t)) /\ k \in Nat
                                 /\ Head(tx[t].todo) = Prog(t)[k + 1]
                                 /\ Prog(t)[k + 1] \in Statement
                                 /\ Tail(tx[t].todo) = SubSeq(Prog(t), k + 2, Len(Prog(t)))
<1>1. Prog(t) \in Seq(Statement) /\ Len(Prog(t)) \in Nat /\ k \in 0..Len(Prog(t))
  BY ProgOf, LenProperties DEF AtStatement
<1>2. CASE k = Len(Prog(t))
  <2>1. tx[t].todo = <<>>
    BY <1>1, <1>2, SubSeqEmpty DEF AtStatement
  <2>2. QED
    BY <1>2, <2>1
<1>3. CASE k < Len(Prog(t))
  <2>1. k + 1 \in 1..Len(Prog(t)) /\ Len(Prog(t)) \in k + 1 .. Len(Prog(t))
    BY <1>1, <1>3
  <2>2. /\ Head(tx[t].todo) = Prog(t)[k + 1]
        /\ Tail(tx[t].todo) = SubSeq(Prog(t), (k + 1) + 1, Len(Prog(t)))
    BY <1>1, <2>1, HeadTailOfSubSeq DEF AtStatement
  <2>3. Prog(t)[k + 1] \in Statement
    BY <1>1, <2>1, ElementOfSeq
  <2>4. \A n \in k + 1 .. Len(Prog(t)) : Prog(t)[n] \in Statement
    BY <1>1, ElementOfSeq
  <2>5. Len(tx[t].todo) = Len(Prog(t)) - (k + 1) + 1
    BY <1>1, <2>1, <2>4, SubSeqProperties DEF AtStatement
  <2>6. tx[t].todo # <<>>
    <3>1. Len(Prog(t)) \in Nat /\ k \in Nat
      BY <1>1
    <3>2. Len(Prog(t)) - (k + 1) + 1 # 0
      BY <3>1, <1>3
    <3>3. Len(<<>>) = 0
      BY EmptySeq
    <3>4. QED
      BY <2>5, <3>2, <3>3, Zenon
  <2>7. k \in Nat /\ k # Len(Prog(t)) /\ (k + 1) + 1 = k + 2
    BY <1>1, <1>3
  <2>8. Tail(tx[t].todo) = SubSeq(Prog(t), k + 2, Len(Prog(t)))
    BY <2>2, <2>7, Zenon
  <2>9. QED
    BY <2>1, <2>2, <2>3, <2>6, <2>7, <2>8, Zenon
<1>4. QED
  BY <1>1, <1>2, <1>3

\* The row of the next statement is not written yet.
LEMMA NextRowFree ==
  ASSUME EveryDealHasAProject, Types, NEW t \in Txns, tx[t].req # NoRequest, NEW k \in Nat,
         k + 1 \in 1..Len(Prog(t)), RanUpTo(t, k), Prog(t)[k + 1].kind # "check",
         Prog(t)[k + 1].row \in Rows
  PROVE  tx[t].own[Prog(t)[k + 1].row] = Same
<1> SUFFICES ASSUME tx[t].own[Prog(t)[k + 1].row] # Same PROVE FALSE
  OBVIOUS
<1>1. PICK m \in 1..k : Prog(t)[m].kind # "check" /\ Prog(t)[k + 1].row = Prog(t)[m].row
  BY DEF RanUpTo
<1>2. tx[t].req \in Requests /\ Prog(t) \in Seq(Statement) /\ m \in 1..Len(Prog(t)) /\ m < k + 1
  BY ProgOf, LenProperties
<1>3. Level(Prog(t)[m].row) < Level(Prog(t)[k + 1].row)
  BY <1>1, <1>2, ProgramAscends DEF Prog
<1>4. Level(Prog(t)[k + 1].row) \in 0..5
  BY LevelIsNumber
<1>5. QED
  BY <1>1, <1>3, <1>4

\* A statement that has run leaves the transaction one further in its program.
LEMMA Proceed ==
  ASSUME EveryDealHasAProject, Types, NEW t \in Txns, tx[t].req # NoRequest, NEW k,
         AtStatement(t, k), tx[t].todo # <<>>, db' = db, tx'[t].req = tx[t].req,
         tx'[t].todo = Tail(tx[t].todo), NEW s, s = Head(tx[t].todo), Effect(t, s)',
         s.kind = "check" => tx'[t].own = tx[t].own,
         s.kind # "check" => \A r \in Rows : r # s.row => tx'[t].own[r] = tx[t].own[r]
  PROVE  AtStatement(t, k + 1)'
<1>1. /\ k + 1 \in 1..Len(Prog(t)) /\ k \in Nat /\ s = Prog(t)[k + 1] /\ s \in Statement
      /\ tx'[t].todo = SubSeq(Prog(t), (k + 1) + 1, Len(Prog(t)))
  <2>1. /\ k + 1 \in 1..Len(Prog(t)) /\ k \in Nat /\ s = Prog(t)[k + 1] /\ s \in Statement
        /\ tx'[t].todo = SubSeq(Prog(t), k + 2, Len(Prog(t)))
    BY HeadAt
  <2>2. k + 2 = (k + 1) + 1
    BY <2>1
  <2>3. QED
    BY <2>1, <2>2
<1>2. Prog(t)' = Prog(t) /\ tx[t].req \in Requests /\ Prog(t) \in Seq(Statement)
  BY ProgOf DEF Prog
<1>3. ASSUME NEW m \in 1..k PROVE Effect(t, Prog(t)[m])'
  <2>1. Effect(t, Prog(t)[m]) /\ m \in 1..Len(Prog(t)) /\ m < k + 1
    BY <1>1, <1>2, LenProperties DEF AtStatement, RanUpTo
  <2>2. Prog(t)[m] \in Statement
    BY <1>2, <2>1, ElementOfSeq
  <2>3. CASE Prog(t)[m].kind = "check"
    BY <1>2, <2>3 DEF Effect
  <2>4. CASE Prog(t)[m].kind # "check"
    <3>1. Prog(t)[m].row \in Rows
      BY <2>2, <2>4 DEF Statement, Rows
    <3>2. s.kind # "check" => Prog(t)[m].row # s.row
      <4>1. s.kind # "check" => Level(Prog(t)[m].row) < Level(s.row)
        BY <1>1, <1>2, <2>1, <2>4, ProgramAscends DEF Prog
      <4>2. QED
        BY <3>1, <4>1, LevelIsNumber
    <3>3. tx'[t].own[Prog(t)[m].row] = tx[t].own[Prog(t)[m].row]
      BY <3>1, <3>2
    <3>4. QED
      BY <1>2, <2>1, <3>3 DEF Effect
  <2>5. QED
    BY <2>3, <2>4
<1>4. ASSUME NEW r \in Rows, tx'[t].own[r] # Same
      PROVE  \E m \in 1..k + 1 : Prog(t)[m].kind # "check" /\ r = Prog(t)[m].row
  <2>1. CASE tx'[t].own[r] = tx[t].own[r]
    <3>1. PICK m \in 1..k : Prog(t)[m].kind # "check" /\ r = Prog(t)[m].row
      BY <1>4, <2>1 DEF AtStatement, RanUpTo
    <3>2. m \in 1..k + 1
      BY <1>1
    <3>3. QED
      BY <3>1, <3>2
  <2>2. CASE tx'[t].own[r] # tx[t].own[r]
    BY <1>1, <2>2
  <2>3. QED
    BY <2>1, <2>2
<1>5. RanUpTo(t, k + 1)'
  <2>1. ASSUME NEW m \in 1..k + 1 PROVE Effect(t, Prog(t)[m])'
    <3>1. CASE m \in 1..k
      BY <1>3, <3>1
    <3>2. CASE m = k + 1
      BY <1>1, <1>2, <3>2 DEF Effect
    <3>3. QED
      BY <1>1, <3>1, <3>2
  <2>2. QED
    BY <1>2, <1>4, <2>1 DEF RanUpTo
<1>6. QED
  BY <1>1, <1>2, <1>5, LenProperties DEF AtStatement

-----------------------------------------------------------------------------
(* Steps.                                                                  *)

\* A statement ran, and wrote nothing, or one row.
Passed(t) ==
  tx'[t].req = tx[t].req /\ tx'[t].todo = Tail(tx[t].todo) /\ tx'[t].own = tx[t].own

Wrote(t, row, status) ==
  /\ tx'[t].req = tx[t].req /\ tx'[t].todo = Tail(tx[t].todo)
  /\ tx'[t].own = [tx[t].own EXCEPT ![row] = status]

\* A step changes one connection.
LEMMA Becomes ==
  ASSUME Types, NEW t \in Txns, NEW x, Become(t, x)
  PROVE  tx'[t] = x /\ \A u \in Txns : u # t => tx'[u] = tx[u]
BY DEF Types, Become

\* What is left of a transaction whose statement has run.
LEMMA DoneIs ==
  ASSUME Types, NEW t \in Txns
  PROVE  /\ Become(t, Done(tx[t])) => Passed(t)
         /\ \A row \in Rows : \A status :
              Become(t, [Done(tx[t]) EXCEPT !.own[row] = status]) => Wrote(t, row, status)
<1>1. tx[t] \in Transaction
  BY DEF Types
<1>2. ASSUME Become(t, Done(tx[t])) PROVE Passed(t)
  <2>1. tx'[t] = Done(tx[t])
    BY <1>2, Becomes
  <2>2. QED
    BY <1>1, <2>1 DEF Transaction, Done, Passed
<1>3. ASSUME NEW row \in Rows, NEW status, Become(t, [Done(tx[t]) EXCEPT !.own[row] = status])
      PROVE  Wrote(t, row, status)
  <2>1. tx'[t] = [Done(tx[t]) EXCEPT !.own[row] = status]
    BY <1>3, Becomes
  <2>2. QED
    BY <1>1, <2>1 DEF Transaction, Done, Wrote
<1>4. QED
  BY <1>2, <1>3

\* A statement of a kind is next.
LEMMA NextIs ==
  ASSUME EveryDealHasAProject, Types, NEW t \in Txns, NEW kinds, Runs(t, kinds)
  PROVE  /\ tx[t].todo # <<>> /\ Head(tx[t].todo) \in Statement /\ Head(tx[t].todo).kind \in kinds
         /\ Head(tx[t].todo).kind # "check" => Head(tx[t].todo).row \in Rows
         /\ tx[t].req # NoRequest
<1>1. tx[t].todo # <<>> /\ Head(tx[t].todo).kind \in kinds
  BY DEF Runs
<1>2. Head(tx[t].todo) \in Statement
  BY <1>1, ProgOf, HeadTailProperties
<1>3. Head(tx[t].todo).kind # "check" => Head(tx[t].todo).row \in Rows
  BY <1>2 DEF Statement, Rows
<1>4. tx[t].req # NoRequest
  BY <1>1 DEF Types, Idle
<1>5. QED
  BY <1>1, <1>2, <1>3, <1>4

\* What an UPDATE does.
LEMMA UpdateIs ==
  ASSUME EveryDealHasAProject, Types, NEW t \in Txns, RunUpdate(t), NEW s, s = Head(tx[t].todo)
  PROVE  /\ ~Held(t, s.row) /\ s.kind \in {"cas", "quiet", "touch"} /\ db' = db
         /\ \/ tx'[t] = Idle
            \/ s.kind = "touch" /\ Wrote(t, s.row, View(t, s.row))
            \/ s.kind \in {"cas", "quiet"} /\ View(t, s.row) \in s.from /\ Wrote(t, s.row, s.to)
            \/ s.kind = "quiet" /\ View(t, s.row) \notin s.from /\ Passed(t)
<1>1. Runs(t, {"cas", "quiet", "touch"}) /\ db' = db /\ ~Held(t, s.row)
  BY DEF RunUpdate
<1>2. s \in Statement /\ s.row \in Rows /\ s.kind \in {"cas", "quiet", "touch"}
  BY <1>1, NextIs
<1>3. CASE s.kind = "touch"
  <2>1. Become(t, [Done(tx[t]) EXCEPT !.own[s.row] = View(t, s.row)])
    BY <1>3 DEF RunUpdate
  <2>2. QED
    BY <1>1, <1>2, <1>3, <2>1, DoneIs
<1>4. CASE s.kind # "touch" /\ View(t, s.row) \in s.from
  <2>1. Become(t, [Done(tx[t]) EXCEPT !.own[s.row] = s.to])
    BY <1>4 DEF RunUpdate
  <2>2. QED
    BY <1>1, <1>2, <1>4, <2>1, DoneIs
<1>5. CASE s.kind = "cas" /\ View(t, s.row) \notin s.from
  <2>1. Become(t, Idle)
    BY <1>5 DEF RunUpdate, Refuse
  <2>2. QED
    BY <1>1, <1>2, <2>1, Becomes
<1>6. CASE s.kind = "quiet" /\ View(t, s.row) \notin s.from
  <2>1. Become(t, Done(tx[t]))
    BY <1>6 DEF RunUpdate
  <2>2. QED
    BY <1>1, <1>2, <1>6, <2>1, DoneIs
<1>7. QED
  BY <1>2, <1>3, <1>4, <1>5, <1>6

\* What an INSERT does.
LEMMA InsertIs ==
  ASSUME EveryDealHasAProject, Types, NEW t \in Txns, RunInsert(t), NEW s, s = Head(tx[t].todo)
  PROVE  /\ ~Held(t, s.row) /\ s.kind = "insert" /\ db' = db
         /\ tx'[t] = Idle \/ (View(t, s.row) = "NONE" /\ Wrote(t, s.row, s.to))
<1>1. Runs(t, {"insert"}) /\ db' = db /\ ~Held(t, s.row)
  BY DEF RunInsert
<1>2. s \in Statement /\ s.row \in Rows /\ s.kind = "insert"
  BY <1>1, NextIs
<1>3. CASE View(t, s.row) = "NONE"
  <2>1. Become(t, [Done(tx[t]) EXCEPT !.own[s.row] = s.to])
    BY <1>3 DEF RunInsert
  <2>2. QED
    BY <1>1, <1>2, <1>3, <2>1, DoneIs
<1>4. CASE View(t, s.row) # "NONE"
  <2>1. Become(t, Idle)
    BY <1>4 DEF RunInsert, Refuse
  <2>2. QED
    BY <1>1, <1>2, <2>1, Becomes
<1>5. QED
  BY <1>3, <1>4

\* What a plain read does.
LEMMA CheckIs ==
  ASSUME EveryDealHasAProject, Types, NEW t \in Txns, RunCheck(t), NEW s, s = Head(tx[t].todo)
  PROVE  /\ s.kind = "check" /\ db' = db
         /\ tx'[t] = Idle \/ ((\A r \in s.rows : View(t, r) \in s.in) /\ Passed(t))
<1>1. Runs(t, {"check"}) /\ db' = db
  BY DEF RunCheck
<1>2. s.kind = "check"
  BY <1>1, NextIs
<1>3. CASE \A r \in s.rows : View(t, r) \in s.in
  <2>1. Become(t, Done(tx[t]))
    BY <1>3 DEF RunCheck
  <2>2. QED
    BY <1>1, <1>2, <1>3, <2>1, DoneIs
<1>4. CASE ~\A r \in s.rows : View(t, r) \in s.in
  <2>1. Become(t, Idle)
    BY <1>4 DEF RunCheck, Refuse
  <2>2. QED
    BY <1>1, <1>2, <2>1, Becomes
<1>5. QED
  BY <1>3, <1>4

\* Elsewhere than in its program a transaction has an UPDATE to run.
LEMMA HeadElsewhere ==
  ASSUME NEW t \in Txns
  PROVE  /\ AtAdvance(t) => Head(tx[t].todo).kind = "quiet" /\ tx[t].todo # <<>>
         /\ AtMove(t) => tx[t].todo = <<>> \/ Head(tx[t].todo).kind \in {"cas", "quiet"}
<1>1. AtAdvance(t) => Head(tx[t].todo).kind = "quiet" /\ tx[t].todo # <<>>
  BY DEF AtAdvance, Quiet
<1>2. AtMove(t) => tx[t].todo = <<>> \/ Head(tx[t].todo).kind \in {"cas", "quiet"}
  BY DEF AtMove, Quiet, Cas
<1>3. QED
  BY <1>1, <1>2

\* What the read of autoAdvanceProject leaves to do: it is the last of its program.
LEMMA AdvanceIs ==
  ASSUME EveryDealHasAProject, Types, NEW t \in Txns, Placed(t), RunAdvance(t),
         NEW s, s = Head(tx[t].todo)
  PROVE  /\ s.kind = "advance" /\ db' = db /\ tx'[t].req = tx[t].req /\ tx'[t].own = tx[t].own
         /\ Len(Prog(t)) > 0 /\ s = Prog(t)[Len(Prog(t))] /\ AtStatement(t, Len(Prog(t)) - 1)
         /\ LET now == View(t, s.row) IN
            IF now \notin DOMAIN Rank \/ Rank[now] >= Rank[s.to]
              THEN tx'[t].todo = <<>> ELSE tx'[t].todo = <<Quiet(s.row, {now}, s.to)>>
<1>1. Runs(t, {"advance"}) /\ db' = db
  BY DEF RunAdvance
<1>2. s \in Statement /\ s.row \in Rows /\ s.kind = "advance" /\ tx[t].todo # <<>>
      /\ tx[t].req # NoRequest
  BY <1>1, NextIs
<1>3. ~AtAdvance(t) /\ ~AtMove(t)
  BY <1>2, HeadElsewhere
<1>4. PICK k \in Nat : AtStatement(t, k)
  BY <1>2, <1>3 DEF Placed
<1>5. /\ k + 1 \in 1..Len(Prog(t)) /\ s = Prog(t)[k + 1]
      /\ Tail(tx[t].todo) = SubSeq(Prog(t), k + 2, Len(Prog(t)))
  BY <1>2, <1>4, HeadAt
<1>6. Len(Prog(t)) \in Nat /\ tx[t].req \in Requests
  BY <1>2, ProgOf, LenProperties
<1>7. k + 1 = Len(Prog(t))
  BY <1>2, <1>5, <1>6, ProgramAscends DEF Prog
<1>8. Tail(tx[t].todo) = <<>> /\ k = Len(Prog(t)) - 1
  BY <1>5, <1>6, <1>7, SubSeqEmpty
<1>9. tx'[t] = [tx[t] EXCEPT !.todo = AdvanceTo(s.row, View(t, s.row), s.to) \o <<>>]
  BY <1>8, Becomes DEF RunAdvance
<1>10. tx[t] \in Transaction
  BY DEF Types
<1>11. tx'[t].todo = AdvanceTo(s.row, View(t, s.row), s.to)
  BY <1>9, <1>10 DEF Transaction, AdvanceTo
<1>12. tx'[t].req = tx[t].req /\ tx'[t].own = tx[t].own
  BY <1>9, <1>10 DEF Transaction
<1>13. LET now == View(t, s.row) IN
       IF now \notin DOMAIN Rank \/ Rank[now] >= Rank[s.to]
         THEN tx'[t].todo = <<>> ELSE tx'[t].todo = <<Quiet(s.row, {now}, s.to)>>
  BY <1>11 DEF AdvanceTo
<1>14. Len(Prog(t)) > 0 /\ s = Prog(t)[Len(Prog(t))] /\ AtStatement(t, Len(Prog(t)) - 1)
  BY <1>4, <1>5, <1>6, <1>7, <1>8
<1>15. QED
  BY <1>1, <1>2, <1>12, <1>13, <1>14

\* A list of one joined with another.
LEMMA OneAfterOne ==
  ASSUME NEW a, NEW b
  PROVE  <<a>> \o <<b>> = <<a, b>> /\ <<a>> \o <<>> = <<a>> /\ Tail(<<a, b>>) = <<b>>
<1>1. <<a>> \in Seq({a, b}) /\ <<b>> \in Seq({a, b}) /\ <<a, b>> \in Seq({a, b})
  OBVIOUS
<1>2. /\ <<a>> \o <<b>> \in Seq({a, b}) /\ Len(<<a>> \o <<b>>) = 2
      /\ (<<a>> \o <<b>>)[1] = a /\ (<<a>> \o <<b>>)[2] = b
  BY <1>1, ConcatProperties
<1>3. <<a>> \o <<b>> = <<a, b>>
  <2>1. /\ Len(<<a>> \o <<b>>) = Len(<<a, b>>)
        /\ \A i \in 1..Len(<<a>> \o <<b>>) : (<<a>> \o <<b>>)[i] = <<a, b>>[i]
    BY <1>2
  <2>2. QED
    BY <1>1, <1>2, <2>1, SeqEqual
<1>4. Tail(<<a, b>>) = <<b>>
  <2>1. /\ Tail(<<a, b>>) \in Seq({a, b}) /\ Len(Tail(<<a, b>>)) = Len(<<b>>)
        /\ \A i \in 1..Len(Tail(<<a, b>>)) : Tail(<<a, b>>)[i] = <<b>>[i]
    BY <1>1, HeadTailProperties
  <2>2. QED
    BY <1>1, <2>1, SeqEqual
<1>5. QED
  BY <1>1, <1>3, <1>4, ConcatEmptySeq

\* What the read of updateStatus leaves to do.
LEMMA MoveIs ==
  ASSUME EveryDealHasAProject, Types, TypeOK, NEW t \in Txns, Placed(t), RunMove(t)
  PROVE  /\ db' = db /\ tx[t].req.op = "moveProject" /\ tx[t].req \in Requests
         /\ \A r \in Rows : tx[t].own[r] = Same
         /\ \/ tx'[t] = Idle
            \/ tx'[t].req = tx[t].req /\ tx'[t].own = tx[t].own /\ AtMove(t)'
<1> DEFINE s == Head(tx[t].todo)
           p == tx[t].req.of
           to == tx[t].req.to
           now == View(t, <<"project", p>>)
           cas == Cas(<<"project", p>>, {now}, to)
           stamp == Quiet(<<"won", p>>, {"NONE", "YES"}, "YES")
<1>1. Runs(t, {"move"}) /\ db' = db
  BY DEF RunMove
<1>2. s \in Statement /\ s.kind = "move" /\ tx[t].todo # <<>> /\ tx[t].req # NoRequest
  BY <1>1, NextIs
<1>3. ~AtAdvance(t) /\ ~AtMove(t)
  BY <1>2, HeadElsewhere
<1>4. PICK k \in Nat : AtStatement(t, k) /\ (tx[t].req.op = "moveProject" => k = 0)
  BY <1>2, <1>3 DEF Placed
<1>5. k + 1 \in 1..Len(Prog(t)) /\ s = Prog(t)[k + 1] /\ tx[t].req \in Requests
  BY <1>2, <1>4, HeadAt, ProgOf
<1>6. tx[t].req.op = "moveProject" /\ k = 0
  BY <1>2, <1>4, <1>5, ProgramAscends DEF Prog
<1>7. Prog(t) = <<Move(p, to)>> /\ p \in Projects
  BY <1>5, <1>6, RequestOf DEF Prog, Program, MoveProject
<1>8. s = Move(p, to)
  BY <1>5, <1>6, <1>7
<1>9. s.row = <<"project", p>> /\ s.to = to
  BY <1>8 DEF Move
<1>10. \A r \in Rows : tx[t].own[r] = Same
  BY <1>4, <1>6 DEF AtStatement, RanUpTo
<1>11. now = db[<<"project", p>>] /\ now \in Stages \cup {"NONE"}
  BY <1>7, <1>10, RowsOfTables DEF View, TypeOK, PapersFit
<1>12. CASE now = "NONE" \/ to \notin StageMoves[now]
  <2>1. Become(t, Idle)
    BY <1>9, <1>12 DEF RunMove, Refuse
  <2>2. QED
    BY <1>1, <1>5, <1>6, <1>10, <2>1, Becomes
<1>13. CASE ~(now = "NONE" \/ to \notin StageMoves[now])
  <2>1. now \in DOMAIN StageMoves /\ to \in StageMoves[now]
    BY <1>11, <1>13 DEF Stages, StageMoves
  <2>2. tx'[t] = [tx[t] EXCEPT !.todo = <<cas>> \o (IF to = "CONTRACT" THEN <<stamp>> ELSE <<>>)]
    <3>1. ~(View(t, s.row) = "NONE" \/ s.to \notin StageMoves[View(t, s.row)])
      BY <1>9, <1>13
    <3>2. Become(t, [tx[t] EXCEPT !.todo =
            <<Cas(s.row, {View(t, s.row)}, s.to)>>
            \o (IF s.to = "CONTRACT" THEN <<Quiet(<<"won", s.row[2]>>, {"NONE", "YES"}, "YES")>>
                                     ELSE <<>>)])
      BY <3>1, Zenon DEF RunMove
    <3>3. s.row[2] = p
      BY <1>9
    <3>4. Become(t, [tx[t] EXCEPT !.todo = <<cas>> \o (IF to = "CONTRACT" THEN <<stamp>> ELSE <<>>)])
      BY <1>9, <3>2, <3>3, Zenon
    <3>5. QED
      BY <3>4, Becomes
  <2>3. tx[t] \in Transaction
    BY DEF Types
  <2>4. /\ tx'[t].req = tx[t].req /\ tx'[t].own = tx[t].own
        /\ tx'[t].todo = <<cas>> \o (IF to = "CONTRACT" THEN <<stamp>> ELSE <<>>)
    BY <2>2, <2>3 DEF Transaction
  <2>5. <<cas>> \o <<stamp>> = <<cas, stamp>> /\ <<cas>> \o <<>> = <<cas>>
    BY OneAfterOne
  <2>6. tx'[t].todo \in {<<cas>>, <<cas, stamp>>}
    BY <2>4, <2>5
  <2>7. AtMove(t)'
    BY <1>6, <1>10, <2>1, <2>4, <2>6 DEF AtMove
  <2>8. QED
    BY <1>1, <1>5, <1>6, <1>10, <2>4, <2>7
<1>14. QED
  BY <1>12, <1>13

\* An UPDATE or an insert finds the next row of the program as it is stored.
LEMMA NextAsStored ==
  ASSUME EveryDealHasAProject, Types, NEW t \in Txns, tx[t].req # NoRequest, NEW k \in Nat,
         AtStatement(t, k), tx[t].todo # <<>>, NEW s, s = Head(tx[t].todo), s.kind # "check"
  PROVE  s.row \in Rows /\ tx[t].own[s.row] = Same /\ View(t, s.row) = db[s.row]
<1>1. k + 1 \in 1..Len(Prog(t)) /\ s = Prog(t)[k + 1] /\ s \in Statement
  BY HeadAt
<1>2. s.row \in Rows
  BY <1>1 DEF Statement, Rows
<1>3. QED
  BY <1>1, <1>2, NextRowFree DEF AtStatement, View

\* The compare-and-set of autoAdvanceProject is the end of the program, whether it
\* finds the stage that was read or not.
LEMMA AdvanceEnds ==
  ASSUME EveryDealHasAProject, Types, NEW t \in Txns, AtAdvance(t), RunUpdate(t), tx'[t] # Idle
  PROVE  /\ AtStatement(t, Len(Prog(t)))' /\ tx[t].req.op # "moveProject" /\ tx'[t].req = tx[t].req
         /\ LET n == Len(Prog(t))  row == Prog(t)[n].row IN
            /\ tx[t].own[row] = Same
            /\ \/ /\ tx'[t].own[row] = Prog(t)[n].to
                  /\ db[row] \in DOMAIN Rank /\ Rank[db[row]] < Rank[Prog(t)[n].to]
                  /\ db[row] \in Head(tx[t].todo).from
               \/ tx'[t].own = tx[t].own /\ db[row] \notin Head(tx[t].todo).from
<1> DEFINE n == Len(Prog(t))
           s == Prog(t)[n]
<1>1. PICK now \in DOMAIN Rank :
        /\ n > 0 /\ s.kind = "advance" /\ Rank[now] < Rank[s.to]
        /\ tx[t].todo = <<Quiet(s.row, {now}, s.to)>>
        /\ RanUpTo(t, n - 1)
  BY DEF AtAdvance
<1> DEFINE q == Quiet(s.row, {now}, s.to)
<1>2. Head(tx[t].todo) = q /\ Tail(tx[t].todo) = <<>> /\ tx[t].todo # <<>>
  BY <1>1
<1>3. tx[t].req # NoRequest
  BY <1>2 DEF Types, Idle
<1>4. tx[t].req \in Requests /\ Prog(t) \in Seq(Statement) /\ n \in Nat
  BY <1>3, ProgOf, LenProperties
<1>5. n \in 1..n /\ s \in Statement
  BY <1>1, <1>4, ElementOfSeq
<1>6. s.row \in Rows /\ tx[t].req.op # "moveProject"
  BY <1>1, <1>4, <1>5, ProgramAscends DEF Statement, Rows, Prog
<1>7. tx[t].own[s.row] = Same
  <2>1. n - 1 \in Nat /\ n = (n - 1) + 1
    BY <1>1, <1>4
  <2>2. QED
    BY <1>1, <1>3, <1>5, <1>6, <2>1, NextRowFree
<1>8. View(t, s.row) = db[s.row]
  BY <1>6, <1>7 DEF View
<1>9. q.kind = "quiet" /\ q.row = s.row /\ q.from = {now} /\ q.to = s.to
  BY DEF Quiet
<1> HIDE DEF q
<1>10. /\ db' = db
       /\ \/ View(t, q.row) \in q.from /\ Wrote(t, q.row, q.to)
          \/ View(t, q.row) \notin q.from /\ Passed(t)
  BY <1>2, <1>9, UpdateIs
<1>11. tx'[t].req = tx[t].req /\ tx'[t].todo = <<>> /\ Prog(t)' = Prog(t)
  BY <1>2, <1>10 DEF Wrote, Passed, Prog
<1>12. \A r \in Rows : r # s.row => tx'[t].own[r] = tx[t].own[r]
  BY <1>9, <1>10, ProgOf DEF Wrote, Passed
<1>13. \/ /\ tx'[t].own[s.row] = s.to
          /\ db[s.row] \in DOMAIN Rank /\ Rank[db[s.row]] < Rank[s.to]
          /\ db[s.row] \in q.from
       \/ tx'[t].own = tx[t].own /\ db[s.row] \notin q.from
  <2>1. tx[t].own \in [Rows -> Statuses \cup {Same}]
    BY ProgOf
  <2>2. QED
    BY <1>1, <1>6, <1>8, <1>9, <1>10, <2>1 DEF Wrote, Passed
<1>14. Effect(t, s)'
  BY <1>1, <1>7, <1>10, <1>11, <1>13 DEF Effect
<1>15. ASSUME NEW m \in 1..n - 1 PROVE Effect(t, Prog(t)[m])'
  <2>1. Effect(t, Prog(t)[m]) /\ m \in 1..n /\ m < n
    BY <1>1, <1>4 DEF RanUpTo
  <2>2. Prog(t)[m] \in Statement
    BY <1>4, <2>1, ElementOfSeq
  <2>3. CASE Prog(t)[m].kind = "check"
    BY <1>11, <2>3 DEF Effect
  <2>4. CASE Prog(t)[m].kind # "check"
    <3>1. Prog(t)[m].row \in Rows
      BY <2>2, <2>4 DEF Statement, Rows
    <3>2. Level(Prog(t)[m].row) < Level(s.row)
      BY <1>1, <1>4, <1>5, <2>1, <2>4, ProgramAscends DEF Prog
    <3>3. Prog(t)[m].row # s.row
      BY <3>1, <3>2, LevelIsNumber
    <3>4. tx'[t].own[Prog(t)[m].row] = tx[t].own[Prog(t)[m].row]
      BY <1>12, <3>1, <3>3
    <3>5. QED
      BY <1>10, <1>11, <2>1, <3>4 DEF Effect
  <2>5. QED
    BY <2>3, <2>4
<1>16. ASSUME NEW r \in Rows, tx'[t].own[r] # Same
       PROVE  \E m \in 1..n : Prog(t)[m].kind # "check" /\ r = Prog(t)[m].row
  <2>1. CASE r = s.row
    BY <1>1, <1>5, <2>1
  <2>2. CASE r # s.row
    <3>1. tx[t].own[r] # Same
      BY <1>12, <1>16, <2>2
    <3>2. PICK m \in 1..n - 1 : Prog(t)[m].kind # "check" /\ r = Prog(t)[m].row
      BY <1>1, <3>1 DEF RanUpTo
    <3>3. m \in 1..n
      BY <1>4
    <3>4. QED
      BY <3>2, <3>3
  <2>3. QED
    BY <2>1, <2>2
<1>17. RanUpTo(t, n)'
  <2>1. ASSUME NEW m \in 1..n PROVE Effect(t, Prog(t)[m])'
    <3>1. CASE m = n
      BY <1>11, <1>14, <3>1 DEF Effect
    <3>2. CASE m # n
      BY <1>4, <1>15, <3>2
    <3>3. QED
      BY <3>1, <3>2
  <2>2. QED
    BY <1>11, <1>16, <2>1 DEF RanUpTo
<1>18. AtStatement(t, n)'
  <2>1. SubSeq(Prog(t), n + 1, n) = <<>>
    BY <1>4, SubSeqEmpty
  <2>2. QED
    BY <1>4, <1>11, <1>17, <2>1 DEF AtStatement
<1>19. QED
  BY <1>2, <1>6, <1>7, <1>11, <1>13, <1>18

\* Moving a project goes on to its end.
LEMMA MoveRuns ==
  ASSUME EveryDealHasAProject, Types, NEW t \in Txns, AtMove(t), RunUpdate(t), tx'[t] # Idle
  PROVE  AtMove(t)'
<1> DEFINE row == <<"project", tx[t].req.of>>
           won == <<"won", tx[t].req.of>>
           to  == tx[t].req.to
           stamp == Quiet(won, {"NONE", "YES"}, "YES")
<1>1. tx[t].todo # <<>>
  BY DEF RunUpdate, Runs
<1>2. tx[t].req # NoRequest /\ tx[t].req \in Requests /\ tx[t].req.op = "moveProject"
  BY <1>1, ProgOf DEF Types, Idle, AtMove
<1>3. row \in Rows /\ won \in Rows /\ row # won
  BY <1>2, RequestOf, RowsOfTables
<1>4. tx[t].own \in [Rows -> Statuses \cup {Same}]
  BY ProgOf
<1>5. CASE \E now \in DOMAIN StageMoves :
              /\ to \in StageMoves[now]
              /\ tx[t].todo \in {<<Cas(row, {now}, to)>>, <<Cas(row, {now}, to), stamp>>}
              /\ \A r \in Rows : tx[t].own[r] = Same
  <2>1. PICK now \in DOMAIN StageMoves :
              /\ to \in StageMoves[now]
              /\ tx[t].todo \in {<<Cas(row, {now}, to)>>, <<Cas(row, {now}, to), stamp>>}
              /\ \A r \in Rows : tx[t].own[r] = Same
    BY <1>5
  <2> DEFINE cas == Cas(row, {now}, to)
  <2>2. cas.kind = "cas" /\ cas.row = row /\ cas.from = {now} /\ cas.to = to
    BY DEF Cas
  <2> HIDE DEF cas, stamp
  <2>3. Head(tx[t].todo) = cas /\ Tail(tx[t].todo) \in {<<>>, <<stamp>>}
    <3>1. tx[t].todo = <<cas>> \/ tx[t].todo = <<cas, stamp>>
      BY <2>1 DEF cas, stamp
    <3>2. CASE tx[t].todo = <<cas>>
      BY <3>2
    <3>3. CASE tx[t].todo = <<cas, stamp>>
      <4>1. Tail(tx[t].todo) = <<stamp>>
        BY <3>3, OneAfterOne, Zenon
      <4>2. QED
        BY <3>3, <4>1
    <3>4. QED
      BY <3>1, <3>2, <3>3
  <2>4. db' = db /\ View(t, row) \in {now} /\ Wrote(t, row, to)
    BY <1>1, <2>2, <2>3, UpdateIs
  <2>5. db[row] = now
    BY <1>3, <2>1, <2>4 DEF View
  <2>6. /\ tx'[t].req = tx[t].req /\ tx'[t].todo \in {<<>>, <<stamp>>}
        /\ tx'[t].own[row] = to /\ \A r \in Rows : r # row => tx'[t].own[r] = Same
    BY <1>3, <1>4, <2>1, <2>3, <2>4 DEF Wrote
  <2>7. QED
    BY <1>2, <2>1, <2>4, <2>5, <2>6 DEF AtMove, stamp
<1>6. CASE /\ tx[t].own[row] = to
           /\ db[row] \in DOMAIN StageMoves /\ to \in StageMoves[db[row]]
           /\ tx[t].todo = <<stamp>> /\ \A r \in Rows \ {row} : tx[t].own[r] = Same
  <2>1. stamp.kind = "quiet" /\ stamp.row = won
    BY DEF Quiet
  <2> HIDE DEF stamp
  <2>2. Head(tx[t].todo) = stamp /\ Tail(tx[t].todo) = <<>>
    BY <1>6
  <2>3. db' = db /\ (Wrote(t, won, stamp.to) \/ Passed(t))
    BY <1>1, <2>1, <2>2, UpdateIs
  <2>4. /\ tx'[t].req = tx[t].req /\ tx'[t].todo = <<>>
        /\ tx'[t].own[row] = to /\ \A r \in Rows \ {row, won} : tx'[t].own[r] = Same
    BY <1>3, <1>4, <1>6, <2>2, <2>3 DEF Wrote, Passed
  <2>5. QED
    BY <1>2, <1>6, <2>3, <2>4 DEF AtMove
<1>7. QED
  BY <1>1, <1>5, <1>6 DEF AtMove

\* A check, an insert or an UPDATE of the program runs as the next of its statements.
LEMMA StatementRuns ==
  ASSUME EveryDealHasAProject, Types, NEW t \in Txns, Placed(t), tx'[t] # Idle,
         RunCheck(t) \/ RunInsert(t) \/ (RunUpdate(t) /\ ~AtAdvance(t) /\ ~AtMove(t)),
         NEW s, s = Head(tx[t].todo)
  PROVE  /\ tx[t].todo # <<>> /\ tx[t].req # NoRequest /\ tx[t].req \in Requests
         /\ tx[t].req.op # "moveProject"
         /\ \E k \in Nat : AtStatement(t, k) /\ k + 1 \in 1..Len(Prog(t)) /\ s = Prog(t)[k + 1]
         /\ s.kind # "check" => s.row \in Rows /\ tx[t].own[s.row] = Same
         /\ db' = db
         /\ \/ s.kind = "check" /\ (\A r \in s.rows : View(t, r) \in s.in) /\ Passed(t)
            \/ s.kind = "insert" /\ db[s.row] = "NONE" /\ Wrote(t, s.row, s.to)
            \/ s.kind = "touch" /\ Wrote(t, s.row, db[s.row])
            \/ s.kind = "cas" /\ db[s.row] \in s.from /\ Wrote(t, s.row, s.to)
<1>1. /\ tx[t].todo # <<>> /\ s \in Statement /\ s.kind \in {"check", "insert", "cas", "quiet", "touch"}
      /\ RunCheck(t) => s.kind = "check"
      /\ RunInsert(t) => s.kind = "insert"
      /\ RunUpdate(t) => s.kind \in {"cas", "quiet", "touch"}
      /\ tx[t].req # NoRequest
  <2>1. RunCheck(t) => Runs(t, {"check"})
    BY DEF RunCheck
  <2>2. RunInsert(t) => Runs(t, {"insert"})
    BY DEF RunInsert
  <2>3. RunUpdate(t) => Runs(t, {"cas", "quiet", "touch"})
    BY DEF RunUpdate
  <2>4. QED
    BY <2>1, <2>2, <2>3, NextIs
<1>2. ~AtAdvance(t) /\ ~AtMove(t)
  BY <1>1, HeadElsewhere
<1>3. PICK k \in Nat : AtStatement(t, k)
  BY <1>1, <1>2 DEF Placed
<1>4. k + 1 \in 1..Len(Prog(t)) /\ s = Prog(t)[k + 1] /\ tx[t].req \in Requests
  BY <1>1, <1>3, HeadAt, ProgOf
<1>5. tx[t].req.op # "moveProject" /\ s.kind # "quiet"
  BY <1>1, <1>4, ProgramAscends DEF Prog
<1>6. s.kind # "check" => s.row \in Rows /\ tx[t].own[s.row] = Same /\ View(t, s.row) = db[s.row]
  BY <1>1, <1>3, NextAsStored
<1>7. tx[t].own \in [Rows -> Statuses \cup {Same}]
  BY ProgOf
<1>8. /\ db' = db
      /\ \/ s.kind = "check" /\ (\A r \in s.rows : View(t, r) \in s.in) /\ Passed(t)
         \/ s.kind = "insert" /\ db[s.row] = "NONE" /\ Wrote(t, s.row, s.to)
         \/ s.kind = "touch" /\ Wrote(t, s.row, db[s.row])
         \/ s.kind = "cas" /\ db[s.row] \in s.from /\ Wrote(t, s.row, s.to)
  <2>1. CASE RunCheck(t)
    BY <1>1, <2>1, CheckIs
  <2>2. CASE RunInsert(t)
    BY <1>1, <1>6, <2>2, InsertIs
  <2>3. CASE RunUpdate(t)
    BY <1>1, <1>5, <1>6, <2>3, UpdateIs
  <2>4. QED
    BY <2>1, <2>2, <2>3
<1>9. QED
  BY <1>1, <1>3, <1>4, <1>5, <1>6, <1>8

\* A step of a transaction leaves it somewhere in its program.
LEMMA PlacedStep ==
  ASSUME EveryDealHasAProject, Types, TypeOK, NEW t \in Txns, Placed(t),
         Ask(t) \/ Step(t) \/ Crash(t)
  PROVE  Placed(t)'
<1> SUFFICES ASSUME tx'[t].req # NoRequest PROVE Placed(t)'
  BY DEF Placed
<1>1. tx'[t] # Idle
  BY DEF Idle, NoRequest
<1>2. ~Commit(t) /\ ~Crash(t)
  BY <1>1, Becomes DEF Commit, Crash, Refuse
<1>3. CASE Ask(t)
  <2>1. PICK req \in Requests : Become(t, [Idle EXCEPT !.req = req, !.todo = Program(req)])
    BY <1>3 DEF Ask
  <2>2. /\ tx'[t].req = req /\ tx'[t].todo = Program(req)
        /\ \A r \in Rows : tx'[t].own[r] = Same
    <3>1. tx'[t] = [Idle EXCEPT !.req = req, !.todo = Program(req)]
      BY <2>1, Becomes
    <3>2. QED
      BY <3>1 DEF Idle, NoWrites
  <2>3. Program(req) \in Seq(Statement)
    BY ProgramTyped
  <2>4. Len(Program(req)) \in Nat /\ SubSeq(Program(req), 0 + 1, Len(Program(req))) = Program(req)
    BY <2>3, LenProperties, SubSeqFull
  <2>5. AtStatement(t, 0)'
    BY <2>2, <2>4 DEF AtStatement, RanUpTo, Prog
  <2>6. QED
    BY <2>5 DEF Placed
<1>4. CASE RunUpdate(t) /\ AtAdvance(t)
  <2>1. AtStatement(t, Len(Prog(t)))' /\ tx[t].req.op # "moveProject" /\ tx'[t].req = tx[t].req
    BY <1>1, <1>4, AdvanceEnds
  <2>2. Len(Prog(t)) \in Nat
    BY <1>4, ProgOf, LenProperties, HeadElsewhere DEF Types, Idle
  <2>3. PICK n \in Nat : n = Len(Prog(t))
    BY <2>2
  <2>4. AtStatement(t, n)'
    BY <2>1, <2>3 DEF Prog
  <2>5. QED
    BY <2>1, <2>4 DEF Placed
<1>5. CASE RunUpdate(t) /\ AtMove(t)
  BY <1>1, <1>5, MoveRuns DEF Placed
<1>6. CASE RunMove(t)
  BY <1>1, <1>6, MoveIs DEF Placed
<1>7. CASE RunAdvance(t)
  <2> DEFINE s == Head(tx[t].todo)
             n == Len(Prog(t))
             now == View(t, s.row)
  <2>1. /\ s.kind = "advance" /\ db' = db /\ tx'[t].req = tx[t].req /\ tx'[t].own = tx[t].own
        /\ n > 0 /\ s = Prog(t)[n] /\ AtStatement(t, n - 1)
        /\ IF now \notin DOMAIN Rank \/ Rank[now] >= Rank[s.to]
             THEN tx'[t].todo = <<>> ELSE tx'[t].todo = <<Quiet(s.row, {now}, s.to)>>
    BY <1>7, AdvanceIs
  <2>2. tx[t].req \in Requests /\ Prog(t) \in Seq(Statement) /\ n \in Nat /\ Prog(t)' = Prog(t)
    BY <2>1, ProgOf, LenProperties DEF Prog
  <2>3. RanUpTo(t, n - 1)'
    BY <2>1, <2>2 DEF AtStatement, RanUpTo, Effect
  <2>4. tx[t].req.op # "moveProject"
    BY <2>1, <2>2, ProgramAscends DEF Prog
  <2>5. s \in Statement /\ s.to \in DOMAIN Rank
    <3>1. s \in Statement
      BY <2>1, <2>2, ElementOfSeq
    <3>2. QED
      BY <2>1, <3>1, AdvanceTargets, <2>2 DEF Prog
  <2>6. CASE now \notin DOMAIN Rank \/ Rank[now] >= Rank[s.to]
    <3>1. tx[t].own[s.row] = Same
      <4>1. n - 1 \in Nat /\ n = (n - 1) + 1 /\ n \in 1..n /\ s.row \in Rows
        BY <2>1, <2>2, <2>5 DEF Statement, Rows
      <4>2. QED
        BY <2>1, <2>2, <4>1, NextRowFree DEF AtStatement
    <3>2. Effect(t, Prog(t)[n])'
      BY <2>1, <2>2, <3>1 DEF Effect
    <3>3. RanUpTo(t, n)'
      <4>1. ASSUME NEW m \in 1..n PROVE Effect(t, Prog(t)[m])'
        BY <2>1, <2>2, <2>3, <3>2 DEF RanUpTo
      <4>2. ASSUME NEW r \in Rows, tx'[t].own[r] # Same
            PROVE  \E m \in 1..n : Prog(t)[m].kind # "check" /\ r = Prog(t)[m].row
        <5>1. PICK m \in 1..n - 1 : Prog(t)[m].kind # "check" /\ r = Prog(t)[m].row
          BY <2>2, <2>3, <4>2 DEF RanUpTo
        <5>2. m \in 1..n
          BY <2>2
        <5>3. QED
          BY <5>1, <5>2
      <4>3. QED
        BY <2>2, <4>1, <4>2 DEF RanUpTo
    <3>4. AtStatement(t, n)'
      <4>1. SubSeq(Prog(t), n + 1, n) = <<>> /\ tx'[t].todo = <<>>
        BY <2>1, <2>2, <2>6, SubSeqEmpty
      <4>2. QED
        BY <2>2, <3>3, <4>1 DEF AtStatement
    <3>5. PICK k \in Nat : k = n
      BY <2>2
    <3>6. AtStatement(t, k)'
      BY <2>2, <3>4, <3>5
    <3>7. QED
      BY <2>1, <2>4, <3>6 DEF Placed
  <2>7. CASE ~(now \notin DOMAIN Rank \/ Rank[now] >= Rank[s.to])
    <3>1. now \in DOMAIN Rank /\ Rank[now] < Rank[s.to]
      BY <2>5, <2>7 DEF Rank
    <3>2. AtAdvance(t)'
      BY <2>1, <2>2, <2>3, <2>7, <3>1 DEF AtAdvance
    <3>3. QED
      BY <3>2 DEF Placed
  <2>8. QED
    BY <2>6, <2>7
<1>8. CASE RunCheck(t) \/ RunInsert(t) \/ (RunUpdate(t) /\ ~AtAdvance(t) /\ ~AtMove(t))
  <2> DEFINE s == Head(tx[t].todo)
  <2>1. /\ tx[t].todo # <<>> /\ tx[t].req # NoRequest /\ tx[t].req.op # "moveProject"
        /\ s.kind # "check" => s.row \in Rows /\ tx[t].own[s.row] = Same
        /\ db' = db
        /\ \/ s.kind = "check" /\ Passed(t)
           \/ s.kind = "insert" /\ db[s.row] = "NONE" /\ Wrote(t, s.row, s.to)
           \/ s.kind = "touch" /\ Wrote(t, s.row, db[s.row])
           \/ s.kind = "cas" /\ db[s.row] \in s.from /\ Wrote(t, s.row, s.to)
    BY <1>1, <1>8, StatementRuns
  <2>2. PICK k \in Nat : AtStatement(t, k)
    BY <1>1, <1>8, StatementRuns
  <2>3. tx[t].own \in [Rows -> Statuses \cup {Same}]
    BY ProgOf
  <2>4. PICK v : v = s
    OBVIOUS
  <2>5. Effect(t, v)'
    BY <2>1, <2>3, <2>4 DEF Effect, Wrote, Passed
  <2>6. /\ tx'[t].req = tx[t].req /\ tx'[t].todo = Tail(tx[t].todo)
        /\ v.kind = "check" => tx'[t].own = tx[t].own
        /\ v.kind # "check" => \A r \in Rows : r # v.row => tx'[t].own[r] = tx[t].own[r]
    BY <2>1, <2>3, <2>4 DEF Wrote, Passed
  <2>7. AtStatement(t, k + 1)'
    BY <2>1, <2>2, <2>4, <2>5, <2>6, Proceed
  <2>8. PICK j \in Nat : j = k + 1
    OBVIOUS
  <2>9. AtStatement(t, j)'
    BY <2>7, <2>8
  <2>10. QED
    BY <2>1, <2>6, <2>9 DEF Placed
<1>9. QED
  BY <1>2, <1>3, <1>4, <1>5, <1>6, <1>7, <1>8 DEF Step

-----------------------------------------------------------------------------
(* What a transaction has written.                                         *)

\* The rows a request inserts or compares and sets.
LEMMA ProgramWrites ==
  ASSUME EveryDealHasAProject, NEW req \in Requests, NEW n \in 1..Len(Program(req))
  PROVE  LET s == Program(req)[n]  d == req.of IN
         \/ s.kind \in {"check", "advance", "move"}
         \/ s.kind = "touch" /\ s.row[1] \in {"customer", "sequence"}
         \/ /\ s.kind = "insert"
            /\ \/ req.op = "createProject"   /\ s.row = <<"project", d>>   /\ s.to = "LEAD"
               \/ req.op = "createQuotation" /\ s.row = <<"quotation", d>> /\ s.to = "DRAFT"
               \/ req.op = "issueProforma"   /\ s.row = <<"proforma", d>>  /\ s.to = "ISSUED"
               \/ req.op = "issueContract"   /\ s.row = <<"contract", d>>  /\ s.to = "DRAFT"
               \/ req.op = "issueInvoice"    /\ s.row = <<"invoice", d>>   /\ s.to = "ISSUED"
         \/ /\ s.kind = "cas"
            /\ \/ /\ req.op = "submitQuotation" /\ s.row = <<"quotation", d>>
                  /\ s.from = {"DRAFT"} /\ s.to = "PENDING_APPROVAL"
               \/ /\ req.op = "issueProforma" /\ s.row = <<"quotation", d>>
                  /\ s.from = {"PENDING_APPROVAL"} /\ s.to = "CONVERTED_TO_PROFORMA"
               \/ /\ req.op = "cancelProforma" /\ s.row = <<"proforma", d>>
                  /\ s.from = {"ISSUED"} /\ s.to = "CANCELLED"
               \/ /\ req.op = "signContract" /\ s.row = <<"contract", d>>
                  /\ s.from = {"DRAFT"} /\ s.to = "SIGNED"
               \/ /\ req.op = "cancelContract" /\ s.row = <<"contract", d>>
                  /\ s.from = {"DRAFT", "SIGNED"} /\ s.to = "CANCELLED"
               \/ /\ req.op = "handover" /\ s.row = <<"contract", d>>
                  /\ s.from = {"SIGNED"} /\ s.to = "COMPLETED"
               \/ /\ req.op = "voidInvoice" /\ s.row = <<"invoice", d>>
                  /\ s.from = {"ISSUED"} /\ s.to = "VOID"
               \/ s.row = <<"customer">>
<1> USE RequestOf DEF Check, Cas, Touch, Insert, Move, Advance, Claim
<1>1. CASE req.op = "createProject"
  BY <1>1 DEF Program, CreateProject
<1>2. CASE req.op = "moveProject"
  BY <1>2 DEF Program, MoveProject
<1>3. CASE req.op = "createQuotation"
  BY <1>3 DEF Program, CreateQuotation
<1>4. CASE req.op = "submitQuotation"
  BY <1>4 DEF Program, SubmitQuotation
<1>5. CASE req.op = "issueProforma"
  <2>1. Program(req) = IssueProforma(req.of)
    BY <1>5 DEF Program
  <2>2. n \in 1..4
    BY <2>1 DEF IssueProforma
  <2>3. CASE n = 1
    BY <1>5, <2>1, <2>3 DEF IssueProforma
  <2>4. CASE n \in 2..4
    BY <1>5, <2>1, <2>4 DEF IssueProforma
  <2>5. QED
    BY <2>2, <2>3, <2>4
<1>6. CASE req.op = "cancelProforma"
  BY <1>6 DEF Program, CancelProforma
<1>7. CASE req.op = "issueContract"
  BY <1>7 DEF Program, IssueContract
<1>8. CASE req.op = "signContract"
  BY <1>8 DEF Program, SignContract
<1>9. CASE req.op = "cancelContract"
  BY <1>9 DEF Program, CancelContract
<1>10. CASE req.op = "handover"
  BY <1>10 DEF Program, Handover
<1>11. CASE req.op = "issueInvoice"
  BY <1>11 DEF Program, IssueInvoice
<1>12. CASE req.op = "voidInvoice"
  BY <1>12 DEF Program, VoidInvoice
<1>13. CASE req.op = "deleteCustomer"
  BY <1>13 DEF Program, DeleteCustomer
<1>14. QED
  BY <1>1, <1>2, <1>3, <1>4, <1>5, <1>6, <1>7, <1>8, <1>9, <1>10, <1>11, <1>12, <1>13

\* A row written by a request, its committed status and the one it is to have.
Changes(t, r) ==
  LET op == tx[t].req.op  d == tx[t].req.of  old == db[r]  new == tx[t].own[r] IN
  \/ r[1] \in {"customer", "sequence", "won"}
  \/ op = "createProject" /\ r = <<"project", d>> /\ old = "NONE" /\ new = "LEAD"
  \/ /\ op = "moveProject" /\ r = <<"project", d>>
     /\ old \in DOMAIN StageMoves /\ new \in StageMoves[old]
  \/ /\ d \in Deals /\ r = <<"project", ProjectOf[d]>>
     /\ old \in DOMAIN Rank /\ new \in DOMAIN Rank /\ Rank[old] < Rank[new]
     /\ \/ op \in {"createQuotation", "issueProforma"} /\ new = "QUOTATION"
        \/ op = "signContract" /\ new = "CONTRACT"
        \/ op = "handover" /\ new = "COMPLETED"
  \/ /\ r = <<"quotation", d>>
     /\ \/ op = "createQuotation" /\ old = "NONE" /\ new = "DRAFT"
        \/ op = "submitQuotation" /\ old = "DRAFT" /\ new = "PENDING_APPROVAL"
        \/ op = "issueProforma" /\ old = "PENDING_APPROVAL" /\ new = "CONVERTED_TO_PROFORMA"
  \/ /\ r = <<"proforma", d>>
     /\ \/ op = "issueProforma" /\ old = "NONE" /\ new = "ISSUED"
        \/ op = "cancelProforma" /\ old = "ISSUED" /\ new = "CANCELLED"
  \/ /\ r = <<"contract", d>>
     /\ \/ op = "issueContract" /\ old = "NONE" /\ new = "DRAFT"
        \/ op = "signContract" /\ old = "DRAFT" /\ new = "SIGNED"
        \/ op = "cancelContract" /\ old \in {"DRAFT", "SIGNED"} /\ new = "CANCELLED"
        \/ op = "handover" /\ old = "SIGNED" /\ new = "COMPLETED"
  \/ /\ r = <<"invoice", d>>
     /\ \/ op = "issueInvoice" /\ old = "NONE" /\ new = "ISSUED"
        \/ op = "voidInvoice" /\ old = "ISSUED" /\ new = "VOID"

\* Whatever a transaction holds, it found as its request allows.
LEMMA ChangesFit ==
  ASSUME EveryDealHasAProject, Types, NEW t \in Txns, Placed(t), tx[t].req # NoRequest,
         NEW r \in Rows, tx[t].own[r] # Same
  PROVE  Changes(t, r)
<1>1. tx[t].req \in Requests /\ Prog(t) \in Seq(Statement) /\ Len(Prog(t)) \in Nat
  BY ProgOf, LenProperties
<1>2. ASSUME NEW k \in 0..Len(Prog(t)), RanUpTo(t, k), tx[t].req.op # "moveProject"
      PROVE  Changes(t, r)
  <2>1. PICK m \in 1..k : Prog(t)[m].kind # "check" /\ r = Prog(t)[m].row
    BY <1>2 DEF RanUpTo
  <2>2. m \in 1..Len(Prog(t)) /\ Effect(t, Prog(t)[m])
    BY <1>1, <1>2, <2>1 DEF RanUpTo
  <2>3. Prog(t)[m].kind # "move"
    BY <1>1, <1>2, <2>2, ProgramAscends DEF Prog
  <2>4. CASE Prog(t)[m].kind = "advance"
    <3>1. LET s == Prog(t)[m]  req == tx[t].req IN
          /\ s.to \in DOMAIN Rank /\ req.of \in Deals /\ s.row = <<"project", ProjectOf[req.of]>>
          /\ \/ req.op \in {"createQuotation", "issueProforma"} /\ s.to = "QUOTATION"
             \/ req.op = "signContract" /\ s.to = "CONTRACT"
             \/ req.op = "handover" /\ s.to = "COMPLETED"
      BY <1>1, <2>2, <2>4, AdvanceTargets DEF Prog
    <3>2. tx[t].own[r] = Prog(t)[m].to /\ db[r] \in DOMAIN Rank /\ Rank[db[r]] < Rank[tx[t].own[r]]
      BY <2>1, <2>2, <2>4 DEF Effect
    <3>3. QED
      BY <2>1, <3>1, <3>2 DEF Changes
  <2>5. CASE Prog(t)[m].kind # "advance"
    <3>1. PICK s : s = Prog(t)[m]
      OBVIOUS
    <3>2. /\ s.kind = "cas" => tx[t].own[r] = s.to /\ db[r] \in s.from
          /\ s.kind = "insert" => tx[t].own[r] = s.to /\ db[r] = "NONE"
      BY <2>1, <2>2, <3>1 DEF Effect
    <3>3. s = Program(tx[t].req)[m] /\ m \in 1..Len(Program(tx[t].req))
      BY <2>2, <3>1 DEF Prog
    <3>4. CASE s.kind = "touch"
      BY <1>1, <2>1, <3>1, <3>3, <3>4, ProgramWrites DEF Changes
    <3> DEFINE op == tx[t].req.op
               d == tx[t].req.of
               new == tx[t].own[r]
    <3>5. CASE s.kind = "insert"
      <4>1. \/ op = "createProject"   /\ r = <<"project", d>>   /\ new = "LEAD"
            \/ op = "createQuotation" /\ r = <<"quotation", d>> /\ new = "DRAFT"
            \/ op = "issueProforma"   /\ r = <<"proforma", d>>  /\ new = "ISSUED"
            \/ op = "issueContract"   /\ r = <<"contract", d>>  /\ new = "DRAFT"
            \/ op = "issueInvoice"    /\ r = <<"invoice", d>>   /\ new = "ISSUED"
        BY <1>1, <2>1, <3>1, <3>2, <3>3, <3>5, ProgramWrites
      <4>2. db[r] = "NONE"
        BY <3>2, <3>5
      <4>3. QED
        BY <4>1, <4>2 DEF Changes
    <3>6. CASE s.kind = "cas"
      <4>1. \/ /\ op = "submitQuotation" /\ r = <<"quotation", d>>
               /\ s.from = {"DRAFT"} /\ s.to = "PENDING_APPROVAL"
            \/ /\ op = "issueProforma" /\ r = <<"quotation", d>>
               /\ s.from = {"PENDING_APPROVAL"} /\ s.to = "CONVERTED_TO_PROFORMA"
            \/ /\ op = "cancelProforma" /\ r = <<"proforma", d>>
               /\ s.from = {"ISSUED"} /\ s.to = "CANCELLED"
            \/ /\ op = "signContract" /\ r = <<"contract", d>>
               /\ s.from = {"DRAFT"} /\ s.to = "SIGNED"
            \/ /\ op = "cancelContract" /\ r = <<"contract", d>>
               /\ s.from = {"DRAFT", "SIGNED"} /\ s.to = "CANCELLED"
            \/ /\ op = "handover" /\ r = <<"contract", d>>
               /\ s.from = {"SIGNED"} /\ s.to = "COMPLETED"
            \/ /\ op = "voidInvoice" /\ r = <<"invoice", d>>
               /\ s.from = {"ISSUED"} /\ s.to = "VOID"
            \/ r = <<"customer">>
        BY <1>1, <2>1, <3>1, <3>3, <3>6, ProgramWrites
      <4>2. new = s.to /\ db[r] \in s.from
        BY <3>2, <3>6
      <4>3. QED
        BY <4>1, <4>2 DEF Changes
    <3>7. QED
      BY <1>1, <2>1, <2>3, <2>5, <3>1, <3>3, <3>4, <3>5, <3>6, ProgramWrites
  <2>6. QED
    BY <2>4, <2>5
<1>3. CASE AtAdvance(t)
  <2>1. Len(Prog(t)) > 0 /\ Prog(t)[Len(Prog(t))].kind = "advance" /\ RanUpTo(t, Len(Prog(t)) - 1)
    BY <1>3 DEF AtAdvance
  <2>2. tx[t].req.op # "moveProject"
    BY <1>1, <2>1, ProgramAscends DEF Prog
  <2>3. PICK k : k = Len(Prog(t)) - 1
    OBVIOUS
  <2>4. k \in 0..Len(Prog(t)) /\ RanUpTo(t, k)
    BY <1>1, <2>1, <2>3
  <2>5. QED
    BY <1>2, <2>2, <2>4
<1>4. CASE AtMove(t)
  <2>1. tx[t].req.op = "moveProject"
    BY <1>4 DEF AtMove
  <2>2. CASE r[1] = "won"
    BY <2>2 DEF Changes
  <2>3. CASE r[1] # "won"
    <3> DEFINE row == <<"project", tx[t].req.of>>
               won == <<"won", tx[t].req.of>>
    <3>1. r # won
      BY <2>3
    <3>2. /\ tx[t].own[row] = tx[t].req.to
          /\ db[row] \in DOMAIN StageMoves /\ tx[t].req.to \in StageMoves[db[row]]
          /\ \/ \A q \in Rows \ {row} : tx[t].own[q] = Same
             \/ \A q \in Rows \ {row, won} : tx[t].own[q] = Same
      BY <1>4, Zenon DEF AtMove
    <3>3. r = row
      BY <3>1, <3>2
    <3>4. QED
      BY <2>1, <3>2, <3>3 DEF Changes
  <2>4. QED
    BY <2>2, <2>3
<1>5. CASE \E k \in Nat : AtStatement(t, k) /\ (tx[t].req.op = "moveProject" => k = 0)
  <2>1. PICK k \in Nat : AtStatement(t, k) /\ (tx[t].req.op = "moveProject" => k = 0)
    BY <1>5
  <2>2. k # 0
    BY <2>1 DEF AtStatement, RanUpTo
  <2>3. QED
    BY <1>2, <2>1, <2>2 DEF AtStatement
<1>6. QED
  BY <1>3, <1>4, <1>5 DEF Placed

-----------------------------------------------------------------------------
(* Other connections.                                                      *)

\* What others commit leaves a transaction where it is: the rows it wrote are its own.
LEMMA PlacedFrame ==
  ASSUME EveryDealHasAProject, SameIsNoStatus, Types, NEW t \in Txns, Placed(t),
         tx'[t] = tx[t], \A r \in Rows : tx[t].own[r] # Same => db'[r] = db[r]
  PROVE  Placed(t)'
<1> SUFFICES ASSUME tx[t].req # NoRequest PROVE Placed(t)'
  BY DEF Placed
<1>1. /\ tx[t].req \in Requests /\ Prog(t) \in Seq(Statement) /\ Len(Prog(t)) \in Nat
      /\ Prog(t)' = Prog(t)
  BY ProgOf, LenProperties DEF Prog
<1>2. ASSUME NEW k \in 0..Len(Prog(t)), RanUpTo(t, k) PROVE RanUpTo(t, k)'
  <2>1. ASSUME NEW m \in 1..k PROVE Effect(t, Prog(t)[m])'
    <3>1. Effect(t, Prog(t)[m]) /\ m \in 1..Len(Prog(t))
      BY <1>1, <1>2 DEF RanUpTo
    <3>2. PICK s \in Statement : s = Prog(t)[m]
      BY <1>1, <3>1, ElementOfSeq
    <3>3. Effect(t, s)
      BY <3>1, <3>2
    <3>4. s.kind \in {"cas", "insert", "touch", "advance"} => s.row \in Rows
      BY <3>2 DEF Statement, Rows
    <3>5. s.kind \in {"cas", "insert"} => s.to # Same
      BY <3>2 DEF Statement, SameIsNoStatus
    <3>6. s.kind = "touch" => db[s.row] # Same
      BY <3>4 DEF Types, SameIsNoStatus
    <3>7. Effect(t, s)'
      BY <3>3, <3>4, <3>5, <3>6 DEF Effect
    <3>8. QED
      BY <1>1, <3>2, <3>7
  <2>2. QED
    BY <1>1, <1>2, <2>1 DEF RanUpTo
<1>3. CASE AtAdvance(t)
  <2>1. PICK now \in DOMAIN Rank, k \in 0..Len(Prog(t)) :
          /\ k = Len(Prog(t)) - 1
          /\ Len(Prog(t)) > 0 /\ Prog(t)[Len(Prog(t))].kind = "advance"
          /\ Rank[now] < Rank[Prog(t)[Len(Prog(t))].to]
          /\ tx[t].todo = <<Quiet(Prog(t)[Len(Prog(t))].row, {now}, Prog(t)[Len(Prog(t))].to)>>
          /\ RanUpTo(t, k)
    <3>1. Len(Prog(t)) > 0 => Len(Prog(t)) - 1 \in 0..Len(Prog(t))
      BY <1>1
    <3>2. QED
      BY <1>3, <3>1 DEF AtAdvance
  <2>2. RanUpTo(t, k)'
    BY <1>2, <2>1
  <2>3. AtAdvance(t)'
    BY <1>1, <2>1, <2>2 DEF AtAdvance
  <2>4. QED
    BY <2>3 DEF Placed
<1>4. CASE AtMove(t)
  <2>1. tx[t].req.op = "moveProject"
    BY <1>4 DEF AtMove
  <2>2. tx[t].req.of \in Projects /\ tx[t].req.to \in Statuses
    BY <1>1, <2>1, RequestOf, StatusesAre
  <2>3. <<"project", tx[t].req.of>> \in Rows
    BY <2>2, RowsOfTables
  <2>4. tx[t].own[<<"project", tx[t].req.of>>] = tx[t].req.to =>
          db'[<<"project", tx[t].req.of>>] = db[<<"project", tx[t].req.of>>]
    BY <2>2, <2>3 DEF SameIsNoStatus
  <2>5. AtMove(t)'
    BY <1>4, <2>4 DEF AtMove
  <2>6. QED
    BY <2>5 DEF Placed
<1>5. CASE \E k \in Nat : AtStatement(t, k) /\ (tx[t].req.op = "moveProject" => k = 0)
  <2>1. PICK k \in Nat : AtStatement(t, k) /\ (tx[t].req.op = "moveProject" => k = 0)
    BY <1>5
  <2>2. AtStatement(t, k)'
    BY <1>1, <1>2, <2>1 DEF AtStatement
  <2>3. QED
    BY <2>1, <2>2 DEF Placed
<1>6. QED
  BY <1>3, <1>4, <1>5 DEF Placed

-----------------------------------------------------------------------------
(* Commits.                                                                *)

\* What a request knows of the papers of others: the one it read first is still
\* there, and a quotation or a signature that is about to be committed has moved
\* its project, or has found it moved.
Prudent(t) ==
  LET op == tx[t].req.op
      d  == tx[t].req.of
      stage == View(t, <<"project", ProjectOf[d]>>)
  IN  /\ tx[t].todo # Prog(t) =>
           /\ op = "createQuotation" => Stage(ProjectOf[d]) # "NONE"
           /\ op \in {"issueContract", "issueInvoice"} => Proforma(d) # "NONE"
      /\ op = "createQuotation" /\ tx[t].todo = <<>> => stage \notin {"NONE", "LEAD"}
      /\ op = "signContract" /\ tx[t].todo = <<>> => stage \notin {"NONE", "LEAD", "QUOTATION"}
      /\ op = "signContract" /\ tx[t].todo # <<>> /\ Head(tx[t].todo).kind = "quiet" =>
           Head(tx[t].todo).from = {"QUOTATION"}

\* A transaction that commits has run its program, and what changes is what it wrote.
LEMMA CommitIs ==
  ASSUME EveryDealHasAProject, Types, NEW t \in Txns, Placed(t), Commit(t)
  PROVE  /\ tx[t].req \in Requests /\ tx[t].req # NoRequest /\ tx[t].todo = <<>> /\ tx'[t] = Idle
         /\ \A u \in Txns : u # t => tx'[u] = tx[u]
         /\ \A r \in Rows : /\ db'[r] = View(t, r)
                            /\ tx[t].own[r] # Same => db'[r] = tx[t].own[r]
                            /\ db'[r] # db[r] => tx[t].own[r] = db'[r] /\ Changes(t, r)
         /\ tx[t].req.op # "moveProject" => RanUpTo(t, Len(Prog(t)))
<1>1. tx[t] # Idle /\ tx[t].todo = <<>> /\ db' = [r \in Rows |-> View(t, r)] /\ Become(t, Idle)
  BY DEF Commit
<1>2. tx[t].req # NoRequest
  BY <1>1 DEF Types
<1>3. tx[t].req \in Requests
  BY <1>2, ProgOf
<1>4. tx'[t] = Idle /\ \A u \in Txns : u # t => tx'[u] = tx[u]
  BY <1>1, Becomes
<1>5. ASSUME NEW r \in Rows
      PROVE  /\ db'[r] = View(t, r)
             /\ tx[t].own[r] # Same => db'[r] = tx[t].own[r]
             /\ db'[r] # db[r] => tx[t].own[r] = db'[r] /\ Changes(t, r)
  <2>1. db'[r] = View(t, r)
    BY <1>1
  <2>2. tx[t].own[r] # Same => Changes(t, r)
    BY <1>2, ChangesFit
  <2>3. QED
    BY <2>1, <2>2 DEF View
<1>6. tx[t].req.op # "moveProject" => RanUpTo(t, Len(Prog(t)))
  <2>1. ~AtAdvance(t)
    BY <1>1, HeadElsewhere
  <2>2. ASSUME tx[t].req.op # "moveProject" PROVE RanUpTo(t, Len(Prog(t)))
    <3>1. PICK k \in Nat : AtStatement(t, k)
      BY <1>2, <2>1, <2>2 DEF Placed, AtMove
    <3>2. k = Len(Prog(t))
      BY <1>1, <1>2, <3>1, HeadAt
    <3>3. QED
      BY <3>1, <3>2 DEF AtStatement
  <2>3. QED
    BY <2>2
<1>7. QED
  BY <1>1, <1>2, <1>3, <1>4, <1>5, <1>6

\* Along the spine, or to cancellation.
Onward(old, new) ==
  \/ new = old
  \/ old = "NONE" /\ new = "LEAD"
  \/ /\ old \in {"LEAD", "QUOTATION", "CONTRACT", "EXECUTION"}
     /\ new = "CANCELLED" \/ (new \in DOMAIN Rank /\ Rank[old] < Rank[new])

\* A commit moves a project on.
LEMMA StagesMove ==
  ASSUME EveryDealHasAProject, Types, NEW t \in Txns, Placed(t), Commit(t), NEW p \in Projects
  PROVE  Onward(Stage(p), db'[<<"project", p>>])
<1>1. PICK r \in Rows : r = <<"project", p>>
  BY RowsOfTables
<1>2. CASE db'[r] = db[r]
  BY <1>1, <1>2 DEF Onward, Stage
<1>3. CASE db'[r] # db[r]
  <2>1. tx[t].own[r] = db'[r] /\ Changes(t, r)
    BY <1>3, CommitIs
  <2>2. \/ db[r] = "NONE" /\ db'[r] = "LEAD"
        \/ db[r] \in DOMAIN StageMoves /\ db'[r] \in StageMoves[db[r]]
        \/ /\ db[r] \in DOMAIN Rank /\ db'[r] \in DOMAIN Rank /\ Rank[db[r]] < Rank[db'[r]]
           /\ db'[r] \in {"QUOTATION", "CONTRACT", "COMPLETED"}
    BY <1>1, <2>1 DEF Changes
  <2>3. CASE db[r] = "NONE" /\ db'[r] = "LEAD"
    BY <1>1, <2>3 DEF Onward, Stage
  <2>4. CASE db[r] \in DOMAIN StageMoves /\ db'[r] \in StageMoves[db[r]]
    BY <1>1, <2>4 DEF Onward, Stage, StageMoves, Rank
  <2>5. CASE /\ db[r] \in DOMAIN Rank /\ db'[r] \in DOMAIN Rank /\ Rank[db[r]] < Rank[db'[r]]
             /\ db'[r] \in {"QUOTATION", "CONTRACT", "COMPLETED"}
    BY <1>1, <2>5 DEF Onward, Stage, Rank
  <2>6. QED
    BY <2>2, <2>3, <2>4, <2>5
<1>4. QED
  BY <1>2, <1>3

\* A commit changes a paper as one request does, and that request is for it.
LEMMA PapersMove ==
  ASSUME EveryDealHasAProject, Types, NEW t \in Txns, Placed(t), Commit(t), NEW d \in Deals
  PROVE  LET op == tx[t].req.op
             Changed(paper) == db'[<<paper, d>>] # db[<<paper, d>>]
             Pair(paper) == <<db[<<paper, d>>], db'[<<paper, d>>]>>
         IN
         /\ \A paper \in Papers : Changed(paper) => tx[t].req.of = d
         /\ Changed("quotation") =>
              \/ op = "createQuotation" /\ Pair("quotation") = <<"NONE", "DRAFT">>
              \/ op = "submitQuotation" /\ Pair("quotation") = <<"DRAFT", "PENDING_APPROVAL">>
              \/ /\ op = "issueProforma"
                 /\ Pair("quotation") = <<"PENDING_APPROVAL", "CONVERTED_TO_PROFORMA">>
         /\ Changed("proforma") =>
              \/ op = "issueProforma" /\ Pair("proforma") = <<"NONE", "ISSUED">>
              \/ op = "cancelProforma" /\ Pair("proforma") = <<"ISSUED", "CANCELLED">>
         /\ Changed("contract") =>
              \/ op = "issueContract" /\ Pair("contract") = <<"NONE", "DRAFT">>
              \/ op = "signContract" /\ Pair("contract") = <<"DRAFT", "SIGNED">>
              \/ /\ op = "cancelContract"
                 /\ Pair("contract") \in {<<"DRAFT", "CANCELLED">>, <<"SIGNED", "CANCELLED">>}
              \/ op = "handover" /\ Pair("contract") = <<"SIGNED", "COMPLETED">>
         /\ Changed("invoice") =>
              \/ op = "issueInvoice" /\ Pair("invoice") = <<"NONE", "ISSUED">>
              \/ op = "voidInvoice" /\ Pair("invoice") = <<"ISSUED", "VOID">>
<1>1. ASSUME NEW paper \in Papers, db'[<<paper, d>>] # db[<<paper, d>>]
      PROVE  Changes(t, <<paper, d>>) /\ tx[t].own[<<paper, d>>] = db'[<<paper, d>>]
  BY <1>1, CommitIs, RowsOfTables
<1>2. ASSUME NEW paper \in Papers, db'[<<paper, d>>] # db[<<paper, d>>] PROVE tx[t].req.of = d
  BY <1>1, <1>2 DEF Changes, Papers
<1>3. ASSUME db'[<<"quotation", d>>] # db[<<"quotation", d>>]
      PROVE  LET op == tx[t].req.op
                 pair == <<db[<<"quotation", d>>], db'[<<"quotation", d>>]>>
             IN  \/ op = "createQuotation" /\ pair = <<"NONE", "DRAFT">>
                 \/ op = "submitQuotation" /\ pair = <<"DRAFT", "PENDING_APPROVAL">>
                 \/ op = "issueProforma" /\ pair = <<"PENDING_APPROVAL", "CONVERTED_TO_PROFORMA">>
  BY <1>1, <1>3 DEF Changes, Papers
<1>4. ASSUME db'[<<"proforma", d>>] # db[<<"proforma", d>>]
      PROVE  LET op == tx[t].req.op
                 pair == <<db[<<"proforma", d>>], db'[<<"proforma", d>>]>>
             IN  \/ op = "issueProforma" /\ pair = <<"NONE", "ISSUED">>
                 \/ op = "cancelProforma" /\ pair = <<"ISSUED", "CANCELLED">>
  BY <1>1, <1>4 DEF Changes, Papers
<1>5. ASSUME db'[<<"contract", d>>] # db[<<"contract", d>>]
      PROVE  LET op == tx[t].req.op
                 pair == <<db[<<"contract", d>>], db'[<<"contract", d>>]>>
             IN  \/ op = "issueContract" /\ pair = <<"NONE", "DRAFT">>
                 \/ op = "signContract" /\ pair = <<"DRAFT", "SIGNED">>
                 \/ /\ op = "cancelContract"
                    /\ pair \in {<<"DRAFT", "CANCELLED">>, <<"SIGNED", "CANCELLED">>}
                 \/ op = "handover" /\ pair = <<"SIGNED", "COMPLETED">>
  BY <1>1, <1>5 DEF Changes, Papers
<1>6. ASSUME db'[<<"invoice", d>>] # db[<<"invoice", d>>]
      PROVE  LET op == tx[t].req.op
                 pair == <<db[<<"invoice", d>>], db'[<<"invoice", d>>]>>
             IN  \/ op = "issueInvoice" /\ pair = <<"NONE", "ISSUED">>
                 \/ op = "voidInvoice" /\ pair = <<"ISSUED", "VOID">>
  BY <1>1, <1>6 DEF Changes, Papers
<1>7. QED
  BY <1>2, <1>3, <1>4, <1>5, <1>6

\* The programs of the requests whose order matters to others.
LEMMA ProgramShapes ==
  ASSUME NEW req \in Requests
  PROVE  LET P == Program(req)  d == req.of IN
         /\ req.op = "createQuotation" =>
              /\ Len(P) = 3 /\ P[1] = Check({<<"project", ProjectOf[d]>>}, Exists)
              /\ P[3] = Advance(ProjectOf[d], "QUOTATION")
         /\ req.op = "issueProforma" =>
              /\ Len(P) = 4
              /\ P[1] = Cas(<<"quotation", d>>, {"PENDING_APPROVAL"}, "CONVERTED_TO_PROFORMA")
              /\ P[3] = Insert(<<"proforma", d>>, "ISSUED")
         /\ req.op = "issueContract" => Len(P) = 4 /\ P[1] = Check({<<"proforma", d>>}, {"ISSUED"})
         /\ req.op = "issueInvoice" => Len(P) = 4 /\ P[1] = Check({<<"proforma", d>>}, {"ISSUED"})
         /\ req.op = "signContract" =>
              /\ Len(P) = 2 /\ P[1] = Cas(<<"contract", d>>, {"DRAFT"}, "SIGNED")
              /\ P[2] = Advance(ProjectOf[d], "CONTRACT")
         /\ req.op = "handover" =>
              Len(P) = 2 /\ P[1] = Cas(<<"contract", d>>, {"SIGNED"}, "COMPLETED")
<1>1. /\ req.op = "createQuotation" => Program(req) = CreateQuotation(req.of)
      /\ req.op = "issueProforma" => Program(req) = IssueProforma(req.of)
      /\ req.op = "issueContract" => Program(req) = IssueContract(req.of)
      /\ req.op = "issueInvoice" => Program(req) = IssueInvoice(req.of)
      /\ req.op = "signContract" => Program(req) = SignContract(req.of)
      /\ req.op = "handover" => Program(req) = Handover(req.of)
  BY DEF Program
<1>2. QED
  BY <1>1 DEF CreateQuotation, IssueProforma, IssueContract, IssueInvoice, SignContract, Handover

\* A signature or a handover holds its contract, a conversion its quotation and,
\* once committed, its proforma.
LEMMA HeldPapers ==
  ASSUME EveryDealHasAProject, Types, NEW t \in Txns, tx[t].req # NoRequest,
         NEW k \in Nat, k <= Len(Prog(t)), RanUpTo(t, k), k >= 1
  PROVE  LET op == tx[t].req.op  d == tx[t].req.of  own == tx[t].own IN
         /\ op = "signContract" => own[<<"contract", d>>] = "SIGNED" /\ Contract(d) = "DRAFT"
         /\ op = "handover" => own[<<"contract", d>>] = "COMPLETED" /\ Contract(d) = "SIGNED"
         /\ op = "issueProforma" => own[<<"quotation", d>>] = "CONVERTED_TO_PROFORMA"
         /\ op = "issueProforma" /\ k >= 3 => own[<<"proforma", d>>] = "ISSUED"
<1>1. tx[t].req \in Requests
  BY ProgOf
<1>2. Effect(t, Prog(t)[1]) /\ (k >= 3 => Effect(t, Prog(t)[3]))
  BY DEF RanUpTo
<1>3. CASE tx[t].req.op = "signContract"
  <2>1. Effect(t, Cas(<<"contract", tx[t].req.of>>, {"DRAFT"}, "SIGNED"))
    BY <1>1, <1>2, <1>3, ProgramShapes DEF Prog
  <2>2. QED
    BY <1>3, <2>1 DEF Effect, Cas, Contract
<1>4. CASE tx[t].req.op = "handover"
  <2>1. Effect(t, Cas(<<"contract", tx[t].req.of>>, {"SIGNED"}, "COMPLETED"))
    BY <1>1, <1>2, <1>4, ProgramShapes DEF Prog
  <2>2. QED
    BY <1>4, <2>1 DEF Effect, Cas, Contract
<1>5. CASE tx[t].req.op = "issueProforma"
  <2>1. /\ Effect(t, Cas(<<"quotation", tx[t].req.of>>, {"PENDING_APPROVAL"}, "CONVERTED_TO_PROFORMA"))
        /\ k >= 3 => Effect(t, Insert(<<"proforma", tx[t].req.of>>, "ISSUED"))
    BY <1>1, <1>2, <1>5, ProgramShapes DEF Prog
  <2>2. QED
    BY <1>5, <2>1 DEF Effect, Cas, Insert
<1>6. QED
  BY <1>3, <1>4, <1>5

\* At commit: the papers a request holds are whole, and its program is not the empty one.
LEMMA CommitIsWhole ==
  ASSUME EveryDealHasAProject, SameIsNoStatus, Types, NEW t \in Txns, Placed(t), Commit(t)
  PROVE  LET op == tx[t].req.op  d == tx[t].req.of IN
         /\ op \in {"createQuotation", "issueContract", "issueInvoice"} => tx[t].todo # Prog(t)
         /\ op = "signContract" => Contract(d) = "DRAFT" /\ db'[<<"contract", d>>] = "SIGNED"
         /\ op = "handover" => Contract(d) = "SIGNED" /\ db'[<<"contract", d>>] = "COMPLETED"
         /\ op = "issueProforma" =>
              /\ db'[<<"quotation", d>>] = "CONVERTED_TO_PROFORMA"
              /\ db'[<<"proforma", d>>] = "ISSUED"
<1> DEFINE op == tx[t].req.op
           d == tx[t].req.of
<1>1. /\ tx[t].req \in Requests /\ tx[t].req # NoRequest /\ tx[t].todo = <<>>
      /\ op # "moveProject" => RanUpTo(t, Len(Prog(t)))
      /\ Prog(t) \in Seq(Statement) /\ Len(Prog(t)) \in Nat
  BY CommitIs, ProgOf, LenProperties
<1>2. /\ op \in {"createQuotation", "issueContract", "issueInvoice"} => tx[t].todo # Prog(t)
      /\ op \in {"signContract", "handover", "issueProforma"} => Len(Prog(t)) >= 1
      /\ op = "issueProforma" => Len(Prog(t)) >= 3
  <2>1. PICK req \in Requests : req = tx[t].req
    BY <1>1
  <2>2. /\ req.op \in {"createQuotation", "issueContract", "issueInvoice"} => Len(Program(req)) >= 1
        /\ req.op \in {"signContract", "handover", "issueProforma"} => Len(Program(req)) >= 1
        /\ req.op = "issueProforma" => Len(Program(req)) >= 3
    <3>1. /\ req.op = "createQuotation" => Len(Program(req)) = 3
          /\ req.op = "issueContract" => Len(Program(req)) = 4
          /\ req.op = "issueInvoice" => Len(Program(req)) = 4
          /\ req.op = "signContract" => Len(Program(req)) = 2
          /\ req.op = "handover" => Len(Program(req)) = 2
          /\ req.op = "issueProforma" => Len(Program(req)) = 4
      BY ProgramShapes, Zenon
    <3>2. PICK n, o : n = Len(Program(req)) /\ o = req.op
      OBVIOUS
    <3>3. /\ o \in {"createQuotation", "issueContract", "issueInvoice"} => n >= 1
          /\ o \in {"signContract", "handover", "issueProforma"} => n >= 1
          /\ o = "issueProforma" => n >= 3
      BY <3>1, <3>2
    <3>4. QED
      BY <3>2, <3>3
  <2>3. Program(req) = Prog(t)
    BY <2>1 DEF Prog
  <2>4. QED
    BY <1>1, <2>1, <2>2, <2>3
<1>3. ASSUME op \in {"signContract", "handover", "issueProforma"}
      PROVE  /\ d \in Deals
             /\ op = "signContract" => Contract(d) = "DRAFT" /\ tx[t].own[<<"contract", d>>] = "SIGNED"
             /\ op = "handover" => Contract(d) = "SIGNED" /\ tx[t].own[<<"contract", d>>] = "COMPLETED"
             /\ op = "issueProforma" =>
                  /\ tx[t].own[<<"quotation", d>>] = "CONVERTED_TO_PROFORMA"
                  /\ tx[t].own[<<"proforma", d>>] = "ISSUED"
  <2>1. d \in Deals
    BY <1>1, <1>3, RequestOf
  <2>2. Len(Prog(t)) >= 1 /\ (op = "issueProforma" => Len(Prog(t)) >= 3)
    BY <1>2, <1>3
  <2>3. PICK k \in Nat : k = Len(Prog(t))
    BY <1>1
  <2>4. RanUpTo(t, k)
    BY <1>1, <1>3, <2>3
  <2>5. QED
    BY <1>1, <2>1, <2>2, <2>3, <2>4, HeldPapers
<1>4. ASSUME op \in {"signContract", "handover", "issueProforma"},
             NEW paper \in Papers, tx[t].own[<<paper, d>>] \in Statuses
      PROVE  db'[<<paper, d>>] = tx[t].own[<<paper, d>>]
  <2>1. d \in Deals
    BY <1>3, <1>4
  <2>2. <<paper, d>> \in Rows
    BY <2>1, RowsOfTables
  <2>3. QED
    BY <1>4, <2>2, CommitIs DEF SameIsNoStatus
<1>5. {"quotation", "proforma", "contract"} \subseteq Papers
      /\ {"SIGNED", "COMPLETED", "ISSUED", "CONVERTED_TO_PROFORMA"} \subseteq Statuses
  BY StatusesAre DEF Papers
<1>6. QED
  BY <1>2, <1>3, <1>4, <1>5

\* A commit keeps every row as its table allows, and every paper with the one it was
\* made from.
LEMMA CommitKeepsPapers ==
  ASSUME EveryDealHasAProject, SameIsNoStatus, Types, TypeOK, NEW t \in Txns, Placed(t),
         Prudent(t), Commit(t)
  PROVE  TypeOK'
<1>1. db' \in [Rows -> Statuses]
  <2>1. db' = [r \in Rows |-> View(t, r)]
    BY DEF Commit
  <2>2. \A r \in Rows : View(t, r) \in Statuses
    BY ProgOf DEF View, Types
  <2>3. QED
    BY <2>1, <2>2
<1>2. ASSUME NEW p \in Projects PROVE db'[<<"project", p>>] \in Stages \cup {"NONE"}
  <2>1. Stage(p) \in Stages \cup {"NONE"}
    BY DEF TypeOK, PapersFit, Stage
  <2>2. QED
    BY <2>1, StagesMove DEF Onward, Stages, Rank
<1>3. ASSUME NEW d \in Deals
      PROVE  /\ db'[<<"quotation", d>>] # "NONE" => db'[<<"project", ProjectOf[d]>>] # "NONE"
             /\ db'[<<"proforma", d>>] # "NONE" <=> db'[<<"quotation", d>>] = "CONVERTED_TO_PROFORMA"
             /\ db'[<<"contract", d>>] # "NONE" \/ db'[<<"invoice", d>>] # "NONE" =>
                  db'[<<"proforma", d>>] # "NONE"
  <2>1. /\ db[<<"quotation", d>>] # "NONE" => db[<<"project", ProjectOf[d]>>] # "NONE"
        /\ db[<<"proforma", d>>] # "NONE" <=> db[<<"quotation", d>>] = "CONVERTED_TO_PROFORMA"
        /\ db[<<"contract", d>>] # "NONE" \/ db[<<"invoice", d>>] # "NONE" =>
             db[<<"proforma", d>>] # "NONE"
    BY DEF TypeOK, PapersFit
  <2>2. ProjectOf[d] \in Projects
    BY DEF EveryDealHasAProject
  <2>3. Onward(Stage(ProjectOf[d]), db'[<<"project", ProjectOf[d]>>])
    BY <2>2, StagesMove
  <2>4. Stage(ProjectOf[d]) # "NONE" => db'[<<"project", ProjectOf[d]>>] # "NONE"
    BY <2>3 DEF Onward, Rank
  <2>5. db'[<<"quotation", d>>] # "NONE" => db'[<<"project", ProjectOf[d]>>] # "NONE"
    <3>1. CASE db[<<"quotation", d>>] # "NONE"
      BY <2>1, <2>4, <3>1 DEF Stage
    <3>2. CASE db[<<"quotation", d>>] = "NONE" /\ db'[<<"quotation", d>>] # "NONE"
      <4>1. tx[t].req.op = "createQuotation" /\ tx[t].req.of = d
        BY <3>2, PapersMove DEF Papers
      <4>2. Stage(ProjectOf[d]) # "NONE"
        BY <4>1, CommitIsWhole DEF Prudent
      <4>3. QED
        BY <2>4, <4>2
    <3>3. QED
      BY <3>1, <3>2
  <2>6. CASE tx[t].req.op = "issueProforma" /\ tx[t].req.of = d
    <3>1. db'[<<"proforma", d>>] = "ISSUED" /\ db'[<<"quotation", d>>] = "CONVERTED_TO_PROFORMA"
      BY <2>6, CommitIsWhole
    <3>2. QED
      BY <2>5, <3>1
  <2>7. CASE ~(tx[t].req.op = "issueProforma" /\ tx[t].req.of = d)
    <3>1. db'[<<"proforma", d>>] # "NONE" <=> db[<<"proforma", d>>] # "NONE"
      BY <2>7, PapersMove DEF Papers
    <3>2. db'[<<"quotation", d>>] = "CONVERTED_TO_PROFORMA"
            <=> db[<<"quotation", d>>] = "CONVERTED_TO_PROFORMA"
      BY <2>7, PapersMove DEF Papers
    <3>3. db'[<<"contract", d>>] # "NONE" => db[<<"contract", d>>] # "NONE" \/ Proforma(d) # "NONE"
      <4>1. CASE db'[<<"contract", d>>] # db[<<"contract", d>>] /\ db[<<"contract", d>>] = "NONE"
        <5>1. tx[t].req.op = "issueContract" /\ tx[t].req.of = d
          BY <4>1, PapersMove DEF Papers
        <5>2. QED
          BY <5>1, CommitIsWhole DEF Prudent
      <4>2. QED
        BY <4>1
    <3>4. db'[<<"invoice", d>>] # "NONE" => db[<<"invoice", d>>] # "NONE" \/ Proforma(d) # "NONE"
      <4>1. CASE db'[<<"invoice", d>>] # db[<<"invoice", d>>] /\ db[<<"invoice", d>>] = "NONE"
        <5>1. tx[t].req.op = "issueInvoice" /\ tx[t].req.of = d
          BY <4>1, PapersMove DEF Papers
        <5>2. QED
          BY <5>1, CommitIsWhole DEF Prudent
      <4>2. QED
        BY <4>1
    <3>5. QED
      BY <2>1, <2>5, <3>1, <3>2, <3>3, <3>4 DEF Proforma
  <2>8. QED
    BY <2>6, <2>7
<1>4. QED
  BY <1>1, <1>2, <1>3 DEF TypeOK, PapersFit

\* A commit keeps contracts and quotations with the stage of their project.
LEMMA CommitKeepsStages ==
  ASSUME EveryDealHasAProject, SameIsNoStatus, Types, TypeOK, SignedIsWon, NEW t \in Txns,
         Placed(t), Prudent(t), Commit(t)
  PROVE  SignedIsWon'
<1> SUFFICES ASSUME NEW d \in Deals
             PROVE  LET stage == db'[<<"project", ProjectOf[d]>>] IN
                    /\ db'[<<"contract", d>>] \in {"SIGNED", "COMPLETED"} =>
                         stage \notin {"LEAD", "QUOTATION"}
                    /\ db'[<<"quotation", d>>] # "NONE" => stage # "LEAD"
  BY DEF SignedIsWon, StagesFit
<1> DEFINE p == ProjectOf[d]
           stage == db'[<<"project", p>>]
<1>1. p \in Projects /\ <<"project", p>> \in Rows
  BY RowsOfTables
<1>2. Onward(Stage(p), stage)
  BY <1>1, StagesMove
<1>3. /\ Contract(d) \in {"SIGNED", "COMPLETED"} => Stage(p) \notin {"LEAD", "QUOTATION"}
      /\ db[<<"quotation", d>>] # "NONE" => Stage(p) \notin {"NONE", "LEAD"}
      /\ Contract(d) # "NONE" => db[<<"quotation", d>>] # "NONE"
  BY DEF SignedIsWon, StagesFit, TypeOK, PapersFit, Contract, Stage
<1>4. stage = View(t, <<"project", p>>) /\ tx[t].todo = <<>>
  BY <1>1, CommitIs
<1>5. Contract(d) \in {"SIGNED", "COMPLETED"} => stage \notin {"LEAD", "QUOTATION"}
  BY <1>2, <1>3 DEF Onward, Rank
<1>6. db[<<"quotation", d>>] # "NONE" => stage # "LEAD"
  BY <1>2, <1>3 DEF Onward, Rank
<1>7. CASE Contract(d) \notin {"SIGNED", "COMPLETED"} /\ db'[<<"contract", d>>] \in {"SIGNED", "COMPLETED"}
  <2>1. tx[t].req.op = "signContract" /\ tx[t].req.of = d
    BY <1>7, PapersMove DEF Papers, Contract
  <2>2. stage \notin {"LEAD", "QUOTATION"}
    BY <1>4, <2>1 DEF Prudent
  <2>3. QED
    BY <2>2
<1>8. CASE db[<<"quotation", d>>] = "NONE" /\ db'[<<"quotation", d>>] # "NONE"
  <2>1. tx[t].req.op = "createQuotation" /\ tx[t].req.of = d
    BY <1>8, PapersMove DEF Papers
  <2>2. stage # "LEAD"
    BY <1>4, <2>1 DEF Prudent
  <2>3. db'[<<"contract", d>>] \notin {"SIGNED", "COMPLETED"}
    <3>1. Contract(d) = "NONE"
      BY <1>3, <1>8
    <3>2. QED
      BY <2>1, <3>1, PapersMove DEF Papers, Contract
  <2>4. QED
    BY <2>2, <2>3
<1>9. QED
  BY <1>5, <1>6, <1>7, <1>8

-----------------------------------------------------------------------------
(* What a request knows stays so.                                          *)

\* The project of a contract being signed has a quotation.
LEMMA SignersAreQuoted ==
  ASSUME EveryDealHasAProject, SameIsNoStatus, Types, TypeOK, SignedIsWon, NEW t \in Txns, Placed(t),
         tx[t].req.op = "signContract", tx[t].own[<<"contract", tx[t].req.of>>] # Same
  PROVE  Stage(ProjectOf[tx[t].req.of]) \notin {"NONE", "LEAD"}
<1>1. tx[t].req # NoRequest
  BY DEF NoRequest
<1>2. PICK d \in Deals : d = tx[t].req.of
  BY <1>1, ProgOf, RequestOf
<1>3. <<"contract", d>> \in Rows
  BY RowsOfTables DEF Papers
<1>4. Changes(t, <<"contract", d>>)
  BY <1>1, <1>2, <1>3, ChangesFit
<1>5. db[<<"contract", d>>] = "DRAFT"
  BY <1>4 DEF Changes
<1>6. db[<<"quotation", d>>] # "NONE"
  BY <1>5 DEF TypeOK, PapersFit
<1>7. QED
  BY <1>2, <1>6 DEF TypeOK, PapersFit, SignedIsWon, StagesFit, Stage

\* What a request knows stays so while others commit.
LEMMA PrudentFrame ==
  ASSUME EveryDealHasAProject, SameIsNoStatus, Types, TypeOK, SignedIsWon,
         NEW t \in Txns, Placed(t), Prudent(t), NEW u \in Txns, Placed(u), Commit(u),
         tx'[t] = tx[t], \A r \in Rows : tx[t].own[r] # Same => db'[r] = db[r]
  PROVE  Prudent(t)'
<1> SUFFICES ASSUME tx[t].req.op \in {"createQuotation", "issueContract", "issueInvoice", "signContract"}
             PROVE  Prudent(t)'
  BY DEF Prudent
<1>1. tx[t].req # NoRequest
  BY DEF NoRequest
<1>2. PICK d \in Deals : d = tx[t].req.of
  BY <1>1, ProgOf, RequestOf
<1>3. PICK p \in Projects : p = ProjectOf[d]
  BY DEF EveryDealHasAProject
<1>4. Onward(Stage(p), Stage(p)')
  BY StagesMove DEF Stage
<1>5. Stage(p) # "NONE" => Stage(p)' # "NONE"
  BY <1>4 DEF Onward, Rank
<1>6. Proforma(d) # "NONE" => Proforma(d)' # "NONE"
  BY PapersMove DEF Proforma, Papers
<1>7. PICK row \in Rows : row = <<"project", p>>
  BY RowsOfTables
<1>8. /\ View(t, row) \notin {"NONE", "LEAD"} => View(t, row)' \notin {"NONE", "LEAD"}
      /\ View(t, row) \notin {"NONE", "LEAD", "QUOTATION"} =>
           View(t, row)' \notin {"NONE", "LEAD", "QUOTATION"}
  <2>1. CASE tx[t].own[row] # Same
    BY <2>1 DEF View
  <2>2. CASE tx[t].own[row] = Same
    <3>1. View(t, row) = Stage(p) /\ View(t, row)' = Stage(p)'
      BY <1>7, <2>2 DEF View, Stage
    <3>2. QED
      BY <1>4, <3>1 DEF Onward, Rank
  <2>3. QED
    BY <2>1, <2>2
<1>9. Prog(t)' = Prog(t)
  BY DEF Prog
<1>10. QED
  BY <1>2, <1>3, <1>5, <1>6, <1>7, <1>8, <1>9 DEF Prudent

\* After the next statement comes the one behind it, which is not an UPDATE that may miss.
LEMMA TailAt ==
  ASSUME EveryDealHasAProject, Types, NEW t \in Txns, tx[t].req # NoRequest, NEW k \in Nat,
         AtStatement(t, k), tx[t].todo # <<>>
  PROVE  /\ Tail(tx[t].todo) = <<>> => k + 1 = Len(Prog(t))
         /\ Tail(tx[t].todo) # <<>> => Head(Tail(tx[t].todo)).kind # "quiet"
<1>1. /\ tx[t].req \in Requests /\ Prog(t) \in Seq(Statement) /\ Len(Prog(t)) \in Nat
      /\ k + 1 \in 1..Len(Prog(t)) /\ Tail(tx[t].todo) = SubSeq(Prog(t), k + 2, Len(Prog(t)))
  BY ProgOf, LenProperties, HeadAt
<1>2. CASE k + 1 = Len(Prog(t))
  <2>1. SubSeq(Prog(t), k + 2, Len(Prog(t))) = <<>>
    BY <1>1, <1>2, SubSeqEmpty
  <2>2. QED
    BY <1>1, <1>2, <2>1
<1>3. CASE k + 1 < Len(Prog(t))
  <2>1. k + 2 \in 1..Len(Prog(t)) /\ Len(Prog(t)) \in k + 2 .. Len(Prog(t))
    BY <1>1, <1>3
  <2>2. Head(Tail(tx[t].todo)) = Prog(t)[k + 2]
    BY <1>1, <2>1, HeadTailOfSubSeq
  <2>3. Prog(t)[k + 2].kind # "quiet"
    BY <1>1, <2>1, ProgramAscends DEF Prog
  <2>4. \A n \in k + 2 .. Len(Prog(t)) : Prog(t)[n] \in Statement
    BY <1>1, ElementOfSeq
  <2>5. Len(Tail(tx[t].todo)) = Len(Prog(t)) - (k + 2) + 1
    BY <1>1, <2>1, <2>4, SubSeqProperties
  <2>6. Tail(tx[t].todo) # <<>>
    <3>1. Len(Prog(t)) \in Nat
      BY <1>1, Zenon
    <3>2. Len(Prog(t)) - (k + 2) + 1 # 0
      BY <3>1, <1>3
    <3>3. Len(<<>>) = 0
      BY EmptySeq
    <3>4. QED
      BY <2>5, <3>2, <3>3, Zenon
  <2>7. QED
    BY <2>2, <2>3, <2>6
<1>4. QED
  BY <1>1, <1>2, <1>3

\* A request learns what it has to before it goes on.
LEMMA PrudentStep ==
  ASSUME EveryDealHasAProject, SameIsNoStatus, Types, TypeOK, SignedIsWon,
         NEW t \in Txns, Placed(t), Prudent(t), Ask(t) \/ Step(t) \/ Crash(t)
  PROVE  Prudent(t)'
<1> DEFINE Cautious == {"createQuotation", "issueContract", "issueInvoice", "signContract"}
<1> SUFFICES ASSUME tx'[t].req.op \in Cautious PROVE Prudent(t)'
  BY DEF Prudent
<1>1. tx'[t] # Idle
  BY DEF Idle
<1>2. ~Commit(t) /\ ~Crash(t)
  BY <1>1, Becomes DEF Commit, Crash, Refuse
<1>3. CASE Ask(t)
  <2>1. PICK req \in Requests : Become(t, [Idle EXCEPT !.req = req, !.todo = Program(req)])
    BY <1>3 DEF Ask
  <2>2. tx'[t].req = req /\ tx'[t].todo = Program(req)
    <3>1. tx'[t] = [Idle EXCEPT !.req = req, !.todo = Program(req)]
      BY <2>1, Becomes
    <3>2. QED
      BY <3>1 DEF Idle
  <2>3. req.op \in {"createQuotation", "signContract"} => Len(Program(req)) \in {2, 3}
    BY ProgramShapes, Zenon
  <2>4. req.op = "signContract" => Program(req)[1].kind = "cas"
    <3>1. req.op = "signContract" => Program(req)[1] = Cas(<<"contract", req.of>>, {"DRAFT"}, "SIGNED")
      BY ProgramShapes, Zenon
    <3>2. QED
      BY <3>1 DEF Cas
  <2>5. req.op \in {"createQuotation", "signContract"} => tx'[t].todo # <<>>
    <3>1. PICK list, op : list = Program(req) /\ op = req.op
      OBVIOUS
    <3>2. op \in {"createQuotation", "signContract"} => Len(list) \in {2, 3}
      BY <2>3, <3>1, Zenon
    <3>3. op \in {"createQuotation", "signContract"} => list # <<>>
      <4>1. Len(<<>>) \notin {2, 3}
        OBVIOUS
      <4>2. QED
        BY <3>2, <4>1, Zenon
    <3>4. QED
      BY <2>2, <3>1, <3>3
  <2>6. req.op = "signContract" => Head(tx'[t].todo).kind = "cas"
    <3>1. Program(req) \in Seq(Statement)
      BY ProgramTyped
    <3>2. req.op = "signContract" => Head(Program(req)) = Program(req)[1]
      BY <2>2, <2>5, <3>1, HeadTailProperties
    <3>3. QED
      BY <2>2, <2>4, <3>2
  <2>7. Prog(t)' = tx'[t].todo
    BY <2>2 DEF Prog
  <2>8. QED
    BY <2>2, <2>5, <2>6, <2>7 DEF Prudent
<1>4. CASE RunUpdate(t) /\ AtMove(t)
  <2>1. tx'[t].req.op = "moveProject"
    BY <1>1, <1>4, MoveRuns DEF AtMove
  <2>2. QED
    BY <2>1
<1>5. CASE RunMove(t)
  BY <1>1, <1>5, MoveIs
<1>6. CASE RunUpdate(t) /\ AtAdvance(t)
  <2> DEFINE n == Len(Prog(t))
             s == Prog(t)[n]
  <2>1. /\ tx'[t].req = tx[t].req /\ AtStatement(t, n)' /\ tx[t].own[s.row] = Same
        /\ \/ tx'[t].own[s.row] = s.to
           \/ tx'[t].own = tx[t].own /\ db[s.row] \notin Head(tx[t].todo).from
    BY <1>1, <1>6, AdvanceEnds
  <2>2. PICK now \in DOMAIN Rank :
          /\ n > 0 /\ s.kind = "advance" /\ Rank[now] < Rank[s.to]
          /\ tx[t].todo = <<Quiet(s.row, {now}, s.to)>> /\ RanUpTo(t, n - 1)
    BY <1>6 DEF AtAdvance
  <2>3. tx[t].todo # <<>> /\ Head(tx[t].todo).kind = "quiet" /\ Head(tx[t].todo).from = {now}
    BY <2>2 DEF Quiet
  <2>4. /\ tx[t].req # NoRequest /\ tx[t].req \in Requests /\ Prog(t) \in Seq(Statement)
        /\ n \in Nat /\ n \in 1..n /\ db' = db /\ Prog(t)' = Prog(t)
    <3>1. tx[t].req # NoRequest
      BY <2>3 DEF Types, Idle
    <3>2. db' = db
      BY <1>6, UpdateIs
    <3>3. QED
      BY <2>1, <2>2, <3>1, <3>2, ProgOf, LenProperties DEF Prog
  <2>5. tx'[t].todo = <<>>
    <3>1. tx'[t].todo = SubSeq(Prog(t), n + 1, n)
      BY <2>1, <2>4 DEF AtStatement
    <3>2. QED
      BY <2>4, <3>1, SubSeqEmpty
  <2>6. tx[t].todo # Prog(t)
    <3>1. Quiet(s.row, {now}, s.to).kind # "advance"
      BY DEF Quiet
    <3>2. PICK list, q : list = Prog(t) /\ q = Quiet(s.row, {now}, s.to)
      OBVIOUS
    <3>3. list[Len(list)].kind = "advance" /\ q.kind # "advance"
      BY <2>2, <3>1, <3>2
    <3>4. list # <<q>>
      <4>1. Len(<<q>>) = 1 /\ <<q>>[1] = q
        OBVIOUS
      <4>2. QED
        BY <3>3, <4>1
    <3>5. QED
      BY <2>2, <3>2, <3>4
  <2>7. PICK d \in Deals, row \in Rows : d = tx[t].req.of /\ row = s.row /\ row = <<"project", ProjectOf[d]>>
    <3>1. tx[t].req.of \in Deals /\ s.row = <<"project", ProjectOf[tx[t].req.of]>>
      BY <2>2, <2>4, AdvanceTargets DEF Prog
    <3>2. QED
      BY <3>1, RowsOfTables
  <2>8. \/ tx[t].req.op \in {"createQuotation", "issueProforma"} /\ s.to = "QUOTATION"
        \/ tx[t].req.op = "signContract" /\ s.to = "CONTRACT"
        \/ tx[t].req.op = "handover" /\ s.to = "COMPLETED"
    BY <2>2, <2>4, AdvanceTargets DEF Prog
  <2>9. View(t, row)' = IF tx'[t].own[row] # Same THEN tx'[t].own[row] ELSE db[row]
    BY <2>4 DEF View
  <2>10. s.to # Same
    BY <2>8, StatusesAre DEF SameIsNoStatus
  <2>11. \/ View(t, row)' = s.to
         \/ View(t, row)' = db[row] /\ db[row] # now
    BY <2>1, <2>3, <2>7, <2>9, <2>10
  <2>12. CASE tx[t].req.op = "createQuotation"
    <3>1. Stage(ProjectOf[d]) # "NONE"
      BY <2>6, <2>7, <2>12 DEF Prudent
    <3>2. now = "LEAD"
      BY <2>2, <2>8, <2>12 DEF Rank
    <3>3. View(t, row)' \notin {"NONE", "LEAD"}
      BY <2>7, <2>8, <2>11, <2>12, <3>1, <3>2 DEF Stage
    <3>4. Stage(ProjectOf[d])' = Stage(ProjectOf[d])
      BY <2>4 DEF Stage
    <3>5. QED
      BY <2>1, <2>5, <2>7, <2>12, <3>1, <3>3, <3>4 DEF Prudent
  <2>13. CASE tx[t].req.op = "signContract"
    <3>1. now = "QUOTATION"
      BY <2>3, <2>13 DEF Prudent
    <3>2. tx[t].own[<<"contract", d>>] # Same
      <4>1. n = 2
        BY <2>4, <2>13, ProgramShapes, Zenon DEF Prog
      <4>2. RanUpTo(t, 1) /\ 1 <= Len(Prog(t))
        BY <2>2, <4>1
      <4>3. PICK k \in Nat : k = 1
        OBVIOUS
      <4>4. RanUpTo(t, k) /\ k <= Len(Prog(t)) /\ k >= 1
        BY <4>2, <4>3
      <4>5. tx[t].own[<<"contract", tx[t].req.of>>] = "SIGNED"
        BY <2>4, <2>13, <4>4, HeldPapers
      <4>6. QED
        BY <2>7, <4>5, StatusesAre DEF SameIsNoStatus
    <3>3. Stage(ProjectOf[d]) \notin {"NONE", "LEAD"}
      BY <2>7, <2>13, <3>2, SignersAreQuoted
    <3>4. View(t, row)' \notin {"NONE", "LEAD", "QUOTATION"}
      BY <2>7, <2>8, <2>11, <2>13, <3>1, <3>3 DEF Stage
    <3>5. QED
      BY <2>1, <2>5, <2>7, <2>13, <3>4 DEF Prudent
  <2>14. QED
    BY <2>1, <2>8, <2>12, <2>13
<1>7. CASE RunAdvance(t)
  <2> DEFINE n == Len(Prog(t))
             s == Head(tx[t].todo)
             now == View(t, s.row)
  <2>1. /\ s.kind = "advance" /\ db' = db /\ tx'[t].req = tx[t].req /\ tx'[t].own = tx[t].own
        /\ n > 0 /\ s = Prog(t)[n] /\ AtStatement(t, n - 1)
        /\ IF now \notin DOMAIN Rank \/ Rank[now] >= Rank[s.to]
             THEN tx'[t].todo = <<>> ELSE tx'[t].todo = <<Quiet(s.row, {now}, s.to)>>
    BY <1>7, AdvanceIs
  <2>2. /\ tx[t].req # NoRequest /\ tx[t].todo # <<>>
        /\ tx[t].req \in Requests /\ Prog(t) \in Seq(Statement) /\ n \in Nat /\ n \in 1..n
        /\ Prog(t)' = Prog(t)
    <3>1. tx[t].req # NoRequest /\ tx[t].todo # <<>>
      BY <1>7, NextIs DEF RunAdvance
    <3>2. QED
      BY <2>1, <3>1, ProgOf, LenProperties DEF Prog
  <2>3. PICK d \in Deals, row \in Rows : d = tx[t].req.of /\ row = s.row /\ row = <<"project", ProjectOf[d]>>
    <3>1. tx[t].req.of \in Deals /\ s.row = <<"project", ProjectOf[tx[t].req.of]>>
      BY <2>1, <2>2, AdvanceTargets DEF Prog
    <3>2. QED
      BY <3>1, RowsOfTables
  <2>4. \/ tx[t].req.op \in {"createQuotation", "issueProforma"} /\ s.to = "QUOTATION"
        \/ tx[t].req.op = "signContract" /\ s.to = "CONTRACT"
        \/ tx[t].req.op = "handover" /\ s.to = "COMPLETED"
    BY <2>1, <2>2, AdvanceTargets DEF Prog
  <2>5. tx[t].own[row] = Same /\ now = db[row]
    <3>1. PICK k \in Nat : k = n - 1
      BY <2>1, <2>2
    <3>2. AtStatement(t, k) /\ s.kind # "check"
      BY <2>1, <3>1
    <3>3. QED
      BY <2>2, <2>3, <3>2, NextAsStored
  <2>6. View(t, row)' = db[row]
    BY <2>1, <2>5 DEF View
  <2>7. CASE tx[t].req.op = "createQuotation"
    <3>1. tx[t].todo # Prog(t)
      <4>1. n = 3 /\ Prog(t)[1] = Check({<<"project", ProjectOf[d]>>}, Exists)
        BY <2>2, <2>3, <2>7, ProgramShapes, Zenon DEF Prog
      <4>2. Prog(t)[1].kind = "check"
        BY <4>1 DEF Check
      <4>3. tx[t].todo = Prog(t) => Head(tx[t].todo) = Prog(t)[1]
        BY <2>2, HeadTailProperties
      <4>4. QED
        BY <2>1, <4>2, <4>3
    <3>2. Stage(ProjectOf[d]) # "NONE"
      BY <2>3, <2>7, <3>1 DEF Prudent
    <3>3. tx'[t].todo = <<>> => View(t, row)' \notin {"NONE", "LEAD"}
      <4>1. Quiet(s.row, {now}, s.to) # <<>> /\ <<Quiet(s.row, {now}, s.to)>> # <<>>
        BY DEF Quiet
      <4>2. tx'[t].todo = <<>> => now # "LEAD"
        BY <2>1, <2>4, <2>7, <4>1 DEF Rank
      <4>3. QED
        BY <2>3, <2>5, <2>6, <3>2, <4>2 DEF Stage
    <3>4. Stage(ProjectOf[d])' = Stage(ProjectOf[d])
      BY <2>1 DEF Stage
    <3>5. QED
      BY <2>1, <2>3, <2>7, <3>2, <3>3, <3>4 DEF Prudent
  <2>8. CASE tx[t].req.op = "signContract"
    <3>1. tx[t].own[<<"contract", d>>] # Same
      <4>1. n = 2
        BY <2>2, <2>8, ProgramShapes, Zenon DEF Prog
      <4>2. RanUpTo(t, 1) /\ 1 <= Len(Prog(t))
        BY <2>1, <4>1 DEF AtStatement
      <4>3. PICK k \in Nat : k = 1
        OBVIOUS
      <4>4. RanUpTo(t, k) /\ k <= Len(Prog(t)) /\ k >= 1
        BY <4>2, <4>3
      <4>5. tx[t].own[<<"contract", tx[t].req.of>>] = "SIGNED"
        BY <2>2, <2>8, <4>4, HeldPapers
      <4>6. QED
        BY <2>3, <4>5, StatusesAre DEF SameIsNoStatus
    <3>2. now \notin {"NONE", "LEAD"}
      BY <2>3, <2>5, <2>8, <3>1, SignersAreQuoted DEF Stage
    <3>3. CASE now \notin DOMAIN Rank \/ Rank[now] >= Rank[s.to]
      <4>1. now # "QUOTATION" /\ tx'[t].todo = <<>>
        BY <2>1, <2>4, <2>8, <3>3 DEF Rank
      <4>2. QED
        BY <2>1, <2>3, <2>5, <2>6, <2>8, <3>2, <4>1 DEF Prudent
    <3>4. CASE ~(now \notin DOMAIN Rank \/ Rank[now] >= Rank[s.to])
      <4>1. now = "QUOTATION" /\ tx'[t].todo = <<Quiet(s.row, {now}, s.to)>>
        BY <2>1, <2>4, <2>8, <3>2, <3>4 DEF Rank
      <4>2. tx'[t].todo # <<>> /\ Head(tx'[t].todo).from = {"QUOTATION"}
        BY <4>1 DEF Quiet
      <4>3. QED
        BY <2>1, <2>8, <4>2 DEF Prudent
    <3>5. QED
      BY <3>3, <3>4
  <2>9. QED
    BY <2>1, <2>4, <2>7, <2>8
<1>8. CASE RunCheck(t) \/ RunInsert(t) \/ (RunUpdate(t) /\ ~AtAdvance(t) /\ ~AtMove(t))
  <2> DEFINE s == Head(tx[t].todo)
  <2>1. /\ tx[t].todo # <<>> /\ tx[t].req # NoRequest /\ tx[t].req \in Requests
        /\ db' = db /\ s.kind \in {"check", "insert", "touch", "cas"}
        /\ s.kind = "check" => \A r \in s.rows : View(t, r) \in s.in
        /\ tx'[t].req = tx[t].req /\ tx'[t].todo = Tail(tx[t].todo)
        /\ s.kind = "check" => tx'[t].own = tx[t].own
    BY <1>1, <1>8, StatementRuns DEF Wrote, Passed
  <2>2. PICK k \in Nat : AtStatement(t, k) /\ k + 1 \in 1..Len(Prog(t)) /\ s = Prog(t)[k + 1]
    BY <1>1, <1>8, StatementRuns
  <2>3. Prog(t)' = Prog(t) /\ Prog(t) \in Seq(Statement)
    BY <2>1, ProgOf DEF Prog
  <2>4. tx'[t].todo = <<>> => k + 1 = Len(Prog(t))
    BY <2>1, <2>2, TailAt
  <2>5. tx'[t].todo # <<>> => Head(tx'[t].todo).kind # "quiet"
    BY <2>1, <2>2, TailAt
  <2>6. PICK d \in Deals : d = tx[t].req.of
    BY <2>1, RequestOf
  <2>7. tx[t].req.op \in {"createQuotation", "signContract"} => tx'[t].todo # <<>>
    <3>1. CASE tx[t].req.op = "createQuotation"
      <4>1. Len(Prog(t)) = 3 /\ Prog(t)[3] = Advance(ProjectOf[d], "QUOTATION")
        BY <2>1, <2>6, <3>1, ProgramShapes, Zenon DEF Prog
      <4>2. Prog(t)[3].kind = "advance"
        BY <4>1 DEF Advance
      <4>3. QED
        BY <2>1, <2>2, <2>4, <4>1, <4>2
    <3>2. CASE tx[t].req.op = "signContract"
      <4>1. Len(Prog(t)) = 2 /\ Prog(t)[2] = Advance(ProjectOf[d], "CONTRACT")
        BY <2>1, <2>6, <3>2, ProgramShapes, Zenon DEF Prog
      <4>2. Prog(t)[2].kind = "advance"
        BY <4>1 DEF Advance
      <4>3. QED
        BY <2>1, <2>2, <2>4, <4>1, <4>2
    <3>3. QED
      BY <3>1, <3>2
  <2>8. tx[t].todo = Prog(t) => s = Prog(t)[1]
    BY <2>1, <2>3, HeadTailProperties
  <2>9. tx[t].req.op = "createQuotation" => Stage(ProjectOf[d]) # "NONE"
    <3> SUFFICES ASSUME tx[t].req.op = "createQuotation", tx[t].todo = Prog(t)
                 PROVE  Stage(ProjectOf[d]) # "NONE"
      BY <2>6 DEF Prudent
    <3>1. PICK row \in Rows : row = <<"project", ProjectOf[d]>>
      BY RowsOfTables
    <3>2. s = Check({row}, Exists)
      BY <2>1, <2>6, <2>8, <3>1, ProgramShapes, Zenon DEF Prog
    <3>3. View(t, row) \in Exists
      BY <2>1, <3>2 DEF Check
    <3>4. CASE tx[t].own[row] = Same
      BY <3>1, <3>3, <3>4 DEF View, Exists, Stages, Stage
    <3>5. CASE tx[t].own[row] # Same
      <4>1. Changes(t, row)
        BY <2>1, <3>5, ChangesFit
      <4>2. db[row] # "NONE"
        BY <3>1, <4>1 DEF Changes, Rank
      <4>3. QED
        BY <3>1, <4>2 DEF Stage
    <3>6. QED
      BY <3>4, <3>5
  <2>10. tx[t].req.op \in {"issueContract", "issueInvoice"} => Proforma(d) # "NONE"
    <3> SUFFICES ASSUME tx[t].req.op \in {"issueContract", "issueInvoice"}, tx[t].todo = Prog(t)
                 PROVE  Proforma(d) # "NONE"
      BY <2>6 DEF Prudent
    <3>1. PICK row \in Rows : row = <<"proforma", d>>
      BY RowsOfTables DEF Papers
    <3>2. s = Check({row}, {"ISSUED"})
      <4>1. CASE tx[t].req.op = "issueContract"
        BY <2>1, <2>6, <2>8, <3>1, <4>1, ProgramShapes, Zenon DEF Prog
      <4>2. CASE tx[t].req.op = "issueInvoice"
        BY <2>1, <2>6, <2>8, <3>1, <4>2, ProgramShapes, Zenon DEF Prog
      <4>3. QED
        BY <4>1, <4>2
    <3>3. View(t, row) = "ISSUED"
      BY <2>1, <3>2 DEF Check
    <3>4. CASE tx[t].own[row] = Same
      BY <3>1, <3>3, <3>4 DEF View, Proforma
    <3>5. CASE tx[t].own[row] # Same
      <4>1. Changes(t, row)
        BY <2>1, <3>5, ChangesFit
      <4>2. FALSE
        BY <3>1, <4>1 DEF Changes
      <4>3. QED
        BY <4>2
    <3>6. QED
      BY <3>4, <3>5
  <2>11. Stage(ProjectOf[d])' = Stage(ProjectOf[d]) /\ Proforma(d)' = Proforma(d)
    BY <2>1 DEF Stage, Proforma
  <2>12. QED
    BY <2>1, <2>5, <2>6, <2>7, <2>9, <2>10, <2>11 DEF Prudent
<1>9. QED
  BY <1>2, <1>3, <1>4, <1>5, <1>6, <1>7, <1>8 DEF Step

-----------------------------------------------------------------------------
(* The invariant.                                                          *)

SalesInvariant ==
  /\ Types /\ TypeOK /\ SignedIsWon /\ WritersAreAlone
  /\ \A t \in Txns : Placed(t) /\ Prudent(t)

\* An idle connection is one.
LEMMA IdleIsTyped == Idle \in Transaction /\ Idle.req = NoRequest
<1>1. NoWrites \in [Rows -> Statuses \cup {Same}]
  BY DEF NoWrites
<1>2. QED
  BY <1>1 DEF Idle, Transaction, NoRequest

\* A connection that becomes a well-formed one leaves all of them so.
LEMMA TypedBecomes ==
  ASSUME Types, NEW t \in Txns, NEW x \in Transaction, x.req = NoRequest => x = Idle,
         Become(t, x), db' \in [Rows -> Statuses]
  PROVE  Types'
<1>1. tx' = [tx EXCEPT ![t] = x]
  BY DEF Become
<1>2. tx' \in [Txns -> Transaction]
  BY <1>1 DEF Types
<1>3. ASSUME NEW u \in Txns, tx'[u].req = NoRequest PROVE tx'[u] = Idle
  <2>1. CASE u = t
    BY <1>3, <2>1, Becomes
  <2>2. CASE u # t
    <3>1. tx'[u] = tx[u]
      BY <2>2, Becomes
    <3>2. QED
      BY <1>3, <3>1 DEF Types
  <2>3. QED
    BY <2>1, <2>2
<1>4. QED
  BY <1>2, <1>3 DEF Types, Idle, NoWrites

\* A step leaves every connection well formed.
LEMMA TypesStep ==
  ASSUME EveryDealHasAProject, Types, TypeOK, NEW t \in Txns, Placed(t),
         Ask(t) \/ Step(t) \/ Crash(t)
  PROVE  Types'
<1> DEFINE s == Head(tx[t].todo)
           Well(x) == x \in Transaction /\ (x.req = NoRequest => x = Idle)
<1>1. tx[t] \in Transaction /\ db \in [Rows -> Statuses]
  BY DEF Types
<1>2. Well(Idle)
  BY IdleIsTyped
<1>3. \A r \in Rows : View(t, r) \in Statuses
  BY <1>1 DEF View, Transaction
<1>4. ASSUME tx[t].todo # <<>>
      PROVE  /\ Well(Done(tx[t])) /\ s \in Statement /\ tx[t].req # NoRequest
             /\ \A r \in Rows, status \in Statuses : Well([Done(tx[t]) EXCEPT !.own[r] = status])
             /\ \A list \in Seq(Statement) : Well([tx[t] EXCEPT !.todo = list])
  <2>1. tx[t].req # NoRequest
    BY <1>4 DEF Types, Idle
  <2>2. s \in Statement /\ Tail(tx[t].todo) \in Seq(Statement)
    BY <1>1, <1>4, HeadTailProperties DEF Transaction
  <2>3. Done(tx[t]) = [tx[t] EXCEPT !.todo = Tail(tx[t].todo)]
    BY DEF Done
  <2>4. Done(tx[t]) \in Transaction /\ Done(tx[t]).req = tx[t].req
    BY <1>1, <2>2, <2>3 DEF Transaction
  <2>5. ASSUME NEW r \in Rows, NEW status \in Statuses
        PROVE  Well([Done(tx[t]) EXCEPT !.own[r] = status])
    BY <2>1, <2>4 DEF Transaction
  <2>6. ASSUME NEW list \in Seq(Statement) PROVE Well([tx[t] EXCEPT !.todo = list])
    BY <1>1, <2>1 DEF Transaction
  <2>7. QED
    BY <2>1, <2>2, <2>4, <2>5, <2>6
<1>5. \E x : Well(x) /\ Become(t, x) /\ db' \in [Rows -> Statuses]
  <2>1. CASE Ask(t)
    <3>1. PICK req \in Requests : Become(t, [Idle EXCEPT !.req = req, !.todo = Program(req)])
      BY <2>1 DEF Ask
    <3>2. req # NoRequest
      BY RequestOf DEF NoRequest
    <3>3. [Idle EXCEPT !.req = req, !.todo = Program(req)] \in Transaction
      BY IdleIsTyped, ProgramTyped DEF Transaction
    <3>4. [Idle EXCEPT !.req = req, !.todo = Program(req)].req = req
      BY IdleIsTyped DEF Transaction
    <3>5. db' = db
      BY <2>1 DEF Ask
    <3>6. QED
      BY <1>1, <3>1, <3>2, <3>3, <3>4, <3>5
  <2>2. CASE Crash(t)
    <3>1. Become(t, Idle) /\ db' = db
      BY <2>2 DEF Crash, Refuse
    <3>2. QED
      BY <1>1, <1>2, <3>1
  <2>3. CASE Commit(t)
    <3>1. Become(t, Idle) /\ db' = [r \in Rows |-> View(t, r)]
      BY <2>3 DEF Commit
    <3>2. db' \in [Rows -> Statuses]
      BY <1>3, <3>1
    <3>3. QED
      BY <1>2, <3>1, <3>2
  <2>4. CASE RunCheck(t)
    <3>1. db' = db /\ tx[t].todo # <<>> /\ (Become(t, Done(tx[t])) \/ Become(t, Idle))
      BY <2>4 DEF RunCheck, Runs, Refuse
    <3>2. QED
      BY <1>1, <1>2, <1>4, <3>1
  <2>5. CASE RunUpdate(t)
    <3>1. /\ db' = db /\ tx[t].todo # <<>> /\ s \in Statement /\ s.row \in Rows
          /\ s.kind \in {"cas", "quiet", "touch"}
      <4>1. Runs(t, {"cas", "quiet", "touch"}) /\ db' = db
        BY <2>5 DEF RunUpdate
      <4>2. QED
        BY <4>1, NextIs
    <3>2. CASE s.kind = "touch"
      <4>1. Become(t, [Done(tx[t]) EXCEPT !.own[s.row] = View(t, s.row)])
        BY <2>5, <3>2 DEF RunUpdate
      <4>2. QED
        BY <1>1, <1>3, <1>4, <3>1, <4>1
    <3>3. CASE s.kind # "touch"
      <4>1. \/ Become(t, [Done(tx[t]) EXCEPT !.own[s.row] = s.to])
            \/ Become(t, Idle) \/ Become(t, Done(tx[t]))
        BY <2>5, <3>1, <3>3 DEF RunUpdate, Refuse
      <4>2. s.to \in Statuses
        BY <3>1, <3>3 DEF Statement
      <4>3. QED
        BY <1>1, <1>2, <1>4, <3>1, <4>1, <4>2
    <3>4. QED
      BY <3>2, <3>3
  <2>6. CASE RunInsert(t)
    <3>1. /\ db' = db /\ tx[t].todo # <<>> /\ s \in Statement /\ s.row \in Rows /\ s.kind = "insert"
      <4>1. Runs(t, {"insert"}) /\ db' = db
        BY <2>6 DEF RunInsert
      <4>2. QED
        BY <4>1, NextIs
    <3>2. Become(t, [Done(tx[t]) EXCEPT !.own[s.row] = s.to]) \/ Become(t, Idle)
      BY <2>6 DEF RunInsert, Refuse
    <3>3. s.to \in Statuses
      BY <3>1 DEF Statement
    <3>4. QED
      BY <1>1, <1>2, <1>4, <3>1, <3>2, <3>3
  <2>7. CASE RunAdvance(t)
    <3> DEFINE list == AdvanceTo(s.row, View(t, s.row), s.to) \o Tail(tx[t].todo)
    <3>1. db' = db /\ tx[t].todo # <<>> /\ s \in Statement /\ s.row \in Rows /\ s.kind = "advance"
      <4>1. Runs(t, {"advance"}) /\ db' = db
        BY <2>7 DEF RunAdvance
      <4>2. QED
        BY <4>1, NextIs
    <3>2. Become(t, [tx[t] EXCEPT !.todo = list])
      BY <2>7 DEF RunAdvance
    <3>3. Quiet(s.row, {View(t, s.row)}, s.to) \in Statement
      <4>1. s.to \in Statuses
        BY <3>1, StatusesAre DEF Statement
      <4>2. QED
        BY <1>3, <3>1, <4>1, StatementsAre
    <3>4. AdvanceTo(s.row, View(t, s.row), s.to) \in Seq(Statement)
      BY <3>3 DEF AdvanceTo
    <3>5. Tail(tx[t].todo) \in Seq(Statement)
      BY <1>1, <3>1, HeadTailProperties DEF Transaction
    <3>6. list \in Seq(Statement)
      BY <3>4, <3>5, ConcatProperties
    <3>7. QED
      BY <1>1, <1>4, <3>1, <3>2, <3>6
  <2>8. CASE RunMove(t)
    <3> DEFINE now == View(t, s.row)
               cas == Cas(s.row, {now}, s.to)
               stamp == Quiet(<<"won", s.row[2]>>, {"NONE", "YES"}, "YES")
               list == <<cas>> \o (IF s.to = "CONTRACT" THEN <<stamp>> ELSE <<>>)
    <3>1. db' = db /\ tx[t].todo # <<>> /\ s \in Statement /\ s.row \in Rows /\ s.kind = "move"
      <4>1. Runs(t, {"move"}) /\ db' = db
        BY <2>8 DEF RunMove
      <4>2. QED
        BY <4>1, NextIs
    <3>2. Become(t, Idle) \/ Become(t, [tx[t] EXCEPT !.todo = list])
      BY <2>8 DEF RunMove, Refuse
    <3>3. cas \in Statement /\ stamp \in Statement
      <4>1. s.to \in Statuses /\ s.row[2] \in Projects
        BY <3>1, StatusesAre DEF Statement
      <4>2. <<"won", s.row[2]>> \in Rows
        BY <4>1, RowsOfTables
      <4>3. now \in Statuses
        BY <1>3, <3>1
      <4>4. QED
        BY <3>1, <4>1, <4>2, <4>3, StatementsAre, StatusesAre
    <3> HIDE DEF cas, stamp
    <3>4. <<cas>> \o <<stamp>> = <<cas, stamp>> /\ <<cas>> \o <<>> = <<cas>>
      BY OneAfterOne
    <3>5. <<cas>> \in Seq(Statement) /\ <<cas, stamp>> \in Seq(Statement)
      BY <3>3
    <3>6. list \in Seq(Statement)
      BY <3>4, <3>5
    <3> HIDE DEF list
    <3>7. QED
      BY <1>1, <1>2, <1>4, <3>1, <3>2, <3>6
  <2>9. QED
    BY <2>1, <2>2, <2>3, <2>4, <2>5, <2>6, <2>7, <2>8 DEF Step
<1>6. QED
  BY <1>5, TypedBecomes

\* A step writes a row it held already, or one that nobody else holds.
LEMMA WritesStep ==
  ASSUME EveryDealHasAProject, Types, TypeOK, NEW t \in Txns, Placed(t),
         Ask(t) \/ Step(t) \/ Crash(t), NEW r \in Rows, tx'[t].own[r] # Same
  PROVE  tx[t].own[r] # Same \/ ~Held(t, r)
<1>1. tx'[t] # Idle
  BY DEF Idle, NoWrites
<1>2. ~Commit(t) /\ ~Crash(t)
  BY <1>1, Becomes DEF Commit, Crash, Refuse
<1>3. ~Ask(t)
  <2> SUFFICES ASSUME Ask(t) PROVE FALSE
    OBVIOUS
  <2>1. PICK req \in Requests : Become(t, [Idle EXCEPT !.req = req, !.todo = Program(req)])
    BY DEF Ask
  <2>2. tx'[t] = [Idle EXCEPT !.req = req, !.todo = Program(req)]
    BY <2>1, Becomes
  <2>3. QED
    BY <2>2 DEF Idle, NoWrites
<1>4. tx[t].own \in [Rows -> Statuses \cup {Same}]
  BY ProgOf
<1>5. CASE RunCheck(t)
  BY <1>1, <1>5, CheckIs DEF Passed
<1>6. CASE RunUpdate(t)
  BY <1>1, <1>4, <1>6, UpdateIs DEF Passed, Wrote
<1>7. CASE RunInsert(t)
  BY <1>1, <1>4, <1>7, InsertIs DEF Passed, Wrote
<1>8. CASE RunAdvance(t)
  BY <1>8, AdvanceIs
<1>9. CASE RunMove(t)
  BY <1>1, <1>9, MoveIs
<1>10. QED
  BY <1>2, <1>3, <1>5, <1>6, <1>7, <1>8, <1>9 DEF Step

\* Every step keeps the invariant.
LEMMA InvariantStep ==
  ASSUME EveryDealHasAProject, SameIsNoStatus, SalesInvariant, [Next]_vars
  PROVE  SalesInvariant'
<1>1. CASE UNCHANGED vars
  <2>1. db' = db /\ tx' = tx
    BY <1>1 DEF vars
  <2>2. Types' /\ TypeOK' /\ SignedIsWon' /\ WritersAreAlone'
    BY <2>1 DEF SalesInvariant, Types, TypeOK, SignedIsWon, WritersAreAlone
  <2>3. ASSUME NEW t \in Txns PROVE Placed(t)' /\ Prudent(t)'
    <3>1. Placed(t)'
      BY <2>1, PlacedFrame DEF SalesInvariant
    <3>2. Prudent(t)'
      BY <2>1 DEF SalesInvariant, Prudent, Prog, Stage, Proforma, View
    <3>3. QED
      BY <3>1, <3>2
  <2>4. QED
    BY <2>2, <2>3 DEF SalesInvariant
<1>2. CASE Next
  <2>1. PICK t \in Txns : Ask(t) \/ Step(t) \/ Crash(t)
    BY <1>2 DEF Next
  <2>2. Types /\ TypeOK /\ SignedIsWon /\ WritersAreAlone /\ \A u \in Txns : Placed(u) /\ Prudent(u)
    BY DEF SalesInvariant
  <2>3. Types'
    BY <2>1, <2>2, TypesStep
  <2>4. \A u \in Txns : u # t => tx'[u] = tx[u]
    <3>1. \E x : Become(t, x)
      <4>1. Ask(t) \/ Crash(t) \/ Commit(t) => \E x : Become(t, x)
        BY DEF Ask, Crash, Commit, Refuse
      <4>2. RunCheck(t) \/ RunInsert(t) => \E x : Become(t, x)
        BY DEF RunCheck, RunInsert, Refuse
      <4>3. RunAdvance(t) \/ RunMove(t) => \E x : Become(t, x)
        BY DEF RunAdvance, RunMove, Refuse
      <4>4. RunUpdate(t) => \E x : Become(t, x)
        <5> DEFINE s == Head(tx[t].todo)
        <5>1. SUFFICES ASSUME RunUpdate(t) PROVE \E x : Become(t, x)
          OBVIOUS
        <5>2. s.kind \in {"cas", "quiet", "touch"}
          BY <2>2, <5>1, UpdateIs
        <5>3. QED
          BY <5>1, <5>2 DEF RunUpdate, Refuse
      <4>5. QED
        BY <2>1, <4>1, <4>2, <4>3, <4>4 DEF Step
    <3>2. QED
      BY <2>2, <3>1, Becomes
  <2>5. WritersAreAlone'
    <3> SUFFICES ASSUME NEW u \in Txns, NEW w \in Txns, NEW r \in Rows, u # w, tx'[u].own[r] # Same
                 PROVE  tx'[w].own[r] = Same
      BY DEF WritersAreAlone
    <3>1. CASE u = t
      <4>1. tx[u].own[r] # Same \/ ~Held(u, r)
        BY <2>1, <2>2, <3>1, WritesStep
      <4>2. tx[w].own[r] = Same
        BY <2>2, <4>1 DEF Held, WritersAreAlone
      <4>3. QED
        BY <2>4, <3>1, <4>2
    <3>2. CASE w = t
      <4>1. tx[u].own[r] # Same
        BY <2>4, <3>2
      <4>2. tx[w].own[r] = Same /\ Held(w, r)
        BY <2>2, <4>1 DEF Held, WritersAreAlone
      <4>3. QED
        BY <2>1, <2>2, <3>2, <4>2, WritesStep
    <3>3. CASE u # t /\ w # t
      BY <2>2, <2>4, <3>3 DEF WritersAreAlone
    <3>4. QED
      BY <3>1, <3>2, <3>3
  <2>6. ~Commit(t) => db' = db
    BY <2>1 DEF Ask, Step, Crash, RunCheck, RunUpdate, RunInsert, RunAdvance, RunMove
  <2>7. TypeOK' /\ SignedIsWon'
    <3>1. CASE Commit(t)
      BY <2>2, <3>1, CommitKeepsPapers, CommitKeepsStages
    <3>2. CASE ~Commit(t)
      BY <2>2, <2>6, <3>2 DEF TypeOK, SignedIsWon
    <3>3. QED
      BY <3>1, <3>2
  <2>8. ASSUME NEW u \in Txns PROVE Placed(u)' /\ Prudent(u)'
    <3>1. CASE u = t
      BY <2>1, <2>2, <3>1, PlacedStep, PrudentStep
    <3>2. CASE u # t
      <4>1. tx'[u] = tx[u]
        BY <2>4, <3>2
      <4>2. \A r \in Rows : tx[u].own[r] # Same => db'[r] = db[r]
        <5>1. CASE ~Commit(t)
          BY <2>6, <5>1
        <5>2. CASE Commit(t)
          <6> SUFFICES ASSUME NEW r \in Rows, tx[u].own[r] # Same PROVE db'[r] = db[r]
            OBVIOUS
          <6>1. tx[t].own[r] = Same
            BY <2>2, <3>2 DEF WritersAreAlone
          <6>2. db'[r] = View(t, r)
            BY <2>2, <5>2, CommitIs
          <6>3. QED
            BY <6>1, <6>2 DEF View
        <5>3. QED
          BY <5>1, <5>2
      <4>3. Placed(u)'
        BY <2>2, <4>1, <4>2, PlacedFrame
      <4>4. Prudent(u)'
        <5>1. CASE Commit(t)
          BY <2>2, <4>1, <4>2, <5>1, PrudentFrame
        <5>2. CASE ~Commit(t)
          <6>1. db' = db
            BY <2>6, <5>2
          <6>2. QED
            BY <2>2, <4>1, <6>1 DEF Prudent, Prog, Stage, Proforma, View
        <5>3. QED
          BY <5>1, <5>2
      <4>5. QED
        BY <4>3, <4>4
    <3>3. QED
      BY <3>1, <3>2
  <2>9. QED
    BY <2>3, <2>5, <2>7, <2>8 DEF SalesInvariant
<1>3. QED
  BY <1>1, <1>2

\* It holds at the start.
LEMMA InvariantInit ==
  ASSUME StartsAreSound, Init
  PROVE  SalesInvariant
<1>1. db \in Starts /\ tx = [t \in Txns |-> Idle]
  BY DEF Init
<1>2. TypeOK /\ SignedIsWon
  BY <1>1 DEF StartsAreSound, TypeOK, SignedIsWon
<1>3. \A t \in Txns : tx[t] = Idle /\ tx[t].req = NoRequest
  BY <1>1, IdleIsTyped
<1>4. Types
  <2>1. tx \in [Txns -> Transaction]
    BY <1>1, IdleIsTyped
  <2>2. db \in [Rows -> Statuses]
    BY <1>2 DEF TypeOK, PapersFit
  <2>3. QED
    BY <1>3, <2>1, <2>2 DEF Types
<1>5. WritersAreAlone
  BY <1>3 DEF WritersAreAlone, Idle, NoWrites
<1>6. \A t \in Txns : Placed(t) /\ Prudent(t)
  BY <1>3 DEF Placed, Prudent, NoRequest
<1>7. QED
  BY <1>2, <1>4, <1>5, <1>6 DEF SalesInvariant

-----------------------------------------------------------------------------
(* Waiting.                                                                *)

\* A transaction that has to write a row holds only rows before it.
LEMMA AwaitedIsHigher ==
  ASSUME EveryDealHasAProject, Types, NEW t \in Txns, Placed(t),
         Runs(t, {"cas", "quiet", "touch", "insert"}), NEW r \in Rows, tx[t].own[r] # Same
  PROVE  Level(r) < Level(Head(tx[t].todo).row)
<1> DEFINE s == Head(tx[t].todo)
<1>1. /\ tx[t].todo # <<>> /\ tx[t].req # NoRequest /\ s.kind \in {"cas", "quiet", "touch", "insert"}
  BY NextIs
<1>2. /\ tx[t].req \in Requests /\ Prog(t) \in Seq(Statement) /\ Len(Prog(t)) \in Nat
  BY <1>1, ProgOf, LenProperties
<1>3. ASSUME NEW k \in Nat, k + 1 \in 1..Len(Prog(t)), RanUpTo(t, k), Prog(t)[k + 1].kind # "check"
      PROVE  Level(r) < Level(Prog(t)[k + 1].row)
  <2>1. PICK m \in 1..k : Prog(t)[m].kind # "check" /\ r = Prog(t)[m].row
    BY <1>3 DEF RanUpTo
  <2>2. m \in 1..Len(Prog(t)) /\ m < k + 1
    BY <1>2, <1>3
  <2>3. QED
    BY <1>2, <1>3, <2>1, <2>2, ProgramAscends DEF Prog
<1>4. CASE \E k \in Nat : AtStatement(t, k)
  <2>1. PICK k \in Nat : AtStatement(t, k)
    BY <1>4
  <2>2. k + 1 \in 1..Len(Prog(t)) /\ s = Prog(t)[k + 1] /\ RanUpTo(t, k)
    BY <1>1, <2>1, HeadAt DEF AtStatement
  <2>3. QED
    BY <1>1, <1>3, <2>2
<1>5. CASE AtAdvance(t)
  <2>1. PICK now \in DOMAIN Rank, k \in Nat :
          /\ k + 1 = Len(Prog(t)) /\ Prog(t)[k + 1].kind = "advance" /\ RanUpTo(t, k)
          /\ tx[t].todo = <<Quiet(Prog(t)[k + 1].row, {now}, Prog(t)[k + 1].to)>>
    <3>1. Len(Prog(t)) > 0 => Len(Prog(t)) - 1 \in Nat /\ (Len(Prog(t)) - 1) + 1 = Len(Prog(t))
      BY <1>2
    <3>2. QED
      BY <1>5, <3>1 DEF AtAdvance
  <2>2. s.row = Prog(t)[k + 1].row
    BY <2>1 DEF Quiet
  <2>3. k + 1 \in 1..Len(Prog(t))
    BY <1>2, <2>1
  <2>4. QED
    BY <1>3, <2>1, <2>2, <2>3
<1>6. CASE AtMove(t)
  <2> DEFINE row == <<"project", tx[t].req.of>>
             won == <<"won", tx[t].req.of>>
  <2>1. tx[t].todo = <<Quiet(won, {"NONE", "YES"}, "YES")>> /\ \A q \in Rows \ {row} : tx[t].own[q] = Same
    BY <1>1, <1>6 DEF AtMove
  <2>2. r = row /\ s.row = won
    BY <2>1 DEF Quiet
  <2>3. QED
    BY <2>2 DEF Level
<1>7. QED
  BY <1>1, <1>4, <1>5, <1>6 DEF Placed

\* Whoever waits for a row waits for one that comes after all it holds, so no
\* set of transactions waits for itself.
LEMMA NobodyWaitsInACircle ==
  ASSUME EveryDealHasAProject, SalesInvariant
  PROVE  NoDeadlock
<1> SUFFICES ASSUME NEW S \in SUBSET Txns, S # {}, \A t \in S : WaitsFor(t) \cap S # {}
             PROVE  FALSE
  BY DEF NoDeadlock
<1> DEFINE W(t) == Level(Head(tx[t].todo).row)
<1>1. Types /\ \A t \in Txns : Placed(t)
  BY DEF SalesInvariant
<1>2. ASSUME NEW t \in S
      PROVE  /\ Runs(t, {"cas", "quiet", "touch", "insert"}) /\ Head(tx[t].todo).row \in Rows
             /\ W(t) \in 0..5
             /\ \E u \in S : tx[u].own[Head(tx[t].todo).row] # Same
  <2>1. WaitsFor(t) \cap S # {}
    OBVIOUS
  <2>2. Runs(t, {"cas", "quiet", "touch", "insert"})
    BY <2>1 DEF WaitsFor
  <2>3. Head(tx[t].todo).row \in Rows
    BY <1>1, <2>2, NextIs
  <2>4. \E u \in S : tx[u].own[Head(tx[t].todo).row] # Same
    BY <2>1, <2>2 DEF WaitsFor
  <2>5. QED
    BY <2>2, <2>3, <2>4, LevelIsNumber
<1>3. ASSUME NEW t \in S PROVE \E u \in S : W(t) < W(u)
  <2>1. PICK u \in S : tx[u].own[Head(tx[t].todo).row] # Same
    BY <1>2
  <2>2. Head(tx[t].todo).row \in Rows /\ Runs(u, {"cas", "quiet", "touch", "insert"})
    BY <1>2
  <2>3. W(t) < W(u)
    BY <1>1, <2>1, <2>2, AwaitedIsHigher
  <2>4. QED
    BY <2>3
<1>4. \A t \in S : W(t) \in 0..5
  BY <1>2
<1> HIDE DEF W
<1>5. PICK a \in S, b \in S, c \in S : W(a) < W(b) /\ W(b) < W(c)
  <2>1. PICK a \in S, b \in S : W(a) < W(b)
    BY <1>3
  <2>2. QED
    BY <1>3, <2>1
<1>6. PICK d \in S, e \in S : W(c) < W(d) /\ W(d) < W(e)
  <2>1. PICK d \in S : W(c) < W(d)
    BY <1>3
  <2>2. QED
    BY <1>3, <2>1
<1>7. PICK f \in S, g \in S : W(e) < W(f) /\ W(f) < W(g)
  <2>1. PICK f \in S : W(e) < W(f)
    BY <1>3
  <2>2. QED
    BY <1>3, <2>1
<1>8. /\ W(a) \in 0..5 /\ W(b) \in 0..5 /\ W(c) \in 0..5 /\ W(d) \in 0..5
      /\ W(e) \in 0..5 /\ W(f) \in 0..5 /\ W(g) \in 0..5
  BY <1>4
<1>9. QED
  BY <1>5, <1>6, <1>7, <1>8

-----------------------------------------------------------------------------
(* What a step does to stages and contracts.                               *)

\* A step that changes the database commits a transaction.
LEMMA ChangesAreCommits ==
  ASSUME Next, db' # db
  PROVE  \E t \in Txns : Commit(t)
BY DEF Next, Ask, Step, Crash, RunCheck, RunUpdate, RunInsert, RunAdvance, RunMove

\* A stage moves along the spine, or to cancellation.
LEMMA StagesAdvanceStep ==
  ASSUME EveryDealHasAProject, SalesInvariant, [Next]_vars
  PROVE  [StagesAdvance]_vars
<1>1. CASE UNCHANGED vars
  BY <1>1
<1>2. CASE Next
  <2> SUFFICES ASSUME NEW p \in Projects
               PROVE  LET old == Stage(p)  new == db'[<<"project", p>>] IN
                      old \notin {"NONE", new} =>
                        /\ old \notin {"CANCELLED", "COMPLETED"}
                        /\ new = "CANCELLED" \/ Rank[new] > Rank[old]
    BY DEF StagesAdvance
  <2>1. CASE db' = db
    BY <2>1 DEF Stage
  <2>2. CASE db' # db
    <3>1. PICK t \in Txns : Commit(t)
      BY <1>2, <2>2, ChangesAreCommits
    <3>2. Onward(Stage(p), db'[<<"project", p>>])
      BY <3>1, StagesMove DEF SalesInvariant
    <3>3. QED
      BY <3>2 DEF Onward, Rank
  <2>3. QED
    BY <2>1, <2>2
<1>3. QED
  BY <1>1, <1>2

\* A contract moves along its life.
LEMMA ContractsAdvanceStep ==
  ASSUME EveryDealHasAProject, SalesInvariant, [Next]_vars
  PROVE  [ContractsAdvance]_vars
<1>1. CASE UNCHANGED vars
  BY <1>1
<1>2. CASE Next
  <2> SUFFICES ASSUME NEW d \in Deals, Contract(d) # db'[<<"contract", d>>]
               PROVE  <<Contract(d), db'[<<"contract", d>>]>> \in
                        {<<"NONE", "DRAFT">>, <<"DRAFT", "SIGNED">>, <<"DRAFT", "CANCELLED">>,
                         <<"SIGNED", "COMPLETED">>, <<"SIGNED", "CANCELLED">>}
    BY DEF ContractsAdvance, Contract
  <2>1. db' # db
    BY DEF Contract
  <2>2. PICK t \in Txns : Commit(t)
    BY <1>2, <2>1, ChangesAreCommits
  <2>3. QED
    BY <2>2, PapersMove DEF SalesInvariant, Contract, Papers
<1>3. QED
  BY <1>1, <1>2

\* A stage that follows a paper does so with it.
LEMMA StagesFollowStep ==
  ASSUME EveryDealHasAProject, SameIsNoStatus, SalesInvariant, [Next]_vars
  PROVE  [StagesFollow]_vars
<1>1. CASE UNCHANGED vars
  BY <1>1
<1>2. CASE Next
  <2> SUFFICES ASSUME NEW p \in Projects, NEW new, new = db'[<<"project", p>>],
                      new # Stage(p), new \in {"CONTRACT", "COMPLETED"}, ~MovedByHand(p)
               PROVE  \E d \in Deals :
                        /\ ProjectOf[d] = p /\ Contract(d) # db'[<<"contract", d>>]
                        /\ db'[<<"contract", d>>] = IF new = "CONTRACT" THEN "SIGNED" ELSE "COMPLETED"
    BY DEF StagesFollow
  <2>1. db' # db
    BY DEF Stage
  <2>2. PICK t \in Txns : Commit(t)
    BY <1>2, <2>1, ChangesAreCommits
  <2>3. Types /\ Placed(t)
    BY DEF SalesInvariant
  <2>4. PICK r \in Rows : r = <<"project", p>>
    BY RowsOfTables
  <2>5. db'[r] = new /\ db'[r] # db[r]
    BY <2>4 DEF Stage
  <2>6. tx[t].own[r] = new /\ Changes(t, r) /\ tx'[t] = Idle
    BY <2>2, <2>3, <2>5, CommitIs
  <2>7. ~(tx[t].req.op = "moveProject" /\ r = <<"project", tx[t].req.of>>)
    BY <2>4, <2>6 DEF MovedByHand
  <2>8. PICK d \in Deals :
          /\ d = tx[t].req.of /\ ProjectOf[d] = p
          /\ \/ tx[t].req.op = "signContract" /\ new = "CONTRACT"
             \/ tx[t].req.op = "handover" /\ new = "COMPLETED"
    BY <2>4, <2>6, <2>7 DEF Changes
  <2>9. /\ tx[t].req.op = "signContract" => Contract(d) = "DRAFT" /\ db'[<<"contract", d>>] = "SIGNED"
        /\ tx[t].req.op = "handover" => Contract(d) = "SIGNED" /\ db'[<<"contract", d>>] = "COMPLETED"
    BY <2>2, <2>3, <2>8, CommitIsWhole
  <2>10. QED
    BY <2>8, <2>9
<1>3. QED
  BY <1>1, <1>2

-----------------------------------------------------------------------------
(* Theorems.                                                               *)

\* The invariant holds in every behaviour.
THEOREM SalesHolds ==
  ASSUME Parameters
  PROVE  Spec => []SalesInvariant
<1>1. Init => SalesInvariant
  BY InvariantInit DEF Parameters
<1>2. SalesInvariant /\ [Next]_vars => SalesInvariant'
  BY InvariantStep DEF Parameters
<1>3. QED
  BY <1>1, <1>2, PTL DEF Spec

\* Every paper has the paper it was made from, and a converted quotation its
\* proforma, however requests interleave or die.
THEOREM PapersHaveTheirSources ==
  ASSUME Parameters
  PROVE  Spec => []TypeOK
<1>1. SalesInvariant => TypeOK
  BY DEF SalesInvariant
<1>2. QED
  BY <1>1, SalesHolds, PTL

\* A signed contract's project is won and a quoted one is no lead: the silent miss of
\* autoAdvanceProject never leaves them behind.
THEOREM SignedProjectsAreWon ==
  ASSUME Parameters
  PROVE  Spec => []SignedIsWon
<1>1. SalesInvariant => SignedIsWon
  BY DEF SalesInvariant
<1>2. QED
  BY <1>1, SalesHolds, PTL

\* Requests on papers, counters, projects and customers never wait in a circle.
THEOREM NoCircle ==
  ASSUME Parameters
  PROVE  Spec => []NoDeadlock
<1>1. SalesInvariant => NoDeadlock
  BY NobodyWaitsInACircle DEF Parameters
<1>2. QED
  BY <1>1, SalesHolds, PTL

\* No interleaving takes a project backwards or out of CANCELLED or COMPLETED.
THEOREM ProjectsOnlyAdvance ==
  ASSUME Parameters
  PROVE  Spec => [][StagesAdvance]_vars
<1>1. SalesInvariant /\ [Next]_vars => [StagesAdvance]_vars
  BY StagesAdvanceStep DEF Parameters
<1>2. QED
  BY <1>1, SalesHolds, PTL DEF Spec

\* Of requests that sign, hand over or cancel one contract at once, one wins.
THEOREM ContractsOnlyAdvance ==
  ASSUME Parameters
  PROVE  Spec => [][ContractsAdvance]_vars
<1>1. SalesInvariant /\ [Next]_vars => [ContractsAdvance]_vars
  BY ContractsAdvanceStep DEF Parameters
<1>2. QED
  BY <1>1, SalesHolds, PTL DEF Spec

\* Unless moved by hand, a project is won or completed only with its contract.
THEOREM ProjectsFollowContracts ==
  ASSUME Parameters
  PROVE  Spec => [][StagesFollow]_vars
<1>1. SalesInvariant /\ [Next]_vars => [StagesFollow]_vars
  BY StagesFollowStep DEF Parameters
<1>2. QED
  BY <1>1, SalesHolds, PTL DEF Spec

=============================================================================
