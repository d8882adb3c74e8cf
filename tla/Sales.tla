------------------------------- MODULE Sales -------------------------------
(***************************************************************************)
(* The paper trail of a sale: a customer's project, its quotations, the    *)
(* proforma of each, the contract and the invoice of each proforma, and    *)
(* the stage of the project that follows the papers.                       *)
(*                                                                         *)
(* A row is its status.  A request is a list of statements, run one by one *)
(* in a READ COMMITTED transaction: a statement sees what is committed and *)
(* its own writes, and a written row stays locked to the end.  The inside  *)
(* of a quotation is module Quotation, the money of an invoice Ledger.     *)
(***************************************************************************)
EXTENDS FiniteSets, Integers, Sequences

CONSTANTS
  Txns,         \* connections of the API
  Projects,     \* projects of one customer
  Deals,        \* quotations; a proforma, a contract, an invoice bear its name
  ProjectOf,    \* the project a quotation is for
  Starts,       \* the database to begin with
  Offered,      \* the kinds of request clients send
  MaxRequests,  \* bound: requests ever sent
  MaxCrashes,   \* bound: processes that die
  Same          \* no uncommitted version of a row

EveryDealHasAProject == ProjectOf \in [Deals -> Projects]

VARIABLES
  db,     \* the committed status of every row
  tx,     \* each connection's request and transaction
  asked, crashes

vars == <<db, tx, asked, crashes>>

Papers == {"quotation", "proforma", "contract", "invoice"}
Counters == {"PROFORMA", "CONTRACT", "INVOICE"}

\* "won" is the column won_at of the project.
Rows ==
  {<<"customer">>} \cup ({"project", "won"} \X Projects) \cup (Papers \X Deals)
  \cup ({"sequence"} \X Counters)

Stages == {"LEAD", "QUOTATION", "CONTRACT", "EXECUTION", "COMPLETED", "CANCELLED"}

\* PROJECT_STATUS_TRANSITIONS
StageMoves ==
  [LEAD      |-> {"QUOTATION", "CANCELLED"},
   QUOTATION |-> {"CONTRACT", "CANCELLED"},
   CONTRACT  |-> {"EXECUTION", "CANCELLED"},
   EXECUTION |-> {"COMPLETED"},
   COMPLETED |-> {}, CANCELLED |-> {}]

\* projectStageRank: the place on the spine; a cancelled project has none, nor
\* has one that is not there.
Rank == [LEAD |-> 0, QUOTATION |-> 1, CONTRACT |-> 2, EXECUTION |-> 3, COMPLETED |-> 4]

-----------------------------------------------------------------------------
(* Statements.                                                             *)

Check(rows, in)     == [kind |-> "check", rows |-> rows, in |-> in]
Cas(row, from, to)  == [kind |-> "cas", row |-> row, from |-> from, to |-> to]
Quiet(row, from, to) == [kind |-> "quiet", row |-> row, from |-> from, to |-> to]
Touch(row)          == [kind |-> "touch", row |-> row]
Insert(row, to)     == [kind |-> "insert", row |-> row, to |-> to]
Move(p, to)         == [kind |-> "move", row |-> <<"project", p>>, to |-> to]
Advance(p, to)      == [kind |-> "advance", row |-> <<"project", p>>, to |-> to]

\* The gapless number of a document: its counter is locked.
Claim(counter) == Touch(<<"sequence", counter>>)

Exists == {"DRAFT", "PENDING_APPROVAL", "CONVERTED_TO_PROFORMA", "ISSUED", "SIGNED", "COMPLETED",
           "CANCELLED", "VOID"} \cup Stages

Statuses == Exists \cup {"NONE", "LIVE", "DELETED", "YES"}

-----------------------------------------------------------------------------
(* Databases.                                                              *)

PapersFit(rows) ==
  /\ rows \in [Rows -> Statuses]
  /\ \A p \in Projects : rows[<<"project", p>>] \in Stages \cup {"NONE"}
  /\ \A d \in Deals :
       /\ rows[<<"quotation", d>>] # "NONE" => rows[<<"project", ProjectOf[d]>>] # "NONE"
       /\ rows[<<"proforma", d>>] # "NONE" <=> rows[<<"quotation", d>>] = "CONVERTED_TO_PROFORMA"
       /\ rows[<<"contract", d>>] # "NONE" \/ rows[<<"invoice", d>>] # "NONE" =>
            rows[<<"proforma", d>>] # "NONE"

StagesFit(rows) ==
  \A d \in Deals :
    LET stage == rows[<<"project", ProjectOf[d]>>] IN
    /\ rows[<<"contract", d>>] \in {"SIGNED", "COMPLETED"} => stage \notin {"LEAD", "QUOTATION"}
    /\ rows[<<"quotation", d>>] # "NONE" => stage # "LEAD"

SameIsNoStatus  == Same \notin Statuses
StartsAreSound  == \A start \in Starts : PapersFit(start) /\ StagesFit(start)

-----------------------------------------------------------------------------
(* Requests, each the statements of its handler.                           *)

CreateProject(p) == <<Insert(<<"project", p>>, "LEAD")>>

MoveProject(p, to) == <<Move(p, to)>>

CreateQuotation(d) ==
  <<Check({<<"project", ProjectOf[d]>>}, Exists),
    Insert(<<"quotation", d>>, "DRAFT"),
    Advance(ProjectOf[d], "QUOTATION")>>

SubmitQuotation(d) == <<Cas(<<"quotation", d>>, {"DRAFT"}, "PENDING_APPROVAL")>>

IssueProforma(d) ==
  <<Cas(<<"quotation", d>>, {"PENDING_APPROVAL"}, "CONVERTED_TO_PROFORMA"),
    Claim("PROFORMA"),
    Insert(<<"proforma", d>>, "ISSUED"),
    Advance(ProjectOf[d], "QUOTATION")>>

CancelProforma(d) == <<Cas(<<"proforma", d>>, {"ISSUED"}, "CANCELLED")>>

IssueContract(d) ==
  <<Check({<<"proforma", d>>}, {"ISSUED"}),
    Check({<<"contract", d>>}, {"NONE"}),
    Claim("CONTRACT"),
    Insert(<<"contract", d>>, "DRAFT")>>

\* Mutant: the project stays where it is.
SignContractOnly(d) == <<Cas(<<"contract", d>>, {"DRAFT"}, "SIGNED")>>

SignContract(d) ==
  <<Cas(<<"contract", d>>, {"DRAFT"}, "SIGNED"), Advance(ProjectOf[d], "CONTRACT")>>

CancelContract(d) == <<Cas(<<"contract", d>>, {"DRAFT", "SIGNED"}, "CANCELLED")>>

Handover(d) ==
  <<Cas(<<"contract", d>>, {"SIGNED"}, "COMPLETED"), Advance(ProjectOf[d], "COMPLETED")>>

\* The customer row is touched by recomputeCustomerBalance.
IssueInvoice(d) ==
  <<Check({<<"proforma", d>>}, {"ISSUED"}),
    Claim("INVOICE"),
    Insert(<<"invoice", d>>, "ISSUED"),
    Touch(<<"customer">>)>>

VoidInvoice(d) == <<Cas(<<"invoice", d>>, {"ISSUED"}, "VOID"), Touch(<<"customer">>)>>

\* softDelete: projects and invoices are counted, then the row is marked.
DeleteCustomer ==
  <<Check({"project"} \X Projects, {"NONE"}),
    Check({"invoice"} \X Deals, {"NONE", "VOID"}),
    Cas(<<"customer">>, {"LIVE"}, "DELETED")>>

Requests ==
  [op : {"createProject"}, of : Projects]
  \cup [op : {"moveProject"}, of : Projects, to : Stages]
  \cup [op : {"createQuotation", "submitQuotation", "issueProforma", "cancelProforma",
              "issueContract", "signContract", "cancelContract", "handover",
              "issueInvoice", "voidInvoice"}, of : Deals]
  \cup [op : {"deleteCustomer"}]

Program(req) ==
  CASE req.op = "createProject"   -> CreateProject(req.of)
    [] req.op = "moveProject"     -> MoveProject(req.of, req.to)
    [] req.op = "createQuotation" -> CreateQuotation(req.of)
    [] req.op = "submitQuotation" -> SubmitQuotation(req.of)
    [] req.op = "issueProforma"   -> IssueProforma(req.of)
    [] req.op = "cancelProforma"  -> CancelProforma(req.of)
    [] req.op = "issueContract"   -> IssueContract(req.of)
    [] req.op = "signContract"    -> SignContract(req.of)
    [] req.op = "cancelContract"  -> CancelContract(req.of)
    [] req.op = "handover"        -> Handover(req.of)
    [] req.op = "issueInvoice"    -> IssueInvoice(req.of)
    [] req.op = "voidInvoice"     -> VoidInvoice(req.of)
    [] req.op = "deleteCustomer"  -> DeleteCustomer

-----------------------------------------------------------------------------
NoWrites == [r \in Rows |-> Same]

Idle == [req |-> [op |-> "none"], todo |-> <<>>, own |-> NoWrites]

Init ==
  /\ db \in Starts
  /\ tx = [t \in Txns |-> Idle]
  /\ asked = 0 /\ crashes = 0

Become(t, x) == tx' = [tx EXCEPT ![t] = x]

Refuse(t) == Become(t, Idle)

Ask(t) == \E req \in Requests :
  /\ tx[t] = Idle /\ asked < MaxRequests /\ req.op \in Offered
  /\ asked' = asked + 1
  /\ Become(t, [Idle EXCEPT !.req = req, !.todo = Program(req)])
  /\ UNCHANGED <<db, crashes>>

\* What a statement of t reads.
View(t, r) == IF tx[t].own[r] # Same THEN tx[t].own[r] ELSE db[r]

Held(t, r) == \E u \in Txns \ {t} : tx[u].own[r] # Same

Done(x) == [x EXCEPT !.todo = Tail(@)]

Runs(t, kinds) == tx[t].todo # <<>> /\ Head(tx[t].todo).kind \in kinds

\* A plain read: nothing is locked, what it saw may be over when it is used.
RunCheck(t) ==
  LET s == Head(tx[t].todo) IN
  /\ Runs(t, {"check"})
  /\ IF \A r \in s.rows : View(t, r) \in s.in THEN Become(t, Done(tx[t])) ELSE Refuse(t)
  /\ UNCHANGED <<db, asked, crashes>>

\* UPDATE ... WHERE status IN ...: waits for the row, then the condition is
\* tried on the row as it is by then.
RunUpdate(t) ==
  LET s   == Head(tx[t].todo)
      now == View(t, s.row)
  IN  /\ Runs(t, {"cas", "quiet", "touch"})
      /\ ~Held(t, s.row)
      /\ CASE s.kind = "touch" -> Become(t, [Done(tx[t]) EXCEPT !.own[s.row] = now])
           [] s.kind # "touch" /\ now \in s.from ->
                Become(t, [Done(tx[t]) EXCEPT !.own[s.row] = s.to])
           [] s.kind = "cas" /\ now \notin s.from   -> Refuse(t)
           [] s.kind = "quiet" /\ now \notin s.from -> Become(t, Done(tx[t]))
      /\ UNCHANGED <<db, asked, crashes>>

\* One contract and one invoice per proforma, one proforma per quotation: the
\* insert waits for whoever inserts the same, and refuses if it is there.
RunInsert(t) ==
  LET s == Head(tx[t].todo) IN
  /\ Runs(t, {"insert"})
  /\ ~Held(t, s.row)
  /\ IF View(t, s.row) = "NONE"
     THEN Become(t, [Done(tx[t]) EXCEPT !.own[s.row] = s.to])
     ELSE Refuse(t)
  /\ UNCHANGED <<db, asked, crashes>>

\* autoAdvanceProject, having read the stage: forward only, and only from it.
AdvanceTo(row, now, to) ==
  IF now \notin DOMAIN Rank \/ Rank[now] >= Rank[to] THEN <<>> ELSE <<Quiet(row, {now}, to)>>

\* The read of autoAdvanceProject.
RunAdvance(t) ==
  LET s == Head(tx[t].todo) IN
  /\ Runs(t, {"advance"})
  /\ Become(t, [tx[t] EXCEPT !.todo = AdvanceTo(s.row, View(t, s.row), s.to) \o Tail(@)])
  /\ UNCHANGED <<db, asked, crashes>>

\* ProjectsService.updateStatus: read, checked, then compared and set; winning
\* a project by hand stamps won_at.
RunMove(t) ==
  LET s   == Head(tx[t].todo)
      now == View(t, s.row)
  IN  /\ Runs(t, {"move"})
      /\ IF now = "NONE" \/ s.to \notin StageMoves[now] THEN Refuse(t)
         ELSE Become(t, [tx[t] EXCEPT !.todo =
                <<Cas(s.row, {now}, s.to)>>
                \o (IF s.to = "CONTRACT" THEN <<Quiet(<<"won", s.row[2]>>, {"NONE", "YES"}, "YES")>> ELSE <<>>)])
      /\ UNCHANGED <<db, asked, crashes>>

Commit(t) ==
  /\ tx[t] # Idle /\ tx[t].todo = <<>>
  /\ db' = [r \in Rows |-> View(t, r)]
  /\ Become(t, Idle)
  /\ UNCHANGED <<asked, crashes>>

\* The process or its connection dies: the transaction rolls back.
Crash(t) ==
  /\ tx[t] # Idle /\ crashes < MaxCrashes
  /\ crashes' = crashes + 1
  /\ Refuse(t)
  /\ UNCHANGED <<db, asked>>

Step(t) ==
  RunCheck(t) \/ RunUpdate(t) \/ RunInsert(t) \/ RunAdvance(t) \/ RunMove(t) \/ Commit(t)

Next == \E t \in Txns : Ask(t) \/ Step(t) \/ Crash(t)

Spec == Init /\ [][Next]_vars
-----------------------------------------------------------------------------
(* Properties.                                                             *)

Stage(p) == db[<<"project", p>>]
Contract(d) == db[<<"contract", d>>]
Proforma(d) == db[<<"proforma", d>>]

\* A row is as its table allows, a paper has the paper it was made from, and a
\* contract of an unconverted quotation does not exist.
TypeOK == PapersFit(db)

\* "Only forward moves along the spine ever happen; nothing here can move a
\* project backwards": whoever races whom, a committed stage is never undone,
\* and a cancelled or completed project stays that.
StagesAdvance ==
  \A p \in Projects :
    LET old == Stage(p)  new == db'[<<"project", p>>] IN
    old \notin {"NONE", new} =>
      /\ old \notin {"CANCELLED", "COMPLETED"}
      /\ new = "CANCELLED" \/ Rank[new] > Rank[old]

\* "a signed agreement sitting next to a project still at PROFORMA is exactly
\* the drift autoAdvanceProject exists to prevent": its silent miss never
\* leaves a signed contract with a project that is still being quoted, nor a
\* quotation with a lead.
SignedIsWon == StagesFit(db)

\* A contract signed or handed over stays as evidence: of two people who sign,
\* hand over or cancel at once one wins and the other's change never appears.
ContractsAdvance ==
  \A d \in Deals :
    LET old == Contract(d)  new == db'[<<"contract", d>>] IN
    old # new => <<old, new>> \in {<<"NONE", "DRAFT">>, <<"DRAFT", "SIGNED">>, <<"DRAFT", "CANCELLED">>,
                                   <<"SIGNED", "COMPLETED">>, <<"SIGNED", "CANCELLED">>}

MovedByHand(p) ==
  \E t \in Txns : tx[t].req.op = "moveProject" /\ tx[t].req.of = p /\ tx'[t] = Idle

\* "a draft nobody has signed is not a CONTRACT-stage project": unless a user
\* moves it, a step takes a project to CONTRACT or COMPLETED only if it commits the
\* very transaction that signs or hands over a contract of it.
StagesFollow ==
  \A p \in Projects :
    LET new == db'[<<"project", p>>] IN
    new # Stage(p) /\ new \in {"CONTRACT", "COMPLETED"} /\ ~MovedByHand(p) =>
      \E d \in Deals : /\ ProjectOf[d] = p
                       /\ Contract(d) # db'[<<"contract", d>>]
                       /\ db'[<<"contract", d>>] = IF new = "CONTRACT" THEN "SIGNED" ELSE "COMPLETED"

WaitsFor(t) ==
  IF Runs(t, {"cas", "quiet", "touch", "insert"})
  THEN {u \in Txns \ {t} : tx[u].own[Head(tx[t].todo).row] # Same} ELSE {}

\* Papers before their project, counters before the customer: requests never
\* wait for each other in a circle.
NoDeadlock ==
  \A S \in SUBSET Txns : S # {} => \E t \in S : WaitsFor(t) \cap S = {}

\* "A handover that commits next to a project still sitting in EXECUTION is
\* exactly the drift autoAdvanceProject exists to prevent."
HandedOverIsCompleted ==
  \A d \in Deals : Contract(d) = "COMPLETED" => Stage(ProjectOf[d]) \in {"COMPLETED", "CANCELLED"}

\* "only an ISSUED proforma can be turned into a contract", "Proforma must be
\* ISSUED to convert to an invoice".
PapersComeFromLiveProformas ==
  [][\A d \in Deals, paper \in {"contract", "invoice"} :
       db[<<paper, d>>] = "NONE" /\ db'[<<paper, d>>] # "NONE" => Proforma(d) = "ISSUED"]_vars

RefusedNow(op, d) ==
  \E t \in Txns : /\ tx[t].req.op = op /\ tx[t].req.of = d /\ tx'[t] = Idle
                  /\ tx[t].todo # <<>> /\ crashes' = crashes

\* "cancel it before issuing another": with its contract cancelled, an issued
\* proforma can be contracted again.
CancelledContractsAreReplaceable ==
  [][\A d \in Deals : Contract(d) = "CANCELLED" /\ Proforma(d) = "ISSUED" =>
       ~RefusedNow("issueContract", d)]_vars

\* "VOID + reissue at the service layer".
VoidedInvoicesAreReplaceable ==
  [][\A d \in Deals : db[<<"invoice", d>>] = "VOID" /\ Proforma(d) = "ISSUED" =>
       ~RefusedNow("issueInvoice", d)]_vars

\* "no window where a project gets attached between the check and the write".
DeletedCustomersHadNothing ==
  [][db[<<"customer">>] = "LIVE" /\ db'[<<"customer">>] = "DELETED" =>
       \A p \in Projects : Stage(p) = "NONE"]_vars

\* "wonAt is stamped once, on entering CONTRACT".
ContractStageIsStamped ==
  \A p \in Projects : Stage(p) = "CONTRACT" => db[<<"won", p>>] = "YES"
=============================================================================
