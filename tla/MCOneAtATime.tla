----------------------------- MODULE MCOneAtATime -----------------------------
(* What holds without a race: the ledger, each customer of which is served  *)
(* one request at a time, and the answers of the pure rules: money, dates,  *)
(* statements and formulas.                                                 *)
(* "part" says which of them a behaviour asks.                              *)
EXTENDS MCLedger

CONSTANTS
  Parts,                        \* the parts a behaviour may run
  Thousand, Numbers   \* of Formula

VARIABLES
  part,
  answer,     \* of MCMoneyRules and MCCalendar
  tree, done  \* of Formula

ofFormula == <<tree, done>>

allVars == <<part, vars, answer, ofFormula>>

M == INSTANCE MCMoneyRules
C == INSTANCE MCCalendar

\* The value of each name of a formula; the second is printed as a figure.
ScopeN == [N |-> 2, C |-> 13]

F == INSTANCE Formula WITH Scope <- ScopeN, Given <- {"C"}, GroupInCalls <- FALSE

-----------------------------------------------------------------------------
(* One part a behaviour.                                                   *)

MCInit ==
  /\ part \in Parts
  /\ Init /\ answer = M!Blank
  /\ IF part = "formula" THEN F!Init ELSE tree = None /\ done = FALSE

MCNext ==
  \/ part = "ledger"  /\ Next   /\ UNCHANGED <<part, answer, ofFormula>>
  \/ part = "answers" /\ (M!Next \/ C!Next) /\ UNCHANGED <<part, vars, ofFormula>>
  \/ part = "formula" /\ F!Next /\ UNCHANGED <<part, vars, answer>>

MCSpec == MCInit /\ [][MCNext]_allVars

-----------------------------------------------------------------------------
(* Properties of the parts that the run lists.                             *)

\* Figures a customer can add up: lines make the subtotal they were spread
\* over, instalments the contract, expense splits agree, withholding follows
\* its rule, and statements chain.  The next visit is the first after the one
\* made, deadlines and delay penalties agree, fiscal years tile time, warranties
\* end in their month.
FiguresAndDatesAgree ==
  /\ M!AllocationIsExactAndFair /\ M!PriceAddsUp /\ M!CalculatedPriceIsNeutral
  /\ M!SheetPriceIsKept /\ M!SignOffIsMonotone /\ M!InstalmentsMakeTheWhole
  /\ M!ExpenseSplitsAgree /\ M!WithholdingFollowsTheRule
  /\ M!RowsExplainTheBalance /\ M!StatementsChain
  /\ C!NextIsFirstAfterVisit /\ C!WorkingDaysInvert /\ C!OverdueAgrees
  /\ C!PenaltyRunsUpToTheCap /\ C!EarliestPromiseBinds /\ C!FiscalYearsTile
  /\ C!WarrantyEndsInItsMonth

\* A formula evaluates to what it says, and still does with figures for names.
FormulasKeepTheirValue == part = "formula" => F!ReadsAsWritten /\ F!RenderKeepsValue
=============================================================================
