------------------------------ MODULE MCPages ------------------------------
(* Pages and the lists behind them: recording a receipt, ticking the parts  *)
(* of a lift, editing a lift of a quotation, ordering the rows a document   *)
(* prints and the products for sale.  They share no state, so a behaviour   *)
(* runs one of them: "part" says which, and the others stay as they are.    *)
EXTENDS TLC

CONSTANTS
  Parts,           \* the parts a behaviour may run
  a, b,            \* customers; a has two invoices
  a1, a2, b1,
  x1, x2, y1,      \* parts of two cases
  Pages,           \* pages or clients at work on one list or one line
  Readers,         \* requests about products
  Hand,            \* a description typed by hand
  None

VARIABLES
  part,
  customer, drafts, listing, entry, awaited, leaving,           \* of ReceiptForm
  posts, answers, payments, sent, lost,
  held, items, draft, unsaved, rowState, detailState, marking,  \* of PartsChecklist
  savingCases, failedCases, wantedRows, wantedCases, saves, refreshing,
  calls, touched, taps, caseTaps, faults,
  line, companyRise, editor, request, left,                     \* of LiftLine
  rows, seq, key, lock, proc, requests, deploys,                \* of ContentList
  product, req, removed                                         \* of ProductTypes

ofReceipts == <<customer, drafts, listing, entry, awaited, leaving,
                posts, answers, payments, sent, lost>>
ofParts    == <<held, items, draft, unsaved, rowState, detailState, marking, savingCases,
                failedCases, wantedRows, wantedCases, saves, refreshing, calls, touched,
                taps, caseTaps, faults>>
ofLine     == <<line, companyRise, editor, request, left>>
ofList     == <<rows, seq, key, lock, proc, requests, deploys>>
ofProducts == <<product, req, removed>>

allVars == <<part, ofReceipts, ofParts, ofLine, ofList, ofProducts>>

Interchangeable == Permutations(Pages)

-----------------------------------------------------------------------------
(* A clerk with two receipts to enter, who clicks again and again; and one *)
(* who loses an answer.                                                    *)

R == INSTANCE ReceiptForm
       WITH Customers <- {a, b}, Invoices <- {a1, b1},
            OwnerOf <- (a1 :> a) @@ (b1 :> b),
            Total <- 1, MaxEntries <- 2, MaxPosts <- 3, MaxLost <- 0

Lossy == INSTANCE ReceiptForm
           WITH Customers <- {a, b}, Invoices <- {a1, a2, b1},
                OwnerOf <- (a1 :> a) @@ (a2 :> a) @@ (b1 :> b),
                Total <- 1, MaxEntries <- 2, MaxPosts <- 2, MaxLost <- 1

-----------------------------------------------------------------------------
(* Parts ticked one by one while requests fail, by the case while none      *)
(* does, and a note typed to one of them.                                   *)

TwoCases == (x1 :> 1) @@ (x2 :> 1) @@ (y1 :> 2)

Ticks == INSTANCE PartsChecklist
           WITH Parts <- {x1, x2, y1}, CaseOf <- TwoCases, Fields <- {}, Texts <- {},
                MaxTaps <- 4, MaxCaseTaps <- 0, MaxFaults <- 3, MaxOthers <- 1

ByCase == INSTANCE PartsChecklist
            WITH Parts <- {x1, x2, y1}, CaseOf <- TwoCases, Fields <- {}, Texts <- {},
                 MaxTaps <- 4, MaxCaseTaps <- 4, MaxFaults <- 0, MaxOthers <- 1

Note == INSTANCE PartsChecklist
          WITH Parts <- {x1}, CaseOf <- (x1 :> 1), Fields <- {"note"}, Texts <- {"", "a", "b"},
               MaxTaps <- 4, MaxCaseTaps <- 1, MaxFaults <- 3, MaxOthers <- 0

-----------------------------------------------------------------------------
(* Lines of a passenger lift on its shaft, of a lift outside the table and *)
(* of an escalator, changed by patches or by one page.                     *)

TypedKg == 700
TypedSpeed == 125
TypedTravel == 333

Blank == INSTANCE LiftLine
           WITH Patchers <- {}, Editors <- {}, Patches <- {}, Entries <- {}, FirstLines <- {},
                FormulaMoves <- 0, Edits <- 0

From(p) ==
  [f \in Blank!Fields |->
     CASE f = "product" -> p [] f = "stops" -> 12 [] f = "width" -> 1835
       [] f = "depth" -> 1750 [] OTHER -> None]

AnyLine ==
  {From("PASSENGER"),
   [From("CUSTOM") EXCEPT !.kg = 800, !.speed = 150],
   [From("ESCALATOR") EXCEPT !.speed = 50, !.travel = 80, !.stops = 2]}

TypedOver(f) ==
  CASE f = "kgO" -> TypedKg [] f = "travelO" -> TypedTravel [] OTHER -> TypedSpeed

\* One field typed over or cleared, a product chosen, the floors or the text changed.
AllPatches ==
  {[f \in {t} |-> TypedOver(f)] : t \in Blank!Typed} \cup {[f \in {t} |-> None] : t \in Blank!Typed}
  \cup {[product |-> "CUSTOM", speed |-> 100], [product |-> "CUSTOM"],
        [product |-> "PASSENGER", width |-> 2200, depth |-> 1750],
        [product |-> "ESCALATOR", speed |-> 50, width |-> 1000],
        [stops |-> 5], [summary |-> Hand], [summary |-> None]}

Boxed ==
  {<<"summary", Hand>>, <<"stops", 5>>, <<"kgO", TypedKg>>, <<"speedO", TypedSpeed>>,
   <<"travelO", TypedTravel>>, <<"travel", 90>>, <<"width", None>>, <<"width", 2200>>}

L == INSTANCE LiftLine
       WITH Patchers <- Pages, Editors <- {}, Patches <- AllPatches, Entries <- {},
            FirstLines <- AnyLine, FormulaMoves <- 1, Edits <- 3

E == INSTANCE LiftLine
       WITH Patchers <- {}, Editors <- {a}, Patches <- {}, Entries <- Boxed,
            FirstLines <- AnyLine, FormulaMoves <- 1, Edits <- 4

-----------------------------------------------------------------------------
(* The table of components, the prose sections, the products for sale.     *)

Components == INSTANCE ContentList
                WITH Kind <- "components", Procs <- Pages, Defaults <- 3, Seeded <- 3,
                     Typed <- {2}, Keys <- {4}, MaxRows <- 5, MaxRequests <- 4, MaxDeploys <- 0

Sections == INSTANCE ContentList
              WITH Kind <- "sections", Procs <- Pages, Defaults <- 3, Seeded <- 2,
                   Typed <- {1, 3}, Keys <- {3, 4}, MaxRows <- 4, MaxRequests <- 3, MaxDeploys <- 1

T == INSTANCE ProductTypes
       WITH Codes <- {"PASSENGER", "GOODS"}, Defaults <- {"PASSENGER"}, Prices <- {1, 2},
            Requests <- Readers

ASSUME PagesParameters ==
  /\ R!OwnerOfTyped /\ R!TotalPositive /\ Lossy!OwnerOfTyped /\ Lossy!TotalPositive
  /\ Ticks!CasesOfParts

-----------------------------------------------------------------------------
(* One part a behaviour.                                                   *)

MCInit ==
  /\ part \in Parts
  /\ R!Init
  /\ IF part = "note" THEN Note!Init ELSE Ticks!Init
  /\ IF part = "editor" THEN E!Init ELSE L!Init
  /\ part \notin {"patches", "editor"} => line = Blank!Stored(From("PASSENGER"), FALSE)
  /\ IF part = "sections" THEN Sections!Init ELSE Components!Init
  /\ T!Init

LineGoesOn == UNCHANGED <<ofReceipts, ofParts, ofList, ofProducts>>
TicksGoOn  == UNCHANGED <<ofReceipts, ofLine, ofList, ofProducts>>
ListGoesOn == UNCHANGED <<ofReceipts, ofParts, ofLine, ofProducts>>

MCNext ==
  /\ UNCHANGED part
  /\ \/ part = "receipts"   /\ R!Next /\ UNCHANGED <<ofParts, ofLine, ofList, ofProducts>>
     \/ part = "lossy"      /\ Lossy!Next /\ UNCHANGED <<ofParts, ofLine, ofList, ofProducts>>
     \/ part = "ticks"      /\ Ticks!Next  /\ TicksGoOn
     \/ part = "cases"      /\ ByCase!Next /\ TicksGoOn
     \/ part = "note"       /\ Note!Next   /\ TicksGoOn
     \/ part = "patches"    /\ L!Next      /\ LineGoesOn
     \/ part = "editor"     /\ E!Next      /\ LineGoesOn
     \/ part = "components" /\ Components!Next /\ ListGoesOn
     \/ part = "sections"   /\ Sections!Next   /\ ListGoesOn
     \/ part = "products"   /\ T!Next /\ UNCHANGED <<ofReceipts, ofParts, ofLine, ofList>>

MCSpec == MCInit /\ [][MCNext]_allVars
-----------------------------------------------------------------------------
(* Properties of the parts that the run lists.                             *)

\* A receipt pays its own customer's invoices and no more than is due, a click while
\* it is on its way records nothing, and what the page lists is the chosen
\* customer's.  When everything is answered, a
\* part shows the mark the server holds or a warning, and a tap on a part that was
\* not saved asks for the same again.
FormsShowWhatIsHeld ==
  /\ part = "receipts" => R!PaysItsOwn /\ R!TwiceOnlyOnceHeard /\ R!ListFollowsCustomer
  /\ part = "lossy" => Lossy!PaysItsOwn /\ Lossy!TwiceOnlyOnceHeard
  /\ part = "ticks" => Ticks!ShownIsHeld
  /\ part = "cases" => ByCase!ShownIsHeld
  /\ part = "note" => Note!RetryAsksTheSame

\* A figure typed over the calculator's is printed and never sizes or prices a
\* lift, the travel follows the floors and the description the figures.  Every
\* row of a list has a place of its own, and a reorder never trips over its own.
LinesAndRowsHold ==
  /\ part = "patches" => /\ L!TypeOK /\ L!TypedSpeedNeverSizes /\ L!TypedTravelNeverPriced
                         /\ L!TravelFollowsFloors /\ L!SummaryFollows
  /\ part = "editor" => E!TypedSpeedNeverSizes /\ E!SummaryFollows
  /\ part = "components" => Components!TypeOK /\ Components!CollisionNeedsAnother
  /\ part = "sections" => Sections!TypeOK
  /\ part = "products" => T!TypeOK

\* Rows print in an order somebody asked for, a row added without a number comes
\* after those there were, a deploy adds no default twice, a default list changes
\* no product; nothing typed is lost and a text leaves the price alone.
EditsStand == [][
  /\ part = "components" => Components!OrdersAsAsked /\ Components!AddsAfterSeen
  /\ part = "sections" => Sections!OrdersAsAsked /\ Sections!SeedsOnce
  /\ part = "products" => T!LeavesSettings
  /\ part = "note" => Note!KeepsTyped
  /\ part = "editor" => E!KeepsPrice]_allVars
=============================================================================
