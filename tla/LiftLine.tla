------------------------------ MODULE LiftLine ------------------------------
(***************************************************************************)
(* One lift of a draft quotation: the page that edits it, the patch it     *)
(* sends, the merge of the patch with the stored line and the calculator   *)
(* that completes the figures and prices them.  A figure typed over the    *)
(* calculator's prints and is never priced, yet it is stored where the     *)
(* calculator's own stands, and every edit sends the stored figures back.  *)
(*                                                                         *)
(* Lengths are in millimetres, the travel in decimetres, speeds in         *)
(* hundredths of a metre a second.  Doors, the car, persons, margin and    *)
(* the rows a person only types are left out, and floor labels with them:  *)
(* the floors are the stops.                                               *)
(***************************************************************************)
EXTENDS Integers, TLC

CONSTANTS
  Patchers,      \* clients that send a patch of a few fields
  Editors,       \* pages that send every box
  Patches,       \* what a patcher may send
  Entries,       \* what a person may type in a box: <<box, figure>>
  FirstLines,    \* the merged requests the line may come from
  FormulaMoves,  \* how often the company's formula may change (a bound)
  Edits,         \* how many patches, boxes and saves there are (a bound)
  TypedKg, TypedSpeed, TypedTravel,  \* figures typed over, unlike any other
  None

VARIABLES
  line,          \* the stored line
  companyRise,   \* whether the company's formula prices the travel
  editor,        \* per page: the line it shows, its boxes and what it knows
  request,       \* per client: its patch, and the line the server read for it
  left           \* edits and changes of the formula still to come

vars == <<line, companyRise, editor, request, left>>
Clients == Patchers \cup Editors

Typed == {"kgO", "travelO", "speedO"}
Fields == {"product", "kg", "stops", "travel", "speed", "width", "depth",
           "summary"} \cup Typed

TableProducts == {"PASSENGER"}
Vehicles == {"CAR_LIFT", "ESCALATOR"}

(* "CUSTOM" stands for a product the company added, with lift geometry and *)
(* the company's formula.                                                  *)
Products == TableProducts \cup Vehicles \cup {"CUSTOM"}

VehicleSpec ==
  [CAR_LIFT |-> [minWidth |-> 3400, minDepth |-> 6500, slow |-> 30, fast |-> 50],
   ESCALATOR |-> [minWidth |-> 1000, minDepth |-> 0, slow |-> 50, fast |-> 65]]
MinKg(p) == IF p = "CAR_LIFT" THEN 3500 ELSE 0

(* What the page starts a vehicle product at.                              *)
Standard ==
  [CAR_LIFT |-> [speed |-> 50, width |-> 3400, depth |-> 6500, stops |-> 2],
   ESCALATOR |-> [speed |-> 50, width |-> 1000, depth |-> None, stops |-> 2,
                  travel |-> 60]]
VehicleSpeeds == {15, 30, 50}

PricesOnRise(p, company) == p = "ESCALATOR" \/ company

-----------------------------------------------------------------------------
(* The calculator.                                                         *)

Loads == {320, 400, 450, 630, 800, 1000, 1150, 1275, 1350, 1600, 1800, 2000,
          2500, 3000}

(* 75 kg for each 0.33 square metres of shaft, to the nearest load.        *)
TableLoad(width, depth) ==
  LET off(l) == IF l * 4400 > width * depth
                THEN l * 4400 - width * depth ELSE width * depth - l * 4400
  IN CHOOSE l \in Loads :
       \A m \in Loads : off(l) < off(m) \/ (off(l) = off(m) /\ l <= m)

BandSpeed(floors) ==
  CASE floors <= 10 -> 100 [] floors <= 15 -> 150 [] floors <= 20 -> 175
    [] floors <= 25 -> 200 [] OTHER -> 250

TableSpeed(load, floors) ==
  LET fastest == IF load <= 450 THEN 175 ELSE 200
  IN IF BandSpeed(floors) < fastest THEN BandSpeed(floors) ELSE fastest

Over(typed, figure) == IF typed # None THEN typed ELSE figure
PerFloor(m) == 35 * m.stops

OnTable(m) == m.product \in TableProducts /\ m.width # None /\ m.depth # None

(* The travel of a lift outside the table: its own figure only when priced. *)
OwnTravel(m, rise) == IF rise THEN Over(m.travel, PerFloor(m)) ELSE PerFloor(m)

Missing(m) ==
  \/ m.speed = None \/ m.stops = None
  \/ m.product # "ESCALATOR" /\ m.kg = None
  \/ m.product \in Vehicles /\ m.width = None
  \/ m.product = "CAR_LIFT" /\ m.depth = None

Refused(m) ==
  \/ m.product \notin Products
  \/ ~OnTable(m) /\ Missing(m)
  \/ m.product = "CAR_LIFT" /\ (m.depth < 6500 \/ m.kg < MinKg(m.product))
  \/ /\ m.product \in Vehicles
     /\ \/ m.width < VehicleSpec[m.product].minWidth
        \/ m.speed < VehicleSpec[m.product].slow
        \/ m.speed > VehicleSpec[m.product].fast

(* The complete figures of a request, and the load and travel it is priced *)
(* on.  The table reads the shaft and the floors and takes what is typed   *)
(* over it; any other product takes its own figures and only a travel.     *)
Resolve(m, rise) ==
  LET table == OnTable(m)
      load == TableLoad(m.width, m.depth)
      travelO == IF rise THEN None ELSE m.travelO
      travel == IF table THEN PerFloor(m) ELSE OwnTravel(m, rise)
      kg == IF m.product = "ESCALATOR" THEN 0 ELSE m.kg
      keepsShaft == table \/ m.product \in Vehicles
  IN [product |-> m.product, stops |-> m.stops,
      kg |-> IF table THEN Over(m.kgO, load) ELSE kg,
      speed |-> IF table THEN Over(m.speedO, TableSpeed(load, m.stops)) ELSE m.speed,
      travel |-> Over(travelO, travel),
      width |-> IF keepsShaft THEN m.width ELSE None,
      depth |-> IF keepsShaft THEN m.depth ELSE None,
      kgO |-> IF table THEN m.kgO ELSE None,
      speedO |-> IF table THEN m.speedO ELSE None,
      travelO |-> travelO,
      priced |-> [kg |-> IF table THEN load ELSE kg, stops |-> m.stops,
                  rise |-> IF rise THEN travel ELSE None]]

(* The description the system writes of a lift.                            *)
SystemText(l) == [kg |-> l.kg, speed |-> l.speed]

(* A line as it is stored: an empty description is written from the figures. *)
Stored(m, company) ==
  LET l == Resolve(m, PricesOnRise(m.product, company))
  IN l @@ [summary |-> Over(m.summary, SystemText(l))]

-----------------------------------------------------------------------------
(* The merge of a patch with the line the server read.  A patch is a       *)
(* function on the fields it mentions; a typed field it holds as None is   *)
(* cleared.                                                                *)

Said(dto, f) == IF f \in DOMAIN dto THEN dto[f] ELSE None

Merge(l, dto) == [f \in Fields |-> IF f \in DOMAIN dto THEN dto[f] ELSE l[f]]

MovesProduct(l, dto) == Said(dto, "product") \notin {None, l.product}

\* Mutant: a patch that says nothing of a figure merges the typed one.
KeepsOwnAlways(l, dto, f) == TRUE

(* What is stored as typed over is not merged back as the lift's own.      *)
KeepsOwn(l, dto, f) ==
  \/ f \in DOMAIN dto
  \/ l[IF f = "speed" THEN "speedO" ELSE "travelO"] = None

KeepsText(l, dto) ==
  \/ "summary" \in DOMAIN dto /\ dto.summary # l.summary
  \/ l.summary # SystemText(l)

Merged(l, dto) ==
  LET m == Merge(l, dto)
  IN [f \in Fields |->
        CASE f \in Typed /\ MovesProduct(l, dto) -> Said(dto, f)
          [] f \in {"travel", "speed"} /\ ~KeepsOwn(l, dto, f) -> None
          [] f = "summary" /\ ~KeepsText(l, dto) -> None
          [] OTHER -> m[f]]

-----------------------------------------------------------------------------
(* The page.  A blank box is None.                                         *)

NewLine == [width |-> 1835, depth |-> 1750, kg |-> 1000, stops |-> 12,
            travel |-> 450, speed |-> 160]

ToDraft(l) ==
  [f \in Fields |->
     CASE f = "speed" -> IF l.speed = None \/ l.speedO # None
                         THEN NewLine.speed ELSE l.speed
       [] f \in DOMAIN NewLine \ {"speed"} -> Over(l[f], NewLine[f])
       [] OTHER -> l[f]]

Boxes(p, rise) ==
  (CASE p \in TableProducts -> {"width", "depth"}
     [] p = "CAR_LIFT" -> {"width", "depth", "kg", "speed"}
     [] p = "ESCALATOR" -> {"width", "speed"}
     [] OTHER -> {"kg", "speed"})
  \cup (IF rise /\ p \notin TableProducts THEN {"travel"} ELSE {})
  \cup {"stops"}

ToPayload(d, rise) ==
  LET table == d.product \in TableProducts
  IN [product |-> d.product, summary |-> d.summary,
      kgO |-> IF table THEN d.kgO ELSE None,
      speedO |-> IF table THEN d.speedO ELSE None,
      travelO |-> IF rise THEN None ELSE d.travelO]
     @@ [f \in {b \in Boxes(d.product, rise) : d[b] # None} |-> d[f]]

(* The boxes once another product is chosen; `shaft` is the passenger shaft *)
(* the page remembers.                                                      *)
WithProduct(d, p, shaft) ==
  LET vehicle == p \in Vehicles
      kg == Over(d.kg, 0)
      speed == Over(d.speed, 100)
      figures ==
        IF vehicle THEN Standard[p]
        ELSE [speed |-> IF speed \in VehicleSpeeds THEN NewLine.speed ELSE speed]
             @@ (IF d.product \in Vehicles
                 THEN [width |-> Over(shaft.width, NewLine.width),
                       depth |-> Over(shaft.depth, NewLine.depth)]
                 ELSE <<>>)
  IN figures @@ [product |-> p, kg |-> IF kg < MinKg(p) THEN MinKg(p) ELSE kg]
       @@ [f \in Typed |-> None] @@ d

NoPage == [shown |-> None]
Dirty(e) == editor[e] # NoPage /\ editor[e].draft # ToDraft(editor[e].shown)

-----------------------------------------------------------------------------

Init ==
  /\ companyRise = FALSE
  /\ \E m \in FirstLines : line = Stored(m, FALSE)
  /\ editor = [e \in Editors |-> NoPage]
  /\ request = [c \in Clients |-> None]
  /\ left = [edits |-> Edits, formula |-> FormulaMoves]

Spend == left.edits > 0 /\ left' = [left EXCEPT !.edits = @ - 1]

(* A page is loaded, or loaded again and what was typed lost: the line, and *)
(* the products with their formulas.                                       *)
Open(e) ==
  /\ request[e] = None
  /\ editor' = [editor EXCEPT ![e] =
       [shown |-> line, draft |-> ToDraft(line), rise |-> companyRise,
        shaft |-> [width |-> None, depth |-> None]]]
  /\ UNCHANGED <<line, companyRise, request, left>>

SetDraft(e, d) == editor' = [editor EXCEPT ![e].draft = d]

TypeIn(e, box, figure) ==
  /\ editor[e] # NoPage /\ request[e] = None
  /\ box \in {"summary", "travelO"}
             \cup (IF editor[e].draft.product \in TableProducts
                   THEN {"kgO", "speedO"} ELSE {})
             \cup Boxes(editor[e].draft.product, editor[e].rise)
  /\ Spend
  /\ SetDraft(e, [editor[e].draft EXCEPT ![box] = figure])
  /\ UNCHANGED <<line, companyRise, request>>

ChooseProduct(e, p) ==
  /\ editor[e] # NoPage /\ request[e] = None
  /\ p # editor[e].draft.product
  /\ Spend
  /\ LET d == editor[e].draft
         shaft == IF d.product \in Vehicles THEN editor[e].shaft
                  ELSE [width |-> d.width, depth |-> d.depth]
     IN editor' = [editor EXCEPT ![e].shaft = shaft,
                                 ![e].draft = WithProduct(d, p, shaft)]
  /\ UNCHANGED <<line, companyRise, request>>

Ask(c, dto) ==
  /\ request[c] = None
  /\ Spend
  /\ request' = [request EXCEPT ![c] = [dto |-> dto, seen |-> None]]
  /\ UNCHANGED <<line, companyRise, editor>>

Patch(c) == \E dto \in Patches : Ask(c, dto)

Save(e) ==
  /\ Dirty(e)
  /\ LET d == editor[e].draft
     IN Ask(e, ToPayload(d, PricesOnRise(d.product, editor[e].rise)))

(* updateLine reads the line in one transaction ...                        *)
ReadLine(c) ==
  /\ request[c] # None /\ request[c].seen = None
  /\ request' = [request EXCEPT ![c].seen = line]
  /\ UNCHANGED <<line, companyRise, editor, left>>

(* ... and writes the whole line in another.  A page then shows what was   *)
(* stored and drops its boxes, or keeps them beside the refusal.           *)
WriteLine(c) ==
  /\ request[c] # None /\ request[c].seen # None
  /\ LET m == Merged(request[c].seen, request[c].dto)
         stored == Stored(m, companyRise)
     IN IF Refused(m) THEN UNCHANGED <<line, editor>>
        ELSE /\ line' = stored
             /\ editor' = IF c \in Editors
                          THEN [editor EXCEPT ![c].shown = stored,
                                              ![c].draft = ToDraft(stored)]
                          ELSE editor
  /\ request' = [request EXCEPT ![c] = None]
  /\ UNCHANGED <<companyRise, left>>

ChangeFormula ==
  /\ left.formula > 0
  /\ companyRise' = ~companyRise
  /\ left' = [left EXCEPT !.formula = @ - 1]
  /\ UNCHANGED <<line, editor, request>>

Next ==
  \/ ChangeFormula
  \/ \E c \in Patchers : Patch(c)
  \/ \E e \in Editors :
       \/ Open(e) \/ Save(e)
       \/ \E t \in Entries : TypeIn(e, t[1], t[2])
       \/ \E p \in Products : ChooseProduct(e, p)
  \/ \E c \in Clients : ReadLine(c) \/ WriteLine(c)

Spec == Init /\ [][Next]_vars

-----------------------------------------------------------------------------
(* Properties                                                              *)

(* Every stored figure is one of its field, and a page shows a line.       *)
Figure == Nat \cup {None}
TypeOK ==
  /\ line.product \in Products
  /\ \A f \in {"kg", "stops", "travel", "speed"} : line[f] \in Nat
  /\ \A f \in Typed \cup {"width", "depth"} : line[f] \in Figure
  /\ line.priced.kg \in Nat /\ line.priced.rise \in Figure
  /\ companyRise \in BOOLEAN
  /\ \A e \in Editors : editor[e] # NoPage => DOMAIN editor[e].draft = Fields
  /\ left.edits \in 0..Edits /\ left.formula \in 0..FormulaMoves

(* A speed typed over the table's never becomes the speed of a lift outside *)
(* the table, whose motor, rail and pit are sized on it (updateLine drops   *)
(* the stored speed, speedForDraft keeps it out of the boxes).              *)
TypedSpeedNeverSizes ==
  line.product \notin TableProducts => line.speed # TypedSpeed

(* A travel typed in place of 3.5 m a floor is never priced, whatever the  *)
(* product and the formula become.                                         *)
TypedTravelNeverPriced == line.priced.rise # TypedTravel

(* A rated load typed over the table's is never priced, on that lift or on *)
(* the product the line is moved to.                                       *)
TypedLoadNeverPriced == line.priced.kg # TypedKg

(* A travel nobody typed follows the floors on every lift not priced on it *)
(* (buildLineValues, resolve).                                             *)
TravelFollowsFloors ==
  line.priced.rise = None /\ line.travelO = None => line.travel = PerFloor(line)

(* A description the system wrote is the description of the lift it stands *)
(* beside: only a text typed by hand may differ (writtenSummaries).        *)
SummaryFollows == line.summary \in [kg : Nat, speed : Nat] =>
  line.summary = SystemText(line)

(* A patch leaves the figures it does not mention as they were, unless it  *)
(* moves the line to another product (updateLine, definedOnly).            *)
UnmentionedStays ==
  [][\A c \in Clients :
       request[c] # None /\ request'[c] = None /\ line' # line =>
         \/ line'.product # line.product
         \/ \A f \in {"stops", "kgO", "speedO"}
                     \cup (IF line'.priced.rise = None THEN {"travelO"} ELSE {}) :
              f \in DOMAIN request[c].dto \/ line'[f] = line[f]]_vars

(* Saving a page on which only the description was changed prices the same *)
(* machine: a box nobody touched sends back what the line holds (toDraft,  *)
(* toPayload).  A change of the formula may change what it is priced on.   *)
OnlyText(e) ==
  \A f \in Fields \ {"summary"} : editor[e].draft[f] = ToDraft(line)[f]
SameMachine(was, is) ==
  /\ is.kg = was.kg /\ is.stops = was.stops
  /\ None \in {was.rise, is.rise} \/ is.rise = was.rise
KeepsPrice ==
  \A e \in Editors :
    request[e] # None /\ request'[e] = None /\ OnlyText(e)
      => SameMachine(line.priced, line'.priced)

=============================================================================
