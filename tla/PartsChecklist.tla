--------------------------- MODULE PartsChecklist ---------------------------
(***************************************************************************)
(* useAssetParts: the page on which somebody in the yard ticks the parts   *)
(* of a lift.  Every tap shows at once and is saved on its own; a request  *)
(* may be lost before or after it has reached the server, several are under*)
(* way together, and after a failure the page asks what the server holds.  *)
(* Cases stay open; the words of a failure are left out, its place is not. *)
(***************************************************************************)
EXTENDS FiniteSets, Integers

CONSTANTS
  Parts, CaseOf,  \* the parts and the case each of them came in
  Fields,         \* what can be typed of a part: quantity, note
  Texts,          \* what is typed
  MaxTaps,        \* bound: taps, texts typed and boxes left
  MaxCaseTaps,    \* bound: taps on a whole case among them
  MaxFaults,      \* bound: requests lost
  MaxOthers,      \* bound: ticks of other people
  None

CasesOfParts == DOMAIN CaseOf = Parts

VARIABLES
  held,       \* what the server holds of each part
  items,      \* what the page shows
  draft,      \* what is typed into each box, None when untouched
  unsaved,    \* history: boxes whose last answer was a failure
  rowState, detailState,       \* saveStates: "", "saving", "failed"
  marking,                     \* rows with a tick on its way
  savingCases, failedCases,
  wantedRows, wantedCases,     \* what failed taps asked for
  saves,                       \* moves on with every save
  refreshing,
  calls,      \* requests under way
  touched,    \* parts somebody else has ticked
  taps, caseTaps, faults

boxes  == <<draft, detailState, unsaved>>
rows   == <<rowState, marking, wantedRows>>
cases  == <<savingCases, failedCases, wantedCases>>
bounds == <<taps, caseTaps, faults>>
vars   == <<held, items, boxes, rows, cases, saves, refreshing, calls, touched, bounds>>

Cases == {CaseOf[p] : p \in Parts}
RowsOf(k) == {p \in Parts : CaseOf[p] = k}
Flip(mark) == IF mark = "OK" THEN "MISSING" ELSE "OK"

Registered == [mark |-> "OK", text |-> [f \in Fields |-> ""]]

Init ==
  /\ held = [p \in Parts |-> Registered] /\ items = held
  /\ draft = [p \in Parts |-> [f \in Fields |-> None]]
  /\ unsaved = {} /\ rowState = [p \in Parts |-> ""] /\ detailState = [p \in Parts |-> ""]
  /\ marking = {} /\ savingCases = {} /\ failedCases = {}
  /\ wantedRows = [p \in Parts |-> None] /\ wantedCases = [k \in Cases |-> None]
  /\ saves = 0 /\ refreshing = FALSE
  /\ calls = {} /\ touched = {}
  /\ taps = 0 /\ caseTaps = 0 /\ faults = 0

Tap == taps < MaxTaps /\ taps' = taps + 1 /\ UNCHANGED faults
Call(id, what) == [id |-> id, what |-> what, at |-> "sent"]

\* A look at the tracking of the lift; fresh: what it finds there.
Look == Call(<<"get", saves'>>, [sentAt |-> saves', fresh |-> None])

\* refresh(): one at a time.
Refresh(others) ==
  /\ refreshing' = TRUE
  /\ calls' = IF refreshing THEN others ELSE others \cup {Look}
-----------------------------------------------------------------------------
(* Taps.                                                                   *)

\* saveItem with a mark, up to its await.  A tap on a row whose tick is under way is dropped.
TapPart(p) ==
  LET mark == Flip(items[p].mark) IN
  /\ CaseOf[p] \notin savingCases /\ p \notin marking /\ Tap
  /\ marking' = marking \cup {p}
  /\ wantedRows' = [wantedRows EXCEPT ![p] = None]
  /\ items' = [items EXCEPT ![p].mark = mark]
  /\ saves' = saves + 1
  /\ rowState' = [rowState EXCEPT ![p] = "saving"]
  /\ calls' = calls \cup {Call(<<"row", p>>, [part |-> p, mark |-> mark, before |-> items[p].mark])}
  /\ UNCHANGED <<held, boxes, cases, refreshing, touched, caseTaps>>

Saving(p) == rowState[p] = "saving" \/ detailState[p] = "saving"

\* tapCase and markCase, up to its await; half ticked, it asks first.
TapCase(k) ==
  LET mark == IF \A p \in RowsOf(k) : items[p].mark = "OK" THEN "MISSING" ELSE "OK" IN
  /\ k \notin savingCases /\ (\A p \in RowsOf(k) : ~Saving(p)) /\ Tap
  /\ caseTaps < MaxCaseTaps /\ caseTaps' = caseTaps + 1
  /\ saves' = saves + 1
  /\ wantedCases' = [wantedCases EXCEPT ![k] = None]
  /\ savingCases' = savingCases \cup {k} /\ failedCases' = failedCases \ {k}
  /\ items' = [p \in Parts |-> IF p \in RowsOf(k) THEN [items[p] EXCEPT !.mark = mark] ELSE items[p]]
  /\ calls' = calls \cup {Call(<<"case", k>>, [case |-> k, mark |-> mark, before |-> items])}
  /\ UNCHANGED <<held, boxes, rows, refreshing, touched>>

Type(p, f) ==
  /\ \E t \in Texts \ {draft[p][f]} : draft' = [draft EXCEPT ![p][f] = t]
  /\ Tap
  /\ UNCHANGED <<held, items, detailState, unsaved, rows, cases, saves, refreshing, calls, touched, caseTaps>>

\* saveDetail: leaving a box saves it unless it says what is there already.
LeaveBox(p, f) ==
  LET t == draft[p][f] IN
  /\ t # None /\ Tap
  /\ IF t = items[p].text[f] /\ detailState[p] # "failed"
     THEN /\ draft' = [draft EXCEPT ![p][f] = None]
          /\ UNCHANGED <<detailState, saves, calls>>
     ELSE /\ saves' = saves + 1
          /\ detailState' = [detailState EXCEPT ![p] = "saving"]
          /\ calls' = calls \cup {Call(<<"text", saves>>, [part |-> p, field |-> f, text |-> t])}
          /\ UNCHANGED draft
  /\ UNCHANGED <<held, items, unsaved, rows, cases, refreshing, touched, caseTaps>>
-----------------------------------------------------------------------------
(* The server and the line.                                                *)

Holding(c) == CASE
  c.id[1] = "row" -> [held EXCEPT ![c.what.part].mark = c.what.mark]
  [] c.id[1] = "case" -> [p \in Parts |-> IF p \in RowsOf(c.what.case)
                                          THEN [held[p] EXCEPT !.mark = c.what.mark] ELSE held[p]]
  [] c.id[1] = "text" -> [held EXCEPT ![c.what.part].text[c.what.field] = c.what.text]
  [] OTHER -> held

\* updateItem, markCase or getTracking; the answer is on its way.
Land(c) ==
  /\ c \in calls /\ c.at = "sent"
  /\ held' = Holding(c)
  /\ calls' = (calls \ {c}) \cup
       {[c EXCEPT !.at = "landed", !.what = IF c.id[1] = "get" THEN [@ EXCEPT !.fresh = held] ELSE @]}
  /\ UNCHANGED <<items, boxes, rows, cases, saves, refreshing, touched, bounds>>

OtherTick(p) ==
  /\ Cardinality(touched) < MaxOthers
  /\ held' = [held EXCEPT ![p].mark = Flip(@)]
  /\ touched' = touched \cup {p}
  /\ UNCHANGED <<items, boxes, rows, cases, saves, refreshing, calls, bounds>>

Answered(c, kind) == c \in calls /\ c.id[1] = kind /\ c.at = "landed" /\ UNCHANGED faults

\* The request times out or the line drops: it has landed, or it never will.
Failed(c, kind) ==
  /\ c \in calls /\ c.id[1] = kind
  /\ faults < MaxFaults /\ faults' = faults + 1
-----------------------------------------------------------------------------
(* Answers.                                                                *)

\* The part is what the person decided: a failed tap on its case is settled.
MarkSaved(c) ==
  LET p == c.what.part IN
  /\ Answered(c, "row")
  /\ items' = [items EXCEPT ![p].mark = c.what.mark]
  /\ rowState' = [rowState EXCEPT ![p] = ""]
  /\ wantedCases' = [wantedCases EXCEPT ![CaseOf[p]] = None]
  /\ failedCases' = failedCases \ {CaseOf[p]}
  /\ saves' = saves + 1 /\ marking' = marking \ {p}
  /\ calls' = calls \ {c}
  /\ UNCHANGED <<held, boxes, wantedRows, savingCases, refreshing, touched, taps, caseTaps>>

MarkFailed(c) ==
  LET p == c.what.part IN
  /\ Failed(c, "row")
  /\ wantedRows' = [wantedRows EXCEPT ![p] = c.what.mark]
  /\ items' = [items EXCEPT ![p].mark = c.what.before]
  /\ rowState' = [rowState EXCEPT ![p] = "failed"]
  /\ saves' = saves + 1 /\ marking' = marking \ {p}
  /\ Refresh(calls \ {c})
  /\ UNCHANGED <<held, boxes, cases, touched, taps, caseTaps>>

CaseSaved(c) ==
  LET k == c.what.case IN
  /\ Answered(c, "case")
  /\ rowState' = [p \in Parts |-> IF p \in RowsOf(k) /\ rowState[p] = "failed" THEN "" ELSE rowState[p]]
  /\ saves' = saves + 1 /\ savingCases' = savingCases \ {k}
  /\ Refresh(calls \ {c})
  /\ UNCHANGED <<held, items, boxes, marking, wantedRows, failedCases, wantedCases, touched, taps, caseTaps>>

\* restoreRows: the rows as they were at the tap.
CaseFailed(c) ==
  LET k == c.what.case IN
  /\ Failed(c, "case")
  /\ wantedCases' = [wantedCases EXCEPT ![k] = c.what.mark]
  /\ items' = [p \in Parts |-> IF p \in RowsOf(k) THEN c.what.before[p] ELSE items[p]]
  /\ failedCases' = failedCases \cup {k}
  /\ saves' = saves + 1 /\ savingCases' = savingCases \ {k}
  /\ Refresh(calls \ {c})
  /\ UNCHANGED <<held, boxes, rows, touched, taps, caseTaps>>

\* "Anything typed during a slow save stays, for the next one."
DraftAfter(c) ==
  [draft EXCEPT ![c.what.part][c.what.field] = IF @ = c.what.text THEN None ELSE @]

TextSaved(c) ==
  /\ Answered(c, "text")
  /\ items' = [items EXCEPT ![c.what.part].text[c.what.field] = c.what.text]
  /\ detailState' = [detailState EXCEPT ![c.what.part] = ""]
  /\ draft' = DraftAfter(c)
  /\ unsaved' = unsaved \ {<<c.what.part, c.what.field>>}
  /\ saves' = saves + 1
  /\ calls' = calls \ {c}
  /\ UNCHANGED <<held, rows, cases, refreshing, touched, taps, caseTaps>>

TextFailed(c) ==
  /\ Failed(c, "text")
  /\ detailState' = [detailState EXCEPT ![c.what.part] = "failed"]
  /\ saves' = saves + 1
  /\ unsaved' = unsaved \cup {<<c.what.part, c.what.field>>}
  /\ Refresh(calls \ {c})
  /\ UNCHANGED <<held, items, draft, rows, cases, touched, taps, caseTaps>>

\* A reply older than a save is thrown away, and the look taken again.
UpToDate(c) == saves = c.what.sentAt

\* landedRows, landedCases: failed taps the server holds anyway.
LandedRows(fresh) == {p \in Parts : wantedRows[p] = fresh[p].mark}
LandedCases(fresh) == {k \in Cases : \A p \in RowsOf(k) : fresh[p].mark = wantedCases[k]}

Refreshed(c) ==
  LET fresh == c.what.fresh IN
  /\ Answered(c, "get")
  /\ IF UpToDate(c)
     THEN /\ items' = fresh
          /\ wantedRows' = [p \in Parts |-> IF p \in LandedRows(fresh) THEN None ELSE wantedRows[p]]
          /\ rowState' = [p \in Parts |-> IF p \in LandedRows(fresh) /\ rowState[p] = "failed"
                                          THEN "" ELSE rowState[p]]
          /\ wantedCases' = [k \in Cases |-> IF k \in LandedCases(fresh) THEN None ELSE wantedCases[k]]
          /\ failedCases' = failedCases \ LandedCases(fresh)
          /\ refreshing' = FALSE /\ calls' = calls \ {c}
          /\ UNCHANGED saves
     ELSE /\ UNCHANGED <<items, rowState, wantedRows, failedCases, wantedCases, saves, refreshing>>
          /\ calls' = (calls \ {c}) \cup {Look}
  /\ UNCHANGED <<held, boxes, marking, savingCases, touched, taps, caseTaps>>

RefreshFailed(c) ==
  /\ Failed(c, "get")
  /\ refreshing' = FALSE /\ calls' = calls \ {c}
  /\ UNCHANGED <<held, items, boxes, rows, cases, saves, touched, taps, caseTaps>>

Answer(c) == MarkSaved(c) \/ CaseSaved(c) \/ TextSaved(c) \/ Refreshed(c)
Failure(c) == MarkFailed(c) \/ CaseFailed(c) \/ TextFailed(c) \/ RefreshFailed(c)

Next ==
  \/ \E p \in Parts : TapPart(p) \/ OtherTick(p) \/ \E f \in Fields : Type(p, f) \/ LeaveBox(p, f)
  \/ \E k \in Cases : TapCase(k)
  \/ \E c \in calls : Land(c) \/ Answer(c) \/ Failure(c)

Spec == Init /\ [][Next]_vars
-----------------------------------------------------------------------------
(* Properties.                                                             *)

Warned(p) == rowState[p] = "failed" \/ CaseOf[p] \in failedCases

\* "so a reply older than a tick can be told apart": a tick on its way is shown.
TicksStay == \A c \in calls : c.id[1] = "row" => items[c.what.part].mark = c.what.mark

\* "so a reply thrown away is never the last word": once everything asked has
\* been answered or given up, a part shows the mark the server holds, or a
\* warning, unless somebody else has ticked it.
ShownIsHeld == calls = {} =>
  \A p \in Parts \ touched : items[p].mark = held[p].mark \/ Warned(p)

\* "A retry of a save that landed would reverse it, so its warning must go":
\* where the page says "Not saved, tap again", a tap asks for what the failed one did.
RetryAsksTheSame == \A p \in Parts :
  rowState[p] = "failed" /\ CaseOf[p] \notin savingCases => Flip(items[p].mark) = wantedRows[p]

\* What is typed leaves its box only when the part shows it.
KeepsTyped ==
  \A p \in Parts, f \in Fields :
    draft[p][f] # None /\ draft'[p][f] = None => items'[p].text[f] = draft[p][f]

\* "one saving must not hide that the other failed": a part one of whose boxes
\* was not saved says so until it is saved.
DetailFailureShows == \A u \in unsaved : detailState[u[1]] # ""
=============================================================================
