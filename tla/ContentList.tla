---------------------------- MODULE ContentList ----------------------------
(***************************************************************************)
(* The two ordered lists a company prints its documents from: the prose    *)
(* sections and the component table (document-content.repository.ts), the  *)
(* settings pages that move a row up or down, and the seed a deploy runs.  *)
(*                                                                         *)
(* A reorder is one transaction of single-row updates; the row locks it    *)
(* takes are held to its end, and the unique key on the row number of a    *)
(* component is checked by every statement.  Every other request writes    *)
(* one row in its last statement, so that write and its commit are one     *)
(* step; it waits while a reorder holds the row.  Requests that change     *)
(* neither the rows there are nor their order are left out: the texts of a *)
(* row, hiding a section.                                                  *)
(***************************************************************************)
EXTENDS Integers, Sequences, FiniteSets, SequencesExt

CONSTANTS
  Kind,         \* "components" or "sections"
  Procs,        \* pages, each with at most one request under way
  Defaults,     \* how many rows the seed carries
  Seeded,       \* how many it carried at the first deploy
  Typed,        \* numbers a request may name for the row it adds, or moves
  Keys,         \* names of components, keys of sections: 1 .. Defaults seeded
  MaxRows,      \* bound on the rows ever inserted
  MaxRequests,  \* bound on the requests that write
  MaxDeploys,   \* bound on the deploys after the first
  None

VARIABLES
  rows,     \* the rows there are
  seq,      \* row -> sequence, or sort_order
  key,      \* row -> componentName, or section_key
  lock,     \* row -> the reorder that holds it
  proc,     \* what a page does
  requests, deploys

vars == <<rows, seq, key, lock, proc, requests, deploys>>

Ids == 1..MaxRows
Components == Kind = "components"
Idle == [pc |-> "idle", page |-> <<>>, ids |-> <<>>, at |-> 0,
         own |-> [i \in Ids |-> 0], new |-> 0, key |-> 0, seen |-> {},
         alone |-> TRUE, answer |-> None]

-----------------------------------------------------------------------------
(* Print order: of two sections with one sort_order the key decides.       *)
Before(i, j) == seq[i] < seq[j] \/ (seq[i] = seq[j] /\ key[i] < key[j])
Shown == SetToSortSeq(rows, Before)

NextSequence ==
  IF rows = {} THEN IF Components THEN 1 ELSE 0
  ELSE 1 + seq[Last(Shown)]

(* The row another row of the list bars from number s, as p sees it.       *)
Held(i, p) == lock[i] \notin {None, p}
Number(i, p) == IF lock[i] = p THEN proc[p].own[i] ELSE seq[i]
Barred(p, i, s) == Components /\ \E j \in rows \ {i} : ~Held(j, p) /\ Number(j, p) = s
Undecided(p, s) ==
  Components /\ \E j \in rows : Held(j, p) /\ s \in {seq[j], proc[lock[j]].own[j]}

(* The rows the seed finds there already: by number, or by key.            *)
SeedTaken(d) == \E i \in rows : IF Components THEN seq[i] = d ELSE key[i] = d

(* Every number a reorder writes, in order: parked first where it must be. *)
Passes == IF Components THEN <<-1, 1>> ELSE <<1>>
Writes(ids) ==
  FlattenSeq([n \in DOMAIN Passes |->
    [k \in DOMAIN ids |-> [row |-> ids[k], seq |-> Passes[n] * k]]])

-----------------------------------------------------------------------------
Insert(i, s, k) ==
  /\ rows' = rows \cup {i}
  /\ seq' = [seq EXCEPT ![i] = s]
  /\ key' = [key EXCEPT ![i] = k]

(* p becomes r; what it committed, if it did, others now run beside.       *)
Becomes(p, r, wrote) ==
  proc' = [q \in Procs |-> IF q = p THEN r
                           ELSE IF wrote THEN [proc[q] EXCEPT !.alone = FALSE]
                           ELSE proc[q]]
Answers(p, a) == [Idle EXCEPT !.page = proc[p].page, !.alone = proc[p].alone, !.answer = a]

Fresh == Cardinality({i \in Ids : key[i] # 0}) + 1

Init ==
  /\ rows = 1..Seeded
  /\ seq = [i \in Ids |-> IF i \in rows THEN i ELSE 0]
  /\ key = seq
  /\ lock = [i \in Ids |-> None]
  /\ proc = [p \in Procs |-> Idle]
  /\ requests = 0 /\ deploys = 0

Load(p) ==
  /\ proc[p].pc = "idle" /\ proc[p].page # Shown
  /\ Becomes(p, [proc[p] EXCEPT !.page = Shown], FALSE)
  /\ UNCHANGED <<rows, seq, key, lock, requests, deploys>>

Asks(p) ==
  /\ proc[p].pc = "idle" /\ requests < MaxRequests
  /\ requests' = requests + 1

(* movedOrder and the first statement of the reorder, with its check.      *)
Move(p) ==
  /\ Asks(p)
  /\ \E k \in 1..(Len(proc[p].page) - 1) :
       LET old == proc[p].page
           ids == [old EXCEPT ![k] = old[k + 1], ![k + 1] = old[k]]
       IN IF ToSet(ids) # rows THEN Becomes(p, Answers(p, "stale"), FALSE)
          ELSE Becomes(p, [proc[p] EXCEPT !.pc = "renumber", !.ids = ids, !.at = 1,
                                          !.alone = TRUE, !.answer = None], FALSE)
  /\ UNCHANGED <<rows, seq, key, lock, deploys>>

Releases(p) == [i \in Ids |-> IF lock[i] = p THEN None ELSE lock[i]]

Renumber(p) ==
  LET w == Writes(proc[p].ids)[proc[p].at]
      next == [proc[p] EXCEPT !.at = @ + 1]
  IN /\ proc[p].pc = "renumber" /\ proc[p].at \in DOMAIN Writes(proc[p].ids)
     /\ IF w.row \notin rows
        THEN Becomes(p, next, FALSE) /\ UNCHANGED lock
        ELSE /\ ~Held(w.row, p)
             /\ IF Barred(p, w.row, w.seq)
                THEN Becomes(p, Answers(p, "collided"), FALSE) /\ lock' = Releases(p)
                ELSE /\ ~Undecided(p, w.seq)
                     /\ Becomes(p, [next EXCEPT !.own[w.row] = w.seq], FALSE)
                     /\ lock' = [lock EXCEPT ![w.row] = p]
     /\ UNCHANGED <<rows, seq, key, requests, deploys>>

EndReorder(p) ==
  /\ proc[p].pc = "renumber" /\ proc[p].at \notin DOMAIN Writes(proc[p].ids)
  /\ seq' = [i \in Ids |-> Number(i, p)]
  /\ lock' = Releases(p)
  /\ Becomes(p, [Answers(p, "ok") EXCEPT !.page = SetToSortSeq(rows,
                  LAMBDA i, j : Number(i, p) < Number(j, p)
                                \/ (Number(i, p) = Number(j, p) /\ key[i] < key[j]))],
             TRUE)
  /\ UNCHANGED <<rows, key, requests, deploys>>

(* Of reorders that wait for each other PostgreSQL ends one.               *)
WaitsFor(p, q) ==
  /\ proc[p].pc = "renumber" /\ proc[p].at \in DOMAIN Writes(proc[p].ids)
  /\ lock[Writes(proc[p].ids)[proc[p].at].row] = q

Victim(p) ==
  /\ \E q \in Procs \ {p} : WaitsFor(p, q) /\ WaitsFor(q, p)
  /\ lock' = Releases(p)
  /\ Becomes(p, Answers(p, "deadlock"), FALSE)
  /\ UNCHANGED <<rows, seq, key, requests, deploys>>

(* A row added by a person, without a number: the last one is read, then   *)
(* written past.                                                           *)
StartCreate(p) ==
  /\ Asks(p)
  /\ \E k \in Keys, n \in Typed \cup {0} :
       Becomes(p, [proc[p] EXCEPT !.pc = "create", !.key = k, !.answer = None,
                                  !.new = IF n = 0 THEN NextSequence ELSE n,
                                  !.seen = IF n = 0 THEN rows ELSE {}], FALSE)
  /\ UNCHANGED <<rows, seq, key, lock, deploys>>

EndCreate(p) ==
  LET s == proc[p].new
      there == IF Components THEN Barred(p, 0, s)
               ELSE \E i \in rows : key[i] = proc[p].key
  IN /\ proc[p].pc = "create" /\ Fresh \in Ids
     /\ IF there THEN Becomes(p, Answers(p, "conflict"), FALSE) /\ UNCHANGED <<rows, seq, key>>
        ELSE /\ ~Undecided(p, s)
             /\ Insert(Fresh, s, proc[p].key)
             /\ Becomes(p, Answers(p, "ok"), TRUE)
     /\ UNCHANGED <<lock, requests, deploys>>

(* Only a component is deleted; a hidden section keeps its row.            *)
DeleteComponent(p) ==
  /\ Components /\ Asks(p)
  /\ \E i \in ToSet(proc[p].page) :
       /\ lock[i] = None
       /\ IF i \in rows THEN rows' = rows \ {i} /\ Becomes(p, Answers(p, "ok"), TRUE)
          ELSE Becomes(p, Answers(p, "missing"), FALSE) /\ UNCHANGED rows
  /\ UNCHANGED <<seq, key, lock, deploys>>

(* The PATCH of a section that names a sortOrder: it writes that row alone  *)
(* and waits for it while a reorder holds it.                              *)
StartUpdate(p) ==
  /\ ~Components /\ Asks(p)
  /\ \E i \in ToSet(proc[p].page), n \in Typed :
       Becomes(p, [proc[p] EXCEPT !.pc = "update", !.ids = <<i>>, !.new = n, !.answer = None], FALSE)
  /\ UNCHANGED <<rows, seq, key, lock, deploys>>

EndUpdate(p) ==
  LET i == proc[p].ids[1] IN
  /\ proc[p].pc = "update" /\ ~Held(i, p)
  /\ seq' = [seq EXCEPT ![i] = proc[p].new]
  /\ Becomes(p, Answers(p, "ok"), TRUE)
  /\ UNCHANGED <<rows, key, lock, requests, deploys>>

(* seedDocumentContent: ON CONFLICT DO NOTHING.                            *)
Deploy ==
  LET due == {d \in 1..Defaults : ~SeedTaken(d)}
      id(d) == Fresh + Cardinality({e \in due : e < d})
      seeded == {id(d) : d \in due}
      by(i) == CHOOSE d \in due : id(d) = i
  IN /\ deploys < MaxDeploys /\ deploys' = deploys + 1
     /\ Components => \A i \in rows : lock[i] = None
     /\ seeded \subseteq Ids
     /\ rows' = rows \cup seeded
     /\ seq' = [i \in Ids |-> IF i \in seeded THEN by(i) ELSE seq[i]]
     /\ key' = [i \in Ids |-> IF i \in seeded THEN by(i) ELSE key[i]]
     /\ proc' = [p \in Procs |-> [proc[p] EXCEPT !.alone = @ /\ due = {}]]
     /\ UNCHANGED <<lock, requests>>

Next ==
  \/ Deploy
  \/ \E p \in Procs : \/ Load(p) \/ Move(p) \/ Renumber(p) \/ EndReorder(p) \/ Victim(p)
                      \/ StartCreate(p) \/ EndCreate(p) \/ DeleteComponent(p)
                      \/ StartUpdate(p) \/ EndUpdate(p)

Spec == Init /\ [][Next]_vars

-----------------------------------------------------------------------------
(* Properties                                                              *)

(* Every row has a place to print at: no number is left parked below zero, *)
(* and no two components share one (reorderComponents).                    *)
TypeOK ==
  /\ rows \subseteq Ids
  /\ \A p \in Procs : proc[p].pc \in {"idle", "renumber", "create", "update"}
  /\ \A i \in rows : seq[i] >= IF Components THEN 1 ELSE 0
  /\ Components => \A i, j \in rows : seq[i] = seq[j] => i = j
  /\ \A i \in rows : lock[i] # None => proc[lock[i]].pc = "renumber"

Among(list, set) == SelectSeq(list, LAMBDA i : i \in set)

(* The rows print in an order somebody asked for.  A reorder puts the rows *)
(* it names in its order, whatever was moved beside it; the PATCH of a     *)
(* section takes that one to the number it named, also after waiting for a *)
(* reorder, past what it passes, and leaves the others as they were;       *)
(* nothing else moves two rows past each other (reorderComponents,         *)
(* reorderBoilerplate, updateBoilerplate).                                 *)
OrdersAsAsked ==
  \/ Among(Shown', rows) = Among(Shown, rows')
  \/ \E p \in Procs :
       /\ proc[p].pc = "renumber" /\ proc'[p].pc = "idle"
       /\ Among(Shown', ToSet(proc[p].ids)) = Among(proc[p].ids, rows)
  \/ \E p \in Procs, i \in rows :
       /\ proc[p].pc = "update" /\ proc'[p].pc = "idle" /\ proc[p].ids = <<i>>
       /\ seq'[i] = proc[p].new
       /\ Among(Shown', rows \ {i}) = Among(Shown, rows \ {i})

(* A component added without a number comes after every row that was there *)
(* when it was asked for, also when rows were deleted and moved meanwhile   *)
(* (createComponent).                                                      *)
AddsAfterSeen ==
  \A p \in Procs, i \in rows' \ rows, j \in Ids :
    proc[p].pc = "create" /\ proc'[p].pc = "idle" /\ j \in proc[p].seen \cap rows
      => seq[j] < seq'[i]

(* It comes last of all.                                                   *)
AddedLast ==
  [][\A i \in rows' \ rows, j \in rows : deploys' = deploys => seq[j] < seq'[i]]_vars

(* A reorder never trips over its own rows: it fails on the unique number  *)
(* only if another request wrote while it ran (reorderComponents).         *)
CollisionNeedsAnother ==
  \A p \in Procs : proc[p].answer = "collided" => ~proc[p].alone

(* A deploy inserts no default a second time (seedDocumentContent).        *)
SeedsOnce ==
  \A i \in rows' \ rows : deploys' # deploys => \A j \in Ids : key[j] # key'[i]
=============================================================================
