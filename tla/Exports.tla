------------------------------ MODULE Exports ------------------------------
(***************************************************************************)
(* The CSV and XLSX exports of every list: a generator that reads the      *)
(* table in batches by offset, each batch in a transaction of its own, and *)
(* a writer that passes the rows to a response the client may stop reading *)
(* or abandon.  The table changes in between.  The model starts when the   *)
(* writer does and its batches are as short as BatchSize.                  *)
(***************************************************************************)
EXTENDS FiniteSets, Integers, Sequences, SequencesExt

CONSTANTS
  Ids,        \* primary keys of rows
  Keys,       \* values of the column a list is ordered by
  Started,    \* the rows there are when the export starts: a function of ids
  Formats,    \* the formats asked for, of "csv" and "xlsx"
  BatchSize,  \* BATCH_SIZE, 500 in the code
  MaxChanges  \* bound: changes of the table during one export

SomeBatch == BatchSize \in Nat \ {0}
KeysAreOrdered == Keys \subseteq Nat /\ Ids \subseteq Nat

VARIABLES
  table,    \* key of each row the filter of the export lets through
  stayed,   \* rows that have been there, unmoved, since the export started
  came, left, moved,  \* counts of changes
  format, offset,
  last,     \* whether the batch at hand is the last one
  batch,    \* rows of the batch still to be written
  out,      \* rows written
  pc,
  client    \* "reading" or "gone"

changes == <<came, left, moved>>
writer == <<format, offset, last, batch, out, pc>>
vars == <<table, stayed, came, left, moved, writer, client>>

Init ==
  /\ table = Started /\ stayed = DOMAIN Started
  /\ came = 0 /\ left = 0 /\ moved = 0
  /\ format \in Formats
  /\ offset = 0 /\ last = FALSE /\ batch = <<>> /\ out = <<>>
  /\ pc = "query" /\ client = "reading"
-----------------------------------------------------------------------------
(* The table.                                                              *)

Change == came + left + moved < MaxChanges

Come(id) ==
  /\ Change /\ id \notin DOMAIN table /\ id \notin stayed
  /\ \E k \in Keys : table' = [i \in DOMAIN table \cup {id} |-> IF i = id THEN k ELSE table[i]]
  /\ came' = came + 1
  /\ UNCHANGED <<stayed, left, moved, writer, client>>

\* A soft delete, or a status the filter of the export does not ask for.
Leave(id) ==
  /\ Change /\ id \in DOMAIN table
  /\ table' = [i \in DOMAIN table \ {id} |-> table[i]]
  /\ stayed' = stayed \ {id}
  /\ left' = left + 1
  /\ UNCHANGED <<came, moved, writer, client>>

\* A new name of an employee, a new service date of a contract.
Move(id) ==
  /\ Change /\ id \in DOMAIN table
  /\ \E k \in Keys \ {table[id]} : table' = [table EXCEPT ![id] = k]
  /\ stayed' = stayed \ {id}
  /\ moved' = moved + 1
  /\ UNCHANGED <<came, left, writer, client>>
-----------------------------------------------------------------------------
(* The generator.                                                          *)

\* Mutant: no tiebreaker, so each query breaks ties as it likes.
ByKeyAlone(rows) ==
  {s \in SetToSeqs(rows) : \A i, j \in DOMAIN s : i < j => table[s[i]] <= table[s[j]]}

\* "ties broken by the `id` tiebreaker": the one order of the rows.
Orders(rows) ==
  {SetToSortSeq(rows, LAMBDA a, b : table[a] < table[b] \/ (table[a] = table[b] /\ a < b))}

NextOffset == offset + BatchSize

Limited(s) ==
  [i \in 1..Cardinality((offset + 1)..(offset + BatchSize) \cap DOMAIN s) |-> s[offset + i]]

\* One transaction: limit BATCH_SIZE, offset.
Query ==
  /\ pc = "query"
  /\ \E s \in Orders(DOMAIN table) : batch' = Limited(s)
  /\ last' = (Len(batch') < BatchSize)
  /\ offset' = NextOffset
  /\ pc' = "write"
  /\ UNCHANGED <<table, stayed, changes, format, out, client>>
-----------------------------------------------------------------------------
(* The writer.                                                             *)

\* A row yielded and written.  writeCsv waits for 'drain' when write() answers
\* false, as it does for a full buffer and for a response that is closed.
WriteRow ==
  /\ pc = "write" /\ batch # <<>>
  /\ out' = Append(out, Head(batch)) /\ batch' = Tail(batch)
  /\ pc' \in IF format = "xlsx" THEN {"write"}
             ELSE IF client = "gone" THEN {"drain"} ELSE {"write", "drain"}
  /\ UNCHANGED <<table, stayed, changes, format, offset, last, client>>

Drained ==
  /\ pc = "drain" /\ client = "reading"
  /\ pc' = "write"
  /\ UNCHANGED <<table, stayed, changes, format, offset, last, batch, out, client>>

\* The batch is through: the next one, or res.end(), or the commit of the workbook.
BatchDone ==
  /\ pc = "write" /\ batch = <<>>
  /\ pc' = IF ~last THEN "query" ELSE IF format = "xlsx" THEN "commit" ELSE "done"
  /\ UNCHANGED <<table, stayed, changes, format, offset, last, batch, out, client>>

Commit ==
  /\ pc = "commit" /\ client = "reading"
  /\ pc' = "done"
  /\ UNCHANGED <<table, stayed, changes, format, offset, last, batch, out, client>>

\* raceAgainstDisconnect: 'close' is heard while somebody listens for it. XLSX
\* races every step and the commit, CSV the wait for 'drain'.
Hears == IF format = "xlsx" THEN pc \in {"query", "write", "commit"} ELSE pc = "drain"

Disconnect ==
  /\ client = "reading" /\ pc # "done"
  /\ client' = "gone"
  /\ pc' = IF Hears THEN "destroyed" ELSE pc
  /\ UNCHANGED <<table, stayed, changes, format, offset, last, batch, out>>

Step == Query \/ WriteRow \/ Drained \/ BatchDone \/ Commit
Next == Step \/ Disconnect \/ \E id \in Ids : Come(id) \/ Leave(id) \/ Move(id)

Spec == Init /\ [][Next]_vars

\* The database answers, and the runtime goes on with what can go on.
Fairness == WF_vars(Step)

FairSpec == Spec /\ Fairness
-----------------------------------------------------------------------------
(* Properties.                                                             *)

Copies(id) == Cardinality({i \in DOMAIN out : out[i] = id})
Skipped == {id \in stayed : Copies(id) = 0}
Extra == Len(out) - Cardinality(ToSet(out))

\* "ties broken by the `id` tiebreaker ... no longer duplicate or skip rows ...
\* concurrent inserts/deletes can still shift the offset window": a finished
\* export misses no more rows that stayed than left or moved meanwhile, and
\* repeats no more than came or moved.  With a still table it is exact.
DamageIsBounded == pc = "done" =>
  /\ Cardinality(Skipped) <= left + moved
  /\ Extra <= came + moved

\* "Without this, a cancelled request can park forever": an export whose client
\* is gone ends, and its generator with it.
DisconnectEnds == (client = "gone") ~> (pc \in {"done", "destroyed"})

WorkbookDisconnectEnds == (client = "gone" /\ format = "xlsx") ~> (pc \in {"done", "destroyed"})
=============================================================================
