---------------------------- MODULE MCBackground ----------------------------
(* What the API does behind its requests: the outbox dispatcher, the one    *)
(* Chromium of its documents and the exports that outlive many             *)
(* transactions.  They share no state, so a behaviour runs one of them:     *)
(* "part" says which, and the others stay in their initial state.           *)
EXTENDS Outbox, TLC

CONSTANTS
  Parts,                                           \* the parts a behaviour may run
  Documents, Images, MaxLaunches, MaxRenderFaults, \* of Renderer
  Ids, Keys, ExportBatch, MaxChanges               \* of Exports

VARIABLES
  part,
  queue, job, proc, browser, launching, pages, faulted, down, rfaults, \* of Renderer
  table, stayed, came, left, moved, format, offset, last, xbatch, out, xpc, client \* of Exports

ofRenderer == <<queue, job, proc, browser, launching, pages, faulted, down, rfaults>>
ofExports  == <<table, stayed, came, left, moved, format, offset, last, xbatch, out, xpc, client>>

allVars == <<part, vars, ofRenderer, ofExports>>

\* The first retry after one tick, the second after two.
MCBackoff == [n \in 1..MaxAttempts |-> n]

\* Three rows, two of them with one key.
ThreeRows == (1 :> 1) @@ (2 :> 2) @@ (3 :> 2)

R == INSTANCE Renderer WITH MaxFaults <- MaxRenderFaults, faults <- rfaults

X == INSTANCE Exports
       WITH Started <- ThreeRows, Formats <- {"csv", "xlsx"}, BatchSize <- ExportBatch,
            batch <- xbatch, pc <- xpc

ASSUME RendererParameters == R!JobsAreApart
ASSUME ExportParameters == X!SomeBatch /\ X!KeysAreOrdered

-----------------------------------------------------------------------------
(* One part a behaviour.                                                   *)

MCInit ==
  /\ part \in Parts
  /\ Init /\ R!Init /\ X!Init
  /\ part # "exports" => format = "csv"

MCNext ==
  \/ part = "outbox"   /\ Next   /\ UNCHANGED <<part, ofRenderer, ofExports>>
  \/ part = "renderer" /\ R!Next /\ UNCHANGED <<part, vars, ofExports>>
  \/ part = "exports"  /\ X!Next /\ UNCHANGED <<part, vars, ofRenderer>>

\* The fairness of each part, for the one that goes on: JobStep, Launched and
\* Disconnected are not enabled before a request.
MCFairness ==
  /\ WF_vars(part = "outbox" /\ Tick) /\ \A r \in Runs : WF_vars(part = "outbox" /\ Step(r))
  /\ R!Fairness
  /\ WF_ofExports(part = "exports" /\ X!Step)

MCSpec == MCInit /\ [][MCNext]_allVars /\ MCFairness

-----------------------------------------------------------------------------
(* Properties of the parts that the run lists.                             *)

\* One document at a time and one Chromium, and a failed render costs no other.
OneDocumentAtATime == R!OneAtATime /\ R!FailuresAreOwn

\* An export misses and repeats no more rows than were changed meanwhile.
DamageIsBounded == X!DamageIsBounded

\* Whoever asks for a document is answered, and the export of a workbook whose
\* client is gone ends.
EveryRequestIsAnswered == R!EveryRequestIsAnswered /\ X!WorkbookDisconnectEnds
=============================================================================
