---------------------------- MODULE Idempotency ----------------------------
(***************************************************************************)
(* The Idempotency-Key protocol in front of the mutating finance endpoints:*)
(* IdempotencyInterceptor claims the key, runs the handler and stores its  *)
(* response; a repeat is replayed, refused, or (after STALE_CLAIM_MS) may  *)
(* take an abandoned claim over.  The handler is one business transaction: *)
(* it commits or it fails.  A request may die at any point of this.        *)
(***************************************************************************)
EXTENDS Integers, FiniteSets

CONSTANTS
  Keys,
  Requests,          \* HTTP requests, a retry being a request of its own
  Commands,          \* endpoint, path parameters and body
  Fingerprint,       \* what fingerprintRequest makes of a command
  HandlersMayStall,  \* TRUE: a live claimant may be older than STALE_CLAIM_MS
  MaxDeaths,         \* bound: requests lost to a crash, power cut or failed query
  None

ASSUME StallingIsChoice  == HandlersMayStall \in BOOLEAN
ASSUME BoundIsNatural    == MaxDeaths \in Nat
ASSUME NoneIsNoRequest   == None \notin Requests \cup Keys \cup Commands

Row == [print : {Fingerprint[c] : c \in Commands}, response : Requests \cup {None},
        stale : BOOLEAN]

ASSUME NoneIsNoRow == None \notin Row

VARIABLES
  row,       \* idempotency_keys, one row or None per key
  pc, ask,   \* each request: what it does next, and the key and command it sent
  answer,    \* the request whose response it was given
  executed,  \* requests whose handler has committed
  deaths

vars == <<row, pc, ask, answer, executed, deaths>>

NoRequest == [key |-> None, cmd |-> None]

FingerprintOf(r) == Fingerprint[ask[r].cmd]

\* The claimant of a key is between its claim and the end of complete().
InFlight(r) == pc[r] \in {"run", "complete"}

Running(k) == {r \in Requests : InFlight(r) /\ ask[r].key = k}

Goto(r, label) == pc' = [pc EXCEPT ![r] = label]

Init ==
  /\ row      = [k \in Keys |-> None]
  /\ pc       = [r \in Requests |-> "new"]
  /\ ask      = [r \in Requests |-> NoRequest]
  /\ answer   = [r \in Requests |-> None]
  /\ executed = {}
  /\ deaths   = 0

Arrive(r) == \E k \in Keys, c \in Commands :
  /\ pc[r] = "new"
  /\ ask' = [ask EXCEPT ![r] = [key |-> k, cmd |-> c]]
  /\ Goto(r, "claim")
  /\ UNCHANGED <<row, answer, executed, deaths>>

-----------------------------------------------------------------------------
\* Mutants: an unresolved claim is taken over however fresh it is; a stale row
\* is taken over although its response is stored.
ClaimableUnresolved(k) == row[k] = None \/ row[k].response = None

ClaimableStale(k) == row[k] = None \/ row[k].stale

\* insert ... on conflict do update ... where response is null and created_at
\* is older than the threshold.
Claimable(k) == row[k] = None \/ (row[k].response = None /\ row[k].stale)

TryClaim(r) ==
  LET k == ask[r].key IN
  /\ pc[r] = "claim"
  /\ IF Claimable(k)
       THEN /\ row' = [row EXCEPT ![k] = [print |-> FingerprintOf(r), response |-> None, stale |-> FALSE]]
            /\ Goto(r, "run")
       ELSE Goto(r, "read") /\ UNCHANGED row
  /\ UNCHANGED <<ask, answer, executed, deaths>>

\* Mutant: the stored fingerprint is not compared.
ConflictsNever(r) == FALSE

Conflicts(r) == row[ask[r].key].print # FingerprintOf(r)

\* The claim was not won: 409 on another fingerprint, the stored response if
\* there is one, else 409 "in progress".
ReadRow(r) ==
  LET stored == row[ask[r].key].response IN
  /\ pc[r] = "read"
  /\ IF Conflicts(r) \/ stored = None
       THEN Goto(r, "refused") /\ UNCHANGED answer
       ELSE Goto(r, "answered") /\ answer' = [answer EXCEPT ![r] = stored]
  /\ UNCHANGED <<row, ask, executed, deaths>>

Handle(r) ==
  /\ pc[r] = "run"
  /\ executed' = executed \cup {r}
  /\ Goto(r, "complete")
  /\ UNCHANGED <<row, ask, answer, deaths>>

\* The handler throws and rolls back; the claim stays behind, unresolved.
HandlerThrows(r) ==
  /\ pc[r] = "run"
  /\ Goto(r, "failed")
  /\ UNCHANGED <<row, ask, answer, executed, deaths>>

\* complete() updates the row by its key, whoever holds the claim by now.
Complete(r) ==
  /\ pc[r] = "complete"
  /\ row' = [row EXCEPT ![ask[r].key].response = r]
  /\ answer' = [answer EXCEPT ![r] = r]
  /\ Goto(r, "answered")
  /\ UNCHANGED <<ask, executed, deaths>>

\* A power cut, a killed process or a query the database refuses.
Die(r) ==
  /\ pc[r] \in {"claim", "read", "run", "complete"}
  /\ deaths < MaxDeaths
  /\ deaths' = deaths + 1
  /\ Goto(r, "dead")
  /\ UNCHANGED <<row, ask, answer, executed>>

\* Thirty seconds go by since the row was claimed.
GoStale(k) ==
  /\ row[k] # None /\ ~row[k].stale
  /\ HandlersMayStall \/ Running(k) = {}
  /\ row' = [row EXCEPT ![k].stale = TRUE]
  /\ UNCHANGED <<pc, ask, answer, executed, deaths>>

Next ==
  \/ \E r \in Requests :
       \/ Arrive(r) \/ TryClaim(r) \/ ReadRow(r)
       \/ Handle(r) \/ HandlerThrows(r) \/ Complete(r) \/ Die(r)
  \/ \E k \in Keys : GoStale(k)

Spec == Init /\ [][Next]_vars
-----------------------------------------------------------------------------
Labels == {"new", "claim", "read", "run", "complete", "answered", "refused", "failed", "dead"}

\* Types of the rows and of each request's progress.
TypeOK ==
  /\ row \in [Keys -> Row \cup {None}]
  /\ pc \in [Requests -> Labels]
  /\ DOMAIN ask = Requests
  /\ \A r \in Requests : \/ pc[r] = "new" /\ ask[r] = NoRequest
                         \/ pc[r] # "new" /\ ask[r] \in [key : Keys, cmd : Commands]
  /\ answer \in [Requests -> Requests \cup {None}]
  /\ executed \subseteq Requests
  /\ deaths \in Nat

\* The handlers of two requests with one key never run at the same time: the
\* double click of a finance officer does not race with itself.
OneClaimantAtATime ==
  \A r, q \in Requests : InFlight(r) /\ InFlight(q) /\ ask[r].key = ask[q].key => r = q

\* Of the executions a key has had, at most one was ever confirmed to its
\* client: a second one needs a first whose request died before the answer.
RepeatsFollowDeaths ==
  \A r, q \in executed :
    r # q /\ ask[r].key = ask[q].key => pc[r] = "dead" \/ pc[q] = "dead"

\* A response handed out belongs to an execution of the same key and the same
\* fingerprint, even after a claim was taken over by a request with another body.
ReplayAnswersTheRequest ==
  \A r \in Requests : answer[r] # None =>
    /\ answer[r] \in executed
    /\ ask[answer[r]].key = ask[r].key
    /\ FingerprintOf(answer[r]) = FingerprintOf(r)

\* Whatever dies or is taken over, no client holds a confirmation of work that
\* was done twice, or a response to something else than it asked.
AnswersHold == TypeOK /\ RepeatsFollowDeaths /\ ReplayAnswersTheRequest

\* Once stored, a response is never replaced, reset or re-claimed.
StoredResponseIsFinal ==
  [][\A k \in Keys : row[k] # None /\ row[k].response # None =>
       /\ row'[k] # None
       /\ row'[k].response = row[k].response
       /\ row'[k].print = row[k].print]_vars

\* "fingerprint MATCHES --> replay: a genuine repeat": the replayed response is
\* that of the same command, path parameters included.
ReplayIsGenuineRepeat ==
  \A r \in Requests : answer[r] # None => ask[answer[r]].cmd = ask[r].cmd

\* "A repeat with the same key and the same request body returns the first
\* response instead of re-executing."
RepeatNeverReexecutes ==
  \A r, q \in executed :
    ask[r].key = ask[q].key /\ FingerprintOf(r) = FingerprintOf(q) => r = q
=============================================================================
