------------------------------- MODULE Outbox -------------------------------
(***************************************************************************)
(* outbound_messages and its dispatcher.  Every minute a dispatch run      *)
(* claims a batch of due messages in one transaction, then sends them one  *)
(* after the other; each send and each write-back of its outcome is a step.*)
(* A run may overlap the next one, of this or another API instance, and    *)
(* may die anywhere.  Claims left behind are taken up again once stale.    *)
(*                                                                         *)
(* Time is kept relative to now, in ticks: due is the time to              *)
(* next_attempt_at and age the time since updated_at.                      *)
(***************************************************************************)
EXTENDS Integers, Sequences, FiniteSets

CONSTANTS
  Messages,     \* dedupe keys
  Runs,         \* dispatch runs that may be under way together
  Blocked,      \* messages whose recipient SMS_ALLOWLIST does not name
  NoProvider,   \* messages on a channel without a provider (EMAIL)
  BatchSize,    \* CLAIM_BATCH_SIZE
  MaxAttempts,  \* MAX_ATTEMPTS
  Backoff,      \* BACKOFF_MINUTES_BY_ATTEMPT
  SendTime,     \* the provider's request timeout, with the write-back
  StaleAfter,   \* the fifteen minutes after which a claim is stale
  MaxAhead,     \* bound: how far in the future sendAt may be
  MaxLate,      \* bound: overdue messages later than this are equally late
  MaxFaults,    \* bound: crashes, lost replies and failed write-backs
  MaxRetries,   \* bound: retries by an operator
  None

ASSUME BatchSizePositive == BatchSize \in Nat \ {0}
ASSUME AttemptsPositive  == MaxAttempts \in Nat \ {0}
ASSUME BackoffIsDelay    == Backoff \in [1..MaxAttempts -> Nat]
ASSUME TimesAreNatural   == SendTime \in Nat \ {0} /\ StaleAfter \in Nat /\ MaxAhead \in Nat
ASSUME BoundsAreNatural  == MaxLate \in Nat /\ MaxFaults \in Nat /\ MaxRetries \in Nat

\* "comfortably longer than one dispatch tick plus the provider's own 10s timeout"
ASSUME BatchEndsInTime == BatchSize * SendTime <= StaleAfter

Statuses == {"QUEUED", "SENDING", "SENT", "FAILED"}

Row == [status : Statuses, attempts : Nat, due : Int, age : Nat]

ASSUME NoneIsNoRow       == None \notin Row
ASSUME MessagesAreFinite == IsFiniteSet(Messages)

VARIABLES
  row,        \* status, attempts, due and age of each message; None is no row
  pc,         \* what each run does with the first message of its batch
  batch,      \* messages a run has yet to finish, as claimed
  timer,      \* time the run has spent on the first of them
  delivered,  \* how often each message has reached its recipient
  faults, retries

vars == <<row, pc, batch, timer, delivered, faults, retries>>

Message(status, attempts, due, age) ==
  [status |-> status, attempts |-> attempts, due |-> due, age |-> age]

Init ==
  /\ row       = [m \in Messages |-> None]
  /\ pc        = [r \in Runs |-> "idle"]
  /\ batch     = [r \in Runs |-> <<>>]
  /\ timer     = [r \in Runs |-> 0]
  /\ delivered = [m \in Messages |-> 0]
  /\ faults    = 0
  /\ retries   = 0

-----------------------------------------------------------------------------
(* Producers and operators.                                                *)

\* insert ... on conflict (tenant, dedupe key) do nothing
Enqueue(m) == \E d \in 0..MaxAhead :
  /\ row[m] = None
  /\ row' = [row EXCEPT ![m] = Message("QUEUED", 0, d, 0)]
  /\ UNCHANGED <<pc, batch, timer, delivered, faults, retries>>

\* FAILED to QUEUED, due at once, attempts not reset.
Retry(m) ==
  /\ row[m] # None /\ row[m].status = "FAILED"
  /\ retries < MaxRetries
  /\ retries' = retries + 1
  /\ row' = [row EXCEPT ![m] = Message("QUEUED", @.attempts, 0, 0)]
  /\ UNCHANGED <<pc, batch, timer, delivered, faults>>

-----------------------------------------------------------------------------
(* claimDue.                                                               *)

\* Mutants: abandoned claims are never taken up; any SENDING row is taken for one.
DueQueuedOnly(m) == row[m] # None /\ row[m].status = "QUEUED" /\ row[m].due <= 0

DueUnaged(m) ==
  /\ row[m] # None
  /\ \/ row[m].status = "QUEUED" /\ row[m].due <= 0
     \/ row[m].status = "SENDING"

Due(m) ==
  /\ row[m] # None
  /\ \/ row[m].status = "QUEUED" /\ row[m].due <= 0
     \/ row[m].status = "SENDING" /\ row[m].age > StaleAfter

\* The order the rows of an UPDATE ... RETURNING come back in is not specified.
Orders(S) == {s \in [1..Cardinality(S) -> S] : {s[n] : n \in DOMAIN s} = S}

\* order by next_attempt_at limit BatchSize for update skip locked
DueBatches ==
  LET due == {m \in Messages : Due(m)} IN
  {S \in SUBSET due :
     /\ Cardinality(S) = IF Cardinality(due) < BatchSize THEN Cardinality(due) ELSE BatchSize
     /\ \A m \in S, n \in due \ S : row[m].due <= row[n].due}

Claimed(m) == Message("SENDING", row[m].attempts + 1, row[m].due, 0)

Claim(r) == \E S \in DueBatches : \E order \in Orders(S) :
  /\ pc[r] = "idle" /\ S # {}
  /\ row'   = [m \in Messages |-> IF m \in S THEN Claimed(m) ELSE row[m]]
  /\ batch' = [batch EXCEPT ![r] =
                 [n \in DOMAIN order |-> [msg |-> order[n], attempts |-> row[order[n]].attempts + 1]]]
  /\ timer' = [timer EXCEPT ![r] = 0]
  /\ pc'    = [pc EXCEPT ![r] = "send"]
  /\ UNCHANGED <<delivered, faults, retries>>

-----------------------------------------------------------------------------
(* sendOne: the provider call, then the write-back of its outcome.         *)

Current(r) == Head(batch[r]).msg

Goto(r, label) == pc' = [pc EXCEPT ![r] = label]

BlockByAllowlist(r) ==
  /\ pc[r] = "send" /\ Current(r) \in Blocked \ NoProvider
  /\ Goto(r, "blocked")
  /\ UNCHANGED <<row, batch, timer, delivered, faults, retries>>

\* No provider for the channel, or the provider turns the message down.
SendFails(r) ==
  /\ pc[r] = "send" /\ Current(r) \notin Blocked \ NoProvider
  /\ Goto(r, "failed")
  /\ UNCHANGED <<row, batch, timer, delivered, faults, retries>>

\* The provider delivers; its reply may still be lost or come too late.
SendDelivers(r) ==
  /\ pc[r] = "send" /\ Current(r) \notin Blocked \cup NoProvider
  /\ delivered' = [delivered EXCEPT ![Current(r)] = @ + 1]
  /\ \/ Goto(r, "sent") /\ UNCHANGED faults
     \/ Goto(r, "failed") /\ faults < MaxFaults /\ faults' = faults + 1
  /\ UNCHANGED <<row, batch, timer, retries>>

\* Mutant: a failure is retried however many attempts it follows.
OutcomeRetriesAlways(r) ==
  LET m == Current(r)
      n == Head(batch[r]).attempts
      d == Backoff[IF n < MaxAttempts THEN n ELSE MaxAttempts]
  IN  CASE pc[r] = "sent"    -> Message("SENT", row[m].attempts, row[m].due, 0)
        [] pc[r] = "blocked" -> Message("FAILED", row[m].attempts, row[m].due, 0)
        [] pc[r] = "failed"  -> Message("QUEUED", row[m].attempts, d, 0)

\* markSent, markFailed and markRetry: by id, whatever the status is by now;
\* the attempts that decide are those the claim returned.
Outcome(r) ==
  LET m == Current(r)
      n == Head(batch[r]).attempts
  IN  CASE pc[r] = "sent"    -> Message("SENT", row[m].attempts, row[m].due, 0)
        [] pc[r] = "blocked" -> Message("FAILED", row[m].attempts, row[m].due, 0)
        [] pc[r] = "failed"  ->
             IF n >= MaxAttempts THEN Message("FAILED", row[m].attempts, row[m].due, 0)
             ELSE Message("QUEUED", row[m].attempts, Backoff[n], 0)

AfterWriteBack(r) ==
  /\ batch' = [batch EXCEPT ![r] = Tail(@)]
  /\ Goto(r, IF Len(batch[r]) = 1 THEN "idle" ELSE "send")
  /\ timer' = [timer EXCEPT ![r] = 0]

WriteBack(r) ==
  /\ pc[r] \in {"sent", "failed", "blocked"}
  /\ row' = [row EXCEPT ![Current(r)] = Outcome(r)]
  /\ AfterWriteBack(r)
  /\ UNCHANGED <<delivered, faults, retries>>

\* The update fails: the error is logged and the row stays SENDING.
WriteBackFails(r) ==
  /\ pc[r] \in {"sent", "failed", "blocked"}
  /\ faults < MaxFaults
  /\ faults' = faults + 1
  /\ AfterWriteBack(r)
  /\ UNCHANGED <<row, delivered, retries>>

-----------------------------------------------------------------------------
(* Crashes and the passing of time.                                        *)

Crash(r) ==
  /\ pc[r] # "idle"
  /\ faults < MaxFaults
  /\ faults' = faults + 1
  /\ batch' = [batch EXCEPT ![r] = <<>>]
  /\ timer' = [timer EXCEPT ![r] = 0]
  /\ Goto(r, "idle")
  /\ UNCHANGED <<row, delivered, retries>>

Later(due) == IF due > -MaxLate THEN due - 1 ELSE due

Older(age) == IF age <= StaleAfter THEN age + 1 ELSE age

\* A provider call ends within SendTime, by its reply or by its timeout.
Tick ==
  /\ \A r \in Runs : pc[r] # "idle" => timer[r] < SendTime
  /\ timer' = [r \in Runs |-> IF pc[r] = "idle" THEN 0 ELSE timer[r] + 1]
  /\ row'   = [m \in Messages |->
                 IF row[m] = None THEN None
                 ELSE [row[m] EXCEPT !.due = Later(@), !.age = Older(@)]]
  /\ UNCHANGED <<pc, batch, delivered, faults, retries>>

Step(r) ==
  \/ Claim(r) \/ BlockByAllowlist(r) \/ SendFails(r) \/ SendDelivers(r)
  \/ WriteBack(r) \/ WriteBackFails(r)

Next ==
  \/ \E m \in Messages : Enqueue(m) \/ Retry(m)
  \/ \E r \in Runs : Step(r) \/ Crash(r)
  \/ Tick

Spec == Init /\ [][Next]_vars

\* Time passes, the cron starts runs and a run that lives goes on.
Fairness == WF_vars(Tick) /\ \A r \in Runs : WF_vars(Step(r))

FairSpec == Spec /\ Fairness
-----------------------------------------------------------------------------
(* Properties.                                                             *)

Claims == [msg : Messages, attempts : 1..(MaxAttempts + MaxFaults + MaxRetries)]

\* Types of the rows and of the state of each run.
TypeOK ==
  /\ row \in [Messages -> Row \cup {None}]
  /\ pc \in [Runs -> {"idle", "send", "sent", "failed", "blocked"}]
  /\ batch \in [Runs -> Seq(Claims)]
  /\ timer \in [Runs -> 0..SendTime]
  /\ delivered \in [Messages -> Nat]
  /\ faults \in Nat /\ retries \in Nat

\* "a row still legitimately in flight is never reclaimed out from under
\* itself": two runs never hold one message, and the row of a message that is
\* held is the row its run claimed.
ClaimsAreExclusive ==
  /\ \A r \in Runs : \A n \in DOMAIN batch[r] :
       LET m == batch[r][n].msg IN
       /\ row[m] # None
       /\ row[m].status = "SENDING" /\ row[m].attempts = batch[r][n].attempts
  /\ \A r, q \in Runs : \A i \in DOMAIN batch[r], j \in DOMAIN batch[q] :
       batch[r][i].msg = batch[q][j].msg => r = q /\ i = j

\* "An SMS that already reached a real customer must never be retried just
\* because writing that fact down failed", and for no other reason either but
\* a fault: a recipient gets at most one copy more than there were faults.
DuplicatesAreExplained == \A m \in Messages : delivered[m] <= 1 + faults

\* Only faults and operators take a message past MAX_ATTEMPTS, one each.
AttemptsBounded ==
  \A m \in Messages : row[m] # None => row[m].attempts <= MaxAttempts + faults + retries

\* What a message costs beyond one delivery and MAX_ATTEMPTS has a cause: a
\* fault or an operator.
DeliveriesAreExplained == DuplicatesAreExplained /\ AttemptsBounded

\* What a row tells Delivery about its message.
Phase(m) ==
  IF row[m] = None THEN "unknown"
  ELSE CASE row[m].status \in {"QUEUED", "SENDING"} -> "pending"
         [] row[m].status = "SENT"                  -> "sent"
         [] row[m].status = "FAILED"                -> "failed"

Promise == INSTANCE Delivery WITH phase <- [m \in Messages |-> Phase(m)]

\* The outbox keeps the promise of Delivery: SENT is final and true, nothing is
\* delivered outside SENDING, and every message settles once faults end.
ImplementsDelivery == Promise!Spec
=============================================================================
