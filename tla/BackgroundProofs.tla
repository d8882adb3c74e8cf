-------------------------- MODULE BackgroundProofs --------------------------
(***************************************************************************)
(* Proofs about two parts of MCBackground.  Outbox, for any messages, runs, *)
(* batch size, backoff and timings with BatchEndsInTime: a claim is held by *)
(* one run, attempts and deliveries beyond the promised ones have a cause  *)
(* each, and the table goes only through the phases of Delivery.  Renderer, *)
(* for any jobs: one document is rendered at a time.                       *)
(***************************************************************************)
EXTENDS MCBackground, FiniteSetTheorems, SequenceTheorems, TLAPS

Held(m) == \E r \in Runs : \E n \in DOMAIN batch[r] : batch[r][n].msg = m

\* The bounds of the model are kept.
WithinBounds == faults <= MaxFaults /\ retries <= MaxRetries

\* A run that is under way has a batch, which is not longer than a batch may be.
RunsHaveBatches ==
  \A r \in Runs : /\ pc[r] = "idle" <=> batch[r] = <<>>
                  /\ Len(batch[r]) <= BatchSize

\* A claim ages no faster than its run works through the batch: what is left of
\* the batch still fits into the time before the claim is stale.
ClaimsAreFresh ==
  \A r \in Runs : \A n \in DOMAIN batch[r] :
    row[batch[r][n].msg].age + Len(batch[r]) * SendTime <= BatchSize * SendTime + timer[r]

\* A message that nobody holds and that may be sent again has one attempt in hand.
AttemptsAreCounted ==
  \A m \in Messages : row[m] # None =>
    /\ row[m].attempts <= MaxAttempts + faults + retries
    /\ row[m].status = "QUEUED" \/ (row[m].status = "SENDING" /\ ~Held(m)) =>
         row[m].attempts < MaxAttempts + faults + retries

\* A message is delivered once per fault, and once more if it is recorded as sent
\* or is about to be.
DeliveriesAreCounted ==
  \A m \in Messages :
    /\ delivered[m] <= 1 + faults
    /\ \/ delivered[m] <= faults
       \/ row[m] # None /\ row[m].status = "SENT"
       \/ \E r \in Runs : pc[r] = "sent" /\ Current(r) = m

\* What is recorded as sent, or is about to be, has been delivered.
SentIsTrue ==
  /\ \A m \in Messages : row[m] # None /\ row[m].status = "SENT" => delivered[m] > 0
  /\ \A r \in Runs : pc[r] = "sent" => delivered[Current(r)] > 0

IInv ==
  /\ TypeOK
  /\ WithinBounds
  /\ RunsHaveBatches
  /\ ClaimsAreExclusive
  /\ ClaimsAreFresh
  /\ AttemptsAreCounted
  /\ DeliveriesAreCounted
  /\ SentIsTrue

-----------------------------------------------------------------------------
(* What the state says about a claim.                                      *)

\* The elements of the tail of a sequence.
LEMMA TailOf ==
  ASSUME NEW S, NEW s \in Seq(S), s # <<>>
  PROVE  /\ Tail(s) \in Seq(S) /\ Len(s) \in Nat \ {0} /\ Len(Tail(s)) = Len(s) - 1
         /\ DOMAIN s = 1..Len(s) /\ DOMAIN Tail(s) = 1..(Len(s) - 1)
         /\ \A n \in DOMAIN Tail(s) : n + 1 \in DOMAIN s /\ Tail(s)[n] = s[n + 1]
         /\ Head(s) = s[1] /\ s[1] \in S
         /\ Tail(s) = <<>> <=> Len(s) = 1
<1>1. Len(s) \in Nat \ {0} /\ DOMAIN s = 1..Len(s) /\ Head(s) = s[1] /\ s[1] \in S
  OBVIOUS
<1>2. Tail(s) \in Seq(S) /\ Len(Tail(s)) = Len(s) - 1
  OBVIOUS
<1>3. DOMAIN Tail(s) = 1..(Len(s) - 1)
  BY <1>2
<1>4. \A n \in DOMAIN Tail(s) : n + 1 \in DOMAIN s /\ Tail(s)[n] = s[n + 1]
  BY <1>1, <1>3
<1>5. Tail(s) = <<>> <=> Len(s) = 1
  <2>1. Len(<<>>) = 0 /\ (Tail(s) # <<>> => Len(Tail(s)) # 0)
    BY <1>2, EmptySeq
  <2>2. Len(Tail(s)) = 0 <=> Len(s) = 1
    BY <1>1, <1>2
  <2>3. QED
    BY <2>1, <2>2, Zenon
<1>6. QED
  BY <1>1, <1>2, <1>3, <1>4, <1>5

\* A claim names a message, whose row is there.
LEMMA ClaimOf ==
  ASSUME IInv, NEW r \in Runs, NEW n \in DOMAIN batch[r]
  PROVE  /\ batch[r][n] \in Claims
         /\ batch[r][n].msg \in Messages /\ batch[r][n].attempts \in Nat
         /\ row[batch[r][n].msg] \in Row
         /\ Len(batch[r]) \in Nat \ {0} /\ DOMAIN batch[r] = 1..Len(batch[r])
<1>1. batch[r] \in Seq(Claims)
  BY DEF IInv, TypeOK
<1>2. batch[r][n] \in Claims /\ Len(batch[r]) \in Nat \ {0} /\ DOMAIN batch[r] = 1..Len(batch[r])
  BY <1>1
<1>3. batch[r][n].msg \in Messages /\ batch[r][n].attempts \in Nat
  BY <1>2, AttemptsPositive, BoundsAreNatural DEF Claims
<1>4. row[batch[r][n].msg] # None
  BY DEF IInv, ClaimsAreExclusive
<1>5. QED
  BY <1>2, <1>3, <1>4 DEF IInv, TypeOK

\* The message a run is working on is its first claim.
LEMMA CurrentIsHeld ==
  ASSUME IInv, NEW r \in Runs, pc[r] # "idle"
  PROVE  /\ batch[r] # <<>> /\ batch[r] \in Seq(Claims)
         /\ 1 \in DOMAIN batch[r] /\ Current(r) = batch[r][1].msg /\ Head(batch[r]) = batch[r][1]
         /\ Current(r) \in Messages /\ row[Current(r)] \in Row
         /\ row[Current(r)].status = "SENDING"
         /\ row[Current(r)].attempts = Head(batch[r]).attempts
<1>1. batch[r] # <<>> /\ batch[r] \in Seq(Claims)
  BY DEF IInv, TypeOK, RunsHaveBatches
<1>2. 1 \in DOMAIN batch[r] /\ Head(batch[r]) = batch[r][1]
  BY <1>1, TailOf
<1>3. Current(r) = batch[r][1].msg
  BY <1>2 DEF Current
<1>4. QED
  BY <1>1, <1>2, <1>3, ClaimOf DEF IInv, ClaimsAreExclusive

\* A claim that is held is not stale yet: nobody else takes it up.
LEMMA HeldIsNotDue ==
  ASSUME IInv, NEW m \in Messages, Held(m)
  PROVE  ~Due(m) /\ row[m] # None /\ row[m].status = "SENDING"
<1>1. PICK r \in Runs : \E n \in DOMAIN batch[r] : batch[r][n].msg = m
  BY DEF Held
<1>2. PICK n \in DOMAIN batch[r] : batch[r][n].msg = m
  BY <1>1
<1>3. row[m] \in Row /\ row[m].age \in Nat /\ Len(batch[r]) \in Nat \ {0}
  BY <1>2, ClaimOf DEF Row
<1>4. row[m] # None /\ row[m].status = "SENDING"
  BY <1>2 DEF IInv, ClaimsAreExclusive
<1>5. row[m].age + Len(batch[r]) * SendTime <= BatchSize * SendTime + timer[r]
  BY <1>2 DEF IInv, ClaimsAreFresh
<1>6. timer[r] \in 0..SendTime
  BY DEF IInv, TypeOK
<1>7. Len(batch[r]) * SendTime >= SendTime
  <2> DEFINE L == Len(batch[r])
  <2>1. L \in Nat \ {0} /\ SendTime \in Nat
    BY <1>3, TimesAreNatural
  <2> HIDE DEF L
  <2>2. L * SendTime = SendTime + (L - 1) * SendTime /\ (L - 1) * SendTime \in Nat
    BY <2>1
  <2>3. L * SendTime >= SendTime
    BY <2>1, <2>2
  <2>4. QED
    BY <2>3 DEF L
<1>8. row[m].age <= StaleAfter
  <2> DEFINE spent == Len(batch[r]) * SendTime
             whole == BatchSize * SendTime
  <2>1. spent \in Nat /\ whole \in Nat /\ whole <= StaleAfter /\ StaleAfter \in Nat /\ SendTime \in Nat
    BY <1>3, BatchSizePositive, TimesAreNatural, BatchEndsInTime
  <2>2. row[m].age + spent <= whole + timer[r] /\ spent >= SendTime
    BY <1>5, <1>7
  <2> HIDE DEF spent, whole
  <2>3. QED
    BY <1>3, <1>6, <2>1, <2>2
<1>9. QED
  BY <1>3, <1>4, <1>8, TimesAreNatural DEF Due

\* Two runs do not work on one message.
LEMMA CurrentIsOwn ==
  ASSUME IInv, NEW r \in Runs, NEW q \in Runs, pc[r] # "idle", pc[q] # "idle",
         Current(q) = Current(r)
  PROVE  q = r
BY CurrentIsHeld DEF IInv, ClaimsAreExclusive

\* A step of one run leaves the others at their statements.
LEMMA OthersStay ==
  ASSUME TypeOK, NEW r \in Runs, NEW label, Goto(r, label)
  PROVE  pc'[r] = label /\ \A q \in Runs \ {r} : pc'[q] = pc[q]
BY DEF TypeOK, Goto

-----------------------------------------------------------------------------
(* Steps.                                                                  *)

\* Nothing is enqueued, claimed or sent at the start.
LEMMA InvariantInit == Init => IInv
<1> SUFFICES ASSUME Init PROVE IInv
  OBVIOUS
<1>1. TypeOK
  <2>1. <<>> \in Seq(Claims) /\ 0 \in 0..SendTime
    BY TimesAreNatural
  <2>2. QED
    BY <2>1 DEF Init, TypeOK
<1>2. WithinBounds
  BY BoundsAreNatural DEF Init, WithinBounds
<1>3. \A r \in Runs : batch[r] = <<>> /\ pc[r] = "idle" /\ Len(batch[r]) = 0 /\ DOMAIN batch[r] = {}
  BY DEF Init
<1>4. RunsHaveBatches /\ ClaimsAreExclusive /\ ClaimsAreFresh
  BY <1>3, BatchSizePositive DEF RunsHaveBatches, ClaimsAreExclusive, ClaimsAreFresh
<1>5. AttemptsAreCounted /\ DeliveriesAreCounted /\ SentIsTrue
  BY <1>3 DEF Init, AttemptsAreCounted, DeliveriesAreCounted, SentIsTrue
<1>6. QED
  BY <1>1, <1>2, <1>4, <1>5 DEF IInv

\* A row that nobody holds is queued, with an attempt in hand.
LEMMA QueueStep ==
  ASSUME IInv, NEW m \in Messages, NEW new \in Row,
         row[m] = None \/ row[m].status = "FAILED",
         row' = [row EXCEPT ![m] = new], new.status = "QUEUED",
         new.attempts < MaxAttempts + faults + retries',
         UNCHANGED <<pc, batch, timer, delivered, faults>>,
         retries' \in {retries, retries + 1}, retries' <= MaxRetries
  PROVE  IInv'
<1>1. ~Held(m)
  BY HeldIsNotDue
<1>2. row'[m] = new /\ \A x \in Messages \ {m} : row'[x] = row[x]
  BY DEF IInv, TypeOK
<1>3. new # None
  BY NoneIsNoRow
<1>4. TypeOK'
  BY DEF IInv, TypeOK
<1>5. WithinBounds'
  BY DEF IInv, WithinBounds
<1>6. RunsHaveBatches'
  BY DEF IInv, RunsHaveBatches
<1>7. ASSUME NEW r \in Runs, NEW n \in DOMAIN batch[r]
      PROVE  row'[batch[r][n].msg] = row[batch[r][n].msg]
  BY <1>1, <1>2, ClaimOf DEF Held
<1>8. ClaimsAreExclusive'
  BY <1>7 DEF IInv, ClaimsAreExclusive
<1>9. ClaimsAreFresh'
  BY <1>7 DEF IInv, ClaimsAreFresh
<1>10. AttemptsAreCounted'
  <2>1. faults \in Nat /\ retries \in Nat /\ MaxAttempts \in Nat
    BY AttemptsPositive DEF IInv, TypeOK
  <2>2. \A x \in Messages : row[x] # None => row[x].attempts \in Nat
    BY DEF IInv, TypeOK, Row
  <2>3. \A x \in Messages : Held(x)' <=> Held(x)
    BY DEF Held
  <2>4. new.attempts \in Nat
    BY DEF Row
  <2>5. ASSUME NEW x \in Messages, x # m, row'[x] # None
        PROVE  /\ row'[x].attempts <= MaxAttempts + faults' + retries'
               /\ row'[x].status = "QUEUED" \/ (row'[x].status = "SENDING" /\ ~Held(x)') =>
                    row'[x].attempts < MaxAttempts + faults' + retries'
    BY <1>2, <2>1, <2>2, <2>3, <2>5 DEF IInv, AttemptsAreCounted
  <2>6. /\ row'[m].attempts <= MaxAttempts + faults' + retries'
        /\ row'[m].attempts < MaxAttempts + faults' + retries'
    BY <1>2, <2>1, <2>4
  <2>7. QED
    BY <2>5, <2>6 DEF AttemptsAreCounted
<1>11. DeliveriesAreCounted'
  BY <1>2 DEF IInv, DeliveriesAreCounted, Current
<1>12. SentIsTrue'
  BY <1>2 DEF IInv, SentIsTrue, Current
<1>13. QED
  BY <1>4, <1>5, <1>6, <1>8, <1>9, <1>10, <1>11, <1>12 DEF IInv

\* A message is enqueued at most once.
LEMMA EnqueueStep == ASSUME IInv, NEW m \in Messages, Enqueue(m) PROVE IInv'
<1>1. PICK d \in 0..MaxAhead :
        row[m] = None /\ row' = [row EXCEPT ![m] = Message("QUEUED", 0, d, 0)]
  BY DEF Enqueue
<1>2. Message("QUEUED", 0, d, 0) \in Row /\ Message("QUEUED", 0, d, 0).status = "QUEUED"
      /\ Message("QUEUED", 0, d, 0).attempts = 0
  BY TimesAreNatural DEF Message, Row, Statuses
<1>3. 0 < MaxAttempts + faults + retries
  BY AttemptsPositive DEF IInv, TypeOK
<1>4. retries <= MaxRetries
  BY DEF IInv, WithinBounds
<1>5. QED
  BY <1>1, <1>2, <1>3, <1>4, QueueStep DEF Enqueue

\* An operator queues what has failed.
LEMMA RetryStep == ASSUME IInv, NEW m \in Messages, Retry(m) PROVE IInv'
<1> DEFINE new == Message("QUEUED", row[m].attempts, 0, 0)
<1>1. row[m] # None /\ row[m].status = "FAILED" /\ row' = [row EXCEPT ![m] = new]
  BY DEF Retry
<1>2. row[m] \in Row
  BY <1>1 DEF IInv, TypeOK
<1>3. new \in Row /\ new.status = "QUEUED" /\ new.attempts = row[m].attempts
  BY <1>2 DEF Message, Row, Statuses
<1>4. row[m].attempts < MaxAttempts + faults + (retries + 1)
  BY <1>1, <1>2, AttemptsPositive DEF IInv, TypeOK, AttemptsAreCounted, Row
<1>5. retries + 1 <= MaxRetries
  BY BoundsAreNatural DEF Retry, IInv, TypeOK
<1> HIDE DEF new
<1>6. QED
  BY <1>1, <1>3, <1>4, <1>5, QueueStep DEF Retry

\* What a provider says concerns one message of one run: it was delivered, or a
\* fault has been counted, or it was not.
LEMMA ProviderStep ==
  ASSUME IInv, NEW r \in Runs, pc[r] = "send", NEW label \in {"sent", "failed", "blocked"},
         Goto(r, label), UNCHANGED <<row, batch, timer, retries>>,
         \/ delivered' = delivered /\ faults' = faults /\ label # "sent"
         \/ /\ delivered' = [delivered EXCEPT ![Current(r)] = @ + 1]
            /\ \/ label = "sent" /\ faults' = faults
               \/ label = "failed" /\ faults' = faults + 1 /\ faults' <= MaxFaults
  PROVE  IInv'
<1> DEFINE m == Current(r)
<1>1. pc'[r] = label /\ \A q \in Runs \ {r} : pc'[q] = pc[q]
  BY OthersStay DEF IInv
<1>2. m \in Messages /\ row[m].status = "SENDING" /\ row[m] # None /\ m = batch[r][1].msg
      /\ 1 \in DOMAIN batch[r]
  BY CurrentIsHeld, NoneIsNoRow
<1>3. faults \in Nat /\ faults' \in Nat /\ retries \in Nat /\ faults <= faults' /\ MaxAttempts \in Nat
  BY AttemptsPositive DEF IInv, TypeOK
<1>4. \A x \in Messages : /\ delivered[x] \in Nat /\ delivered'[x] \in Nat
                          /\ delivered'[x] >= delivered[x]
                          /\ x # m => delivered'[x] = delivered[x]
  <2>1. \A x \in Messages : delivered[x] \in Nat
    BY DEF IInv, TypeOK
  <2>2. CASE delivered' = delivered
    BY <2>1, <2>2
  <2>3. CASE delivered' = [delivered EXCEPT ![m] = @ + 1]
    <3>1. delivered'[m] = delivered[m] + 1 /\ \A x \in Messages \ {m} : delivered'[x] = delivered[x]
      BY <1>2, <2>3 DEF IInv, TypeOK
    <3> HIDE DEF m
    <3>2. QED
      BY <1>2, <2>1, <3>1
  <2>4. QED
    BY <2>2, <2>3
<1>5. TypeOK'
  BY <1>2, <1>3 DEF IInv, TypeOK, Goto
<1>6. WithinBounds'
  BY DEF IInv, WithinBounds
<1>7. RunsHaveBatches'
  BY <1>1 DEF IInv, RunsHaveBatches
<1>8. ClaimsAreExclusive' /\ ClaimsAreFresh'
  BY DEF IInv, ClaimsAreExclusive, ClaimsAreFresh
<1>9. AttemptsAreCounted'
  <2>1. \A x \in Messages : row[x] # None => row[x].attempts \in Nat
    BY DEF IInv, TypeOK, Row
  <2>2. \A x \in Messages : Held(x)' <=> Held(x)
    BY DEF Held
  <2>3. QED
    BY <1>3, <2>1, <2>2 DEF IInv, AttemptsAreCounted
<1>10. \A q \in Runs : Current(q)' = Current(q)
  BY DEF Current
<1>11. delivered[m] <= faults
  <2>1. \A q \in Runs : pc[q] = "sent" => Current(q) # m
    BY CurrentIsOwn
  <2>2. QED
    BY <1>2, <2>1 DEF IInv, DeliveriesAreCounted
<1>12. DeliveriesAreCounted'
  <2>1. ASSUME NEW x \in Messages, x # m
        PROVE  /\ delivered'[x] <= 1 + faults'
               /\ \/ delivered'[x] <= faults'
                  \/ row'[x] # None /\ row'[x].status = "SENT"
                  \/ \E q \in Runs : pc'[q] = "sent" /\ Current(q)' = x
    <3>1. \A q \in Runs : pc[q] = "sent" /\ Current(q) = x => pc'[q] = "sent" /\ Current(q)' = x
      BY <1>1, <1>10
    <3>2. delivered'[x] = delivered[x] /\ delivered[x] \in Nat
      BY <1>4, <2>1
    <3>3. /\ delivered[x] <= 1 + faults
          /\ \/ delivered[x] <= faults
             \/ row[x] # None /\ row[x].status = "SENT"
             \/ \E q \in Runs : pc[q] = "sent" /\ Current(q) = x
      BY DEF IInv, DeliveriesAreCounted
    <3>4. QED
      BY <1>3, <3>1, <3>2, <3>3
  <2>2. CASE delivered' = delivered
    BY <1>3, <1>4, <1>11, <2>1, <2>2 DEF DeliveriesAreCounted
  <2>3. CASE delivered' = [delivered EXCEPT ![m] = @ + 1]
    <3>1. delivered'[m] = delivered[m] + 1
      BY <1>2, <2>3 DEF IInv, TypeOK
    <3>2. delivered'[m] <= 1 + faults'
      BY <1>2, <1>3, <1>4, <1>11, <3>1
    <3>3. delivered'[m] <= faults' \/ (pc'[r] = "sent" /\ Current(r)' = m)
      BY <1>1, <1>2, <1>3, <1>4, <1>10, <1>11, <2>3, <3>1
    <3>4. QED
      BY <2>1, <3>2, <3>3 DEF DeliveriesAreCounted
  <2>4. QED
    BY <2>2, <2>3
<1>13. SentIsTrue'
  <2>1. ASSUME NEW x \in Messages, row'[x] # None, row'[x].status = "SENT" PROVE delivered'[x] > 0
    <3>1. delivered[x] > 0
      BY <2>1 DEF IInv, SentIsTrue
    <3>2. QED
      BY <1>4, <3>1
  <2>2. ASSUME NEW q \in Runs, pc'[q] = "sent" PROVE delivered'[Current(q)'] > 0
    <3>1. CASE q = r
      <4>1. delivered' = [delivered EXCEPT ![m] = @ + 1]
        BY <1>1, <2>2, <3>1
      <4>2. delivered'[m] = delivered[m] + 1
        BY <1>2, <4>1 DEF IInv, TypeOK
      <4>3. QED
        BY <1>2, <1>4, <1>10, <3>1, <4>2
    <3>2. CASE q # r
      <4>1. pc[q] = "sent" /\ delivered[Current(q)] > 0
        BY <1>1, <2>2, <3>2 DEF IInv, SentIsTrue
      <4>2. Current(q) \in Messages
        BY <4>1, CurrentIsHeld
      <4>3. delivered'[Current(q)] >= delivered[Current(q)] /\ delivered[Current(q)] \in Nat
            /\ delivered'[Current(q)] \in Nat
        BY <1>4, <4>2
      <4>4. QED
        BY <1>10, <4>1, <4>3
    <3>3. QED
      BY <3>1, <3>2
  <2>3. QED
    BY <2>1, <2>2 DEF SentIsTrue
<1>14. QED
  BY <1>5, <1>6, <1>7, <1>8, <1>9, <1>12, <1>13 DEF IInv

\* A run that lets go of its first claims keeps the others as they were: none of
\* them is the message it has worked on.
LEMMA BatchShrinks ==
  ASSUME IInv, NEW r \in Runs, pc[r] # "idle",
         NEW rest \in {Tail(batch[r]), <<>>}, NEW label,
         label = IF rest = <<>> THEN "idle" ELSE "send",
         batch' = [batch EXCEPT ![r] = rest], timer' = [timer EXCEPT ![r] = 0], Goto(r, label),
         row' \in [Messages -> Row \cup {None}],
         \A m \in Messages \ {Current(r)} : row'[m] = row[m]
  PROVE  /\ batch' \in [Runs -> Seq(Claims)] /\ timer' \in [Runs -> 0..SendTime]
         /\ pc' \in [Runs -> {"idle", "send", "sent", "failed", "blocked"}]
         /\ RunsHaveBatches' /\ ClaimsAreExclusive' /\ ClaimsAreFresh'
         /\ pc'[r] = label /\ \A q \in Runs \ {r} : pc'[q] = pc[q] /\ Current(q)' = Current(q)
         /\ rest = Tail(batch[r]) => \A m \in Messages \ {Current(r)} : Held(m) => Held(m)'
<1>1. /\ batch[r] # <<>> /\ batch[r] \in Seq(Claims) /\ 1 \in DOMAIN batch[r]
      /\ Current(r) = batch[r][1].msg /\ Current(r) \in Messages
  BY CurrentIsHeld
<1>2. rest \in Seq(Claims) /\ Len(rest) \in Nat /\ Len(rest) <= Len(batch[r]) - 1
      /\ DOMAIN rest = 1..Len(rest) /\ Len(batch[r]) \in Nat \ {0} /\ DOMAIN batch[r] = 1..Len(batch[r])
  <2>1. CASE rest = Tail(batch[r])
    BY <1>1, <2>1, TailOf
  <2>2. CASE rest = <<>>
    BY <1>1, <2>2
  <2>3. QED
    BY <2>1, <2>2
<1>3. \A n \in DOMAIN rest : n + 1 \in DOMAIN batch[r] /\ rest[n] = batch[r][n + 1]
  <2>1. CASE rest = Tail(batch[r])
    BY <1>1, <2>1, TailOf
  <2>2. CASE rest = <<>>
    BY <2>2
  <2>3. QED
    BY <2>1, <2>2
<1>4. batch'[r] = rest /\ \A q \in Runs \ {r} : batch'[q] = batch[q]
  BY DEF IInv, TypeOK
<1>5. timer'[r] = 0 /\ \A q \in Runs \ {r} : timer'[q] = timer[q]
  BY DEF IInv, TypeOK
<1>6. pc'[r] = label /\ \A q \in Runs \ {r} : pc'[q] = pc[q]
  BY OthersStay DEF IInv
<1>7. batch' \in [Runs -> Seq(Claims)] /\ timer' \in [Runs -> 0..SendTime]
      /\ pc' \in [Runs -> {"idle", "send", "sent", "failed", "blocked"}]
  <2>1. label \in {"idle", "send"} /\ 0 \in 0..SendTime
    BY TimesAreNatural
  <2>2. QED
    BY <1>2, <2>1 DEF IInv, TypeOK, Goto
<1>8. RunsHaveBatches'
  <2>1. Len(rest) <= BatchSize
    BY <1>2, BatchSizePositive DEF IInv, RunsHaveBatches
  <2>2. QED
    BY <1>4, <1>6, <2>1 DEF IInv, RunsHaveBatches
<1> DEFINE from(q, n) == IF q = r THEN n + 1 ELSE n
<1>9. ASSUME NEW q \in Runs, NEW n \in DOMAIN batch'[q]
      PROVE  /\ n \in Int
             /\ from(q, n) \in DOMAIN batch[q]
             /\ batch'[q][n] = batch[q][from(q, n)]
             /\ batch'[q][n].msg \in Messages \ {Current(r)}
  <2>1. CASE q = r
    <3>1. n \in Int /\ n + 1 \in DOMAIN batch[r] /\ batch'[q][n] = batch[r][n + 1] /\ n + 1 # 1
      BY <1>2, <1>3, <1>4, <1>9, <2>1
    <3>2. batch[r][n + 1].msg # Current(r)
      BY <1>1, <3>1 DEF IInv, ClaimsAreExclusive
    <3>3. batch[r][n + 1].msg \in Messages
      BY <3>1, ClaimOf
    <3>4. QED
      BY <2>1, <3>1, <3>2, <3>3
  <2>2. CASE q # r
    <3>1. n \in DOMAIN batch[q] /\ batch'[q][n] = batch[q][n]
      BY <1>4, <1>9, <2>2
    <3>2. batch[q][n].msg # Current(r)
      BY <1>1, <2>2, <3>1 DEF IInv, ClaimsAreExclusive
    <3>3. batch[q][n].msg \in Messages /\ n \in Int
      BY <3>1, ClaimOf
    <3>4. QED
      BY <2>2, <3>1, <3>2, <3>3
  <2>3. QED
    BY <2>1, <2>2
<1>10. ClaimsAreExclusive'
  <2>1. ASSUME NEW q \in Runs, NEW i \in DOMAIN batch'[q], NEW j \in DOMAIN batch'[q],
               from(q, i) = from(q, j)
        PROVE  i = j
    BY <1>9, <2>1
  <2> HIDE DEF from
  <2>2. ASSUME NEW q \in Runs, NEW n \in DOMAIN batch'[q]
        PROVE  LET m == batch'[q][n].msg IN
               row'[m] # None /\ row'[m].status = "SENDING" /\ row'[m].attempts = batch'[q][n].attempts
    <3>1. from(q, n) \in DOMAIN batch[q] /\ batch'[q][n] = batch[q][from(q, n)]
      BY <1>9, <2>2
    <3>2. row'[batch'[q][n].msg] = row[batch'[q][n].msg]
      BY <1>9, <2>2
    <3>3. QED
      BY <3>1, <3>2 DEF IInv, ClaimsAreExclusive
  <2>3. ASSUME NEW q \in Runs, NEW p \in Runs, NEW i \in DOMAIN batch'[q], NEW j \in DOMAIN batch'[p],
               batch'[q][i].msg = batch'[p][j].msg
        PROVE  q = p /\ i = j
    <3>1. from(q, i) \in DOMAIN batch[q] /\ batch'[q][i] = batch[q][from(q, i)]
      BY <1>9, <2>3
    <3>2. from(p, j) \in DOMAIN batch[p] /\ batch'[p][j] = batch[p][from(p, j)]
      BY <1>9, <2>3
    <3>3. q = p /\ from(q, i) = from(p, j)
      BY <2>3, <3>1, <3>2 DEF IInv, ClaimsAreExclusive
    <3>4. QED
      BY <2>1, <2>3, <3>3
  <2>4. QED
    BY <2>2, <2>3 DEF ClaimsAreExclusive
<1>11. ClaimsAreFresh'
  <2>1. ASSUME NEW q \in Runs, NEW n \in DOMAIN batch'[q]
        PROVE  row'[batch'[q][n].msg].age + Len(batch'[q]) * SendTime <= BatchSize * SendTime + timer'[q]
    <3> DEFINE i == from(q, n)
    <3> HIDE DEF from
    <3>1. i \in DOMAIN batch[q] /\ batch'[q][n] = batch[q][i]
      BY <1>9, <2>1
    <3> HIDE DEF i
    <3>2. row'[batch'[q][n].msg] = row[batch[q][i].msg]
      BY <1>9, <2>1, <3>1
    <3>3. row[batch[q][i].msg].age + Len(batch[q]) * SendTime <= BatchSize * SendTime + timer[q]
      BY <3>1 DEF IInv, ClaimsAreFresh
    <3>4. CASE q # r
      BY <1>4, <1>5, <3>2, <3>3, <3>4
    <3>5. CASE q = r
      <4> DEFINE L == Len(batch[r])
                 K == Len(rest)
                 whole == BatchSize * SendTime
                 age == row[batch[r][i].msg].age
      <4>1. L \in Nat /\ K \in Nat /\ K <= L - 1 /\ SendTime \in Nat /\ whole \in Nat
        BY <1>2, BatchSizePositive, TimesAreNatural
      <4>2. age \in Nat
        BY <3>1, <3>5, ClaimOf DEF Row
      <4>3. timer[r] \in 0..SendTime
        BY DEF IInv, TypeOK
      <4>4. age + L * SendTime <= whole + timer[r]
        BY <3>3, <3>5
      <4> HIDE DEF L, K, whole, age
      <4>5. K * SendTime + SendTime <= L * SendTime
        <5>1. PICK d \in Nat : L = K + 1 + d
          BY <4>1, L - 1 - K \in Nat
        <5>2. L * SendTime = K * SendTime + SendTime + d * SendTime
          BY <4>1, <5>1
        <5>3. d * SendTime \in Nat /\ K * SendTime \in Nat
          BY <4>1, <5>1
        <5>4. QED
          BY <4>1, <5>2, <5>3
      <4>6. L * SendTime \in Nat /\ K * SendTime \in Nat
        BY <4>1
      <4>7. age + K * SendTime <= whole
        <5> DEFINE KS == K * SendTime
                   LS == L * SendTime
        <5>1. KS \in Nat /\ LS \in Nat /\ KS + SendTime <= LS /\ age + LS <= whole + timer[r]
          BY <4>4, <4>5, <4>6
        <5> HIDE DEF KS, LS
        <5>2. age + KS <= whole
          BY <4>1, <4>2, <4>3, <5>1
        <5>3. QED
          BY <5>2 DEF KS
      <4>8. QED
        BY <1>4, <1>5, <3>2, <3>5, <4>1, <4>7 DEF K, whole, age
    <3>6. QED
      BY <3>4, <3>5
  <2>2. QED
    BY <2>1 DEF ClaimsAreFresh
<1>12. \A q \in Runs \ {r} : Current(q)' = Current(q)
  BY <1>4 DEF Current
<1>13. ASSUME rest = Tail(batch[r]), NEW m \in Messages \ {Current(r)}, Held(m) PROVE Held(m)'
  <2>1. PICK q \in Runs : \E n \in DOMAIN batch[q] : batch[q][n].msg = m
    BY <1>13 DEF Held
  <2>2. PICK n \in DOMAIN batch[q] : batch[q][n].msg = m
    BY <2>1
  <2>3. CASE q # r
    BY <1>4, <2>2, <2>3 DEF Held
  <2>4. CASE q = r
    <3>1. n # 1 /\ n \in 1..Len(batch[r])
      BY <1>1, <1>2, <1>13, <2>2, <2>4
    <3>2. DOMAIN rest = 1..(Len(batch[r]) - 1)
      BY <1>1, <1>13, TailOf
    <3>3. n - 1 \in DOMAIN rest /\ (n - 1) + 1 = n
      BY <1>2, <3>1, <3>2
    <3>4. rest[n - 1].msg = m
      BY <1>3, <2>2, <2>4, <3>3
    <3>5. QED
      BY <1>4, <3>3, <3>4 DEF Held
  <2>5. QED
    BY <2>3, <2>4
<1>14. QED
  BY <1>6, <1>7, <1>8, <1>10, <1>11, <1>12, <1>13

\* A fault counts for the attempt and for the delivery that are lost with it.
LEMMA LetGoStep ==
  ASSUME IInv, NEW r \in Runs, pc[r] # "idle", faults < MaxFaults, faults' = faults + 1,
         NEW rest \in {Tail(batch[r]), <<>>}, NEW label,
         label = IF rest = <<>> THEN "idle" ELSE "send",
         batch' = [batch EXCEPT ![r] = rest], timer' = [timer EXCEPT ![r] = 0], Goto(r, label),
         UNCHANGED <<row, delivered, retries>>
  PROVE  IInv'
<1>1. faults \in Nat /\ retries \in Nat /\ MaxAttempts \in Nat /\ MaxFaults \in Nat
  BY AttemptsPositive, BoundsAreNatural DEF IInv, TypeOK
<1>2. row' \in [Messages -> Row \cup {None}] /\ \A m \in Messages : row'[m] = row[m]
  BY DEF IInv, TypeOK
<1>3. /\ batch' \in [Runs -> Seq(Claims)] /\ timer' \in [Runs -> 0..SendTime]
      /\ pc' \in [Runs -> {"idle", "send", "sent", "failed", "blocked"}]
      /\ RunsHaveBatches' /\ ClaimsAreExclusive' /\ ClaimsAreFresh'
      /\ pc'[r] = label /\ \A q \in Runs \ {r} : pc'[q] = pc[q] /\ Current(q)' = Current(q)
  BY <1>2, BatchShrinks
<1>4. TypeOK'
  BY <1>1, <1>2, <1>3 DEF IInv, TypeOK
<1>5. WithinBounds'
  BY <1>1 DEF IInv, WithinBounds
<1>6. AttemptsAreCounted'
  <2>1. \A m \in Messages : row[m] # None => row[m].attempts \in Nat
    BY DEF IInv, TypeOK, Row
  <2>2. QED
    BY <1>1, <2>1 DEF IInv, AttemptsAreCounted
<1>7. DeliveriesAreCounted'
  <2>1. \A m \in Messages : delivered[m] \in Nat
    BY DEF IInv, TypeOK
  <2>2. QED
    BY <1>1, <2>1 DEF IInv, DeliveriesAreCounted
<1>8. SentIsTrue'
  BY <1>3 DEF IInv, SentIsTrue
<1>9. QED
  BY <1>3, <1>4, <1>5, <1>6, <1>7, <1>8 DEF IInv

\* An outcome that is not written leaves the claim behind.
LEMMA WriteBackFailsStep == ASSUME IInv, NEW r \in Runs, WriteBackFails(r) PROVE IInv'
<1> DEFINE rest == Tail(batch[r])
           label == IF Len(batch[r]) = 1 THEN "idle" ELSE "send"
<1>1. pc[r] # "idle" /\ batch' = [batch EXCEPT ![r] = rest] /\ timer' = [timer EXCEPT ![r] = 0]
      /\ Goto(r, label) /\ faults < MaxFaults /\ faults' = faults + 1
      /\ UNCHANGED <<row, delivered, retries>>
  BY DEF WriteBackFails, AfterWriteBack
<1>2. label = IF rest = <<>> THEN "idle" ELSE "send"
  BY <1>1, CurrentIsHeld, TailOf
<1> HIDE DEF label
<1>3. QED
  BY <1>1, <1>2, LetGoStep

\* A run that dies leaves all its claims behind.
LEMMA CrashStep == ASSUME IInv, NEW r \in Runs, Crash(r) PROVE IInv'
BY LetGoStep DEF Crash

\* The outcome of a send is written to the row the run has claimed.
LEMMA OutcomeTyped ==
  ASSUME IInv, NEW r \in Runs, pc[r] \in {"sent", "failed", "blocked"}
  PROVE  /\ Outcome(r) \in Row
         /\ Outcome(r).attempts = row[Current(r)].attempts
         /\ Outcome(r).status = "SENT" <=> pc[r] = "sent"
         /\ Outcome(r).status # "SENDING"
         /\ Outcome(r).status = "QUEUED" => row[Current(r)].attempts < MaxAttempts
<1> DEFINE m == Current(r)
           n == Head(batch[r]).attempts
<1>1. row[m] \in Row /\ row[m].attempts = n /\ n \in Nat /\ n >= 1
  BY CurrentIsHeld, ClaimOf, BoundsAreNatural DEF Claims
<1>2. CASE pc[r] = "sent"
  <2>1. Outcome(r) = Message("SENT", row[m].attempts, row[m].due, 0)
    BY <1>2 DEF Outcome
  <2>2. QED
    BY <1>1, <1>2, <2>1 DEF Message, Row, Statuses
<1>3. CASE pc[r] = "blocked"
  <2>1. Outcome(r) = Message("FAILED", row[m].attempts, row[m].due, 0)
    BY <1>3 DEF Outcome
  <2>2. QED
    BY <1>1, <1>3, <2>1 DEF Message, Row, Statuses
<1>4. CASE pc[r] = "failed" /\ n >= MaxAttempts
  <2>1. Outcome(r) = Message("FAILED", row[m].attempts, row[m].due, 0)
    BY <1>4 DEF Outcome
  <2>2. QED
    BY <1>1, <1>4, <2>1 DEF Message, Row, Statuses
<1>5. CASE pc[r] = "failed" /\ ~(n >= MaxAttempts)
  <2>1. Outcome(r) = Message("QUEUED", row[m].attempts, Backoff[n], 0)
    BY <1>5 DEF Outcome
  <2>2. n < MaxAttempts /\ n \in 1..MaxAttempts
    BY <1>1, <1>5, AttemptsPositive
  <2>3. Backoff[n] \in Nat
    BY <2>2, BackoffIsDelay
  <2>4. QED
    BY <1>1, <1>5, <2>1, <2>2, <2>3 DEF Message, Row, Statuses
<1>6. QED
  BY <1>2, <1>3, <1>4, <1>5

\* An outcome ends the claim.
LEMMA WriteBackStep == ASSUME IInv, NEW r \in Runs, WriteBack(r) PROVE IInv'
<1> DEFINE rest == Tail(batch[r])
           label == IF Len(batch[r]) = 1 THEN "idle" ELSE "send"
           m == Current(r)
           new == Outcome(r)
<1>1. /\ pc[r] \in {"sent", "failed", "blocked"} /\ pc[r] # "idle"
      /\ batch' = [batch EXCEPT ![r] = rest] /\ timer' = [timer EXCEPT ![r] = 0] /\ Goto(r, label)
      /\ row' = [row EXCEPT ![m] = new] /\ UNCHANGED <<delivered, faults, retries>>
  BY DEF WriteBack, AfterWriteBack
<1>2. label = IF rest = <<>> THEN "idle" ELSE "send"
  BY <1>1, CurrentIsHeld, TailOf
<1>3. /\ m \in Messages /\ row[m] \in Row /\ row[m] # None /\ row[m].status = "SENDING"
      /\ row[m].attempts \in Nat
  BY <1>1, CurrentIsHeld, NoneIsNoRow DEF Row
<1>4. /\ new \in Row /\ new.attempts = row[m].attempts /\ new # None
      /\ new.status = "SENT" <=> pc[r] = "sent"
      /\ new.status # "SENDING"
      /\ new.status = "QUEUED" => row[m].attempts < MaxAttempts
  BY <1>1, OutcomeTyped, NoneIsNoRow
<1> HIDE DEF label, new
<1>5. row'[m] = new /\ \A x \in Messages \ {m} : row'[x] = row[x]
  BY <1>1, <1>3 DEF IInv, TypeOK
<1>6. row' \in [Messages -> Row \cup {None}]
  BY <1>1, <1>4 DEF IInv, TypeOK
<1>7. /\ batch' \in [Runs -> Seq(Claims)] /\ timer' \in [Runs -> 0..SendTime]
      /\ pc' \in [Runs -> {"idle", "send", "sent", "failed", "blocked"}]
      /\ RunsHaveBatches' /\ ClaimsAreExclusive' /\ ClaimsAreFresh'
      /\ pc'[r] = label /\ \A q \in Runs \ {r} : pc'[q] = pc[q] /\ Current(q)' = Current(q)
      /\ \A x \in Messages \ {m} : Held(x) => Held(x)'
  BY <1>1, <1>2, <1>5, <1>6, BatchShrinks
<1>8. faults \in Nat /\ retries \in Nat /\ MaxAttempts \in Nat /\ \A x \in Messages : delivered[x] \in Nat
  BY AttemptsPositive DEF IInv, TypeOK
<1>9. TypeOK'
  BY <1>1, <1>6, <1>7 DEF IInv, TypeOK
<1>10. WithinBounds'
  BY <1>1 DEF IInv, WithinBounds
<1> HIDE DEF m
<1>11. AttemptsAreCounted'
  <2>1. /\ row'[m].attempts <= MaxAttempts + faults' + retries'
        /\ row'[m].status = "QUEUED" => row'[m].attempts < MaxAttempts + faults' + retries'
        /\ row'[m].status # "SENDING"
    BY <1>1, <1>3, <1>4, <1>5, <1>8 DEF IInv, AttemptsAreCounted
  <2>2. ASSUME NEW x \in Messages \ {m}, row'[x] # None
        PROVE  /\ row'[x].attempts <= MaxAttempts + faults' + retries'
               /\ row'[x].status = "QUEUED" \/ (row'[x].status = "SENDING" /\ ~Held(x)') =>
                    row'[x].attempts < MaxAttempts + faults' + retries'
    BY <1>1, <1>5, <1>7, <2>2 DEF IInv, AttemptsAreCounted
  <2>3. QED
    BY <2>1, <2>2 DEF AttemptsAreCounted
<1>12. DeliveriesAreCounted'
  <2>1. delivered[m] <= faults \/ new.status = "SENT"
    <3>1. CASE pc[r] = "sent"
      BY <1>4, <3>1
    <3>2. CASE pc[r] # "sent"
      <4>1. \A q \in Runs : pc[q] = "sent" => Current(q) # m
        BY <1>1, <3>2, CurrentIsOwn DEF m
      <4>2. QED
        BY <1>3, <4>1 DEF IInv, DeliveriesAreCounted
    <3>3. QED
      BY <3>1, <3>2
  <2>2. /\ delivered'[m] <= 1 + faults'
        /\ delivered'[m] <= faults' \/ (row'[m] # None /\ row'[m].status = "SENT")
    BY <1>1, <1>3, <1>4, <1>5, <2>1 DEF IInv, DeliveriesAreCounted
  <2>3. ASSUME NEW x \in Messages \ {m}
        PROVE  /\ delivered'[x] <= 1 + faults'
               /\ \/ delivered'[x] <= faults'
                  \/ row'[x] # None /\ row'[x].status = "SENT"
                  \/ \E q \in Runs : pc'[q] = "sent" /\ Current(q)' = x
    <3>1. \A q \in Runs : pc[q] = "sent" /\ Current(q) = x => pc'[q] = "sent" /\ Current(q)' = x
      BY <1>7 DEF m
    <3>2. QED
      BY <1>1, <1>5, <3>1 DEF IInv, DeliveriesAreCounted
  <2>4. QED
    BY <2>2, <2>3 DEF DeliveriesAreCounted
<1>13. SentIsTrue'
  <2>1. new.status = "SENT" => delivered[m] > 0
    BY <1>1, <1>4 DEF IInv, SentIsTrue, m
  <2>2. \A x \in Messages : row'[x] # None /\ row'[x].status = "SENT" => delivered'[x] > 0
    BY <1>1, <1>5, <2>1 DEF IInv, SentIsTrue
  <2>3. \A q \in Runs : pc'[q] = "sent" => delivered'[Current(q)'] > 0
    <3>1. pc'[r] # "sent"
      BY <1>2, <1>7
    <3>2. QED
      BY <1>1, <1>7, <3>1 DEF IInv, SentIsTrue
  <2>4. QED
    BY <2>2, <2>3 DEF SentIsTrue
<1>14. QED
  BY <1>7, <1>9, <1>10, <1>11, <1>12, <1>13 DEF IInv

\* A batch is claimed by one run, in one order, and nobody else holds any of it.
LEMMA ClaimStep == ASSUME IInv, NEW r \in Runs, Claim(r) PROVE IInv'
<1>1. PICK S \in DueBatches : \E order \in Orders(S) :
        /\ pc[r] = "idle" /\ S # {}
        /\ row' = [m \in Messages |-> IF m \in S THEN Claimed(m) ELSE row[m]]
        /\ batch' = [batch EXCEPT ![r] =
             [n \in DOMAIN order |-> [msg |-> order[n], attempts |-> row[order[n]].attempts + 1]]]
        /\ timer' = [timer EXCEPT ![r] = 0]
        /\ pc' = [pc EXCEPT ![r] = "send"]
        /\ UNCHANGED <<delivered, faults, retries>>
  BY DEF Claim
<1>2. PICK order \in Orders(S) :
        /\ pc[r] = "idle" /\ S # {}
        /\ row' = [m \in Messages |-> IF m \in S THEN Claimed(m) ELSE row[m]]
        /\ batch' = [batch EXCEPT ![r] =
             [n \in DOMAIN order |-> [msg |-> order[n], attempts |-> row[order[n]].attempts + 1]]]
        /\ timer' = [timer EXCEPT ![r] = 0]
        /\ pc' = [pc EXCEPT ![r] = "send"]
        /\ UNCHANGED <<delivered, faults, retries>>
  BY <1>1
<1> DEFINE claims == [n \in DOMAIN order |-> [msg |-> order[n], attempts |-> row[order[n]].attempts + 1]]
           size == Cardinality(S)
<1>3. S \subseteq Messages /\ (\A m \in S : Due(m)) /\ size <= BatchSize
  <2> DEFINE due == {m \in Messages : Due(m)}
  <2>1. S \subseteq due /\ size = IF Cardinality(due) < BatchSize THEN Cardinality(due) ELSE BatchSize
    BY DEF DueBatches
  <2>2. IsFiniteSet(due)
    BY MessagesAreFinite, FS_Subset
  <2>3. Cardinality(due) \in Nat
    BY <2>2, FS_CardinalityType
  <2>4. QED
    BY <2>1, <2>3, BatchSizePositive
<1>4. IsFiniteSet(S) /\ size \in Nat
  BY <1>3, MessagesAreFinite, FS_Subset, FS_CardinalityType
<1>5. /\ order \in [1..size -> S] /\ {order[n] : n \in DOMAIN order} = S
      /\ DOMAIN order = 1..size
  BY <1>2 DEF Orders
<1>6. \A i, j \in 1..size : order[i] = order[j] => i = j
  <2>1. order \in Surjection(1..size, S)
    BY <1>5 DEF Surjection
  <2>2. IsFiniteSet(1..size) /\ Cardinality(1..size) = Cardinality(S)
    BY <1>4, FS_Interval
  <2>3. order \in Injection(1..size, S)
    BY <1>4, <2>1, <2>2, FS_SurjSameCardinalityImpliesInj
  <2>4. QED
    BY <2>3 DEF Injection, IsInjective
<1>7. ASSUME NEW m \in S
      PROVE  /\ m \in Messages /\ row[m] \in Row /\ ~Held(m) /\ row[m].status \in {"QUEUED", "SENDING"}
             /\ row[m].attempts \in Nat /\ row[m].attempts < MaxAttempts + faults + retries
  <2>1. m \in Messages /\ Due(m)
    BY <1>3
  <2>2. row[m] \in Row /\ row[m] # None /\ row[m].status \in {"QUEUED", "SENDING"}
    BY <2>1 DEF Due, IInv, TypeOK
  <2>3. ~Held(m)
    BY <2>1, HeldIsNotDue
  <2>4. QED
    BY <2>1, <2>2, <2>3 DEF IInv, AttemptsAreCounted, Row
<1>8. faults \in Nat /\ retries \in Nat /\ MaxAttempts \in Nat /\ MaxFaults \in Nat /\ MaxRetries \in Nat
      /\ faults <= MaxFaults /\ retries <= MaxRetries
  BY AttemptsPositive, BoundsAreNatural DEF IInv, TypeOK, WithinBounds
<1>9. ASSUME NEW m \in S
      PROVE  /\ row'[m] \in Row /\ row'[m] # None
             /\ row'[m].status = "SENDING" /\ row'[m].attempts = row[m].attempts + 1 /\ row'[m].age = 0
  <2>1. row'[m] = Claimed(m)
    BY <1>2, <1>7
  <2>2. row[m].attempts + 1 \in Nat /\ row[m].due \in Int
    BY <1>7 DEF Row
  <2>3. Claimed(m) \in Row /\ Claimed(m).status = "SENDING" /\ Claimed(m).attempts = row[m].attempts + 1
        /\ Claimed(m).age = 0
    BY <2>2 DEF Claimed, Message, Row, Statuses
  <2>4. QED
    BY <2>1, <2>3, NoneIsNoRow
<1>10. \A m \in Messages \ S : row'[m] = row[m]
  BY <1>2
<1>11. ASSUME NEW n \in 1..size
       PROVE  /\ claims[n].msg = order[n] /\ order[n] \in S
              /\ claims[n].attempts = row[order[n]].attempts + 1
              /\ claims[n] \in Claims
  <2>1. order[n] \in S
    BY <1>5
  <2>2. claims[n] = [msg |-> order[n], attempts |-> row[order[n]].attempts + 1]
    BY <1>5
  <2>3. row[order[n]].attempts + 1 \in 1..(MaxAttempts + MaxFaults + MaxRetries)
    BY <1>7, <1>8, <2>1
  <2>4. QED
    BY <1>7, <2>1, <2>2, <2>3 DEF Claims
<1>12. claims \in Seq(Claims) /\ Len(claims) = size /\ DOMAIN claims = 1..size
  <2>1. DOMAIN claims = 1..size
    BY <1>5
  <2>2. claims \in [1..size -> Claims]
    BY <1>5, <1>11
  <2> HIDE DEF claims
  <2>3. QED
    BY <1>4, <2>1, <2>2
<1>13. size >= 1 /\ claims # <<>>
  <2>1. size # 0
    BY <1>2, <1>4, FS_EmptySet
  <2>2. QED
    BY <1>4, <1>12, <2>1
<1>14. batch'[r] = claims /\ \A q \in Runs \ {r} : batch'[q] = batch[q]
  BY <1>2 DEF IInv, TypeOK
<1>15. timer'[r] = 0 /\ \A q \in Runs \ {r} : timer'[q] = timer[q]
  BY <1>2 DEF IInv, TypeOK
<1>16. pc'[r] = "send" /\ \A q \in Runs \ {r} : pc'[q] = pc[q]
  BY <1>2 DEF IInv, TypeOK
<1>17. pc[r] = "idle" /\ batch[r] = <<>> /\ UNCHANGED <<delivered, faults, retries>>
  BY <1>2 DEF IInv, RunsHaveBatches
<1>18. ASSUME NEW q \in Runs, NEW n \in DOMAIN batch[q]
       PROVE  batch[q][n].msg \in Messages \ S
  <2>1. batch[q][n].msg \in Messages /\ Held(batch[q][n].msg)
    BY ClaimOf DEF Held
  <2>2. QED
    BY <1>7, <2>1
<1>19. TypeOK'
  <2>1. row' \in [Messages -> Row \cup {None}]
    <3>1. \A m \in Messages : row'[m] \in Row \cup {None}
      BY <1>9, <1>10 DEF IInv, TypeOK
    <3>2. row' = [m \in Messages |-> row'[m]]
      BY <1>2
    <3>3. QED
      BY <3>1, <3>2
  <2>2. batch' \in [Runs -> Seq(Claims)]
    <3> HIDE DEF claims
    <3>1. batch' = [batch EXCEPT ![r] = claims]
      BY <1>2 DEF claims
    <3>2. QED
      BY <1>12, <3>1 DEF IInv, TypeOK
  <2>3. timer' \in [Runs -> 0..SendTime] /\ pc' \in [Runs -> {"idle", "send", "sent", "failed", "blocked"}]
    BY <1>2, TimesAreNatural DEF IInv, TypeOK
  <2>4. QED
    BY <1>17, <2>1, <2>2, <2>3 DEF IInv, TypeOK
<1> HIDE DEF claims, size
<1>20. WithinBounds'
  BY <1>17 DEF IInv, WithinBounds
<1>21. RunsHaveBatches'
  BY <1>3, <1>12, <1>13, <1>14, <1>16 DEF IInv, RunsHaveBatches
<1>22. ClaimsAreExclusive'
  <2>1. ASSUME NEW q \in Runs, NEW n \in DOMAIN batch'[q]
        PROVE  LET m == batch'[q][n].msg IN
               row'[m] # None /\ row'[m].status = "SENDING" /\ row'[m].attempts = batch'[q][n].attempts
    <3>1. CASE q = r
      BY <1>9, <1>11, <1>12, <1>14, <2>1, <3>1
    <3>2. CASE q # r
      <4>1. n \in DOMAIN batch[q] /\ batch'[q][n] = batch[q][n]
        BY <1>14, <2>1, <3>2
      <4>2. row'[batch[q][n].msg] = row[batch[q][n].msg]
        BY <1>10, <1>18, <4>1
      <4>3. QED
        BY <4>1, <4>2 DEF IInv, ClaimsAreExclusive
    <3>3. QED
      BY <3>1, <3>2
  <2>2. ASSUME NEW q \in Runs, NEW p \in Runs, NEW i \in DOMAIN batch'[q], NEW j \in DOMAIN batch'[p],
               batch'[q][i].msg = batch'[p][j].msg
        PROVE  q = p /\ i = j
    <3>1. CASE q = r /\ p = r
      BY <1>6, <1>11, <1>12, <1>14, <2>2, <3>1
    <3>2. CASE q = r /\ p # r
      BY <1>11, <1>12, <1>14, <1>18, <2>2, <3>2
    <3>3. CASE q # r /\ p = r
      BY <1>11, <1>12, <1>14, <1>18, <2>2, <3>3
    <3>4. CASE q # r /\ p # r
      BY <1>14, <2>2, <3>4 DEF IInv, ClaimsAreExclusive
    <3>5. QED
      BY <3>1, <3>2, <3>3, <3>4
  <2>3. QED
    BY <2>1, <2>2 DEF ClaimsAreExclusive
<1>23. ClaimsAreFresh'
  <2>1. ASSUME NEW n \in DOMAIN batch'[r]
        PROVE  row'[batch'[r][n].msg].age + Len(batch'[r]) * SendTime <= BatchSize * SendTime + timer'[r]
    <3>1. row'[batch'[r][n].msg].age = 0 /\ Len(batch'[r]) = size /\ timer'[r] = 0
      BY <1>9, <1>11, <1>12, <1>14, <1>15, <2>1
    <3>2. size * SendTime <= BatchSize * SendTime
      <4>1. PICK d \in Nat : BatchSize = size + d
        BY <1>3, <1>4, BatchSizePositive, BatchSize - size \in Nat DEF size
      <4>2. BatchSize * SendTime = size * SendTime + d * SendTime
        BY <1>4, <4>1, TimesAreNatural DEF size
      <4>3. d * SendTime \in Nat /\ size * SendTime \in Nat
        BY <1>4, TimesAreNatural DEF size
      <4>4. QED
        BY <4>2, <4>3
    <3>3. size * SendTime \in Nat /\ BatchSize * SendTime \in Nat
      BY <1>4, BatchSizePositive, TimesAreNatural DEF size
    <3>4. QED
      BY <3>1, <3>2, <3>3
  <2>2. ASSUME NEW q \in Runs \ {r}, NEW n \in DOMAIN batch'[q]
        PROVE  row'[batch'[q][n].msg].age + Len(batch'[q]) * SendTime <= BatchSize * SendTime + timer'[q]
    <3>1. n \in DOMAIN batch[q] /\ batch'[q] = batch[q] /\ timer'[q] = timer[q]
      BY <1>14, <1>15, <2>2
    <3>2. row'[batch[q][n].msg] = row[batch[q][n].msg]
      BY <1>10, <1>18, <3>1
    <3>3. QED
      BY <3>1, <3>2 DEF IInv, ClaimsAreFresh
  <2>3. QED
    BY <2>1, <2>2 DEF ClaimsAreFresh
<1>24. AttemptsAreCounted'
  <2>1. ASSUME NEW m \in S PROVE Held(m)'
    <3>1. PICK n \in 1..size : order[n] = m
      BY <1>5 DEF size
    <3>2. QED
      BY <1>11, <1>12, <1>14, <3>1 DEF Held
  <2>2. ASSUME NEW m \in Messages \ S, Held(m) PROVE Held(m)'
    <3>1. PICK q \in Runs : \E n \in DOMAIN batch[q] : batch[q][n].msg = m
      BY <2>2 DEF Held
    <3>2. q # r
      BY <1>17, <3>1
    <3>3. QED
      BY <1>14, <3>1, <3>2 DEF Held
  <2>3. ASSUME NEW m \in S
        PROVE  /\ row'[m].attempts <= MaxAttempts + faults' + retries'
               /\ row'[m].status = "SENDING" /\ Held(m)'
    BY <1>7, <1>8, <1>9, <1>17, <2>1
  <2>4. ASSUME NEW m \in Messages \ S, row'[m] # None
        PROVE  /\ row'[m].attempts <= MaxAttempts + faults' + retries'
               /\ row'[m].status = "QUEUED" \/ (row'[m].status = "SENDING" /\ ~Held(m)') =>
                    row'[m].attempts < MaxAttempts + faults' + retries'
    BY <1>10, <1>17, <2>2, <2>4 DEF IInv, AttemptsAreCounted
  <2>5. QED
    BY <2>3, <2>4 DEF AttemptsAreCounted
<1>25. \A q \in Runs \ {r} : Current(q)' = Current(q)
  BY <1>14 DEF Current
<1>26. DeliveriesAreCounted'
  <2>1. \A m \in Messages : row[m] # None /\ row[m].status = "SENT" => row'[m] # None /\ row'[m].status = "SENT"
    BY <1>7, <1>10
  <2>2. \A m \in Messages, q \in Runs : pc[q] = "sent" /\ Current(q) = m => pc'[q] = "sent" /\ Current(q)' = m
    BY <1>16, <1>17, <1>25
  <2>3. QED
    BY <1>17, <2>1, <2>2 DEF IInv, DeliveriesAreCounted
<1>27. SentIsTrue'
  <2>1. \A m \in Messages : row'[m] # None /\ row'[m].status = "SENT" => row[m] # None /\ row[m].status = "SENT"
    BY <1>9, <1>10
  <2>2. \A q \in Runs : pc'[q] = "sent" => pc[q] = "sent" /\ Current(q)' = Current(q)
    BY <1>16, <1>25
  <2>3. QED
    BY <1>17, <2>1, <2>2 DEF IInv, SentIsTrue
<1>28. QED
  BY <1>19, <1>20, <1>21, <1>22, <1>23, <1>24, <1>26, <1>27 DEF IInv

\* Time passes for the rows as it passes for the runs.
LEMMA TickStep == ASSUME IInv, Tick PROVE IInv'
<1>1. /\ \A r \in Runs : pc[r] # "idle" => timer[r] < SendTime
      /\ timer' = [r \in Runs |-> IF pc[r] = "idle" THEN 0 ELSE timer[r] + 1]
      /\ row' = [m \in Messages |-> IF row[m] = None THEN None
                                    ELSE [row[m] EXCEPT !.due = Later(@), !.age = Older(@)]]
      /\ UNCHANGED <<pc, batch, delivered, faults, retries>>
  BY DEF Tick
<1>2. ASSUME NEW m \in Messages, row[m] # None
      PROVE  /\ row[m] \in Row /\ row'[m] \in Row /\ row'[m] # None
             /\ row'[m].status = row[m].status /\ row'[m].attempts = row[m].attempts
             /\ row[m].age \in Nat /\ row'[m].age \in Nat /\ row'[m].age <= row[m].age + 1
  <2> DEFINE due == Later(row[m].due)
             age == Older(row[m].age)
             new == [row[m] EXCEPT !.due = due, !.age = age]
  <2>1. row[m] \in Row /\ row[m].due \in Int /\ row[m].age \in Nat
    BY <1>2 DEF IInv, TypeOK, Row
  <2>2. due \in Int
    BY <2>1 DEF Later
  <2>3. age \in Nat /\ age <= row[m].age + 1
    BY <2>1 DEF Older
  <2>4. row'[m] = new
    BY <1>1, <1>2
  <2> HIDE DEF due, age
  <2>5. new \in Row /\ new.status = row[m].status /\ new.attempts = row[m].attempts /\ new.age = age
    BY <2>1, <2>2, <2>3 DEF Row
  <2>6. QED
    BY <2>1, <2>3, <2>4, <2>5, NoneIsNoRow
<1>3. \A m \in Messages : row[m] = None => row'[m] = None
  BY <1>1
<1>4. \A r \in Runs : timer[r] \in 0..SendTime /\ (pc[r] # "idle" => timer'[r] = timer[r] + 1)
  BY <1>1 DEF IInv, TypeOK
<1>5. TypeOK'
  <2>1. row' \in [Messages -> Row \cup {None}]
    <3>1. \A m \in Messages : row'[m] \in Row \cup {None}
      BY <1>2, <1>3
    <3>2. row' = [m \in Messages |-> row'[m]]
      BY <1>1
    <3>3. QED
      BY <3>1, <3>2
  <2>2. timer' \in [Runs -> 0..SendTime]
    <3>1. ASSUME NEW r \in Runs PROVE timer'[r] \in 0..SendTime
      <4>1. CASE pc[r] = "idle"
        <5>1. timer'[r] = 0
          BY <1>1, <4>1
        <5>2. QED
          BY <5>1, TimesAreNatural
      <4>2. CASE pc[r] # "idle"
        <5>1. timer'[r] = timer[r] + 1 /\ timer[r] \in 0..SendTime
          BY <1>4, <4>2
        <5>2. timer[r] < SendTime
          BY <1>1, <4>2
        <5>3. QED
          BY <5>1, <5>2, TimesAreNatural
      <4>3. QED
        BY <4>1, <4>2
    <3>2. timer' = [r \in Runs |-> timer'[r]]
      BY <1>1
    <3>3. QED
      BY <3>1, <3>2
  <2>3. QED
    BY <1>1, <2>1, <2>2 DEF IInv, TypeOK
<1>6. WithinBounds' /\ RunsHaveBatches'
  BY <1>1 DEF IInv, WithinBounds, RunsHaveBatches
<1>7. ClaimsAreExclusive'
  <2>1. \A r \in Runs : \A n \in DOMAIN batch[r] :
          LET m == batch[r][n].msg IN
          row'[m] # None /\ row'[m].status = row[m].status /\ row'[m].attempts = row[m].attempts
    BY <1>2, ClaimOf DEF IInv, ClaimsAreExclusive
  <2>2. \A r \in Runs : \A n \in DOMAIN batch[r] :
          LET m == batch[r][n].msg IN
          row'[m] # None /\ row'[m].status = "SENDING" /\ row'[m].attempts = batch[r][n].attempts
    BY <2>1 DEF IInv, ClaimsAreExclusive
  <2>3. batch' = batch
    BY <1>1
  <2>4. \A r, q \in Runs : \A i \in DOMAIN batch[r], j \in DOMAIN batch[q] :
          batch[r][i].msg = batch[q][j].msg => r = q /\ i = j
    BY DEF IInv, ClaimsAreExclusive
  <2>5. QED
    BY <2>2, <2>3, <2>4 DEF ClaimsAreExclusive
<1>8. ClaimsAreFresh'
  <2>1. ASSUME NEW r \in Runs, NEW n \in DOMAIN batch[r]
        PROVE  row'[batch[r][n].msg].age + Len(batch[r]) * SendTime <= BatchSize * SendTime + timer'[r]
    <3> DEFINE m == batch[r][n].msg
               after == Len(batch[r]) * SendTime
               whole == BatchSize * SendTime
    <3>1. m \in Messages /\ row[m] # None /\ Len(batch[r]) \in Nat
      BY ClaimOf, NoneIsNoRow
    <3>2. row[m].age \in Nat /\ row'[m].age \in Nat /\ row'[m].age <= row[m].age + 1
      BY <1>2, <3>1
    <3>3. pc[r] # "idle"
      BY <2>1 DEF IInv, RunsHaveBatches
    <3>4. timer'[r] = timer[r] + 1 /\ timer[r] \in Nat
      BY <1>4, <3>3, TimesAreNatural
    <3>5. row[m].age + after <= whole + timer[r]
      BY DEF IInv, ClaimsAreFresh
    <3>6. after \in Nat /\ whole \in Nat
      BY <3>1, BatchSizePositive, TimesAreNatural
    <3> HIDE DEF after, whole, m
    <3>7. row'[m].age + after <= whole + timer'[r]
      BY <3>2, <3>4, <3>5, <3>6
    <3>8. QED
      BY <3>7 DEF after, whole, m
  <2>2. QED
    BY <1>1, <2>1 DEF ClaimsAreFresh
<1>9. AttemptsAreCounted'
  <2>1. \A m \in Messages : Held(m)' <=> Held(m)
    BY <1>1 DEF Held
  <2>2. QED
    BY <1>1, <1>2, <1>3, <2>1 DEF IInv, AttemptsAreCounted
<1>10. DeliveriesAreCounted' /\ SentIsTrue'
  <2>1. \A r \in Runs : Current(r)' = Current(r)
    BY <1>1 DEF Current
  <2>2. \A m \in Messages : row'[m] # None /\ row'[m].status = "SENT"
                              <=> row[m] # None /\ row[m].status = "SENT"
    BY <1>2, <1>3
  <2>3. DeliveriesAreCounted'
    BY <1>1, <2>1, <2>2 DEF IInv, DeliveriesAreCounted
  <2>4. SentIsTrue'
    BY <1>1, <2>1, <2>2 DEF IInv, SentIsTrue
  <2>5. QED
    BY <2>3, <2>4
<1>11. QED
  BY <1>5, <1>6, <1>7, <1>8, <1>9, <1>10 DEF IInv

\* Every step of the outbox keeps the invariant.
LEMMA InvariantStep == ASSUME IInv, [Next]_vars PROVE IInv'
<1>1. ASSUME NEW r \in Runs, BlockByAllowlist(r) \/ SendFails(r) \/ SendDelivers(r) PROVE IInv'
  <2>1. CASE BlockByAllowlist(r)
    BY <2>1, ProviderStep DEF BlockByAllowlist
  <2>2. CASE SendFails(r)
    BY <2>2, ProviderStep DEF SendFails
  <2>3. CASE SendDelivers(r)
    <3>1. faults < MaxFaults => faults + 1 <= MaxFaults
      BY BoundsAreNatural DEF IInv, TypeOK
    <3>2. QED
      BY <2>3, <3>1, ProviderStep DEF SendDelivers
  <2>4. QED
    BY <1>1, <2>1, <2>2, <2>3
<1>2. CASE UNCHANGED vars
  BY <1>2 DEF vars, IInv, TypeOK, WithinBounds, RunsHaveBatches, ClaimsAreExclusive, ClaimsAreFresh,
     AttemptsAreCounted, DeliveriesAreCounted, SentIsTrue, Held, Current
<1>3. QED
  BY <1>1, <1>2, EnqueueStep, RetryStep, ClaimStep, WriteBackStep, WriteBackFailsStep, CrashStep,
     TickStep DEF Next, Step

\* The invariant holds in every reachable state.
LEMMA InvariantHolds == Spec => []IInv
<1>1. IInv /\ [Next]_vars => IInv'
  BY InvariantStep
<1>2. QED
  BY <1>1, InvariantInit, PTL DEF Spec

\* Rows, batches and counters keep their types, however runs overlap and die.
THEOREM OutboxTyped == Spec => []TypeOK
<1>1. IInv => TypeOK
  BY DEF IInv
<1>2. QED
  BY <1>1, InvariantHolds, PTL

\* "a row still legitimately in flight is never reclaimed out from under itself":
\* as long as a batch ends within the staleness of its claims, no two runs hold one
\* message, and the row of a message that is held is the row its run claimed.
THEOREM ClaimsHeldByOne == Spec => []ClaimsAreExclusive
<1>1. IInv => ClaimsAreExclusive
  BY DEF IInv
<1>2. QED
  BY <1>1, InvariantHolds, PTL

\* A recipient gets at most one copy more than there were faults, and only faults
\* and operators take a message past MAX_ATTEMPTS, one attempt each.
THEOREM DeliveriesExplained == Spec => []DeliveriesAreExplained
<1>1. IInv => DeliveriesAreExplained
  BY DEF IInv, DeliveriesAreExplained, DuplicatesAreExplained, AttemptsBounded, DeliveriesAreCounted,
     AttemptsAreCounted
<1>2. QED
  BY <1>1, InvariantHolds, PTL

-----------------------------------------------------------------------------
(* The outbox implements Delivery.                                         *)

Phases == [m \in Messages |-> Phase(m)]

\* The initial table is that of Delivery.
LEMMA PromiseInit == Init => Promise!Init
BY DEF Init, Promise!Init, Phase

\* A step that changes no status and delivers nothing is a stutter.
LEMMA StutterStep ==
  ASSUME \A m \in Messages : Phase(m)' = Phase(m), delivered' = delivered
  PROVE  UNCHANGED Promise!vars
BY DEF Promise!vars

\* A row that keeps its status keeps its phase.
LEMMA PhaseStays ==
  ASSUME TypeOK, NEW m \in Messages,
         \/ row'[m] = row[m]
         \/ row[m] # None /\ row'[m] # None /\ row'[m].status = row[m].status
  PROVE  Phase(m)' = Phase(m)
<1>1. CASE row[m] = None
  BY <1>1 DEF Phase
<1>2. CASE row[m] # None
  <2>1. row[m].status \in Statuses /\ row'[m] # None /\ row'[m].status = row[m].status
    BY <1>2 DEF TypeOK, Row
  <2>2. QED
    BY <1>2, <2>1 DEF Phase, Statuses
<1>3. QED
  BY <1>1, <1>2

\* A row that is written moves its message to another phase, and no other.
LEMMA PhaseStep ==
  ASSUME TypeOK, NEW m \in Messages, NEW new \in Row, row' = [row EXCEPT ![m] = new]
  PROVE  /\ Phases' = [Phases EXCEPT ![m] = IF new.status \in {"QUEUED", "SENDING"} THEN "pending"
                                            ELSE IF new.status = "SENT" THEN "sent" ELSE "failed"]
         /\ Phases[m] = Phase(m) /\ Phases'[m] = Phase(m)'
         /\ \A x \in Messages \ {m} : Phase(x)' = Phase(x)
<1>1. row'[m] = new /\ \A x \in Messages \ {m} : row'[x] = row[x]
  BY DEF TypeOK
<1>2. new # None /\ new.status \in Statuses
  BY NoneIsNoRow DEF Row
<1>3. Phase(m)' = IF new.status \in {"QUEUED", "SENDING"} THEN "pending"
                  ELSE IF new.status = "SENT" THEN "sent" ELSE "failed"
  BY <1>1, <1>2 DEF Phase, Statuses
<1>4. \A x \in Messages \ {m} : Phase(x)' = Phase(x)
  BY <1>1, PhaseStays
<1>5. QED
  BY <1>3, <1>4 DEF Phases

\* The phase of a message that is held.
LEMMA HeldIsPending ==
  ASSUME IInv, NEW r \in Runs, pc[r] # "idle"
  PROVE  Current(r) \in Messages /\ Phase(Current(r)) = "pending"
BY CurrentIsHeld, NoneIsNoRow DEF Phase

\* Each step is a step of Delivery or changes nothing it is about: claiming,
\* reading, growing old and dying leave the phases and the deliveries as they are.
LEMMA PromiseStep ==
  ASSUME IInv, [Next]_vars
  PROVE  [Promise!Next]_(Promise!vars)
<1> USE DEF Phases
<1>1. ASSUME NEW m \in Messages, Enqueue(m) PROVE Promise!Submit(m)
  <2>1. PICK d \in 0..MaxAhead : row[m] = None /\ row' = [row EXCEPT ![m] = Message("QUEUED", 0, d, 0)]
    BY <1>1 DEF Enqueue
  <2>2. Message("QUEUED", 0, d, 0) \in Row /\ Message("QUEUED", 0, d, 0).status = "QUEUED"
    BY TimesAreNatural DEF Message, Row, Statuses
  <2>3. Phases' = [Phases EXCEPT ![m] = "pending"] /\ Phases[m] = "unknown"
    BY <2>1, <2>2, PhaseStep DEF IInv, Phase
  <2>4. QED
    BY <1>1, <2>3 DEF Enqueue, Promise!Submit, Promise!Enter
<1>2. ASSUME NEW m \in Messages, Retry(m) PROVE Promise!Resubmit(m)
  <2> DEFINE new == Message("QUEUED", row[m].attempts, 0, 0)
  <2>1. row[m] # None /\ row[m].status = "FAILED" /\ row' = [row EXCEPT ![m] = new] /\ row[m] \in Row
    BY <1>2 DEF Retry, IInv, TypeOK
  <2>2. new \in Row /\ new.status = "QUEUED"
    BY <2>1 DEF Message, Row, Statuses
  <2> HIDE DEF new
  <2>3. Phases' = [Phases EXCEPT ![m] = "pending"]
    BY <2>1, <2>2, PhaseStep DEF IInv
  <2>4. Phases[m] = "failed"
    BY <2>1 DEF Phase
  <2>5. QED
    BY <1>2, <2>3, <2>4 DEF Retry, Promise!Resubmit, Promise!Enter
<1>3. ASSUME NEW r \in Runs, Claim(r) PROVE UNCHANGED Promise!vars
  <2>1. PICK S \in DueBatches :
          row' = [m \in Messages |-> IF m \in S THEN Claimed(m) ELSE row[m]] /\ delivered' = delivered
    BY <1>3 DEF Claim
  <2>2. ASSUME NEW m \in Messages PROVE Phase(m)' = Phase(m)
    <3>1. CASE m \in S
      <4>1. Due(m) /\ row[m] \in Row
        BY <3>1 DEF DueBatches, Due, IInv, TypeOK
      <4>2. Claimed(m) \in Row /\ Claimed(m).status = "SENDING"
        BY <4>1 DEF Claimed, Message, Row, Statuses
      <4>3. row'[m] = Claimed(m) /\ row'[m] # None
        BY <2>1, <3>1, <4>2, NoneIsNoRow
      <4>4. QED
        BY <4>1, <4>2, <4>3 DEF Phase, Due
    <3>2. CASE m \notin S
      BY <2>1, <3>2, PhaseStays DEF IInv
    <3>3. QED
      BY <3>1, <3>2
  <2>3. QED
    BY <2>1, <2>2, StutterStep
<1>4. ASSUME NEW r \in Runs, SendDelivers(r) PROVE Promise!Deliver(Current(r)) /\ Current(r) \in Messages
  <2>1. pc[r] = "send" /\ delivered' = [delivered EXCEPT ![Current(r)] = @ + 1] /\ row' = row
    BY <1>4 DEF SendDelivers
  <2>2. Phases[Current(r)] = "pending" /\ Current(r) \in Messages
    BY <2>1, HeldIsPending
  <2>3. Phases' = Phases
    BY <2>1 DEF Phase
  <2>4. QED
    BY <2>1, <2>2, <2>3 DEF Promise!Deliver
<1>5. ASSUME NEW r \in Runs, WriteBack(r)
      PROVE  Current(r) \in Messages /\ (Promise!Settle(Current(r)) \/ UNCHANGED Promise!vars)
  <2>1. pc[r] \in {"sent", "failed", "blocked"} /\ row' = [row EXCEPT ![Current(r)] = Outcome(r)]
        /\ delivered' = delivered
    BY <1>5 DEF WriteBack
  <2>2. Outcome(r) \in Row /\ Outcome(r).status # "SENDING" /\ (Outcome(r).status = "SENT" <=> pc[r] = "sent")
    BY <2>1, OutcomeTyped
  <2>3. Current(r) \in Messages /\ Phase(Current(r)) = "pending"
    BY <2>1, HeldIsPending
  <2> DEFINE m == Current(r)
             new == Outcome(r)
  <2> HIDE DEF m, new
  <2>4. m \in Messages /\ Phases[m] = "pending" /\ new \in Row /\ row' = [row EXCEPT ![m] = new]
    BY <2>1, <2>2, <2>3 DEF m, new
  <2>5. Phases' = [Phases EXCEPT ![m] = IF new.status \in {"QUEUED", "SENDING"} THEN "pending"
                                        ELSE IF new.status = "SENT" THEN "sent" ELSE "failed"]
    BY <2>4, PhaseStep DEF IInv
  <2>6. CASE new.status = "SENT"
    <3>1. delivered[m] > 0
      BY <2>1, <2>2, <2>6 DEF IInv, SentIsTrue, m, new
    <3>2. Promise!Confirm(m)
      BY <2>1, <2>4, <2>5, <2>6, <3>1 DEF Promise!Confirm, Promise!Enter
    <3>3. QED
      BY <2>3, <3>2 DEF Promise!Settle, m
  <2>7. CASE new.status = "QUEUED"
    <3>1. Phases' = Phases
      BY <2>4, <2>5, <2>7
    <3>2. QED
      BY <2>1, <2>3, <3>1 DEF Promise!vars
  <2>8. CASE new.status \notin {"SENT", "QUEUED"}
    <3>1. Promise!GiveUp(m)
      BY <2>1, <2>2, <2>4, <2>5, <2>8 DEF Promise!GiveUp, Promise!Enter, new
    <3>2. QED
      BY <2>3, <3>1 DEF Promise!Settle, m
  <2>9. QED
    BY <2>6, <2>7, <2>8
<1>6. ASSUME NEW r \in Runs, BlockByAllowlist(r) \/ SendFails(r) \/ WriteBackFails(r) \/ Crash(r)
      PROVE  UNCHANGED Promise!vars
  <2>1. row' = row /\ delivered' = delivered
    BY <1>6 DEF BlockByAllowlist, SendFails, WriteBackFails, Crash
  <2>2. QED
    BY <2>1, StutterStep DEF Phase
<1>7. CASE Tick
  <2>1. ASSUME NEW m \in Messages PROVE Phase(m)' = Phase(m)
    <3> DEFINE due == Later(row[m].due)
               age == Older(row[m].age)
               new == [row[m] EXCEPT !.due = due, !.age = age]
    <3>1. CASE row[m] = None
      BY <1>7, <3>1 DEF Tick, Phase
    <3>2. CASE row[m] # None
      <4>1. row[m] \in Row /\ row'[m] = new
        BY <1>7, <3>2 DEF Tick, IInv, TypeOK
      <4>2. due \in Int /\ age \in Nat
        BY <4>1 DEF Later, Older, Row
      <4> HIDE DEF due, age
      <4>3. new \in Row /\ new.status = row[m].status
        BY <4>1, <4>2 DEF Row
      <4>4. QED
        BY <3>2, <4>1, <4>3, NoneIsNoRow, PhaseStays DEF IInv
    <3>3. QED
      BY <3>1, <3>2
  <2>2. QED
    BY <1>7, <2>1, StutterStep DEF Tick
<1>8. CASE UNCHANGED vars
  BY <1>8, StutterStep DEF vars, Phase
<1>9. QED
  BY <1>1, <1>2, <1>3, <1>4, <1>5, <1>6, <1>7, <1>8 DEF Next, Step, Promise!Next

\* The outbox takes its messages only through the phases of Delivery: what is sent
\* stays sent and was delivered, and nothing is delivered but what is pending.
THEOREM KeepsThePromise == Spec => Promise!Safe
<1>1. IInv /\ [Next]_vars => [Promise!Next]_(Promise!vars)
  BY PromiseStep
<1>2. QED
  BY <1>1, InvariantHolds, PromiseInit, PTL DEF Spec, Promise!Safe

-----------------------------------------------------------------------------
(* Renderer, the part of MCBackground that renders documents.              *)

Active(j) == job[j].pc \in {"await", "draw", "close"}
Alive(b) == proc[b] \in {"starting", "up", "dying"}

JobTable ==
  [R!Jobs -> [pc : {"new", "queued", "await", "draw", "close", "done"},
              on : Nat \cup {None}, outcome : {None, "drawn", "failed", "refused"}]]

RendererTypes ==
  /\ job \in JobTable
  /\ queue \in Seq(R!Jobs)
  /\ proc \in Seq({"starting", "up", "dying", "dead", "failed"})
  /\ browser \in DOMAIN proc \cup {None}

\* The chain names a job once, none before it asks or after it is answered, and
\* only the oldest has begun.
ChainHolds ==
  /\ \A i, k \in DOMAIN queue : queue[i] = queue[k] => i = k
  /\ \A i \in DOMAIN queue : job[queue[i]].pc \notin {"new", "done"}
  /\ \A j \in R!Jobs : Active(j) => queue # <<>> /\ Head(queue) = j

\* An open page is that of a job under way, in the Chromium the job was given.
PagesAreOfTheActive == \A p \in pages : \E j \in R!Jobs : Active(j) /\ p = <<j, job[j].on>>

\* The memoized launch is the one Chromium there is.
LaunchIsTheOne ==
  /\ \A b \in DOMAIN proc : Alive(b) => launching = b
  /\ launching # None => launching \in DOMAIN proc /\ Alive(launching)

\* A job that waits for a Chromium of which there is nothing left is counted.
LossesAreCounted ==
  /\ \A j \in R!Jobs : job[j].pc \in {"await", "draw"} =>
       /\ job[j].on \in DOMAIN proc
       /\ proc[job[j].on] \in {"dead", "failed"} => j \in faulted
  /\ \A j \in R!Jobs : job[j].outcome = "failed" => j \in faulted

RendererInv ==
  /\ RendererTypes /\ ChainHolds /\ PagesAreOfTheActive /\ LaunchIsTheOne /\ LossesAreCounted

\* A set without two different elements.
LEMMA AtMostOne ==
  ASSUME NEW S, \A x, y \in S : x = y
  PROVE  R!Cardinality(S) <= 1
<1>1. R!Cardinality(S) = Cardinality(S)
  BY DEF R!Cardinality, Cardinality
<1>2. CASE S = {}
  BY <1>1, <1>2, FS_EmptySet
<1>3. CASE S # {}
  <2>1. PICK x \in S : TRUE
    BY <1>3
  <2>2. S = {x}
    BY <2>1
  <2>3. Cardinality({x}) = 1
    BY FS_Singleton
  <2>4. QED
    BY <1>1, <2>2, <2>3
<1>4. QED
  BY <1>2, <1>3

\* The jobs under way are those the definition of Running takes.
LEMMA RunningIsActive ==
  ASSUME RendererInv, NEW j \in R!Jobs
  PROVE  j \in R!Running <=> Active(j)
BY DEF R!Running, Active, RendererInv, RendererTypes, JobTable

\* The initial chain is empty.
LEMMA RendererBegins == R!Init => RendererInv
<1> SUFFICES ASSUME R!Init PROVE RendererInv
  OBVIOUS
<1>1. queue = <<>> /\ proc = <<>> /\ DOMAIN queue = {} /\ DOMAIN proc = {}
  BY DEF R!Init
<1>2. RendererTypes
  BY <1>1 DEF R!Init, RendererTypes, JobTable
<1>3. QED
  BY <1>1, <1>2, RendererParameters
     DEF R!Init, R!JobsAreApart, RendererInv, ChainHolds, PagesAreOfTheActive, LaunchIsTheOne,
         LossesAreCounted, Active, Alive

\* What the chain becomes when its oldest job is settled.
LEMMA ChainMovesOn ==
  ASSUME RendererInv, NEW j \in R!Jobs, Active(j)
  PROVE  /\ queue # <<>> /\ queue[1] = j /\ Tail(queue) \in Seq(R!Jobs)
         /\ \A i \in DOMAIN Tail(queue) : i + 1 \in DOMAIN queue /\ Tail(queue)[i] = queue[i + 1]
         /\ \A i \in DOMAIN Tail(queue) : Tail(queue)[i] # j
         /\ \A i, k \in DOMAIN Tail(queue) : Tail(queue)[i] = Tail(queue)[k] => i = k
<1>1. queue \in Seq(R!Jobs) /\ queue # <<>> /\ Head(queue) = j
  BY DEF RendererInv, RendererTypes, ChainHolds
<1>2. /\ Tail(queue) \in Seq(R!Jobs) /\ DOMAIN queue = 1..Len(queue) /\ Len(queue) \in Nat \ {0}
      /\ DOMAIN Tail(queue) = 1..(Len(queue) - 1) /\ queue[1] = j
      /\ \A i \in DOMAIN Tail(queue) : i + 1 \in DOMAIN queue /\ Tail(queue)[i] = queue[i + 1]
  BY <1>1, TailOf
<1>3. \A i, k \in DOMAIN queue : queue[i] = queue[k] => i = k
  BY DEF RendererInv, ChainHolds
<1>4. \A i \in DOMAIN Tail(queue) : Tail(queue)[i] # j
  BY <1>2, <1>3
<1>5. \A i, k \in DOMAIN Tail(queue) : Tail(queue)[i] = Tail(queue)[k] => i = k
  BY <1>2, <1>3
<1>6. QED
  BY <1>1, <1>2, <1>4, <1>5

\* One job is under way at a time.
LEMMA OneActive ==
  ASSUME RendererInv, NEW i \in R!Jobs, NEW j \in R!Jobs, Active(i), Active(j)
  PROVE  i = j
BY DEF RendererInv, ChainHolds

\* A job joins the chain behind the others.
LEMMA AskKeeps ==
  ASSUME RendererInv, NEW j \in R!Jobs, R!Ask(j)
  PROVE  RendererInv'
<1>1. /\ job[j].pc = "new" /\ job' = [job EXCEPT ![j].pc = "queued"] /\ queue' = Append(queue, j)
      /\ UNCHANGED <<proc, browser, launching, pages, faulted>>
  BY DEF R!Ask, R!Step
<1>2. queue \in Seq(R!Jobs) /\ DOMAIN queue = 1..Len(queue) /\ Len(queue) \in Nat
  BY DEF RendererInv, RendererTypes
<1>3. /\ queue' \in Seq(R!Jobs) /\ DOMAIN queue' = 1..(Len(queue) + 1)
      /\ \A i \in 1..Len(queue) : queue'[i] = queue[i]
      /\ queue'[Len(queue) + 1] = j
  BY <1>1, <1>2
<1>4. /\ job'[j].pc = "queued" /\ job'[j].on = job[j].on /\ job'[j].outcome = job[j].outcome
      /\ \A i \in R!Jobs \ {j} : job'[i] = job[i]
  BY <1>1 DEF RendererInv, RendererTypes, JobTable
<1>5. RendererTypes'
  BY <1>1, <1>3 DEF RendererInv, RendererTypes, JobTable
<1>6. \A i \in R!Jobs : Active(i)' => Active(i) /\ i # j /\ job'[i] = job[i]
  BY <1>4 DEF Active
<1>7. \A i \in R!Jobs : Active(i) => Active(i)' /\ job'[i] = job[i]
  BY <1>1, <1>4 DEF Active
<1>8. ChainHolds'
  <2>1. \A i \in 1..Len(queue) : queue[i] # j /\ queue[i] \in R!Jobs
    BY <1>1, <1>2 DEF RendererInv, ChainHolds
  <2>2. \A i, k \in DOMAIN queue' : queue'[i] = queue'[k] => i = k
    BY <1>2, <1>3, <2>1 DEF RendererInv, ChainHolds
  <2>3. \A i \in DOMAIN queue' : job'[queue'[i]].pc \notin {"new", "done"}
    BY <1>2, <1>3, <1>4, <2>1 DEF RendererInv, ChainHolds
  <2>4. ASSUME NEW i \in R!Jobs, Active(i)' PROVE queue' # <<>> /\ Head(queue') = i
    <3>1. queue # <<>> /\ Head(queue) = i
      BY <1>6, <2>4 DEF RendererInv, ChainHolds
    <3>2. Len(queue) # 0 /\ queue[1] = i
      BY <1>2, <3>1
    <3>3. queue'[1] = i /\ Len(queue') # 0
      BY <1>2, <1>3, <3>2
    <3>4. QED
      BY <1>3, <3>3
  <2>5. QED
    BY <2>2, <2>3, <2>4 DEF ChainHolds
<1>9. PagesAreOfTheActive'
  BY <1>1, <1>7 DEF RendererInv, PagesAreOfTheActive
<1>10. LaunchIsTheOne' /\ LossesAreCounted'
  BY <1>1, <1>4 DEF RendererInv, LaunchIsTheOne, LossesAreCounted, Alive
<1>11. QED
  BY <1>5, <1>8, <1>9, <1>10 DEF RendererInv

\* An image refused at once never joins it.
LEMMA RefuseKeeps ==
  ASSUME RendererInv, NEW j \in R!Jobs, R!Refuse(j)
  PROVE  RendererInv'
<1>1. /\ job[j].pc = "new" /\ job' = [job EXCEPT ![j].pc = "done", ![j].outcome = "refused"]
      /\ UNCHANGED <<queue, proc, browser, launching, pages, faulted>>
  BY DEF R!Refuse
<1>2. /\ job'[j].pc = "done" /\ job'[j].outcome = "refused"
      /\ \A i \in R!Jobs \ {j} : job'[i] = job[i]
  BY <1>1 DEF RendererInv, RendererTypes, JobTable
<1>3. RendererTypes'
  BY <1>1 DEF RendererInv, RendererTypes, JobTable
<1>4. \A i \in R!Jobs : (Active(i)' <=> Active(i)) /\ (Active(i) => job'[i] = job[i])
  BY <1>1, <1>2 DEF Active
<1>5. ChainHolds'
  <2>1. \A i \in DOMAIN queue : queue[i] # j /\ queue[i] \in R!Jobs
    BY <1>1 DEF RendererInv, RendererTypes, ChainHolds
  <2>2. \A i \in DOMAIN queue : job'[queue[i]].pc \notin {"new", "done"}
    BY <1>2, <2>1 DEF RendererInv, ChainHolds
  <2>3. QED
    BY <1>1, <1>4, <2>2 DEF RendererInv, ChainHolds
<1>6. PagesAreOfTheActive'
  BY <1>1, <1>4 DEF RendererInv, PagesAreOfTheActive
<1>7. LaunchIsTheOne' /\ LossesAreCounted'
  BY <1>1, <1>2 DEF RendererInv, LaunchIsTheOne, LossesAreCounted, Alive
<1>8. QED
  BY <1>3, <1>5, <1>6, <1>7 DEF RendererInv

\* The oldest job begins when none is under way, on the Chromium at hand or, if
\* there is none, on a new one.
LEMMA BeginKeeps ==
  ASSUME RendererInv, NEW j \in R!Jobs, R!Begin(j)
  PROVE  RendererInv'
<1>1. /\ job[j].pc = "queued" /\ queue # <<>> /\ Head(queue) = j
      /\ UNCHANGED <<queue, browser, pages, faulted>>
  BY DEF R!Begin, R!First
<1>2. PICK b : /\ job' = [job EXCEPT ![j].pc = "await", ![j].on = b]
               /\ \/ b = R!BrowserAtHand /\ b # None /\ UNCHANGED <<proc, launching>>
                  \/ /\ R!BrowserAtHand = None /\ b = Len(proc) + 1
                     /\ proc' = Append(proc, "starting") /\ launching' = b
  BY DEF R!Begin, R!Fresh
<1>3. proc \in Seq({"starting", "up", "dying", "dead", "failed"}) /\ DOMAIN proc = 1..Len(proc) /\ Len(proc) \in Nat
  BY DEF RendererInv, RendererTypes
<1>4. /\ DOMAIN proc \subseteq DOMAIN proc' /\ \A c \in DOMAIN proc : proc'[c] = proc[c]
      /\ proc' \in Seq({"starting", "up", "dying", "dead", "failed"}) /\ b \in DOMAIN proc'
      /\ proc'[b] \in {"starting", "up", "dying"}
  <2>1. CASE R!BrowserAtHand = None /\ b = Len(proc) + 1 /\ proc' = Append(proc, "starting")
    BY <1>3, <2>1
  <2>2. CASE b = R!BrowserAtHand /\ b # None /\ proc' = proc
    <3>1. b \in DOMAIN proc /\ proc[b] \in {"starting", "up", "dying"}
      BY <2>2 DEF R!BrowserAtHand, R!Connected, RendererInv, RendererTypes, LaunchIsTheOne, Alive
    <3>2. QED
      BY <1>3, <2>2, <3>1
  <2>3. QED
    BY <1>2, <2>1, <2>2
<1>5. b \in Nat
  BY <1>3, <1>4
<1>6. /\ job'[j].pc = "await" /\ job'[j].on = b /\ job'[j].outcome = job[j].outcome
      /\ \A i \in R!Jobs \ {j} : job'[i] = job[i]
  BY <1>2 DEF RendererInv, RendererTypes, JobTable
<1>7. RendererTypes'
  <2>1. job' \in JobTable
    BY <1>2, <1>5 DEF RendererInv, RendererTypes, JobTable
  <2>2. browser' \in DOMAIN proc' \cup {None}
    BY <1>1, <1>4 DEF RendererInv, RendererTypes
  <2>3. QED
    BY <1>1, <1>4, <2>1, <2>2 DEF RendererInv, RendererTypes
<1>8. \A i \in R!Jobs : ~Active(i)
  BY <1>1 DEF RendererInv, ChainHolds, Active
<1>9. ChainHolds'
  <2>1. \A i \in R!Jobs : Active(i)' => i = j
    BY <1>6, <1>8 DEF Active
  <2>2. \A i \in DOMAIN queue : queue[i] \in R!Jobs
    BY DEF RendererInv, RendererTypes
  <2>3. QED
    BY <1>1, <1>6, <2>1, <2>2 DEF RendererInv, ChainHolds
<1>10. PagesAreOfTheActive'
  BY <1>1, <1>8 DEF RendererInv, PagesAreOfTheActive
<1>11. LaunchIsTheOne'
  <2>1. CASE UNCHANGED <<proc, launching>>
    BY <2>1 DEF RendererInv, LaunchIsTheOne, Alive
  <2>2. CASE R!BrowserAtHand = None /\ b = Len(proc) + 1 /\ proc' = Append(proc, "starting") /\ launching' = b
    <3>1. launching = None
      BY <2>2 DEF R!BrowserAtHand, R!Connected
    <3>2. \A c \in DOMAIN proc : ~Alive(c)
      BY <1>3, <3>1, RendererParameters DEF R!JobsAreApart, RendererInv, LaunchIsTheOne
    <3>3. DOMAIN proc' = 1..(Len(proc) + 1)
      BY <1>3, <2>2
    <3>4. \A c \in DOMAIN proc' : c \in DOMAIN proc \/ c = b
      BY <1>3, <2>2, <3>3
    <3>5. QED
      BY <1>4, <2>2, <3>2, <3>4 DEF LaunchIsTheOne, Alive
  <2>3. QED
    BY <1>2, <2>1, <2>2
<1>12. LossesAreCounted'
  BY <1>1, <1>4, <1>6 DEF RendererInv, LossesAreCounted
<1>13. QED
  BY <1>7, <1>9, <1>10, <1>11, <1>12 DEF RendererInv

\* A step of the oldest job that leaves Chromium alone and the job under way.
LEMMA OldestKeeps ==
  ASSUME RendererInv, NEW j \in R!Jobs, queue # <<>>, Head(queue) = j,
         job' \in JobTable, \A i \in R!Jobs \ {j} : job'[i] = job[i],
         job'[j].pc \in {"draw", "close"}, job'[j].on = job[j].on,
         UNCHANGED <<queue, proc, browser, launching>>,
         pages' \subseteq pages \cup {<<j, job[j].on>>},
         faulted \subseteq faulted',
         job'[j].pc = "draw" =>
           job[j].on \in DOMAIN proc /\ (proc[job[j].on] \in {"dead", "failed"} => j \in faulted'),
         job'[j].outcome = "failed" => j \in faulted'
  PROVE  RendererInv'
<1>1. RendererTypes'
  BY DEF RendererInv, RendererTypes
<1>2. \A i \in R!Jobs : Active(i) => i = j
  BY DEF RendererInv, ChainHolds
<1>3. Active(j)' /\ \A i \in R!Jobs : Active(i)' => i = j
  BY <1>2 DEF Active
<1>4. ChainHolds'
  <2>1. \A i \in DOMAIN queue : queue[i] \in R!Jobs
    BY DEF RendererInv, RendererTypes
  <2>2. \A i \in DOMAIN queue : job'[queue[i]].pc \notin {"new", "done"}
    BY <2>1 DEF RendererInv, ChainHolds
  <2>3. QED
    BY <1>3, <2>2 DEF RendererInv, ChainHolds
<1>5. PagesAreOfTheActive'
  <2>1. ASSUME NEW p \in pages' PROVE p = <<j, job'[j].on>>
    BY <1>2 DEF RendererInv, PagesAreOfTheActive
  <2>2. QED
    BY <1>3, <2>1 DEF PagesAreOfTheActive
<1>6. LaunchIsTheOne'
  BY DEF RendererInv, LaunchIsTheOne, Alive
<1>7. LossesAreCounted'
  <2>1. ASSUME NEW i \in R!Jobs, job'[i].pc \in {"await", "draw"}
        PROVE  job'[i].on \in DOMAIN proc /\ (proc[job'[i].on] \in {"dead", "failed"} => i \in faulted')
    BY <2>1 DEF RendererInv, LossesAreCounted
  <2>2. ASSUME NEW i \in R!Jobs, job'[i].outcome = "failed" PROVE i \in faulted'
    BY <2>2 DEF RendererInv, LossesAreCounted
  <2>3. QED
    BY <2>1, <2>2 DEF LossesAreCounted
<1>8. QED
  BY <1>1, <1>4, <1>5, <1>6, <1>7 DEF RendererInv

\* A job that settles is at its finally.
LEMMA SettleOf ==
  ASSUME RendererInv, NEW j \in R!Jobs, NEW o \in {"drawn", "failed"}, R!Settle(j, o)
  PROVE  /\ job' \in JobTable /\ \A i \in R!Jobs \ {j} : job'[i] = job[i]
         /\ job'[j].pc = "close" /\ job'[j].on = job[j].on /\ job'[j].outcome = o
BY DEF R!Settle, RendererInv, RendererTypes, JobTable

\* The steps of a job between its first await and page.close().
LEMMA JobKeeps ==
  ASSUME RendererInv, NEW j \in R!Jobs,
         R!BuildFails(j) \/ R!OpenPage(j) \/ R!Draw(j) \/ R!DrawFails(j)
  PROVE  RendererInv'
<1>1. Active(j) => queue # <<>> /\ Head(queue) = j
  BY DEF RendererInv, ChainHolds
<1>2. CASE R!BuildFails(j)
  <2>1. /\ queue # <<>> /\ Head(queue) = j /\ R!Settle(j, "failed") /\ j \in faulted' /\ faulted \subseteq faulted'
        /\ UNCHANGED <<queue, proc, browser, launching, pages>>
    BY <1>2 DEF R!BuildFails, R!First
  <2>2. QED
    BY SettleOf, <2>1, OldestKeeps
<1>3. CASE R!OpenPage(j)
  <2>1. /\ job[j].pc = "await" /\ (job[j].on = None \/ proc[job[j].on] \notin {"starting", "dying"})
        /\ UNCHANGED <<queue, proc, browser, launching, faulted>>
    BY <1>3 DEF R!OpenPage, R!Answers
  <2>2. /\ queue # <<>> /\ Head(queue) = j /\ job[j].on \in DOMAIN proc
        /\ proc[job[j].on] \in {"dead", "failed"} => j \in faulted
    BY <1>1, <1>3 DEF R!OpenPage, Active, RendererInv, LossesAreCounted
  <2>3. CASE proc[job[j].on] = "up"
    <3>1. job' = [job EXCEPT ![j].pc = "draw"] /\ pages' = pages \cup {<<j, job[j].on>>}
      BY <1>3, <2>3 DEF R!OpenPage, R!Step
    <3>2. /\ job' \in JobTable /\ \A i \in R!Jobs \ {j} : job'[i] = job[i]
          /\ job'[j].pc = "draw" /\ job'[j].on = job[j].on /\ job'[j].outcome = job[j].outcome
      BY <3>1 DEF RendererInv, RendererTypes, JobTable
    <3>3. job[j].outcome = "failed" => j \in faulted
      BY DEF RendererInv, LossesAreCounted
    <3>4. QED
      BY <2>1, <2>2, <3>1, <3>2, <3>3, OldestKeeps
  <2>4. CASE proc[job[j].on] # "up"
    <3>1. R!Settle(j, "failed") /\ pages' = pages
      BY <1>3, <2>4 DEF R!OpenPage
    <3>2. proc[job[j].on] \in {"dead", "failed"}
      BY <1>3, <2>2, <2>4, RendererParameters DEF R!OpenPage, R!Answers, R!JobsAreApart, RendererInv, RendererTypes
    <3>3. QED
      BY SettleOf, <2>1, <2>2, <3>1, <3>2, OldestKeeps
  <2>5. QED
    BY <2>3, <2>4
<1>4. CASE R!Draw(j)
  <2>1. UNCHANGED <<queue, proc, browser, launching, pages, faulted>>
    BY <1>4 DEF R!Draw
  <2>2. /\ queue # <<>> /\ Head(queue) = j /\ job[j].on \in DOMAIN proc
        /\ proc[job[j].on] \in {"dead", "failed"} => j \in faulted
    BY <1>1, <1>4 DEF R!Draw, Active, RendererInv, LossesAreCounted
  <2>3. CASE proc[job[j].on] = "up"
    <3>1. R!Settle(j, "drawn")
      BY <1>4, <2>3 DEF R!Draw
    <3>2. QED
      BY SettleOf, <2>1, <2>2, <3>1, OldestKeeps
  <2>4. CASE proc[job[j].on] # "up"
    <3>1. R!Settle(j, "failed")
      BY <1>4, <2>4 DEF R!Draw
    <3>2. proc[job[j].on] \in {"dead", "failed"}
      BY <1>4, <2>2, <2>4, RendererParameters DEF R!Draw, R!Answers, R!JobsAreApart, RendererInv, RendererTypes
    <3>3. QED
      BY SettleOf, <2>1, <2>2, <3>1, <3>2, OldestKeeps
  <2>5. QED
    BY <2>3, <2>4
<1>5. CASE R!DrawFails(j)
  <2>1. /\ job[j].pc = "draw" /\ R!Settle(j, "failed") /\ j \in faulted' /\ faulted \subseteq faulted'
        /\ UNCHANGED <<queue, proc, browser, launching, pages>>
    BY <1>5 DEF R!DrawFails
  <2>2. queue # <<>> /\ Head(queue) = j
    BY <1>1, <2>1 DEF Active
  <2>3. QED
    BY SettleOf, <2>1, <2>2, OldestKeeps
<1>6. QED
  BY <1>2, <1>3, <1>4, <1>5

\* page.close(): the chain moves on, with nobody under way.
LEMMA ClosePageKeeps ==
  ASSUME RendererInv, NEW j \in R!Jobs, R!ClosePage(j)
  PROVE  RendererInv'
<1>1. /\ job[j].pc = "close" /\ job' = [job EXCEPT ![j].pc = "done"] /\ queue' = Tail(queue)
      /\ pages' = {p \in pages : p[1] # j}
      /\ UNCHANGED <<proc, browser, launching, faulted>>
  BY DEF R!ClosePage, R!Step, R!RestOf
<1>2. /\ job'[j].pc = "done" /\ job'[j].outcome = job[j].outcome
      /\ \A i \in R!Jobs \ {j} : job'[i] = job[i]
  BY <1>1 DEF RendererInv, RendererTypes, JobTable
<1>3. Active(j) /\ \A i \in R!Jobs : Active(i) => i = j
  BY <1>1, OneActive DEF Active
<1>4. /\ queue' \in Seq(R!Jobs)
      /\ \A i \in DOMAIN queue' : i + 1 \in DOMAIN queue /\ queue'[i] = queue[i + 1] /\ queue'[i] # j
      /\ \A i, k \in DOMAIN queue' : queue'[i] = queue'[k] => i = k
  BY <1>1, <1>3, ChainMovesOn
<1>5. RendererTypes'
  BY <1>1, <1>4 DEF RendererInv, RendererTypes, JobTable
<1>6. \A i \in R!Jobs : ~Active(i)'
  BY <1>2, <1>3 DEF Active
<1>7. ChainHolds'
  <2>1. \A i \in DOMAIN queue' : queue'[i] \in R!Jobs
    BY <1>4
  <2>2. \A i \in DOMAIN queue' : job'[queue'[i]].pc \notin {"new", "done"}
    BY <1>2, <1>4, <2>1 DEF RendererInv, ChainHolds
  <2>3. QED
    BY <1>4, <1>6, <2>2 DEF ChainHolds
<1>8. PagesAreOfTheActive'
  <2>1. \A p \in pages : p[1] = j
    BY <1>3 DEF RendererInv, PagesAreOfTheActive
  <2>2. QED
    BY <1>1, <2>1 DEF PagesAreOfTheActive
<1>9. LaunchIsTheOne' /\ LossesAreCounted'
  BY <1>1, <1>2 DEF RendererInv, LaunchIsTheOne, LossesAreCounted, Alive
<1>10. QED
  BY <1>5, <1>7, <1>8, <1>9 DEF RendererInv

\* A change of one Chromium that leaves the jobs alone and counts those it fails.
LEMMA ChromiumKeeps ==
  ASSUME RendererInv, NEW b \in DOMAIN proc,
         NEW s \in {"up", "dying", "dead", "failed"}, proc' = [proc EXCEPT ![b] = s],
         UNCHANGED <<queue, job>>, pages' \subseteq pages,
         browser' \in {browser, b, None}, LaunchIsTheOne',
         faulted \subseteq faulted', s \in {"dead", "failed"} => R!Using(b) \subseteq faulted'
  PROVE  RendererInv'
<1>1. /\ proc' \in Seq({"starting", "up", "dying", "dead", "failed"}) /\ DOMAIN proc' = DOMAIN proc
      /\ proc'[b] = s /\ \A c \in DOMAIN proc \ {b} : proc'[c] = proc[c]
  BY DEF RendererInv, RendererTypes
<1>2. RendererTypes'
  BY <1>1 DEF RendererInv, RendererTypes, JobTable
<1>3. ChainHolds' /\ PagesAreOfTheActive'
  BY DEF RendererInv, ChainHolds, PagesAreOfTheActive, Active
<1>4. LossesAreCounted'
  <2>1. ASSUME NEW j \in R!Jobs, job[j].pc \in {"await", "draw"}, proc'[job[j].on] \in {"dead", "failed"}
        PROVE  j \in faulted'
    <3>1. job[j].on \in DOMAIN proc
      BY <2>1 DEF RendererInv, LossesAreCounted
    <3>2. CASE job[j].on = b
      <4>1. j \in R!Using(b)
        BY <2>1, <3>2 DEF R!Using, R!Running
      <4>2. QED
        BY <1>1, <2>1, <3>2, <4>1
    <3>3. CASE job[j].on # b
      BY <1>1, <2>1, <3>1, <3>3 DEF RendererInv, LossesAreCounted
    <3>4. QED
      BY <3>2, <3>3
  <2>2. QED
    BY <1>1, <2>1 DEF RendererInv, LossesAreCounted
<1>5. QED
  BY <1>2, <1>3, <1>4 DEF RendererInv

\* What Chromium does.
LEMMA ProcessKeeps ==
  ASSUME RendererInv, NEW b \in DOMAIN proc,
         R!Launched(b) \/ R!LaunchFails(b) \/ R!Crash(b) \/ R!Disconnected(b)
  PROVE  RendererInv'
<1>1. \A c \in DOMAIN proc : Alive(c) => launching = c
  BY DEF RendererInv, LaunchIsTheOne
<1>2. ASSUME NEW s, proc' = [proc EXCEPT ![b] = s]
      PROVE  /\ DOMAIN proc' = DOMAIN proc /\ proc'[b] = s
             /\ \A c \in DOMAIN proc \ {b} : proc'[c] = proc[c]
  BY <1>2 DEF RendererInv, RendererTypes
<1>3. b \in Nat
  BY DEF RendererInv, RendererTypes
<1>4. CASE R!Launched(b)
  <2>1. /\ proc[b] = "starting" /\ proc' = [proc EXCEPT ![b] = "up"] /\ browser' = b
        /\ UNCHANGED <<queue, job, launching, pages, faulted>>
    BY <1>4 DEF R!Launched
  <2>2. LaunchIsTheOne'
    BY <1>1, <1>2, <2>1 DEF LaunchIsTheOne, Alive
  <2>3. QED
    BY <2>1, <2>2, ChromiumKeeps
<1>5. CASE R!LaunchFails(b)
  <2>1. /\ proc[b] = "starting" /\ proc' = [proc EXCEPT ![b] = "failed"] /\ launching' = None
        /\ faulted' = faulted \cup R!Using(b) /\ UNCHANGED <<queue, job, browser, pages>>
    BY <1>5 DEF R!LaunchFails, R!LaunchingAfterFailure
  <2>2. LaunchIsTheOne'
    BY <1>1, <1>2, <2>1 DEF LaunchIsTheOne, Alive
  <2>3. QED
    BY <2>1, <2>2, ChromiumKeeps
<1>6. CASE R!Crash(b)
  <2>1. /\ proc[b] = "up" /\ proc' = [proc EXCEPT ![b] = "dying"] /\ pages' \subseteq pages
        /\ faulted' = faulted \cup R!Using(b) /\ UNCHANGED <<queue, job, browser, launching>>
    BY <1>6 DEF R!Crash, R!Dies
  <2>2. LaunchIsTheOne'
    BY <1>1, <1>2, <2>1 DEF LaunchIsTheOne, Alive
  <2>3. QED
    BY <2>1, <2>2, ChromiumKeeps
<1>7. CASE R!Disconnected(b)
  <2>1. /\ proc[b] = "dying" /\ proc' = [proc EXCEPT ![b] = "dead"] /\ browser' = None /\ launching' = None
        /\ faulted' = faulted \cup R!Using(b) /\ UNCHANGED <<queue, job, pages>>
    BY <1>7 DEF R!Disconnected, R!LaunchingAfterDeath
  <2>2. LaunchIsTheOne'
    BY <1>1, <1>2, <2>1 DEF LaunchIsTheOne, Alive
  <2>3. QED
    BY <2>1, <2>2, ChromiumKeeps
<1>8. QED
  BY <1>4, <1>5, <1>6, <1>7

\* Nothing changes for the jobs.
LEMMA RendererStutters ==
  ASSUME RendererInv, UNCHANGED <<queue, job, proc, browser, launching, pages, faulted>>
  PROVE  RendererInv'
BY DEF RendererInv, RendererTypes, JobTable, ChainHolds, PagesAreOfTheActive, LaunchIsTheOne,
       LossesAreCounted, Active, Alive

\* What onModuleDestroy does: it closes the Chromium it found, if that still runs.
LEMMA DestroyKeeps ==
  ASSUME RendererInv, R!Destroy \/ R!AwaitLaunch \/ R!CloseBrowser
  PROVE  RendererInv'
<1>1. CASE R!Destroy \/ R!AwaitLaunch
  BY <1>1, RendererStutters DEF R!Destroy, R!AwaitLaunch
<1>2. CASE R!CloseBrowser
  <2> DEFINE b == down.on
  <2>1. CASE proc[b] = "up" /\ b \in DOMAIN proc
    <3>1. /\ proc' = [proc EXCEPT ![b] = "dying"] /\ pages' \subseteq pages
          /\ faulted' = faulted \cup R!Using(b) /\ UNCHANGED <<queue, job, browser, launching>>
      BY <1>2, <2>1 DEF R!CloseBrowser, R!Dies
    <3>2. LaunchIsTheOne'
      BY <2>1, <3>1 DEF RendererInv, RendererTypes, LaunchIsTheOne, Alive
    <3>3. QED
      BY <2>1, <3>1, <3>2, ChromiumKeeps
  <2>2. CASE proc[b] = "up" /\ b \notin DOMAIN proc
    <3>1. /\ proc' = [proc EXCEPT ![b] = "dying"] /\ pages' \subseteq pages
          /\ faulted' = faulted \cup R!Using(b) /\ UNCHANGED <<queue, job, browser, launching>>
      BY <1>2, <2>2 DEF R!CloseBrowser, R!Dies
    <3>2. proc' = proc
      BY <2>2, <3>1 DEF RendererInv, RendererTypes
    <3>3. QED
      BY <3>1, <3>2 DEF RendererInv, RendererTypes, JobTable, ChainHolds, PagesAreOfTheActive,
                        LaunchIsTheOne, LossesAreCounted, Active, Alive
  <2>3. CASE proc[b] # "up"
    BY <1>2, <2>3, RendererStutters DEF R!CloseBrowser
  <2>4. QED
    BY <2>1, <2>2, <2>3
<1>3. QED
  BY <1>1, <1>2

\* The invariant of the chain and of Chromium, in a behaviour of any part.
LEMMA RendererHolds == MCSpec => []RendererInv
<1>1. MCInit => RendererInv
  BY RendererBegins DEF MCInit
<1>2. RendererInv /\ [MCNext]_allVars => RendererInv'
  <2> SUFFICES ASSUME RendererInv, [MCNext]_allVars PROVE RendererInv'
    OBVIOUS
  <2>1. CASE R!Next
    <3>1. ASSUME NEW j \in R!Jobs, R!Ask(j) \/ R!Refuse(j) \/ R!JobStep(j) \/ R!BuildFails(j) \/ R!DrawFails(j)
          PROVE  RendererInv'
      BY <3>1, AskKeeps, RefuseKeeps, BeginKeeps, JobKeeps, ClosePageKeeps DEF R!JobStep
    <3>2. QED
      BY <2>1, <3>1, ProcessKeeps, DestroyKeeps DEF R!Next
  <2>2. CASE UNCHANGED ofRenderer
    BY <2>2, RendererStutters DEF ofRenderer
  <2>3. QED
    BY <2>1, <2>2 DEF MCNext, allVars
<1>3. QED
  BY <1>1, <1>2, PTL DEF MCSpec

\* "Renders run ONE AT A TIME": whatever dies, fails or is shut down, one job is
\* under way, one page open and one Chromium up or starting, and a render fails only
\* if something went wrong in its own course.
THEOREM DocumentsOneAtATime == MCSpec => []OneDocumentAtATime
<1>1. ASSUME RendererInv PROVE R!OneAtATime
  <2>1. \A i, j \in R!Running : i = j
    BY <1>1, RunningIsActive, OneActive DEF R!Running
  <2>2. \A p, q \in pages : p = q
    BY <1>1, OneActive DEF RendererInv, PagesAreOfTheActive
  <2>3. \A a, b \in {c \in DOMAIN proc : proc[c] \in {"starting", "up"}} : a = b
    BY <1>1 DEF RendererInv, LaunchIsTheOne, Alive
  <2>4. QED
    BY <2>1, <2>2, <2>3, AtMostOne DEF R!OneAtATime
<1>2. ASSUME RendererInv PROVE R!FailuresAreOwn
  BY <1>2 DEF RendererInv, LossesAreCounted, R!FailuresAreOwn
<1>3. RendererInv => OneDocumentAtATime
  BY <1>1, <1>2 DEF OneDocumentAtATime
<1>4. QED
  BY <1>3, RendererHolds, PTL
=============================================================================
