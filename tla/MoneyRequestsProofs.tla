------------------------- MODULE MoneyRequestsProofs -------------------------
(***************************************************************************)
(* Proofs about the parts of MCMoneyRequests.  Idempotency, for any keys,  *)
(* requests and commands: as long as a handler ends within STALE_CLAIM_MS, *)
(* a key has one claimant at a time, a stored response is final, and       *)
(* whatever a client is told is about what it asked.  LockOrder, for any   *)
(* invoices, payments and requests: nobody waits in a circle.  CashBook,   *)
(* for any accounts, payments, requests and books to begin with: the books *)
(* stay sound and sum to the rows that stand.                              *)
(***************************************************************************)
EXTENDS MCMoneyRequests, Sums, SequenceTheorems

-----------------------------------------------------------------------------
(* Idempotency.                                                            *)

\* Whoever has passed the claim of a key finds a row there: none is ever deleted.
RowsAreThere ==
  \A r \in Requests : InFlight(r) \/ pc[r] = "read" => row[ask[r].key] # None

\* The row of a key under execution is the claim of whoever executes it.
ClaimStands(r) ==
  InFlight(r) =>
    /\ row[ask[r].key].response = None
    /\ ~row[ask[r].key].stale
    /\ row[ask[r].key].print = FingerprintOf(r)

ClaimsStand == \A r \in Requests : ClaimStands(r)

\* A stored response was made by an execution of the key, with the fingerprint
\* that is stored next to it.
ResponseIsTrue(k) ==
  row[k] # None /\ row[k].response # None =>
    LET q == row[k].response IN
    q \in executed /\ ask[q].key = k /\ FingerprintOf(q) = row[k].print

ResponsesAreTrue == \A k \in Keys : ResponseIsTrue(k)

\* A committed handler is about to store its response, has stored it, or died;
\* only a committed one stores a response.
ExecutedIsKept(r) ==
  /\ pc[r] = "complete" => r \in executed
  /\ r \in executed =>
       \/ pc[r] \in {"complete", "dead"}
       \/ pc[r] = "answered" /\ row[ask[r].key] # None /\ row[ask[r].key].response # None

ExecutionsAreKept == \A r \in Requests : ExecutedIsKept(r)

\* Who runs the handler of a key finds only dead predecessors that committed.
PredecessorsAreDead ==
  \A r, q \in Requests :
    InFlight(r) /\ q \in executed /\ q # r /\ ask[q].key = ask[r].key => pc[q] = "dead"

\* The inductive invariant of handlers that do not stall.
IInv ==
  /\ TypeOK
  /\ RowsAreThere
  /\ ClaimsStand
  /\ ResponsesAreTrue
  /\ ExecutionsAreKept
  /\ PredecessorsAreDead
  /\ OneClaimantAtATime
  /\ RepeatsFollowDeaths
  /\ ReplayAnswersTheRequest

-----------------------------------------------------------------------------
(* Types, whether or not handlers stall.                                   *)

\* A request that is being served has sent a key and a command.
LEMMA ServedHasAsked ==
  ASSUME TypeOK, NEW r \in Requests, pc[r] # "new"
  PROVE  ask[r].key \in Keys /\ ask[r].cmd \in Commands
BY DEF TypeOK

\* A request moves on to a label and keeps what it asked.
LEMMA GotoTyped ==
  ASSUME TypeOK, NEW r \in Requests, pc[r] # "new", NEW label \in Labels \ {"new"},
         Goto(r, label), ask' = ask
  PROVE  /\ pc' \in [Requests -> Labels]
         /\ \A q \in Requests :
              \/ pc'[q] = "new" /\ ask'[q] = NoRequest
              \/ pc'[q] # "new" /\ ask'[q] \in [key : Keys, cmd : Commands]
BY DEF TypeOK, Goto

\* A row as a claim writes it.
LEMMA FreshRowTyped ==
  ASSUME TypeOK, NEW r \in Requests, pc[r] # "new"
  PROVE  [print |-> FingerprintOf(r), response |-> None, stale |-> FALSE] \in Row
BY ServedHasAsked DEF FingerprintOf, Row

\* What is stored is typed and stays where it is.
LEMMA TypeInit == Init => TypeOK /\ RowsAreThere
BY DEF Init, TypeOK, RowsAreThere, InFlight, Labels

\* A step keeps the types and the rows.
LEMMA TypeStep ==
  ASSUME TypeOK, RowsAreThere, [Next]_vars
  PROVE  TypeOK' /\ RowsAreThere'
<1>1. ASSUME NEW r \in Requests, Arrive(r) PROVE TypeOK' /\ RowsAreThere'
  BY <1>1 DEF Arrive, TypeOK, RowsAreThere, InFlight, Goto, Labels
<1>2. ASSUME NEW r \in Requests, TryClaim(r) PROVE TypeOK' /\ RowsAreThere'
  <2> DEFINE k     == ask[r].key
             fresh == [print |-> FingerprintOf(r), response |-> None, stale |-> FALSE]
  <2>1. k \in Keys /\ fresh \in Row /\ pc[r] = "claim"
    BY <1>2, ServedHasAsked, FreshRowTyped DEF TryClaim
  <2>2. CASE Claimable(k)
    <3>1. row' = [row EXCEPT ![k] = fresh] /\ Goto(r, "run")
      BY <1>2, <2>2 DEF TryClaim
    <3>2. UNCHANGED <<ask, answer, executed, deaths>>
      BY <1>2 DEF TryClaim
    <3>3. TypeOK'
      BY <2>1, <3>1, <3>2, GotoTyped DEF TypeOK, Labels
    <3>4. fresh # None
      BY <2>1, NoneIsNoRow
    <3>5. RowsAreThere'
      BY <2>1, <3>1, <3>2, <3>4 DEF RowsAreThere, TypeOK, Goto, InFlight
    <3>6. QED
      BY <3>3, <3>5
  <2>3. CASE ~Claimable(k)
    <3>1. Goto(r, "read") /\ UNCHANGED <<row, ask, answer, executed, deaths>>
      BY <1>2, <2>3 DEF TryClaim
    <3>2. TypeOK'
      BY <2>1, <3>1, GotoTyped DEF TypeOK, Labels
    <3>3. row[k] # None
      BY <2>3 DEF Claimable
    <3>4. RowsAreThere'
      BY <2>1, <3>1, <3>3 DEF RowsAreThere, TypeOK, Goto, InFlight
    <3>5. QED
      BY <3>2, <3>4
  <2>4. QED
    BY <2>2, <2>3
<1>3. ASSUME NEW r \in Requests, ReadRow(r) PROVE TypeOK' /\ RowsAreThere'
  <2> DEFINE stored == row[ask[r].key].response
  <2>1. stored \in Requests \cup {None}
    BY <1>3, ServedHasAsked DEF ReadRow, RowsAreThere, TypeOK, Row
  <2>2. \E label \in {"refused", "answered"} : Goto(r, label)
    BY <1>3 DEF ReadRow
  <2>3. answer' \in [Requests -> Requests \cup {None}]
    BY <1>3, <2>1 DEF ReadRow, TypeOK
  <2>4. UNCHANGED <<row, ask, executed, deaths>> /\ pc[r] = "read"
    BY <1>3 DEF ReadRow
  <2>5. TypeOK'
    BY <2>2, <2>3, <2>4, GotoTyped DEF TypeOK, Labels
  <2>6. RowsAreThere'
    BY <2>2, <2>4 DEF RowsAreThere, TypeOK, Goto, InFlight
  <2>7. QED
    BY <2>5, <2>6
<1>4. ASSUME NEW r \in Requests, Handle(r) PROVE TypeOK' /\ RowsAreThere'
  <2>1. TypeOK'
    BY <1>4, GotoTyped DEF Handle, TypeOK, Labels
  <2>2. RowsAreThere'
    BY <1>4 DEF Handle, RowsAreThere, TypeOK, Goto, InFlight
  <2>3. QED
    BY <2>1, <2>2
<1>5. ASSUME NEW r \in Requests, HandlerThrows(r) PROVE TypeOK' /\ RowsAreThere'
  <2>1. TypeOK'
    BY <1>5, GotoTyped DEF HandlerThrows, TypeOK, Labels
  <2>2. RowsAreThere'
    BY <1>5 DEF HandlerThrows, RowsAreThere, TypeOK, Goto, InFlight
  <2>3. QED
    BY <2>1, <2>2
<1>6. ASSUME NEW r \in Requests, Complete(r) PROVE TypeOK' /\ RowsAreThere'
  <2> DEFINE k == ask[r].key
             filled == [row[k] EXCEPT !.response = r]
  <2>1. k \in Keys /\ pc[r] = "complete" /\ row[k] \in Row
    BY <1>6, ServedHasAsked DEF Complete, RowsAreThere, TypeOK, InFlight
  <2>2. filled \in Row
    BY <2>1 DEF Row
  <2>3. row' = [row EXCEPT ![k] = filled]
    BY <1>6, <2>1 DEF Complete
  <2>4. TypeOK'
    BY <1>6, <2>1, <2>2, <2>3, GotoTyped DEF Complete, TypeOK, Labels
  <2>5. filled # None
    BY <2>2, NoneIsNoRow
  <2>6. RowsAreThere'
    BY <1>6, <2>1, <2>3, <2>5 DEF Complete, RowsAreThere, TypeOK, Goto, InFlight
  <2>7. QED
    BY <2>4, <2>6
<1>7. ASSUME NEW r \in Requests, Die(r) PROVE TypeOK' /\ RowsAreThere'
  <2>1. TypeOK'
    BY <1>7, GotoTyped DEF Die, TypeOK, Labels
  <2>2. RowsAreThere'
    BY <1>7 DEF Die, RowsAreThere, TypeOK, Goto, InFlight
  <2>3. QED
    BY <2>1, <2>2
<1>8. ASSUME NEW k \in Keys, GoStale(k) PROVE TypeOK' /\ RowsAreThere'
  <2> DEFINE aged == [row[k] EXCEPT !.stale = TRUE]
  <2>1. row[k] \in Row /\ aged \in Row /\ row' = [row EXCEPT ![k] = aged]
    <3>1. row[k] \in Row
      BY <1>8 DEF GoStale, TypeOK
    <3>2. aged \in Row
      BY <3>1 DEF Row
    <3>3. QED
      BY <1>8, <3>1, <3>2 DEF GoStale
  <2>2. aged # None
    BY <2>1, NoneIsNoRow
  <2>3. TypeOK'
    BY <1>8, <2>1 DEF GoStale, TypeOK
  <2>4. RowsAreThere'
    BY <1>8, <2>1, <2>2 DEF GoStale, RowsAreThere, TypeOK, InFlight
  <2>5. QED
    BY <2>3, <2>4
<1>9. CASE UNCHANGED vars
  BY <1>9 DEF vars, TypeOK, RowsAreThere, InFlight
<1>10. QED
  BY <1>1, <1>2, <1>3, <1>4, <1>5, <1>6, <1>7, <1>8, <1>9 DEF Next

\* Rows and requests keep their types, whether or not a handler outlives the
\* staleness of its claim.
THEOREM KeysTyped == Spec => []TypeOK
<1>1. TypeOK /\ RowsAreThere /\ [Next]_vars => TypeOK' /\ RowsAreThere'
  BY TypeStep
<1>2. QED
  BY <1>1, TypeInit, PTL DEF Spec

-----------------------------------------------------------------------------
(* Handlers that do not stall.                                             *)

\* A step of one request leaves the others at their statements.
LEMMA OthersStay ==
  ASSUME TypeOK, NEW r \in Requests, NEW label, Goto(r, label)
  PROVE  pc'[r] = label /\ \A q \in Requests \ {r} : pc'[q] = pc[q]
BY DEF TypeOK, Goto

\* A claim that succeeds finds nobody in flight on its key, no stored response,
\* and only dead requests among those that have committed.
LEMMA ClaimableIsAbandoned ==
  ASSUME IInv, NEW k \in Keys, Claimable(k)
  PROVE  /\ \A q \in Requests : ask[q].key = k => ~InFlight(q)
         /\ \A q \in executed : ask[q].key = k => pc[q] = "dead"
<1>1. ASSUME NEW q \in Requests, ask[q].key = k, InFlight(q) PROVE FALSE
  BY <1>1 DEF IInv, ClaimsStand, ClaimStands, RowsAreThere, Claimable
<1>2. ASSUME NEW q \in executed, ask[q].key = k PROVE pc[q] = "dead"
  <2>1. q \in Requests /\ pc[q] # "complete"
    BY <1>1, <1>2 DEF IInv, TypeOK, InFlight
  <2>2. ~(row[k] # None /\ row[k].response # None)
    BY DEF Claimable
  <2>3. QED
    BY <1>2, <2>1, <2>2 DEF IInv, ExecutionsAreKept, ExecutedIsKept
<1>3. QED
  BY <1>1, <1>2

\* A statement that touches neither the rows, the executions nor the answers
\* keeps the invariant, if it takes nobody into flight.
LEMMA QuietStep ==
  ASSUME IInv, TypeOK', RowsAreThere', NEW r \in Requests,
         UNCHANGED <<row, ask, answer, executed>>,
         \A q \in Requests \ {r} : pc'[q] = pc[q],
         pc'[r] \in {"read", "refused", "failed", "dead"} \/ pc'[r] = pc[r],
         pc'[r] # "dead" => r \notin executed \/ pc'[r] = pc[r]
  PROVE  IInv'
<1> USE DEF IInv
<1>1. ClaimsStand'
  BY DEF ClaimsStand, ClaimStands, InFlight, FingerprintOf
<1>2. ResponsesAreTrue'
  BY DEF ResponsesAreTrue, ResponseIsTrue, FingerprintOf
<1>3. ExecutionsAreKept'
  BY DEF ExecutionsAreKept, ExecutedIsKept
<1>4. PredecessorsAreDead'
  BY DEF PredecessorsAreDead, InFlight
<1>5. OneClaimantAtATime'
  BY DEF OneClaimantAtATime, InFlight
<1>6. RepeatsFollowDeaths'
  BY DEF RepeatsFollowDeaths, TypeOK
<1>7. ReplayAnswersTheRequest'
  BY DEF ReplayAnswersTheRequest, FingerprintOf
<1>8. QED
  BY <1>1, <1>2, <1>3, <1>4, <1>5, <1>6, <1>7

\* The invariant holds at the start.
LEMMA InvariantInit == Init => IInv
BY TypeInit DEF Init, IInv, ClaimsStand, ClaimStands, InFlight, ResponsesAreTrue, ResponseIsTrue,
   ExecutionsAreKept, ExecutedIsKept, PredecessorsAreDead, OneClaimantAtATime,
   RepeatsFollowDeaths, ReplayAnswersTheRequest

\* A request that has just arrived has executed nothing and was told nothing.
LEMMA ArriveStep ==
  ASSUME IInv, TypeOK', RowsAreThere', NEW r \in Requests, Arrive(r)
  PROVE  IInv'
<1> USE DEF IInv
<1>1. pc[r] = "new" /\ pc'[r] = "claim" /\ \A q \in Requests \ {r} : pc'[q] = pc[q]
  BY OthersStay DEF Arrive
<1>2. \A q \in Requests \ {r} : ask'[q] = ask[q]
  BY DEF Arrive, TypeOK
<1>3. UNCHANGED <<row, answer, executed>>
  BY DEF Arrive
<1>4. r \notin executed
  BY <1>1 DEF ExecutionsAreKept, ExecutedIsKept
<1>5. executed \subseteq Requests
  BY DEF TypeOK
<1>6. ClaimsStand'
  BY <1>1, <1>2, <1>3 DEF ClaimsStand, ClaimStands, InFlight, FingerprintOf
<1>7. ResponsesAreTrue'
  BY <1>2, <1>3, <1>4, <1>5 DEF ResponsesAreTrue, ResponseIsTrue, FingerprintOf
<1>8. ExecutionsAreKept'
  BY <1>1, <1>2, <1>3, <1>4 DEF ExecutionsAreKept, ExecutedIsKept
<1>9. PredecessorsAreDead'
  BY <1>1, <1>2, <1>3, <1>4 DEF PredecessorsAreDead, InFlight
<1>10. OneClaimantAtATime'
  BY <1>1, <1>2 DEF OneClaimantAtATime, InFlight
<1>11. RepeatsFollowDeaths'
  BY <1>1, <1>2, <1>3, <1>4, <1>5 DEF RepeatsFollowDeaths
<1>12. ReplayAnswersTheRequest'
  <2>1. answer[r] = None
    <3> SUFFICES ASSUME answer[r] # None PROVE FALSE
      OBVIOUS
    <3>1. answer[r] \in executed /\ ask[answer[r]].key = ask[r].key
      BY DEF ReplayAnswersTheRequest
    <3>2. ask[r].key = None
      BY <1>1 DEF TypeOK, NoRequest
    <3>3. pc[answer[r]] # "new"
      BY <3>1, <1>5 DEF ExecutionsAreKept, ExecutedIsKept
    <3>4. ask[answer[r]].key \in Keys
      BY <3>1, <3>3, <1>5, ServedHasAsked
    <3>5. QED
      BY <3>1, <3>2, <3>4, NoneIsNoRequest
  <2>2. QED
    BY <2>1, <1>2, <1>3, <1>4, <1>5 DEF ReplayAnswersTheRequest, FingerprintOf
<1>13. QED
  BY <1>6, <1>7, <1>8, <1>9, <1>10, <1>11, <1>12

\* A claim that is won starts alone.
LEMMA ClaimStep ==
  ASSUME IInv, TypeOK', RowsAreThere', NEW r \in Requests, TryClaim(r), Claimable(ask[r].key)
  PROVE  IInv'
<1> USE DEF IInv
<1> DEFINE k == ask[r].key
           fresh == [print |-> FingerprintOf(r), response |-> None, stale |-> FALSE]
<1>1. pc[r] = "claim" /\ row' = [row EXCEPT ![k] = fresh] /\ UNCHANGED <<ask, answer, executed>>
  BY DEF TryClaim
<1>2. pc'[r] = "run" /\ \A q \in Requests \ {r} : pc'[q] = pc[q]
  BY OthersStay DEF TryClaim
<1>3. k \in Keys
  BY <1>1, ServedHasAsked
<1>4. row'[k] = fresh /\ \A x \in Keys \ {k} : row'[x] = row[x]
  BY <1>1, <1>3 DEF TypeOK
<1>5. /\ \A q \in Requests : ask[q].key = k => ~InFlight(q)
      /\ \A q \in executed : ask[q].key = k => pc[q] = "dead"
  BY <1>3, ClaimableIsAbandoned
<1>6. executed \subseteq Requests /\ r \notin executed
  BY <1>1 DEF TypeOK, ExecutionsAreKept, ExecutedIsKept
<1>7. \A q \in Requests : pc[q] # "new" => ask[q].key \in Keys
  BY ServedHasAsked
<1>8. ClaimsStand'
  BY <1>1, <1>2, <1>4, <1>5, <1>7 DEF ClaimsStand, ClaimStands, InFlight, FingerprintOf
<1>9. ResponsesAreTrue'
  BY <1>1, <1>4 DEF ResponsesAreTrue, ResponseIsTrue, FingerprintOf
<1>10. ExecutionsAreKept'
  BY <1>1, <1>2, <1>4, <1>5, <1>6, <1>7 DEF ExecutionsAreKept, ExecutedIsKept
<1>11. PredecessorsAreDead'
  BY <1>1, <1>2, <1>5, <1>6 DEF PredecessorsAreDead, InFlight
<1>12. OneClaimantAtATime'
  BY <1>1, <1>2, <1>5 DEF OneClaimantAtATime, InFlight
<1>13. RepeatsFollowDeaths'
  BY <1>1, <1>2, <1>6 DEF RepeatsFollowDeaths
<1>14. ReplayAnswersTheRequest'
  BY <1>1 DEF ReplayAnswersTheRequest, FingerprintOf
<1>15. QED
  BY <1>8, <1>9, <1>10, <1>11, <1>12, <1>13, <1>14

\* What is replayed is the response of the row, whose fingerprint was compared.
LEMMA ReadStep ==
  ASSUME IInv, TypeOK', RowsAreThere', NEW r \in Requests, ReadRow(r)
  PROVE  IInv'
<1> USE DEF IInv
<1> DEFINE k == ask[r].key
           stored == row[k].response
<1>1. pc[r] = "read" /\ UNCHANGED <<row, ask, executed>>
  BY DEF ReadRow
<1>2. k \in Keys /\ row[k] # None /\ r \notin executed
  BY <1>1, ServedHasAsked DEF RowsAreThere, ExecutionsAreKept, ExecutedIsKept
<1>3. CASE Conflicts(r) \/ stored = None
  <2>1. Goto(r, "refused") /\ UNCHANGED answer
    BY <1>3 DEF ReadRow
  <2>2. pc'[r] = "refused" /\ \A q \in Requests \ {r} : pc'[q] = pc[q]
    BY <2>1, OthersStay
  <2>3. QED
    BY <1>1, <1>2, <2>1, <2>2, QuietStep
<1>4. CASE ~(Conflicts(r) \/ stored = None)
  <2>1. Goto(r, "answered") /\ answer' = [answer EXCEPT ![r] = stored]
    BY <1>4 DEF ReadRow
  <2>2. pc'[r] = "answered" /\ \A q \in Requests \ {r} : pc'[q] = pc[q]
    BY <2>1, OthersStay
  <2>3. stored \in executed /\ ask[stored].key = k /\ FingerprintOf(stored) = FingerprintOf(r)
    BY <1>2, <1>4 DEF Conflicts, ResponsesAreTrue, ResponseIsTrue
  <2>4. ClaimsStand'
    BY <1>1, <2>2 DEF ClaimsStand, ClaimStands, InFlight, FingerprintOf
  <2>5. ResponsesAreTrue'
    BY <1>1 DEF ResponsesAreTrue, ResponseIsTrue, FingerprintOf
  <2>6. ExecutionsAreKept'
    BY <1>1, <1>2, <2>2 DEF ExecutionsAreKept, ExecutedIsKept
  <2>7. PredecessorsAreDead'
    BY <1>1, <1>2, <2>2 DEF PredecessorsAreDead, InFlight
  <2>8. OneClaimantAtATime'
    BY <1>1, <2>2 DEF OneClaimantAtATime, InFlight
  <2>9. RepeatsFollowDeaths'
    BY <1>1, <1>2, <2>2 DEF RepeatsFollowDeaths, TypeOK
  <2>10. ReplayAnswersTheRequest'
    <3>1. answer'[r] = stored /\ \A q \in Requests \ {r} : answer'[q] = answer[q]
      BY <2>1 DEF TypeOK
    <3>2. QED
      BY <1>1, <2>3, <3>1 DEF ReplayAnswersTheRequest, FingerprintOf
  <2>11. QED
    BY <2>4, <2>5, <2>6, <2>7, <2>8, <2>9, <2>10
<1>5. QED
  BY <1>3, <1>4

\* The handler commits: whoever has committed for the key before it is dead.
LEMMA HandleStep ==
  ASSUME IInv, TypeOK', RowsAreThere', NEW r \in Requests, Handle(r)
  PROVE  IInv'
<1> USE DEF IInv
<1>1. pc[r] = "run" /\ executed' = executed \cup {r} /\ UNCHANGED <<row, ask, answer>>
  BY DEF Handle
<1>2. pc'[r] = "complete" /\ \A q \in Requests \ {r} : pc'[q] = pc[q]
  BY OthersStay DEF Handle
<1>3. InFlight(r) /\ executed \subseteq Requests
  BY <1>1 DEF InFlight, TypeOK
<1>4. ClaimsStand'
  BY <1>1, <1>2, <1>3 DEF ClaimsStand, ClaimStands, InFlight, FingerprintOf
<1>5. ResponsesAreTrue'
  BY <1>1 DEF ResponsesAreTrue, ResponseIsTrue, FingerprintOf
<1>6. ExecutionsAreKept'
  BY <1>1, <1>2 DEF ExecutionsAreKept, ExecutedIsKept
<1>7. PredecessorsAreDead'
  BY <1>1, <1>2, <1>3 DEF PredecessorsAreDead, InFlight, OneClaimantAtATime
<1>8. OneClaimantAtATime'
  BY <1>1, <1>2, <1>3 DEF OneClaimantAtATime, InFlight
<1>9. RepeatsFollowDeaths'
  BY <1>1, <1>2, <1>3 DEF RepeatsFollowDeaths, PredecessorsAreDead
<1>10. ReplayAnswersTheRequest'
  BY <1>1 DEF ReplayAnswersTheRequest, FingerprintOf
<1>11. QED
  BY <1>4, <1>5, <1>6, <1>7, <1>8, <1>9, <1>10

\* The response is stored in the row of the request's own claim.
LEMMA CompleteStep ==
  ASSUME IInv, TypeOK', RowsAreThere', NEW r \in Requests, Complete(r)
  PROVE  IInv'
<1> USE DEF IInv
<1> DEFINE k == ask[r].key
           filled == [row[k] EXCEPT !.response = r]
<1>1. pc[r] = "complete" /\ row' = [row EXCEPT ![k] = filled] /\ UNCHANGED <<ask, executed>>
  BY DEF Complete
<1>2. pc'[r] = "answered" /\ \A q \in Requests \ {r} : pc'[q] = pc[q]
  BY OthersStay DEF Complete
<1>3. answer'[r] = r /\ \A q \in Requests \ {r} : answer'[q] = answer[q]
  BY DEF Complete, TypeOK
<1>4. k \in Keys /\ InFlight(r)
  BY <1>1, ServedHasAsked DEF InFlight
<1>5. row[k] \in Row /\ row[k].print = FingerprintOf(r)
  BY <1>4 DEF ClaimsStand, ClaimStands, RowsAreThere, TypeOK
<1>6. filled.response = r /\ filled.print = FingerprintOf(r) /\ filled.stale = row[k].stale
  BY <1>5 DEF Row
<1>7. row'[k] = filled /\ \A x \in Keys \ {k} : row'[x] = row[x]
  BY <1>1, <1>4 DEF TypeOK
<1>8. filled # None
  <2>1. filled \in Row
    BY <1>5 DEF Row
  <2>2. QED
    BY <2>1, NoneIsNoRow
<1>9. r # None /\ r \in executed
  BY <1>1, NoneIsNoRequest DEF ExecutionsAreKept, ExecutedIsKept
<1>10. \A q \in Requests \ {r} : InFlight(q) => ask[q].key # k
  BY <1>4 DEF OneClaimantAtATime
<1>11. \A q \in Requests : pc[q] # "new" => ask[q].key \in Keys
  BY ServedHasAsked
<1>12. ClaimsStand'
  BY <1>1, <1>2, <1>7, <1>10, <1>11 DEF ClaimsStand, ClaimStands, InFlight, FingerprintOf
<1>13. ResponsesAreTrue'
  BY <1>1, <1>6, <1>7, <1>9 DEF ResponsesAreTrue, ResponseIsTrue, FingerprintOf
<1>14. ExecutionsAreKept'
  <2>1. row'[k] # None /\ row'[k].response # None
    BY <1>6, <1>7, <1>8, <1>9
  <2>2. ASSUME NEW q \in Requests PROVE ExecutedIsKept(q)'
    <3> HIDE DEF filled
    <3>1. CASE q = r
      BY <1>1, <1>2, <2>1, <3>1 DEF ExecutionsAreKept, ExecutedIsKept
    <3>2. CASE q # r /\ ask[q].key = k
      BY <1>1, <1>2, <2>1, <3>2 DEF ExecutionsAreKept, ExecutedIsKept
    <3>3. CASE q # r /\ ask[q].key # k
      BY <1>1, <1>2, <1>7, <1>11, <3>3 DEF ExecutionsAreKept, ExecutedIsKept
    <3>4. QED
      BY <3>1, <3>2, <3>3
  <2>3. QED
    BY <2>2 DEF ExecutionsAreKept
<1>15. PredecessorsAreDead'
  BY <1>1, <1>2, <1>4 DEF PredecessorsAreDead, InFlight, OneClaimantAtATime
<1>16. OneClaimantAtATime'
  BY <1>1, <1>2 DEF OneClaimantAtATime, InFlight
<1>17. RepeatsFollowDeaths'
  BY <1>1, <1>2 DEF RepeatsFollowDeaths, TypeOK
<1>18. ReplayAnswersTheRequest'
  BY <1>1, <1>3, <1>9 DEF ReplayAnswersTheRequest, FingerprintOf
<1>19. QED
  BY <1>12, <1>13, <1>14, <1>15, <1>16, <1>17, <1>18

\* Only the row of a key that nobody executes grows stale.
LEMMA StaleStep ==
  ASSUME HandlersMayStall = FALSE, IInv, TypeOK', RowsAreThere', NEW k \in Keys, GoStale(k)
  PROVE  IInv'
<1> USE DEF IInv
<1> DEFINE aged == [row[k] EXCEPT !.stale = TRUE]
<1>1. row[k] \in Row /\ UNCHANGED <<pc, ask, answer, executed>>
  BY DEF GoStale, TypeOK
<1>2. row'[k] = aged /\ \A x \in Keys \ {k} : row'[x] = row[x]
  BY DEF GoStale, TypeOK
<1>3. aged.response = row[k].response /\ aged.print = row[k].print
  BY <1>1 DEF Row
<1>4. aged # None
  <2>1. aged \in Row
    BY <1>1 DEF Row
  <2>2. QED
    BY <2>1, NoneIsNoRow
<1>5. \A q \in Requests : InFlight(q) => ask[q].key # k
  BY DEF GoStale, Running
<1>6. \A q \in Requests : pc[q] # "new" => ask[q].key \in Keys
  BY ServedHasAsked
<1>7. ClaimsStand'
  BY <1>1, <1>2, <1>5, <1>6 DEF ClaimsStand, ClaimStands, InFlight, FingerprintOf
<1>8. row[k] # None
  BY DEF GoStale
<1> HIDE DEF aged
<1>9. ResponsesAreTrue'
  <2>1. ResponseIsTrue(k)'
    BY <1>1, <1>2, <1>3, <1>8 DEF ResponsesAreTrue, ResponseIsTrue, FingerprintOf
  <2>2. \A x \in Keys \ {k} : ResponseIsTrue(x)'
    BY <1>1, <1>2 DEF ResponsesAreTrue, ResponseIsTrue, FingerprintOf
  <2>3. QED
    BY <2>1, <2>2 DEF ResponsesAreTrue
<1>10. ExecutionsAreKept'
  <2>1. ASSUME NEW q \in Requests, ask[q].key = k PROVE ExecutedIsKept(q)'
    BY <1>1, <1>2, <1>3, <1>4, <2>1 DEF ExecutionsAreKept, ExecutedIsKept
  <2>2. ASSUME NEW q \in Requests, ask[q].key # k PROVE ExecutedIsKept(q)'
    BY <1>1, <1>2, <1>6, <2>2 DEF ExecutionsAreKept, ExecutedIsKept
  <2>3. QED
    BY <2>1, <2>2 DEF ExecutionsAreKept
<1>11. PredecessorsAreDead' /\ OneClaimantAtATime' /\ RepeatsFollowDeaths' /\ ReplayAnswersTheRequest'
  BY <1>1 DEF PredecessorsAreDead, OneClaimantAtATime, RepeatsFollowDeaths,
     ReplayAnswersTheRequest, InFlight, FingerprintOf
<1>12. QED
  BY <1>7, <1>9, <1>10, <1>11

\* Every step of the protocol keeps the invariant.
LEMMA InvariantStep ==
  ASSUME HandlersMayStall = FALSE, IInv, [Next]_vars
  PROVE  IInv'
<1>1. TypeOK' /\ RowsAreThere'
  BY TypeStep DEF IInv
<1>2. ASSUME NEW r \in Requests, Arrive(r) PROVE IInv'
  BY <1>1, <1>2, ArriveStep
<1>3. ASSUME NEW r \in Requests, TryClaim(r) PROVE IInv'
  <2>1. CASE Claimable(ask[r].key)
    BY <1>1, <1>3, <2>1, ClaimStep
  <2>2. CASE ~Claimable(ask[r].key)
    <3>1. pc[r] = "claim" /\ Goto(r, "read") /\ UNCHANGED <<row, ask, answer, executed>>
      BY <1>3, <2>2 DEF TryClaim
    <3>2. r \notin executed
      BY <3>1 DEF IInv, ExecutionsAreKept, ExecutedIsKept
    <3>3. pc'[r] = "read" /\ \A q \in Requests \ {r} : pc'[q] = pc[q]
      BY <3>1, OthersStay DEF IInv
    <3>4. QED
      BY <1>1, <3>1, <3>2, <3>3, QuietStep
  <2>3. QED
    BY <2>1, <2>2
<1>4. ASSUME NEW r \in Requests, ReadRow(r) PROVE IInv'
  BY <1>1, <1>4, ReadStep
<1>5. ASSUME NEW r \in Requests, Handle(r) PROVE IInv'
  BY <1>1, <1>5, HandleStep
<1>6. ASSUME NEW r \in Requests, HandlerThrows(r) PROVE IInv'
  <2>1. pc[r] = "run" /\ Goto(r, "failed") /\ UNCHANGED <<row, ask, answer, executed>>
    BY <1>6 DEF HandlerThrows
  <2>2. r \notin executed
    BY <2>1 DEF IInv, ExecutionsAreKept, ExecutedIsKept
  <2>3. pc'[r] = "failed" /\ \A q \in Requests \ {r} : pc'[q] = pc[q]
    BY <2>1, OthersStay DEF IInv
  <2>4. QED
    BY <1>1, <2>1, <2>2, <2>3, QuietStep
<1>7. ASSUME NEW r \in Requests, Complete(r) PROVE IInv'
  BY <1>1, <1>7, CompleteStep
<1>8. ASSUME NEW r \in Requests, Die(r) PROVE IInv'
  <2>1. Goto(r, "dead") /\ UNCHANGED <<row, ask, answer, executed>>
    BY <1>8 DEF Die
  <2>2. pc'[r] = "dead" /\ \A q \in Requests \ {r} : pc'[q] = pc[q]
    BY <2>1, OthersStay DEF IInv
  <2>3. QED
    BY <1>1, <2>1, <2>2, QuietStep
<1>9. ASSUME NEW k \in Keys, GoStale(k) PROVE IInv'
  BY <1>1, <1>9, StaleStep
<1>10. CASE UNCHANGED vars
  <2>1. UNCHANGED <<row, pc, ask, answer, executed>>
    BY <1>10 DEF vars
  <2>2. QED
    BY <1>1, <2>1 DEF IInv, ClaimsStand, ClaimStands, InFlight, FingerprintOf, ResponsesAreTrue,
       ResponseIsTrue, ExecutionsAreKept, ExecutedIsKept, PredecessorsAreDead, OneClaimantAtATime,
       RepeatsFollowDeaths, ReplayAnswersTheRequest
<1>11. QED
  BY <1>2, <1>3, <1>4, <1>5, <1>6, <1>7, <1>8, <1>9, <1>10 DEF Next

\* The invariant holds in every state the protocol reaches.
LEMMA InvariantHolds == ASSUME HandlersMayStall = FALSE PROVE Spec => []IInv
<1>1. IInv /\ [Next]_vars => IInv'
  BY InvariantStep
<1>2. QED
  BY <1>1, InvariantInit, PTL DEF Spec

\* The double click of a finance officer does not race with itself: as long as no
\* handler outlives STALE_CLAIM_MS, a key has one claimant at a time.
THEOREM ClaimantsAreAlone ==
  ASSUME HandlersMayStall = FALSE PROVE Spec => []OneClaimantAtATime
<1>1. IInv => OneClaimantAtATime
  BY DEF IInv
<1>2. QED
  BY <1>1, InvariantHolds, PTL

\* Whatever dies or is taken over, nobody holds a confirmation of work that was
\* done twice, or a response to something else than what was asked.
THEOREM AnswersAreHeld ==
  ASSUME HandlersMayStall = FALSE PROVE Spec => []AnswersHold
<1>1. IInv => AnswersHold
  BY DEF IInv, AnswersHold
<1>2. QED
  BY <1>1, InvariantHolds, PTL

\* A statement other than a claim, complete() or the passing of time leaves the
\* rows alone; a claim finds no response, complete() finds its own claim open.
LEMMA ResponseStays ==
  ASSUME IInv, Next, NEW k \in Keys, row[k] # None, row[k].response # None
  PROVE  row'[k] # None /\ row'[k].response = row[k].response /\ row'[k].print = row[k].print
<1>1. row[k] \in Row
  BY DEF IInv, TypeOK
<1>2. ASSUME NEW r \in Requests, TryClaim(r), Claimable(ask[r].key) PROVE row'[k] = row[k]
  <2>1. k # ask[r].key
    BY <1>2 DEF Claimable
  <2>2. QED
    BY <1>2, <2>1 DEF TryClaim, IInv, TypeOK
<1>3. ASSUME NEW r \in Requests, Complete(r) PROVE row'[k] = row[k]
  <2>1. k # ask[r].key
    BY <1>3 DEF Complete, InFlight, IInv, ClaimsStand, ClaimStands
  <2>2. QED
    BY <1>3, <2>1 DEF Complete, IInv, TypeOK
<1>4. ASSUME NEW x \in Keys, GoStale(x), x # k PROVE row'[k] = row[k]
  BY <1>4 DEF GoStale, IInv, TypeOK
<1>5. ASSUME GoStale(k)
      PROVE  row'[k] # None /\ row'[k].response = row[k].response /\ row'[k].print = row[k].print
  <2> DEFINE aged == [row[k] EXCEPT !.stale = TRUE]
  <2>1. row'[k] = aged
    BY <1>5 DEF GoStale, IInv, TypeOK
  <2>2. aged \in Row /\ aged.response = row[k].response /\ aged.print = row[k].print
    BY <1>1 DEF Row
  <2>3. QED
    BY <2>1, <2>2, NoneIsNoRow
<1>6. ASSUME NEW r \in Requests,
             Arrive(r) \/ ReadRow(r) \/ Handle(r) \/ HandlerThrows(r) \/ Die(r)
                \/ (TryClaim(r) /\ ~Claimable(ask[r].key))
      PROVE  row' = row
  BY <1>6 DEF Arrive, ReadRow, Handle, HandlerThrows, Die, TryClaim
<1>7. QED
  BY <1>2, <1>3, <1>4, <1>5, <1>6 DEF Next

\* A response, once stored, is never replaced, reset or claimed anew: what the
\* first client was told is what every repeat will be told.
THEOREM ResponsesAreFinal ==
  ASSUME HandlersMayStall = FALSE PROVE Spec => StoredResponseIsFinal
<1> DEFINE Stays == \A k \in Keys : row[k] # None /\ row[k].response # None =>
                      /\ row'[k] # None
                      /\ row'[k].response = row[k].response
                      /\ row'[k].print = row[k].print
<1>1. IInv /\ [Next]_vars => [Stays]_vars
  BY ResponseStays
<1>2. QED
  BY <1>1, InvariantHolds, PTL DEF Spec, StoredResponseIsFinal

-----------------------------------------------------------------------------
(* LockOrder, with whatever invoices and payments and in one year, or with *)
(* one invoice in whatever years.                                          *)

OneYear == \A y, z \in Years : y = z

Locks ==
  {<<"document_sequences", "RECEIPT", y>> : y \in Years}
  \cup {<<"document_sequences", "INVOICE", y>> : y \in Years}
  \cup {<<"advisory", id>> : id \in Payments \cup Bills} \cup {<<"advisory, new", r>> : r \in Requests}
  \cup {<<"invoices", i>> : i \in Bills} \cup {<<"customers">>}

\* What a lock is.
LEMMA LockKinds ==
  ASSUME NEW l \in Locks
  PROVE  \/ \E kind \in {"RECEIPT", "INVOICE"}, y \in Years : l = <<"document_sequences", kind, y>>
         \/ \E id \in Payments \cup Bills : l = <<"advisory", id>>
         \/ \E r \in Requests : l = <<"advisory, new", r>>
         \/ \E i \in Bills : l = <<"invoices", i>>
         \/ l = <<"customers">>
<1>1. CASE l \in {<<"document_sequences", "RECEIPT", y>> : y \in Years}
  BY <1>1
<1>2. CASE l \in {<<"document_sequences", "INVOICE", y>> : y \in Years}
  BY <1>2
<1>3. CASE l \in {<<"advisory", id>> : id \in Payments \cup Bills}
  BY <1>3
<1>4. CASE l \in {<<"advisory, new", r>> : r \in Requests}
  BY <1>4
<1>5. CASE l \in {<<"invoices", i>> : i \in Bills}
  BY <1>5
<1>6. CASE l = <<"customers">>
  BY <1>6
<1>7. QED
  BY <1>1, <1>2, <1>3, <1>4, <1>5, <1>6 DEF Locks

\* The first word of a lock says what it is.
LEMMA LockKindOf ==
  ASSUME NEW l \in Locks
  PROVE  /\ l[1] \in {"document_sequences", "advisory", "advisory, new", "invoices", "customers"}
         /\ l[1] = "document_sequences" =>
              \E kind \in {"RECEIPT", "INVOICE"}, y \in Years : l = <<"document_sequences", kind, y>>
         /\ l[1] = "advisory" => l[2] \in Payments \cup Bills
<1>1. CASE \E kind \in {"RECEIPT", "INVOICE"}, y \in Years : l = <<"document_sequences", kind, y>>
  <2>1. l[1] = "document_sequences"
    BY <1>1
  <2>2. QED
    BY <1>1, <2>1
<1>2. CASE \E id \in Payments \cup Bills : l = <<"advisory", id>>
  <2>1. l[1] = "advisory" /\ l[2] \in Payments \cup Bills
    BY <1>2
  <2>2. QED
    BY <2>1
<1>3. CASE \E r \in Requests : l = <<"advisory, new", r>>
  <2>1. PICK r \in Requests : l = <<"advisory, new", r>>
    BY <1>3
  <2>2. QED
    BY <2>1
<1>4. CASE \E i \in Bills : l = <<"invoices", i>>
  <2>1. l[1] = "invoices"
    BY <1>4
  <2>2. QED
    BY <2>1
<1>5. CASE l = <<"customers">>
  <2>1. l[1] = "customers"
    BY <1>5
  <2>2. QED
    BY <2>1
<1>6. QED
  BY <1>1, <1>2, <1>3, <1>4, <1>5, LockKinds

\* The sequence row is the first lock of a program, the customer the last.
SequenceFirst(program) ==
  \A n \in 1..Len(program) : program[n][1] = "document_sequences" => n = 1

CustomerLast(program) ==
  \A n \in 1..Len(program) : program[n][1] = "customers" => n = Len(program)

NewIsOwn(program, t) ==
  \A n \in 1..Len(program) : program[n][1] = "advisory, new" => program[n][2] = t

\* An invoice row is taken under the advisory lock of its invoice.
RowsUnderInvoices(program) ==
  \A n \in 1..Len(program) : program[n][1] = "invoices" =>
    \E m \in 1..(n - 1) : program[m] = <<"advisory", program[n][2]>>

\* The lock of a payment is taken under nothing but a sequence row.
PaymentsEarly(program) ==
  \A n \in 1..Len(program) : program[n][1] = "advisory" /\ program[n][2] \in Payments =>
    \A m \in 1..(n - 1) : program[m][1] = "document_sequences"

\* A new invoice takes the customer next.
InvoicesTakeCustomers(program) ==
  \A n \in 2..Len(program) :
    program[1][1] = "document_sequences" /\ program[1][2] = "INVOICE" => program[n][1] = "customers"

ReceiptOfTheYear(program) ==
  OneYear /\ program[1][1] = "document_sequences" /\ program[1][2] = "RECEIPT"

\* Once an invoice is locked only rows follow, but for the receipts of one year.
RowsAfterInvoices(program) ==
  \A n \in 1..Len(program) : \A m \in 1..(n - 1) :
    program[m][1] = "advisory" /\ program[m][2] \in Bills =>
      program[n][1] \in {"invoices", "customers"} \/ ReceiptOfTheYear(program)

WellOrdered(program, t) ==
  /\ SequenceFirst(program) /\ CustomerLast(program) /\ NewIsOwn(program, t)
  /\ RowsUnderInvoices(program) /\ PaymentsEarly(program)
  /\ InvoicesTakeCustomers(program) /\ RowsAfterInvoices(program)

\* A request has taken the first locks of its program and has the others to take.
Under(t, program, taken) ==
  /\ taken \in 0..Len(program)
  /\ Len(todo[t]) = Len(program) - taken
  /\ \A n \in 1..Len(todo[t]) : todo[t][n] = program[taken + n]
  /\ locks[t] = {program[m] : m \in 1..taken}

Follows(t) ==
  \E program \in Seq(Locks), taken \in Nat : WellOrdered(program, t) /\ Under(t, program, taken)

LockInv ==
  /\ year \in Years
  /\ todo \in [Requests -> Seq(Locks)] /\ locks \in [Requests -> SUBSET Locks]
  /\ \A t, u \in Requests : \A l \in locks[t] \cap locks[u] : t = u
  /\ \A t \in Requests : Follows(t)

\* What is known of a request that has a lock to take next.
LEMMA Waiting ==
  ASSUME LockInv, NEW t \in Requests, todo[t] # <<>>
  PROVE  LET h == Head(todo[t]) IN
         /\ h \in Locks
         /\ h[1] = "document_sequences" => locks[t] = {}
         /\ \A l \in locks[t] : l[1] # "customers"
         /\ \A l \in locks[t] \cup {h} : l[1] = "advisory, new" => l[2] = t
         /\ \A l \in locks[t] \cup {h} : l[1] = "invoices" => <<"advisory", l[2]>> \in locks[t]
         /\ h[1] = "advisory" /\ h[2] \in Payments =>
              \A l \in locks[t] : l[1] = "document_sequences"
         /\ \A l \in locks[t] : l[1] = "document_sequences" /\ l[2] = "INVOICE" => h[1] = "customers"
         /\ \A l \in locks[t] : l[1] = "advisory" /\ l[2] \in Bills =>
              \/ h[1] \in {"invoices", "customers"}
              \/ OneYear /\ \E k \in locks[t] : k[1] = "document_sequences" /\ k[2] = "RECEIPT"
<1>1. PICK program \in Seq(Locks), taken \in Nat : WellOrdered(program, t) /\ Under(t, program, taken)
  BY DEF LockInv, Follows
<1> DEFINE h == Head(todo[t])
           next == taken + 1
<1>2. todo[t] \in Seq(Locks)
  BY DEF LockInv
<1>3. h = todo[t][1] /\ Len(todo[t]) \in Nat /\ Len(todo[t]) >= 1
  BY <1>2
<1>4. h = program[next] /\ next \in 1..Len(program) /\ Len(program) \in Nat
  BY <1>1, <1>3 DEF Under
<1>5. locks[t] = {program[m] : m \in 1..taken}
  BY <1>1 DEF Under
<1>6. h \in Locks
  BY <1>4
<1>7. \A m \in 1..taken : m \in 1..Len(program) /\ m < next /\ m \in 1..(next - 1)
  BY <1>4
<1> HIDE DEF h
<1>8. /\ h[1] = "document_sequences" => locks[t] = {}
      /\ \A l \in locks[t] : l[1] # "customers"
  <2>1. h[1] = "document_sequences" => taken = 0
    BY <1>1, <1>4 DEF WellOrdered, SequenceFirst
  <2>2. \A m \in 1..taken : program[m][1] # "customers"
    BY <1>1, <1>4, <1>7 DEF WellOrdered, CustomerLast
  <2>3. QED
    BY <1>5, <2>1, <2>2
<1>9. \A l \in locks[t] \cup {h} : l[1] = "advisory, new" => l[2] = t
  BY <1>1, <1>4, <1>5, <1>7 DEF WellOrdered, NewIsOwn
<1>10. \A l \in locks[t] \cup {h} : l[1] = "invoices" => <<"advisory", l[2]>> \in locks[t]
  <2>1. ASSUME NEW n \in 1..next, program[n][1] = "invoices"
        PROVE  <<"advisory", program[n][2]>> \in locks[t]
    <3>0. n \in 1..Len(program) /\ RowsUnderInvoices(program)
      BY <1>1, <1>4 DEF WellOrdered
    <3>1. PICK m \in 1..(n - 1) : program[m] = <<"advisory", program[n][2]>>
      BY <2>1, <3>0 DEF RowsUnderInvoices
    <3>2. m \in 1..taken
      BY <1>4, <3>1
    <3>3. QED
      BY <1>5, <3>1, <3>2
  <2>2. \A l \in locks[t] \cup {h} : \E n \in 1..next : l = program[n]
    BY <1>4, <1>5
  <2>3. QED
    BY <2>1, <2>2
<1>11. h[1] = "advisory" /\ h[2] \in Payments => \A l \in locks[t] : l[1] = "document_sequences"
  BY <1>1, <1>4, <1>5, <1>7 DEF WellOrdered, PaymentsEarly
<1>12. \A l \in locks[t] : l[1] = "document_sequences" /\ l[2] = "INVOICE" => h[1] = "customers"
  <2>1. ASSUME NEW m \in 1..taken, program[m][1] = "document_sequences", program[m][2] = "INVOICE"
        PROVE  h[1] = "customers"
    <3>1. m = 1 /\ next \in 2..Len(program)
      BY <1>1, <1>4, <1>7, <2>1 DEF WellOrdered, SequenceFirst
    <3>2. QED
      BY <1>1, <1>4, <2>1, <3>1 DEF WellOrdered, InvoicesTakeCustomers
  <2>2. QED
    BY <1>5, <2>1
<1>13. \A l \in locks[t] : l[1] = "advisory" /\ l[2] \in Bills =>
         \/ h[1] \in {"invoices", "customers"}
         \/ OneYear /\ \E k \in locks[t] : k[1] = "document_sequences" /\ k[2] = "RECEIPT"
  <2>1. ASSUME NEW m \in 1..taken, program[m][1] = "advisory", program[m][2] \in Bills
        PROVE  \/ h[1] \in {"invoices", "customers"}
               \/ OneYear /\ program[1][1] = "document_sequences" /\ program[1][2] = "RECEIPT"
    BY <1>1, <1>4, <1>7, <2>1 DEF WellOrdered, RowsAfterInvoices, ReceiptOfTheYear
  <2>2. ASSUME NEW m \in 1..taken PROVE program[1] \in locks[t]
    BY <1>5, <2>2
  <2>3. QED
    BY <1>5, <2>1, <2>2
<1>14. QED
  BY <1>6, <1>8, <1>9, <1>10, <1>11, <1>12, <1>13 DEF h

\* Nobody waits for the customer or an invoice row for ever; so nobody does for an
\* invoice, unless the receipts of one year did for one another; so nobody does for
\* a payment; so nobody does for a sequence row.
LEMMA NoCircle == ASSUME LockInv, LockOrderParameters PROVE L!NeverDeadlock
<1> SUFFICES ASSUME NEW S \in SUBSET Requests, S # {},
                    \A t \in S : \E u \in S : L!WaitsFor(t, u)
             PROVE  FALSE
  BY DEF L!NeverDeadlock
<1> DEFINE h(t) == Head(todo[t])
<1>1. \A t \in S : /\ todo[t] # <<>> /\ t \in Requests
                   /\ \E u \in S : u # t /\ h(t) \in locks[u]
  BY DEF L!WaitsFor
<1>2. \A t \in S :
        /\ h(t) \in Locks
        /\ h(t)[1] = "document_sequences" => locks[t] = {}
        /\ \A l \in locks[t] : l[1] # "customers"
        /\ \A l \in locks[t] \cup {h(t)} : l[1] = "advisory, new" => l[2] = t
        /\ \A l \in locks[t] \cup {h(t)} : l[1] = "invoices" => <<"advisory", l[2]>> \in locks[t]
        /\ h(t)[1] = "advisory" /\ h(t)[2] \in Payments =>
             \A l \in locks[t] : l[1] = "document_sequences"
        /\ \A l \in locks[t] : l[1] = "document_sequences" /\ l[2] = "INVOICE" => h(t)[1] = "customers"
        /\ \A l \in locks[t] : l[1] = "advisory" /\ l[2] \in Bills =>
             \/ h(t)[1] \in {"invoices", "customers"}
             \/ OneYear /\ \E k \in locks[t] : k[1] = "document_sequences" /\ k[2] = "RECEIPT"
  BY <1>1, Waiting
<1>3. \A t, u \in S : \A l \in locks[t] \cap locks[u] : t = u
  BY <1>1 DEF LockInv
<1> HIDE DEF h
<1>4. \A t \in S : h(t)[1] # "customers"
  BY <1>1, <1>2
<1>5. \A t \in S : h(t)[1] # "invoices"
  <2>1. ASSUME NEW t \in S, h(t)[1] = "invoices" PROVE FALSE
    <3>1. PICK u \in S : u # t /\ h(t) \in locks[u]
      BY <1>1
    <3>2. <<"advisory", h(t)[2]>> \in locks[t] /\ <<"advisory", h(t)[2]>> \in locks[u]
      BY <1>2, <2>1, <3>1
    <3>3. QED
      BY <1>3, <3>1, <3>2
  <2>2. QED
    BY <2>1
<1>6. \A t \in S : h(t)[1] # "advisory, new"
  <2>1. ASSUME NEW t \in S, h(t)[1] = "advisory, new" PROVE FALSE
    <3>1. PICK u \in S : u # t /\ h(t) \in locks[u]
      BY <1>1
    <3>2. h(t)[2] = t /\ h(t)[2] = u
      BY <1>2, <2>1, <3>1
    <3>3. QED
      BY <3>1, <3>2
  <2>2. QED
    BY <2>1
<1>7. \A t \in S : h(t)[1] = "document_sequences" => h(t)[2] # "INVOICE"
  BY <1>1, <1>2, <1>4
<1>8. \A t \in S : \/ h(t)[1] = "document_sequences" /\ h(t)[2] = "RECEIPT" /\ h(t)[3] \in Years
                   \/ h(t)[1] = "advisory" /\ h(t)[2] \in Payments \cup Bills
  <2>1. ASSUME NEW t \in S
        PROVE  \/ h(t)[1] = "document_sequences" /\ h(t)[2] = "RECEIPT" /\ h(t)[3] \in Years
               \/ h(t)[1] = "advisory" /\ h(t)[2] \in Payments \cup Bills
    <3>1. h(t) \in Locks
      BY <1>2
    <3>2. /\ h(t)[1] \notin {"customers", "invoices", "advisory, new"}
          /\ h(t)[1] = "document_sequences" => h(t)[2] # "INVOICE"
      BY <1>4, <1>5, <1>6, <1>7
    <3>3. CASE h(t)[1] = "document_sequences"
      <4>1. PICK kind \in {"RECEIPT", "INVOICE"}, y \in Years : h(t) = <<"document_sequences", kind, y>>
        BY <3>1, <3>3, LockKindOf
      <4>2. h(t)[2] = kind /\ h(t)[3] = y
        BY <4>1
      <4>3. QED
        BY <3>2, <3>3, <4>2
    <3>4. QED
      BY <3>1, <3>2, <3>3, LockKindOf
  <2>2. QED
    BY <2>1
<1>9. ASSUME NEW t \in S, h(t)[1] = "advisory", h(t)[2] \in Bills PROVE FALSE
  <2>1. ASSUME NEW s \in S, h(s)[1] = "advisory", h(s)[2] \in Bills
        PROVE  \E u \in S : /\ u # s /\ h(s) \in locks[u] /\ OneYear
                            /\ \E k \in locks[u] : k[1] = "document_sequences" /\ k[2] = "RECEIPT"
    <3>1. PICK u \in S : u # s /\ h(s) \in locks[u]
      BY <1>1
    <3>2. \/ h(u)[1] \in {"invoices", "customers"}
          \/ OneYear /\ \E k \in locks[u] : k[1] = "document_sequences" /\ k[2] = "RECEIPT"
      BY <1>2, <2>1, <3>1
    <3>3. QED
      BY <1>4, <1>5, <3>1, <3>2
  <2>2. PICK u \in S : /\ u # t /\ h(t) \in locks[u] /\ OneYear
                       /\ \E k \in locks[u] : k[1] = "document_sequences" /\ k[2] = "RECEIPT"
    BY <1>9, <2>1
  <2>3. h(u)[1] # "document_sequences"
    BY <1>2, <2>2
  <2>4. ~(h(u)[1] = "advisory" /\ h(u)[2] \in Payments)
    BY <1>2, <1>9, <2>2
  <2>5. h(u)[1] = "advisory" /\ h(u)[2] \in Bills
    BY <1>8, <2>3, <2>4
  <2>6. PICK v \in S : /\ v # u
                       /\ \E k \in locks[v] : k[1] = "document_sequences" /\ k[2] = "RECEIPT"
    BY <2>1, <2>5
  <2>7. PICK k \in locks[u] : k[1] = "document_sequences" /\ k[2] = "RECEIPT"
    BY <2>2
  <2>8. PICK l \in locks[v] : l[1] = "document_sequences" /\ l[2] = "RECEIPT"
    BY <2>6
  <2>9. k \in Locks /\ l \in Locks
    BY <1>1 DEF LockInv
  <2>10. k = l
    <3>1. PICK a \in {"RECEIPT", "INVOICE"}, y \in Years : k = <<"document_sequences", a, y>>
      BY <2>7, <2>9, LockKindOf
    <3>2. PICK b \in {"RECEIPT", "INVOICE"}, z \in Years : l = <<"document_sequences", b, z>>
      BY <2>8, <2>9, LockKindOf
    <3>3. a = "RECEIPT" /\ b = "RECEIPT" /\ y = z
      BY <2>2, <2>7, <2>8, <3>1, <3>2 DEF OneYear
    <3>4. QED
      BY <3>1, <3>2, <3>3
  <2>11. QED
    BY <1>3, <2>6, <2>10
<1>10. ASSUME NEW t \in S, h(t)[1] = "advisory", h(t)[2] \in Payments PROVE FALSE
  <2>1. PICK u \in S : u # t /\ h(t) \in locks[u]
    BY <1>1
  <2>2. h(u)[1] # "document_sequences"
    BY <1>2, <2>1
  <2>3. ~(h(u)[1] = "advisory" /\ h(u)[2] \in Payments)
    BY <1>2, <1>10, <2>1
  <2>4. QED
    BY <1>8, <1>9, <2>2, <2>3
<1>11. \A t \in S : h(t)[1] = "document_sequences"
  BY <1>8, <1>9, <1>10
<1>12. QED
  BY <1>1, <1>2, <1>11

IdsApart == Payments \cap Bills = {} /\ Fresh \notin Payments \cup Bills

\* recordWithholding, voidInvoice; a new invoice; the customer alone; an allocation.
LEMMA ShortOnes ==
  ASSUME IdsApart, NEW t \in Requests, NEW run,
         \/ /\ Len(run) = 1 /\ run[1] = <<"customers">>
         \/ /\ Len(run) = 2 /\ run[1][1] = "document_sequences" /\ run[2] = <<"customers">>
         \/ /\ Len(run) = 3
            /\ \E i \in Bills : run[1] = <<"advisory", i>> /\ run[2] = <<"invoices", i>>
            /\ run[3] = <<"customers">>
         \/ /\ Len(run) = 4
            /\ \E p \in Payments, i \in Bills :
                 run[1] = <<"advisory", p>> /\ run[2] = <<"advisory", i>> /\ run[3] = <<"invoices", i>>
            /\ run[4] = <<"customers">>
  PROVE  WellOrdered(run, t)
<1>1. CASE Len(run) = 1 /\ run[1] = <<"customers">>
  <2>1. run[1][1] = "customers"
    BY <1>1
  <2>2. /\ \A n \in 1..Len(run) : n = 1
        /\ \A n \in 2..Len(run) : FALSE
        /\ \A n \in 1..Len(run) : \A m \in 1..(n - 1) : FALSE
    BY <1>1
  <2>3. QED
    BY <1>1, <2>1, <2>2 DEF WellOrdered, SequenceFirst, CustomerLast, NewIsOwn, RowsUnderInvoices,
       PaymentsEarly, InvoicesTakeCustomers, RowsAfterInvoices
<1>2. CASE Len(run) = 2 /\ run[1][1] = "document_sequences" /\ run[2] = <<"customers">>
  <2>1. run[1][1] = "document_sequences" /\ run[2][1] = "customers"
    BY <1>2
  <2>2. /\ \A n \in 1..Len(run) : n = 1 \/ n = 2
        /\ \A n \in 2..Len(run) : n = 2
        /\ \A n \in 1..Len(run) : \A m \in 1..(n - 1) : n = 2 /\ m = 1
    BY <1>2
  <2>3. QED
    BY <1>2, <2>1, <2>2 DEF WellOrdered, SequenceFirst, CustomerLast, NewIsOwn, RowsUnderInvoices,
       PaymentsEarly, InvoicesTakeCustomers, RowsAfterInvoices
<1>3. CASE /\ Len(run) = 3
           /\ \E i \in Bills : run[1] = <<"advisory", i>> /\ run[2] = <<"invoices", i>>
           /\ run[3] = <<"customers">>
  <2>1. PICK i \in Bills : run[1] = <<"advisory", i>> /\ run[2] = <<"invoices", i>>
    BY <1>3
  <2>2. /\ run[1][1] = "advisory" /\ run[1][2] = i /\ run[2][1] = "invoices" /\ run[2][2] = i
        /\ run[3][1] = "customers" /\ i \notin Payments
    BY <1>3, <2>1 DEF IdsApart
  <2>3. /\ \A n \in 1..Len(run) : n = 1 \/ n = 2 \/ n = 3
        /\ \A n \in 1..Len(run) : \A m \in 1..(n - 1) : (m = 1 \/ m = 2) /\ (n = 2 \/ n = 3)
        /\ 1 \in 1..(2 - 1)
    BY <1>3
  <2>4. SequenceFirst(run) /\ CustomerLast(run) /\ NewIsOwn(run, t) /\ InvoicesTakeCustomers(run)
    BY <1>3, <2>2, <2>3 DEF SequenceFirst, CustomerLast, NewIsOwn, InvoicesTakeCustomers
  <2>5. RowsUnderInvoices(run)
    BY <2>1, <2>2, <2>3 DEF RowsUnderInvoices
  <2>6. PaymentsEarly(run) /\ RowsAfterInvoices(run)
    BY <2>2, <2>3 DEF PaymentsEarly, RowsAfterInvoices
  <2>7. QED
    BY <2>4, <2>5, <2>6 DEF WellOrdered
<1>4. CASE /\ Len(run) = 4
           /\ \E p \in Payments, i \in Bills :
                run[1] = <<"advisory", p>> /\ run[2] = <<"advisory", i>> /\ run[3] = <<"invoices", i>>
           /\ run[4] = <<"customers">>
  <2>1. PICK p \in Payments, i \in Bills :
          run[1] = <<"advisory", p>> /\ run[2] = <<"advisory", i>> /\ run[3] = <<"invoices", i>>
    BY <1>4
  <2>2. /\ run[1][1] = "advisory" /\ run[1][2] = p /\ run[2][1] = "advisory" /\ run[2][2] = i
        /\ run[3][1] = "invoices" /\ run[3][2] = i /\ run[4][1] = "customers"
        /\ i \notin Payments /\ p \notin Bills
    BY <1>4, <2>1 DEF IdsApart
  <2>3. /\ \A n \in 1..Len(run) : n = 1 \/ n = 2 \/ n = 3 \/ n = 4
        /\ \A n \in 1..Len(run) : \A m \in 1..(n - 1) :
             (m = 1 \/ m = 2 \/ m = 3) /\ (n = 2 \/ n = 3 \/ n = 4) /\ m < n
        /\ 2 \in 1..(3 - 1)
        /\ \A m \in 1..(1 - 1) : FALSE
    BY <1>4
  <2>4. SequenceFirst(run) /\ CustomerLast(run) /\ NewIsOwn(run, t) /\ InvoicesTakeCustomers(run)
    BY <1>4, <2>2, <2>3 DEF SequenceFirst, CustomerLast, NewIsOwn, InvoicesTakeCustomers
  <2>5. RowsUnderInvoices(run)
    BY <2>1, <2>2, <2>3 DEF RowsUnderInvoices
  <2>6. PaymentsEarly(run)
    BY <2>2, <2>3 DEF PaymentsEarly
  <2>7. RowsAfterInvoices(run)
    BY <2>2, <2>3 DEF RowsAfterInvoices
  <2>8. QED
    BY <2>4, <2>5, <2>6, <2>7 DEF WellOrdered
<1>5. QED
  BY <1>1, <1>2, <1>3, <1>4

\* The two places of a pair.
LEMMA Pairs == ASSUME NEW r, NEW a, NEW b, r = <<a, b>> PROVE r[1] = a /\ r[2] = b
  OBVIOUS

\* Where a lock of a receipt is.
LEMMA Thirds ==
  ASSUME NEW size \in Nat, NEW k \in 1..(3 * size + 2)
  PROVE  \/ k = 1
         \/ k = 3 * size + 2
         \/ \E n \in 1..size : k = 3 * n - 1
         \/ \E n \in 1..size : k = 3 * n
         \/ \E n \in 1..size : k = 3 * n + 1
<1>1. PICK q \in Nat : k = 3 * q \/ k = 3 * q + 1 \/ k = 3 * q + 2
  <2>1. k \div 3 \in Nat /\ (k = 3 * (k \div 3) \/ k = 3 * (k \div 3) + 1 \/ k = 3 * (k \div 3) + 2)
    OBVIOUS
  <2>2. QED
    BY <2>1
<1>2. CASE k = 3 * q
  <2>1. q \in 1..size
    BY <1>1, <1>2
  <2>2. QED
    BY <1>2, <2>1
<1>3. CASE k = 3 * q + 1
  <2>1. q = 0 \/ q \in 1..size
    BY <1>1, <1>3
  <2>2. QED
    BY <1>3, <2>1
<1>4. CASE k = 3 * q + 2
  <2>1. q = size \/ q + 1 \in 1..size
    BY <1>1, <1>4
  <2>2. k = 3 * (q + 1) - 1
    BY <1>1, <1>4
  <2>3. QED
    BY <1>4, <2>1, <2>2
<1>5. QED
  BY <1>1, <1>2, <1>3, <1>4

\* A receipt: the payment is nobody else's, the invoices are in any order.
IsReceipt(run, t, y, size, list) ==
  /\ size \in Nat /\ list \in [1..size -> Bills] /\ Len(run) = 3 * size + 2
  /\ run[1] = <<"document_sequences", "RECEIPT", y>>
  /\ \A n \in 1..size : /\ run[3 * n - 1] = <<"advisory, new", t>>
                        /\ run[3 * n] = <<"advisory", list[n]>>
                        /\ run[3 * n + 1] = <<"invoices", list[n]>>
  /\ run[3 * size + 2] = <<"customers">>

\* Such a list of locks is ordered.
LEMMA Receipts ==
  ASSUME IdsApart, NEW t \in Requests, NEW run, NEW y \in Years, NEW size, NEW list,
         IsReceipt(run, t, y, size, list), OneYear \/ size \in {0, 1}
  PROVE  WellOrdered(run, t)
<1>1. size \in Nat /\ Len(run) = 3 * size + 2
  BY DEF IsReceipt
<1>2. run[1][1] = "document_sequences" /\ run[1][2] = "RECEIPT"
  <2>1. run[1] = <<"document_sequences", "RECEIPT", y>>
    BY DEF IsReceipt
  <2>2. QED
    BY <2>1
<1>3. run[3 * size + 2][1] = "customers"
  <2>1. run[3 * size + 2] = <<"customers">>
    BY DEF IsReceipt
  <2>2. QED
    BY <2>1
<1>4. \A n \in 1..size : run[3 * n - 1][1] = "advisory, new" /\ run[3 * n - 1][2] = t
  <2>1. ASSUME NEW n \in 1..size PROVE run[3 * n - 1][1] = "advisory, new" /\ run[3 * n - 1][2] = t
    <3>1. run[3 * n - 1] = <<"advisory, new", t>>
      BY DEF IsReceipt
    <3>2. QED
      BY <3>1, Pairs
  <2>2. QED
    BY <2>1
<1>5. \A n \in 1..size : run[3 * n][1] = "advisory" /\ run[3 * n][2] = list[n]
  <2>1. ASSUME NEW n \in 1..size PROVE run[3 * n][1] = "advisory" /\ run[3 * n][2] = list[n]
    <3>1. run[3 * n] = <<"advisory", list[n]>>
      BY DEF IsReceipt
    <3>2. QED
      BY <3>1, Pairs
  <2>2. QED
    BY <2>1
<1>6. \A n \in 1..size : run[3 * n + 1][1] = "invoices" /\ run[3 * n + 1][2] = list[n]
  <2>1. ASSUME NEW n \in 1..size PROVE run[3 * n + 1][1] = "invoices" /\ run[3 * n + 1][2] = list[n]
    <3>1. run[3 * n + 1] = <<"invoices", list[n]>>
      BY DEF IsReceipt
    <3>2. QED
      BY <3>1, Pairs
  <2>2. QED
    BY <2>1
<1>7. ASSUME NEW k \in 1..Len(run)
      PROVE  \/ k = 1 /\ run[k][1] = "document_sequences"
             \/ k = Len(run) /\ run[k][1] = "customers"
             \/ run[k][1] = "advisory, new" /\ run[k][2] = t
             \/ \E n \in 1..size : k = 3 * n /\ run[k][1] = "advisory" /\ run[k][2] = list[n]
             \/ \E n \in 1..size : k = 3 * n + 1 /\ run[k][1] = "invoices" /\ run[k][2] = list[n]
  <2>1. k \in 1..(3 * size + 2)
    BY <1>1
  <2>2. \/ k = 1
        \/ k = 3 * size + 2
        \/ \E n \in 1..size : k = 3 * n - 1
        \/ \E n \in 1..size : k = 3 * n
        \/ \E n \in 1..size : k = 3 * n + 1
    BY <1>1, <2>1, Thirds
  <2>3. CASE k = 1
    BY <1>2, <2>3
  <2>4. CASE k = 3 * size + 2
    BY <1>1, <1>3, <2>4
  <2>5. CASE \E n \in 1..size : k = 3 * n - 1
    BY <1>4, <2>5
  <2>6. CASE \E n \in 1..size : k = 3 * n
    BY <1>5, <2>6
  <2>7. CASE \E n \in 1..size : k = 3 * n + 1
    BY <1>6, <2>7
  <2>8. QED
    BY <2>2, <2>3, <2>4, <2>5, <2>6, <2>7
<1>8. \A n \in 1..size : list[n] \in Bills /\ list[n] \notin Payments
  BY DEF IdsApart, IsReceipt
<1>9. SequenceFirst(run)
  BY <1>7 DEF SequenceFirst
<1>10. CustomerLast(run)
  BY <1>7 DEF CustomerLast
<1>11. NewIsOwn(run, t)
  BY <1>7 DEF NewIsOwn
<1>12. InvoicesTakeCustomers(run)
  BY <1>2 DEF InvoicesTakeCustomers
<1>13. RowsUnderInvoices(run)
  <2> SUFFICES ASSUME NEW k \in 1..Len(run), run[k][1] = "invoices"
               PROVE  \E m \in 1..(k - 1) : run[m] = <<"advisory", run[k][2]>>
    BY DEF RowsUnderInvoices
  <2>1. PICK n \in 1..size : k = 3 * n + 1 /\ run[k][2] = list[n]
    BY <1>7
  <2>2. 3 * n \in 1..(k - 1)
    BY <1>1, <2>1
  <2>3. run[3 * n] = <<"advisory", run[k][2]>>
    BY <2>1 DEF IsReceipt
  <2>4. QED
    BY <2>2, <2>3
<1>14. PaymentsEarly(run)
  <2> SUFFICES ASSUME NEW k \in 1..Len(run), run[k][1] = "advisory", run[k][2] \in Payments
               PROVE  FALSE
    BY DEF PaymentsEarly
  <2>1. QED
    BY <1>7, <1>8
<1>15. RowsAfterInvoices(run)
  <2>1. CASE OneYear
    BY <1>2, <2>1 DEF RowsAfterInvoices, ReceiptOfTheYear
  <2>2. CASE size \in {0, 1}
    <3>1. ASSUME NEW k \in 1..Len(run), NEW m \in 1..(k - 1), run[m][1] = "advisory"
          PROVE  run[k][1] \in {"invoices", "customers"}
      <4>1. m \in 1..Len(run)
        BY <1>1, <3>1
      <4>2. PICK n \in 1..size : m = 3 * n
        BY <1>7, <3>1, <4>1
      <4>3. m = 3 /\ size = 1 /\ 1 \in 1..size
        BY <2>2, <4>2
      <4>4. k = 4 \/ k = 5
        BY <1>1, <3>1, <4>3
      <4>5. 3 * 1 + 1 = 4 /\ 3 * 1 + 2 = 5
        OBVIOUS
      <4>6. run[4][1] = "invoices" /\ run[5][1] = "customers"
        BY <1>3, <1>6, <4>3, <4>5
      <4>7. QED
        BY <4>4, <4>6
    <3>2. QED
      BY <3>1 DEF RowsAfterInvoices
  <2>3. QED
    BY <2>1, <2>2
<1>16. QED
  BY <1>9, <1>10, <1>11, <1>12, <1>13, <1>14, <1>15 DEF WellOrdered

\* Where a lock of a reversal is.
LEMMA Halves ==
  ASSUME NEW size \in Nat, NEW k \in 1..(2 * size + 3)
  PROVE  \/ k = 1 \/ k = 2 \/ k = 2 * size + 3
         \/ \E n \in 1..size : k = n + 2
         \/ \E n \in 1..size : k = size + n + 2
<1>1. \/ k = 1 \/ k = 2 \/ k = 2 * size + 3
      \/ k - 2 \in 1..size /\ k = (k - 2) + 2
      \/ k - 2 - size \in 1..size /\ k = size + (k - 2 - size) + 2
  OBVIOUS
<1>2. QED
  BY <1>1

\* A reversal: the payment, its invoices, and then their rows.
IsReversal(run, p, y, size, list) ==
  /\ size \in Nat /\ list \in [1..size -> Bills] /\ Len(run) = 2 * size + 3
  /\ run[1] = <<"document_sequences", "RECEIPT", y>> /\ run[2] = <<"advisory", p>>
  /\ \A n \in 1..size : /\ run[n + 2] = <<"advisory", list[n]>>
                        /\ run[size + n + 2] = <<"invoices", list[n]>>
  /\ run[2 * size + 3] = <<"customers">>

\* Such a list of locks is ordered.
LEMMA Reversals ==
  ASSUME IdsApart, NEW t \in Requests, NEW run, NEW y \in Years, NEW p \in Payments, NEW size, NEW list,
         IsReversal(run, p, y, size, list), OneYear \/ size \in {0, 1}
  PROVE  WellOrdered(run, t)
<1>1. size \in Nat /\ Len(run) = 2 * size + 3
  BY DEF IsReversal
<1>2. run[1][1] = "document_sequences" /\ run[1][2] = "RECEIPT"
  <2>1. run[1] = <<"document_sequences", "RECEIPT", y>>
    BY DEF IsReversal
  <2>2. QED
    BY <2>1
<1>3. run[2 * size + 3][1] = "customers"
  <2>1. run[2 * size + 3] = <<"customers">>
    BY DEF IsReversal
  <2>2. QED
    BY <2>1
<1>4. run[2][1] = "advisory" /\ run[2][2] = p
  <2>1. run[2] = <<"advisory", p>>
    BY DEF IsReversal
  <2>2. QED
    BY <2>1
<1>5. \A n \in 1..size : run[n + 2][1] = "advisory" /\ run[n + 2][2] = list[n]
  <2>1. ASSUME NEW n \in 1..size PROVE run[n + 2][1] = "advisory" /\ run[n + 2][2] = list[n]
    <3>1. run[n + 2] = <<"advisory", list[n]>>
      BY DEF IsReversal
    <3>2. QED
      BY <3>1, Pairs
  <2>2. QED
    BY <2>1
<1>6. \A n \in 1..size : run[size + n + 2][1] = "invoices" /\ run[size + n + 2][2] = list[n]
  <2>1. ASSUME NEW n \in 1..size PROVE run[size + n + 2][1] = "invoices" /\ run[size + n + 2][2] = list[n]
    <3>1. run[size + n + 2] = <<"invoices", list[n]>>
      BY DEF IsReversal
    <3>2. QED
      BY <3>1, Pairs
  <2>2. QED
    BY <2>1
<1>7. ASSUME NEW k \in 1..Len(run)
      PROVE  \/ k = 1 /\ run[k][1] = "document_sequences"
             \/ k = 2 /\ run[k][1] = "advisory" /\ run[k][2] = p
             \/ k = Len(run) /\ run[k][1] = "customers"
             \/ \E n \in 1..size : k = n + 2 /\ run[k][1] = "advisory" /\ run[k][2] = list[n]
             \/ \E n \in 1..size : k = size + n + 2 /\ run[k][1] = "invoices" /\ run[k][2] = list[n]
  <2>1. k \in 1..(2 * size + 3)
    BY <1>1
  <2>2. \/ k = 1 \/ k = 2 \/ k = 2 * size + 3
        \/ \E n \in 1..size : k = n + 2
        \/ \E n \in 1..size : k = size + n + 2
    BY <1>1, <2>1, Halves
  <2>3. CASE k = 1 \/ k = 2
    BY <1>2, <1>4, <2>3
  <2>4. CASE k = 2 * size + 3
    BY <1>1, <1>3, <2>4
  <2>5. CASE \E n \in 1..size : k = n + 2
    BY <1>5, <2>5
  <2>6. CASE \E n \in 1..size : k = size + n + 2
    BY <1>6, <2>6
  <2>7. QED
    BY <2>2, <2>3, <2>4, <2>5, <2>6
<1>8. p \notin Bills /\ \A n \in 1..size : list[n] \in Bills /\ list[n] \notin Payments
  BY DEF IdsApart, IsReversal
<1>9. SequenceFirst(run)
  BY <1>7 DEF SequenceFirst
<1>10. CustomerLast(run)
  BY <1>7 DEF CustomerLast
<1>11. NewIsOwn(run, t)
  BY <1>7 DEF NewIsOwn
<1>12. InvoicesTakeCustomers(run)
  BY <1>2 DEF InvoicesTakeCustomers
<1>13. RowsUnderInvoices(run)
  <2> SUFFICES ASSUME NEW k \in 1..Len(run), run[k][1] = "invoices"
               PROVE  \E m \in 1..(k - 1) : run[m] = <<"advisory", run[k][2]>>
    BY DEF RowsUnderInvoices
  <2>1. PICK n \in 1..size : k = size + n + 2 /\ run[k][2] = list[n]
    BY <1>7
  <2>2. n + 2 \in 1..(k - 1)
    BY <1>1, <2>1
  <2>3. run[n + 2] = <<"advisory", run[k][2]>>
    BY <2>1 DEF IsReversal
  <2>4. QED
    BY <2>2, <2>3
<1>14. PaymentsEarly(run)
  <2> SUFFICES ASSUME NEW k \in 1..Len(run), run[k][1] = "advisory", run[k][2] \in Payments,
                      NEW m \in 1..(k - 1)
               PROVE  run[m][1] = "document_sequences"
    BY DEF PaymentsEarly
  <2>1. k = 2
    BY <1>7, <1>8
  <2>2. m = 1
    BY <2>1
  <2>3. QED
    BY <1>2, <2>2
<1>15. RowsAfterInvoices(run)
  <2>1. CASE OneYear
    BY <1>2, <2>1 DEF RowsAfterInvoices, ReceiptOfTheYear
  <2>2. CASE size \in {0, 1}
    <3>1. ASSUME NEW k \in 1..Len(run), NEW m \in 1..(k - 1), run[m][1] = "advisory",
                 run[m][2] \in Bills
          PROVE  run[k][1] \in {"invoices", "customers"}
      <4>1. m \in 1..Len(run)
        BY <1>1, <3>1
      <4>2. PICK n \in 1..size : m = n + 2
        BY <1>7, <1>8, <3>1, <4>1
      <4>3. m = 3 /\ size = 1 /\ 1 \in 1..size
        BY <2>2, <4>2
      <4>4. k = 4 \/ k = 5
        BY <1>1, <3>1, <4>3
      <4>5. 1 + 1 + 2 = 4 /\ 2 * 1 + 3 = 5
        OBVIOUS
      <4>6. run[4][1] = "invoices" /\ run[5][1] = "customers"
        BY <1>3, <1>6, <4>3, <4>5
      <4>7. QED
        BY <4>4, <4>6
    <3>2. QED
      BY <3>1 DEF RowsAfterInvoices
  <2>3. QED
    BY <2>1, <2>2
<1>16. QED
  BY <1>9, <1>10, <1>11, <1>12, <1>13, <1>14, <1>15 DEF WellOrdered

\* What the parameters say.
LEMMA Apart == ASSUME LockOrderParameters PROVE IdsApart
  BY DEF LockOrderParameters, IdsApart, L!NewPaymentsAreNew, L!IdsAreApart

\* A list of invoices has each of them once.
LEMMA ListFacts ==
  ASSUME LockOrderParameters, NEW list \in L!Lists
  PROVE  /\ Len(list) \in Nat /\ list \in [1..Len(list) -> Bills] /\ DOMAIN list = 1..Len(list)
         /\ OneYear \/ Len(list) \in {0, 1}
<1>1. CASE list = <<>>
  <2>1. list \in Seq(Bills) /\ Len(list) = 0
    BY <1>1, EmptySeq
  <2>2. QED
    BY <2>1, LenProperties
<1>2. CASE \E n \in 1..L!Cardinality(Bills) : list \in [1..n -> Bills] /\ L!IsInjective(list)
  <2>1. PICK n \in 1..L!Cardinality(Bills) : list \in [1..n -> Bills] /\ L!IsInjective(list)
    BY <1>2
  <2>2. n \in Nat
    BY <2>1
  <2>3. DOMAIN list = 1..n /\ Len(list) = n
    BY <2>1, <2>2
  <2>4. ASSUME ~OneYear, n # 1 PROVE FALSE
    <3>1. \A i, j \in Bills : i = j
      BY <2>4 DEF LockOrderParameters, OneYear, L!OneYearOrInvoice
    <3>2. 1 \in 1..n /\ 2 \in 1..n
      BY <2>4
    <3>3. list[1] \in Bills /\ list[2] \in Bills
      BY <2>1, <3>2
    <3>4. list[1] = list[2]
      BY <3>1, <3>3
    <3>5. QED
      BY <2>1, <2>3, <3>2, <3>4 DEF L!IsInjective
  <2>5. QED
    BY <2>1, <2>2, <2>3, <2>4
<1>3. \/ list = <<>>
      \/ list \in UNION {[1..n -> Bills] : n \in 1..L!Cardinality(Bills)} /\ L!IsInjective(list)
  BY Zenon DEF L!Lists
<1>4. list \in UNION {[1..n -> Bills] : n \in 1..L!Cardinality(Bills)}
        => \E n \in 1..L!Cardinality(Bills) : list \in [1..n -> Bills]
  BY Zenon
<1>5. QED
  BY <1>1, <1>2, <1>3, <1>4

ProgramLocks == Locks \cup {<<"advisory", Fresh>>}

\* What Mine makes of a program.
LEMMA MineIs ==
  ASSUME NEW t \in Requests, NEW program \in Seq(ProgramLocks)
  PROVE  /\ L!Mine(t, program) \in Seq(Locks) /\ Len(L!Mine(t, program)) = Len(program)
         /\ \A n \in 1..Len(program) :
              L!Mine(t, program)[n] =
                IF program[n] = <<"advisory", Fresh>> THEN <<"advisory, new", t>> ELSE program[n]
<1> DEFINE size == Len(program)
           e(n) == IF program[n] = <<"advisory", Fresh>> THEN <<"advisory, new", t>> ELSE program[n]
           run == [n \in 1..size |-> e(n)]
<1>1. size \in Nat /\ DOMAIN program = 1..size
  BY LenProperties
<1>2. L!Mine(t, program) = run
  BY <1>1 DEF L!Mine, L!Advisory
<1>3. ASSUME NEW n \in 1..size PROVE e(n) \in Locks
  <2>1. program[n] \in ProgramLocks
    BY <1>3, ElementOfSeq
  <2>2. <<"advisory, new", t>> \in Locks
    BY DEF Locks
  <2>3. QED
    BY <2>1, <2>2 DEF ProgramLocks
<1> HIDE DEF e
<1>4. run \in [1..size -> Locks]
  BY <1>3
<1>5. run \in Seq(Locks) /\ Len(run) = size
  BY <1>1, <1>4
<1>6. \A n \in 1..size : run[n] = e(n)
  OBVIOUS
<1>7. QED
  BY <1>2, <1>5, <1>6 DEF e

\* A program that begins and ends with one lock each.
LEMMA Framed ==
  ASSUME NEW S, NEW a \in S, NEW b \in S, NEW mid \in Seq(S)
  PROVE  LET run == <<a>> \o mid \o <<b>> IN
         /\ run \in Seq(S) /\ Len(run) = Len(mid) + 2 /\ run[1] = a /\ run[Len(mid) + 2] = b
         /\ \A n \in 1..Len(mid) : run[n + 1] = mid[n]
<1> DEFINE one == <<a>> \o mid
           run == one \o <<b>>
<1>1. <<a>> \in Seq(S) /\ <<b>> \in Seq(S) /\ Len(<<a>>) = 1 /\ Len(<<b>>) = 1 /\ <<a>>[1] = a /\ <<b>>[1] = b
  OBVIOUS
<1>2. Len(mid) \in Nat
  BY LenProperties
<1>3. /\ one \in Seq(S) /\ Len(one) = 1 + Len(mid)
      /\ \A i \in 1 .. 1 + Len(mid) : one[i] = IF i <= 1 THEN <<a>>[i] ELSE mid[i - 1]
  BY <1>1, ConcatProperties
<1> HIDE DEF one
<1>4. /\ run \in Seq(S) /\ Len(run) = Len(one) + 1
      /\ \A i \in 1 .. Len(one) + 1 : run[i] = IF i <= Len(one) THEN one[i] ELSE <<b>>[i - Len(one)]
  BY <1>1, <1>3, ConcatProperties
<1> HIDE DEF run
<1>5. run \in Seq(S) /\ Len(run) = Len(mid) + 2
  BY <1>2, <1>3, <1>4
<1>6. run[1] = a
  <2>1. 1 \in 1 .. 1 + Len(mid) /\ 1 \in 1 .. Len(one) + 1 /\ 1 <= Len(one)
    BY <1>2, <1>3
  <2>2. run[1] = one[1]
    BY <1>4, <2>1
  <2>3. one[1] = <<a>>[1]
    BY <1>3, <2>1
  <2>4. QED
    BY <1>1, <2>2, <2>3
<1>7. run[Len(mid) + 2] = b
  <2>1. run[Len(mid) + 2] = <<b>>[1]
    BY <1>2, <1>3, <1>4
  <2>2. QED
    BY <1>1, <2>1
<1>8. ASSUME NEW n \in 1..Len(mid) PROVE run[n + 1] = mid[n]
  <2>1. run[n + 1] = one[n + 1]
    BY <1>2, <1>3, <1>4
  <2>2. one[n + 1] = mid[n]
    BY <1>2, <1>3
  <2>3. QED
    BY <2>1, <2>2
<1>9. QED
  BY <1>5, <1>6, <1>7, <1>8 DEF run, one

\* What a year, an invoice and a payment lock.
LEMMA LocksOf ==
  ASSUME NEW i \in Bills, NEW p \in Payments
  PROVE  <<"advisory", i>> \in Locks /\ <<"advisory", p>> \in Locks /\ <<"invoices", i>> \in Locks
<1>1. i \in Payments \cup Bills /\ p \in Payments \cup Bills
  OBVIOUS
<1>2. QED
  BY <1>1 DEF Locks

\* The allocations of a receipt, three locks each.
LEMMA AllocationsAre ==
  ASSUME NEW list, NEW size \in Nat, list \in [1..size -> Bills], Len(list) = size
  PROVE  LET mid == L!AllocationLocks(Fresh, list) IN
         /\ mid \in Seq(ProgramLocks) /\ Len(mid) = 3 * size
         /\ \A n \in 1..size : /\ mid[3 * n - 2] = <<"advisory", Fresh>>
                               /\ mid[3 * n - 1] = <<"advisory", list[n]>>
                               /\ mid[3 * n] = <<"invoices", list[n]>>
<1> DEFINE e(k) == LET i == list[(k + 2) \div 3] IN
                   CASE k % 3 = 1 -> <<"advisory", Fresh>>
                     [] k % 3 = 2 -> <<"advisory", i>>
                     [] OTHER -> <<"invoices", i>>
           mid == [k \in 1..3 * size |-> e(k)]
<1>1. L!AllocationLocks(Fresh, list) = mid
  BY DEF L!AllocationLocks, L!Advisory, L!InvoiceRow
<1>2. ASSUME NEW k \in 1..3 * size PROVE e(k) \in ProgramLocks
  <2>1. (k + 2) \div 3 \in 1..size
    OBVIOUS
  <2>2. list[(k + 2) \div 3] \in Bills
    BY <2>1
  <2>3. \A i \in Bills : <<"advisory", i>> \in Locks /\ <<"invoices", i>> \in Locks
    BY DEF Locks
  <2>4. k % 3 = 1 \/ k % 3 = 2 \/ (k % 3 # 1 /\ k % 3 # 2)
    OBVIOUS
  <2>5. QED
    BY <2>2, <2>3, <2>4 DEF ProgramLocks
<1>3. ASSUME NEW n \in 1..size
      PROVE  /\ e(3 * n - 2) = <<"advisory", Fresh>>
             /\ e(3 * n - 1) = <<"advisory", list[n]>>
             /\ e(3 * n) = <<"invoices", list[n]>>
  <2>1. /\ (3 * n - 2) % 3 = 1 /\ (3 * n - 1) % 3 = 2 /\ (3 * n) % 3 = 0
        /\ (3 * n - 1 + 2) \div 3 = n /\ (3 * n + 2) \div 3 = n
    OBVIOUS
  <2>2. \A k : k % 3 = 1 => e(k) = <<"advisory", Fresh>>
    OBVIOUS
  <2>3. \A k : k % 3 = 2 => e(k) = <<"advisory", list[(k + 2) \div 3]>>
    OBVIOUS
  <2>4. \A k : k % 3 = 0 => e(k) = <<"invoices", list[(k + 2) \div 3]>>
    OBVIOUS
  <2> HIDE DEF e
  <2>5. QED
    BY <2>1, <2>2, <2>3, <2>4
<1> HIDE DEF e
<1>4. 3 * size \in Nat
  OBVIOUS
<1>5. mid \in [1..3 * size -> ProgramLocks]
  BY <1>2
<1>6. mid \in Seq(ProgramLocks) /\ Len(mid) = 3 * size
  BY <1>4, <1>5
<1>7. \A n \in 1..size : mid[3 * n - 2] = e(3 * n - 2) /\ mid[3 * n - 1] = e(3 * n - 1) /\ mid[3 * n] = e(3 * n)
  <2>1. \A n \in 1..size : 3 * n - 2 \in 1..3 * size /\ 3 * n - 1 \in 1..3 * size /\ 3 * n \in 1..3 * size
    OBVIOUS
  <2>2. QED
    BY <2>1
<1>8. QED
  BY <1>1, <1>3, <1>6, <1>7

\* A receipt that is recorded.
LEMMA RecordsAreReceipts ==
  ASSUME LockOrderParameters, year \in Years, NEW t \in Requests, NEW list \in L!Lists
  PROVE  LET mine == L!Mine(t, L!RecordLocks(list, year)) IN
         /\ mine \in Seq(Locks) /\ IsReceipt(mine, t, year, Len(list), list)
<1> DEFINE size == Len(list)
           mid == L!AllocationLocks(Fresh, list)
           first == <<"document_sequences", "RECEIPT", year>>
           last == <<"customers">>
           program == <<first>> \o mid \o <<last>>
           mine == L!Mine(t, program)
<1>1. size \in Nat /\ list \in [1..size -> Bills]
  BY ListFacts
<1>2. L!RecordLocks(list, year) = program
  BY DEF L!RecordLocks, L!Sequence, L!Customer
<1>3. first \in ProgramLocks /\ last \in ProgramLocks /\ first # <<"advisory", Fresh>> /\ last # <<"advisory", Fresh>>
  <2>1. first \in Locks /\ last \in Locks
    BY DEF Locks
  <2>2. first[1] = "document_sequences" /\ last[1] = "customers" /\ <<"advisory", Fresh>>[1] = "advisory"
    OBVIOUS
  <2>3. "document_sequences" # "advisory" /\ "customers" # "advisory"
    OBVIOUS
  <2> HIDE DEF first, last
  <2>4. QED
    BY <2>1, <2>2, <2>3 DEF ProgramLocks
<1>4. /\ mid \in Seq(ProgramLocks) /\ Len(mid) = 3 * size
      /\ \A n \in 1..size : /\ mid[3 * n - 2] = <<"advisory", Fresh>>
                            /\ mid[3 * n - 1] = <<"advisory", list[n]>>
                            /\ mid[3 * n] = <<"invoices", list[n]>>
  BY <1>1, AllocationsAre
<1>5. \A n \in 1..size : /\ <<"advisory", list[n]>> # <<"advisory", Fresh>>
                         /\ <<"invoices", list[n]>> # <<"advisory", Fresh>>
  <2>1. \A n \in 1..size : list[n] # Fresh
    BY <1>1, Apart DEF IdsApart
  <2>2. QED
    BY <2>1
<1> HIDE DEF first, last, mid
<1>6. /\ program \in Seq(ProgramLocks) /\ Len(program) = 3 * size + 2
      /\ program[1] = first /\ program[3 * size + 2] = last
      /\ \A n \in 1..3 * size : program[n + 1] = mid[n]
  <2>1. /\ program \in Seq(ProgramLocks) /\ Len(program) = Len(mid) + 2
        /\ program[1] = first /\ program[Len(mid) + 2] = last
        /\ \A n \in 1..Len(mid) : program[n + 1] = mid[n]
    <3>1. mid \in Seq(ProgramLocks)
      BY <1>4
    <3>2. QED
      BY <1>3, <3>1, Framed
  <2> HIDE DEF program
  <2>2. Len(mid) = 3 * size
    BY <1>4
  <2>3. QED
    BY <2>1, <2>2
<1> HIDE DEF program
<1>7. /\ mine \in Seq(Locks) /\ Len(mine) = 3 * size + 2
      /\ \A n \in 1..3 * size + 2 :
           mine[n] = IF program[n] = <<"advisory", Fresh>> THEN <<"advisory, new", t>> ELSE program[n]
  BY <1>6, MineIs
<1> HIDE DEF mine
<1>8. mine[1] = first /\ mine[3 * size + 2] = last
  <2>1. 1 \in 1..3 * size + 2 /\ 3 * size + 2 \in 1..3 * size + 2
    BY <1>1
  <2>2. QED
    BY <1>3, <1>6, <1>7, <2>1
<1>9. ASSUME NEW n \in 1..size
      PROVE  /\ mine[3 * n - 1] = <<"advisory, new", t>>
             /\ mine[3 * n] = <<"advisory", list[n]>>
             /\ mine[3 * n + 1] = <<"invoices", list[n]>>
  <2>1. /\ 3 * n - 2 \in 1..3 * size /\ 3 * n - 1 \in 1..3 * size /\ 3 * n \in 1..3 * size
        /\ 3 * n - 1 \in 1..3 * size + 2 /\ 3 * n \in 1..3 * size + 2 /\ 3 * n + 1 \in 1..3 * size + 2
        /\ (3 * n - 2) + 1 = 3 * n - 1 /\ (3 * n - 1) + 1 = 3 * n
    BY <1>1
  <2>2. program[3 * n - 1] = <<"advisory", Fresh>>
    BY <1>4, <1>6, <2>1
  <2>3. program[3 * n] = <<"advisory", list[n]>>
    BY <1>4, <1>6, <2>1
  <2>4. program[3 * n + 1] = <<"invoices", list[n]>>
    BY <1>4, <1>6, <2>1
  <2>5. QED
    BY <1>5, <1>7, <2>1, <2>2, <2>3, <2>4
<1>10. IsReceipt(mine, t, year, size, list)
  BY <1>1, <1>7, <1>8, <1>9 DEF IsReceipt, first, last
<1>11. QED
  BY <1>2, <1>7, <1>10 DEF mine

\* What is locked for a list of invoices.
LEMMA ListsOfLocks ==
  ASSUME NEW size \in Nat, NEW list, list \in [1..size -> Bills]
  PROVE  /\ L!AdvisoriesOf(list) \in Seq(ProgramLocks) /\ Len(L!AdvisoriesOf(list)) = size
         /\ L!RowsOf(list) \in Seq(ProgramLocks) /\ Len(L!RowsOf(list)) = size
         /\ \A n \in 1..size : /\ L!AdvisoriesOf(list)[n] = <<"advisory", list[n]>>
                               /\ L!RowsOf(list)[n] = <<"invoices", list[n]>>
<1> DEFINE A == [n \in 1..size |-> <<"advisory", list[n]>>]
           R == [n \in 1..size |-> <<"invoices", list[n]>>]
<1>1. L!AdvisoriesOf(list) = A /\ L!RowsOf(list) = R
  BY DEF L!AdvisoriesOf, L!RowsOf, L!Advisory, L!InvoiceRow
<1>2. \A i \in Bills : <<"advisory", i>> \in Locks /\ <<"invoices", i>> \in Locks
  BY DEF Locks
<1>3. A \in [1..size -> ProgramLocks] /\ R \in [1..size -> ProgramLocks]
  BY <1>2 DEF ProgramLocks
<1>4. A \in Seq(ProgramLocks) /\ Len(A) = size /\ R \in Seq(ProgramLocks) /\ Len(R) = size
  BY <1>3
<1>5. QED
  BY <1>1, <1>4

\* A reversal, whoever asks for it.
LEMMA ReversalsAre ==
  ASSUME LockOrderParameters, year \in Years, NEW t \in Requests, NEW p \in Payments, NEW list \in L!Lists
  PROVE  LET mine == L!Mine(t, L!ReverseLocks(p, list, year)) IN
         /\ mine \in Seq(Locks) /\ IsReversal(mine, p, year, Len(list), list)
<1> DEFINE size == Len(list)
           A == L!AdvisoriesOf(list)
           R == L!RowsOf(list)
           s == <<"document_sequences", "RECEIPT", year>>
           d == <<"advisory", p>>
           last == <<"customers">>
           one == <<s, d>>
           two == one \o A
           three == two \o R
           program == three \o <<last>>
           mine == L!Mine(t, program)
<1>1. size \in Nat /\ list \in [1..size -> Bills]
  BY ListFacts
<1>2. L!ReverseLocks(p, list, year) = program
  BY DEF L!ReverseLocks, L!Sequence, L!Advisory, L!Customer
<1>3. s \in ProgramLocks /\ d \in ProgramLocks /\ last \in ProgramLocks
  <2>1. p \in Payments \cup Bills
    OBVIOUS
  <2>2. QED
    BY <2>1 DEF ProgramLocks, Locks
<1>4. s # <<"advisory", Fresh>> /\ last # <<"advisory", Fresh>> /\ d # <<"advisory", Fresh>>
  <2>1. s[1] = "document_sequences" /\ last[1] = "customers" /\ <<"advisory", Fresh>>[1] = "advisory"
        /\ d[2] = p /\ <<"advisory", Fresh>>[2] = Fresh
    OBVIOUS
  <2>2. p # Fresh
    BY Apart DEF IdsApart
  <2> HIDE DEF s, last, d
  <2>3. QED
    BY <2>1, <2>2
<1>5. \A n \in 1..size : /\ <<"advisory", list[n]>> # <<"advisory", Fresh>>
                         /\ <<"invoices", list[n]>> # <<"advisory", Fresh>>
  <2>1. \A n \in 1..size : list[n] # Fresh
    BY <1>1, Apart DEF IdsApart
  <2>2. QED
    BY <2>1
<1>6. /\ A \in Seq(ProgramLocks) /\ Len(A) = size /\ R \in Seq(ProgramLocks) /\ Len(R) = size
      /\ \A n \in 1..size : A[n] = <<"advisory", list[n]>> /\ R[n] = <<"invoices", list[n]>>
  BY <1>1, ListsOfLocks
<1> HIDE DEF s, d, last, A, R
<1>7. one \in Seq(ProgramLocks) /\ Len(one) = 2 /\ one[1] = s /\ one[2] = d
  BY <1>3
<1> HIDE DEF one
<1>8. /\ two \in Seq(ProgramLocks) /\ Len(two) = size + 2 /\ two[1] = s /\ two[2] = d
      /\ \A n \in 1..size : two[n + 2] = A[n]
  <2>1. /\ two \in Seq(ProgramLocks) /\ Len(two) = 2 + size
        /\ \A i \in 1 .. 2 + size : two[i] = IF i <= 2 THEN one[i] ELSE A[i - 2]
    <3>1. /\ two \in Seq(ProgramLocks) /\ Len(two) = Len(one) + Len(A)
          /\ \A i \in 1 .. Len(one) + Len(A) : two[i] = IF i <= Len(one) THEN one[i] ELSE A[i - Len(one)]
      <4> HIDE DEF size
      <4>1. one \in Seq(ProgramLocks) /\ A \in Seq(ProgramLocks)
        BY <1>6, <1>7
      <4>2. QED
        BY <4>1, ConcatProperties
    <3> HIDE DEF two
    <3>2. QED
      BY <1>6, <1>7, <3>1
  <2> HIDE DEF two
  <2>2. /\ 1 \in 1..2 + size /\ 2 \in 1..2 + size
        /\ \A n \in 1..size : n + 2 \in 1..2 + size /\ ~(n + 2 <= 2) /\ (n + 2) - 2 = n
    BY <1>1
  <2>3. QED
    BY <1>1, <1>7, <2>1, <2>2
<1> HIDE DEF two
<1>9. /\ three \in Seq(ProgramLocks) /\ Len(three) = 2 * size + 2 /\ three[1] = s /\ three[2] = d
      /\ \A n \in 1..size : three[n + 2] = A[n] /\ three[size + n + 2] = R[n]
  <2>1. /\ three \in Seq(ProgramLocks) /\ Len(three) = (size + 2) + size
        /\ \A i \in 1 .. (size + 2) + size : three[i] = IF i <= size + 2 THEN two[i] ELSE R[i - (size + 2)]
    <3>1. /\ three \in Seq(ProgramLocks) /\ Len(three) = Len(two) + Len(R)
          /\ \A i \in 1 .. Len(two) + Len(R) : three[i] = IF i <= Len(two) THEN two[i] ELSE R[i - Len(two)]
      <4>1. two \in Seq(ProgramLocks) /\ R \in Seq(ProgramLocks)
        BY <1>6, <1>8
      <4>2. QED
        BY <4>1, ConcatProperties
    <3> HIDE DEF three
    <3>2. QED
      BY <1>6, <1>8, <3>1
  <2> HIDE DEF three
  <2>2. /\ 1 \in 1..(size + 2) + size /\ 2 \in 1..(size + 2) + size /\ 1 <= size + 2 /\ 2 <= size + 2
        /\ (size + 2) + size = 2 * size + 2
    BY <1>1
  <2>3. \A n \in 1..size : /\ n + 2 \in 1..(size + 2) + size /\ n + 2 <= size + 2
                           /\ size + n + 2 \in 1..(size + 2) + size /\ ~(size + n + 2 <= size + 2)
                           /\ (size + n + 2) - (size + 2) = n
    BY <1>1
  <2>4. \A n \in 1..size : three[n + 2] = two[n + 2] /\ three[size + n + 2] = R[n]
    BY <2>1, <2>3
  <2>5. QED
    BY <1>8, <2>1, <2>2, <2>4
<1> HIDE DEF three
<1>10. /\ program \in Seq(ProgramLocks) /\ Len(program) = 2 * size + 3
       /\ program[1] = s /\ program[2] = d /\ program[2 * size + 3] = last
       /\ \A n \in 1..size : program[n + 2] = A[n] /\ program[size + n + 2] = R[n]
  <2>1. <<last>> \in Seq(ProgramLocks) /\ Len(<<last>>) = 1 /\ <<last>>[1] = last
    BY <1>3
  <2>2. /\ program \in Seq(ProgramLocks) /\ Len(program) = (2 * size + 2) + 1
        /\ \A i \in 1 .. (2 * size + 2) + 1 :
             program[i] = IF i <= 2 * size + 2 THEN three[i] ELSE <<last>>[i - (2 * size + 2)]
    <3>1. /\ program \in Seq(ProgramLocks) /\ Len(program) = Len(three) + Len(<<last>>)
          /\ \A i \in 1 .. Len(three) + Len(<<last>>) :
               program[i] = IF i <= Len(three) THEN three[i] ELSE <<last>>[i - Len(three)]
      <4>1. three \in Seq(ProgramLocks)
        BY <1>9
      <4>2. QED
        BY <2>1, <4>1, ConcatProperties
    <3> HIDE DEF program
    <3>2. QED
      BY <1>9, <2>1, <3>1
  <2> HIDE DEF program
  <2>3. /\ 1 \in 1..(2 * size + 2) + 1 /\ 2 \in 1..(2 * size + 2) + 1
        /\ 1 <= 2 * size + 2 /\ 2 <= 2 * size + 2 /\ (2 * size + 2) + 1 = 2 * size + 3
        /\ 2 * size + 3 \in 1..(2 * size + 2) + 1 /\ ~(2 * size + 3 <= 2 * size + 2)
        /\ (2 * size + 3) - (2 * size + 2) = 1
    BY <1>1
  <2>4. \A n \in 1..size : /\ n + 2 \in 1..(2 * size + 2) + 1 /\ n + 2 <= 2 * size + 2
                           /\ size + n + 2 \in 1..(2 * size + 2) + 1 /\ size + n + 2 <= 2 * size + 2
    BY <1>1
  <2>5. \A n \in 1..size : program[n + 2] = three[n + 2] /\ program[size + n + 2] = three[size + n + 2]
    BY <2>2, <2>4
  <2>6. program[2 * size + 3] = last
    BY <2>1, <2>2, <2>3
  <2>7. program[1] = three[1] /\ program[2] = three[2]
    BY <2>2, <2>3
  <2>8. QED
    BY <1>9, <2>2, <2>3, <2>5, <2>6, <2>7
<1> HIDE DEF program
<1>11. /\ mine \in Seq(Locks) /\ Len(mine) = 2 * size + 3
       /\ \A n \in 1..2 * size + 3 :
            mine[n] = IF program[n] = <<"advisory", Fresh>> THEN <<"advisory, new", t>> ELSE program[n]
  BY <1>10, MineIs
<1> HIDE DEF mine
<1>12. mine[1] = s /\ mine[2] = d /\ mine[2 * size + 3] = last
  <2>1. 1 \in 1..2 * size + 3 /\ 2 \in 1..2 * size + 3 /\ 2 * size + 3 \in 1..2 * size + 3
    BY <1>1
  <2>2. QED
    BY <1>4, <1>10, <1>11, <2>1
<1>13. ASSUME NEW n \in 1..size
       PROVE  mine[n + 2] = <<"advisory", list[n]>> /\ mine[size + n + 2] = <<"invoices", list[n]>>
  <2>1. n + 2 \in 1..2 * size + 3 /\ size + n + 2 \in 1..2 * size + 3
    BY <1>1
  <2>2. program[n + 2] = <<"advisory", list[n]>> /\ program[size + n + 2] = <<"invoices", list[n]>>
    BY <1>6, <1>10
  <2>3. QED
    BY <1>5, <1>11, <2>1, <2>2
<1>14. IsReversal(mine, p, year, size, list)
  BY <1>1, <1>11, <1>12, <1>13 DEF IsReversal, s, d, last
<1>15. QED
  BY <1>2, <1>11, <1>14 DEF mine

\* A list of one to four locks: Mine replaces the lock of a new payment only.
LEMMA MineLeaves ==
  ASSUME NEW t \in Requests, NEW program \in Seq(Locks),
         \A n \in 1..Len(program) : program[n] # <<"advisory", Fresh>>
  PROVE  /\ L!Mine(t, program) \in Seq(Locks) /\ Len(L!Mine(t, program)) = Len(program)
         /\ \A n \in 1..Len(program) : L!Mine(t, program)[n] = program[n]
<1>1. program \in Seq(ProgramLocks)
  BY DEF ProgramLocks
<1>2. QED
  BY <1>1, MineIs

\* Whatever a request locks, it locks in the order of WellOrdered.
LEMMA ProgramsAreOrdered ==
  ASSUME LockOrderParameters, year \in Years, NEW t \in Requests, NEW program \in L!Programs
  PROVE  L!Mine(t, program) \in Seq(Locks) /\ WellOrdered(L!Mine(t, program), t)
<1> DEFINE mine == L!Mine(t, program)
<1>0. IdsApart
  BY Apart
<1>1. CASE \E list \in L!Lists : program = L!RecordLocks(list, year)
  <2>1. PICK list \in L!Lists : program = L!RecordLocks(list, year)
    BY <1>1
  <2>2. mine \in Seq(Locks) /\ IsReceipt(mine, t, year, Len(list), list)
    BY <2>1, RecordsAreReceipts
  <2>3. OneYear \/ Len(list) \in {0, 1}
    BY ListFacts
  <2> HIDE DEF mine
  <2>4. WellOrdered(mine, t)
    BY <1>0, <2>2, <2>3, Receipts
  <2>5. QED
    BY <2>2, <2>4 DEF mine
<1>2. CASE \E p \in Payments, list \in L!Lists : program = L!ReverseLocks(p, list, year)
  <2>1. PICK p \in Payments, list \in L!Lists : program = L!ReverseLocks(p, list, year)
    BY <1>2
  <2>2. mine \in Seq(Locks) /\ IsReversal(mine, p, year, Len(list), list)
    BY <2>1, ReversalsAre
  <2>3. OneYear \/ Len(list) \in {0, 1}
    BY ListFacts
  <2> HIDE DEF mine
  <2>4. WellOrdered(mine, t)
    BY <1>0, <2>2, <2>3, Reversals
  <2>5. QED
    BY <2>2, <2>4 DEF mine
<1>3. ASSUME NEW k \in 1..4, program \in Seq(Locks), Len(program) = k,
             \A n \in 1..k : program[n] # <<"advisory", Fresh>>
      PROVE  mine \in Seq(Locks) /\ Len(mine) = k /\ \A n \in 1..k : mine[n] = program[n]
  BY <1>3, MineLeaves
<1>4. CASE \E p \in Payments, i \in Bills : program = L!AllocateLocks(p, i)
  <2>1. PICK p \in Payments, i \in Bills : program = L!AllocateLocks(p, i)
    BY <1>4
  <2>2. program = << <<"advisory", p>>, <<"advisory", i>>, <<"invoices", i>>, <<"customers">> >>
    BY <2>1 DEF L!AllocateLocks, L!Advisory, L!InvoiceRow, L!Customer
  <2>3. /\ <<"advisory", p>> \in Locks /\ <<"advisory", i>> \in Locks
        /\ <<"invoices", i>> \in Locks /\ <<"customers">> \in Locks
    BY LocksOf DEF Locks
  <2>4. /\ <<"advisory", p>> # <<"advisory", Fresh>> /\ <<"advisory", i>> # <<"advisory", Fresh>>
        /\ <<"invoices", i>> # <<"advisory", Fresh>> /\ <<"customers">> # <<"advisory", Fresh>>
    <3>1. p # Fresh /\ i # Fresh
      BY <1>0 DEF IdsApart
    <3>2. <<"customers">>[1] = "customers" /\ <<"advisory", Fresh>>[1] = "advisory"
      OBVIOUS
    <3>3. QED
      BY <3>1, <3>2
  <2>5. program \in Seq(Locks) /\ Len(program) = 4
    BY <2>2, <2>3
  <2>6. /\ program[1] = <<"advisory", p>> /\ program[2] = <<"advisory", i>>
        /\ program[3] = <<"invoices", i>> /\ program[4] = <<"customers">>
    BY <2>2
  <2>7. \A n \in 1..4 : n = 1 \/ n = 2 \/ n = 3 \/ n = 4
    OBVIOUS
  <2>8. \A n \in 1..4 : program[n] # <<"advisory", Fresh>>
    BY <2>4, <2>6, <2>7
  <2>9. mine \in Seq(Locks) /\ Len(mine) = 4 /\ \A n \in 1..4 : mine[n] = program[n]
    BY <1>3, <2>5, <2>8
  <2> HIDE DEF mine
  <2>10. WellOrdered(mine, t)
    BY <1>0, <2>6, <2>9, ShortOnes
  <2>11. QED
    BY <2>9, <2>10 DEF mine
<1>5. CASE \E i \in Bills : program = L!OneInvoice(i)
  <2>1. PICK i \in Bills : program = L!OneInvoice(i)
    BY <1>5
  <2>2. program = << <<"advisory", i>>, <<"invoices", i>>, <<"customers">> >>
    BY <2>1 DEF L!OneInvoice, L!Advisory, L!InvoiceRow, L!Customer
  <2>3. <<"advisory", i>> \in Locks /\ <<"invoices", i>> \in Locks /\ <<"customers">> \in Locks
    <3>1. i \in Payments \cup Bills
      OBVIOUS
    <3>2. QED
      BY <3>1 DEF Locks
  <2>4. /\ <<"advisory", i>> # <<"advisory", Fresh>>
        /\ <<"invoices", i>> # <<"advisory", Fresh>> /\ <<"customers">> # <<"advisory", Fresh>>
    <3>1. i # Fresh
      BY <1>0 DEF IdsApart
    <3>2. <<"customers">>[1] = "customers" /\ <<"advisory", Fresh>>[1] = "advisory"
      OBVIOUS
    <3>3. QED
      BY <3>1, <3>2
  <2>5. program \in Seq(Locks) /\ Len(program) = 3
    BY <2>2, <2>3
  <2>6. program[1] = <<"advisory", i>> /\ program[2] = <<"invoices", i>> /\ program[3] = <<"customers">>
    BY <2>2
  <2>7. \A n \in 1..3 : n = 1 \/ n = 2 \/ n = 3
    OBVIOUS
  <2>8. \A n \in 1..3 : program[n] # <<"advisory", Fresh>>
    BY <2>4, <2>6, <2>7
  <2>9. mine \in Seq(Locks) /\ Len(mine) = 3 /\ \A n \in 1..3 : mine[n] = program[n]
    BY <1>3, <2>5, <2>8
  <2> HIDE DEF mine
  <2>10. WellOrdered(mine, t)
    BY <1>0, <2>6, <2>9, ShortOnes
  <2>11. QED
    BY <2>9, <2>10 DEF mine
<1>6. CASE program = L!NewInvoice(year)
  <2>1. program = << <<"document_sequences", "INVOICE", year>>, <<"customers">> >>
    BY <1>6 DEF L!NewInvoice, L!Sequence, L!Customer
  <2>2. <<"document_sequences", "INVOICE", year>> \in Locks /\ <<"customers">> \in Locks
    BY DEF Locks
  <2>3. /\ <<"document_sequences", "INVOICE", year>> # <<"advisory", Fresh>>
        /\ <<"customers">> # <<"advisory", Fresh>>
    <3>1. /\ <<"customers">>[1] = "customers" /\ <<"advisory", Fresh>>[1] = "advisory"
          /\ <<"document_sequences", "INVOICE", year>>[1] = "document_sequences"
      OBVIOUS
    <3>2. QED
      BY <3>1
  <2>4. program \in Seq(Locks) /\ Len(program) = 2
    BY <2>1, <2>2
  <2>5. program[1] = <<"document_sequences", "INVOICE", year>> /\ program[2] = <<"customers">>
    BY <2>1
  <2>6. \A n \in 1..2 : n = 1 \/ n = 2
    OBVIOUS
  <2>7. \A n \in 1..2 : program[n] # <<"advisory", Fresh>>
    BY <2>3, <2>5, <2>6
  <2>8. mine \in Seq(Locks) /\ Len(mine) = 2 /\ \A n \in 1..2 : mine[n] = program[n]
    BY <1>3, <2>4, <2>7
  <2> HIDE DEF mine
  <2>9. mine[1][1] = "document_sequences" /\ mine[2] = <<"customers">>
    <3>1. mine[1] = <<"document_sequences", "INVOICE", year>> /\ mine[2] = <<"customers">>
      BY <2>5, <2>8
    <3>2. QED
      BY <3>1
  <2>10. WellOrdered(mine, t)
    BY <1>0, <2>8, <2>9, ShortOnes
  <2>11. QED
    BY <2>8, <2>10 DEF mine
<1>7. CASE program = <<L!Customer>>
  <2>1. program = << <<"customers">> >>
    BY <1>7 DEF L!Customer
  <2>2. <<"customers">> \in Locks
    BY DEF Locks
  <2>3. <<"customers">> # <<"advisory", Fresh>>
    <3>1. <<"customers">>[1] = "customers" /\ <<"advisory", Fresh>>[1] = "advisory"
      OBVIOUS
    <3>2. QED
      BY <3>1
  <2>4. program \in Seq(Locks) /\ Len(program) = 1 /\ program[1] = <<"customers">>
    BY <2>1, <2>2
  <2>5. \A n \in 1..1 : program[n] # <<"advisory", Fresh>>
    BY <2>3, <2>4
  <2>6. mine \in Seq(Locks) /\ Len(mine) = 1 /\ \A n \in 1..1 : mine[n] = program[n]
    BY <1>3, <2>4, <2>5
  <2> HIDE DEF mine
  <2>7. WellOrdered(mine, t)
    BY <1>0, <2>4, <2>6, ShortOnes
  <2>8. QED
    BY <2>6, <2>7 DEF mine
<1>8. \/ program \in {L!RecordLocks(list, year) : list \in L!Lists}
      \/ program \in UNION {{L!AllocateLocks(p, i) : i \in Bills} : p \in Payments}
      \/ program \in UNION {{L!ReverseLocks(p, list, year) : list \in L!Ascending(Settles[p])} : p \in Payments}
      \/ program \in {L!OneInvoice(i) : i \in Bills}
      \/ program = L!NewInvoice(year)
      \/ program = <<L!Customer>>
  BY Zenon DEF L!Programs
<1>9. program \in UNION {{L!ReverseLocks(p, list, year) : list \in L!Ascending(Settles[p])} : p \in Payments}
        => \E p \in Payments, list \in L!Lists : program = L!ReverseLocks(p, list, year)
  <2>1. ASSUME program \in UNION {{L!ReverseLocks(p, list, year) : list \in L!Ascending(Settles[p])} : p \in Payments}
        PROVE  \E p \in Payments, list \in L!Lists : program = L!ReverseLocks(p, list, year)
    <3>1. PICK p \in Payments : program \in {L!ReverseLocks(p, list, year) : list \in L!Ascending(Settles[p])}
      BY <2>1
    <3>2. PICK list \in L!Ascending(Settles[p]) : program = L!ReverseLocks(p, list, year)
      BY <3>1
    <3>3. list \in L!Lists
      BY <3>2 DEF L!Ascending
    <3>4. QED
      BY <3>2, <3>3
  <2>2. QED
    BY <2>1
<1>10. program \in {L!RecordLocks(list, year) : list \in L!Lists}
        => \E list \in L!Lists : program = L!RecordLocks(list, year)
  BY Zenon
<1>11. program \in UNION {{L!AllocateLocks(p, i) : i \in Bills} : p \in Payments}
        => \E p \in Payments, i \in Bills : program = L!AllocateLocks(p, i)
  BY Zenon
<1>12. program \in {L!OneInvoice(i) : i \in Bills} => \E i \in Bills : program = L!OneInvoice(i)
  BY Zenon
<1>13. QED
  BY <1>1, <1>2, <1>4, <1>5, <1>6, <1>7, <1>8, <1>9, <1>10, <1>11, <1>12

\* Nobody has begun, or has everything given back.
LEMMA IdleFollows ==
  ASSUME NEW t \in Requests, todo[t] = <<>>, locks[t] = {}
  PROVE  Follows(t)
<1>1. <<>> \in Seq(Locks) /\ Len(<<>>) = 0
  BY EmptySeq
<1>2. WellOrdered(<<>>, t)
  BY <1>1 DEF WellOrdered, SequenceFirst, CustomerLast, NewIsOwn, RowsUnderInvoices, PaymentsEarly,
     InvoicesTakeCustomers, RowsAfterInvoices
<1>3. Under(t, <<>>, 0)
  BY <1>1 DEF Under
<1>4. QED
  BY <1>1, <1>2, <1>3 DEF Follows

\* Nobody holds anything at the start.
LEMMA LocksStart == L!Init => LockInv
<1> SUFFICES ASSUME L!Init PROVE LockInv
  OBVIOUS
<1>1. year \in Years /\ todo = [t \in Requests |-> <<>>] /\ locks = [t \in Requests |-> {}]
  BY DEF L!Init
<1>2. <<>> \in Seq(Locks)
  BY EmptySeq
<1>3. \A t \in Requests : Follows(t)
  BY <1>1, IdleFollows
<1>4. QED
  BY <1>1, <1>2, <1>3 DEF LockInv

\* A request is taken in.
LEMMA AskingKeepsOrder ==
  ASSUME LockOrderParameters, LockInv, NEW t \in Requests, L!Ask(t)
  PROVE  LockInv'
<1>1. PICK program \in L!Programs : todo' = [todo EXCEPT ![t] = L!Mine(t, program)]
  BY DEF L!Ask
<1> DEFINE mine == L!Mine(t, program)
<1>2. year' = year /\ locks' = locks /\ todo[t] = <<>> /\ locks[t] = {}
  BY DEF L!Ask, L!Idle
<1>3. mine \in Seq(Locks) /\ WellOrdered(mine, t)
  BY ProgramsAreOrdered DEF LockInv
<1> HIDE DEF mine
<1>4. todo' \in [Requests -> Seq(Locks)]
  BY <1>1, <1>3 DEF LockInv, mine
<1>5. ASSUME NEW u \in Requests PROVE Follows(u)'
  <2>1. CASE u = t
    <3>1. todo'[t] = mine /\ locks'[t] = {}
      BY <1>1, <1>2 DEF LockInv, mine
    <3>2. Len(mine) \in Nat
      BY <1>3, LenProperties
    <3>3. Under(t, mine, 0)'
      BY <3>1, <3>2 DEF Under
    <3>4. QED
      BY <1>3, <2>1, <3>3 DEF Follows
  <2>2. CASE u # t
    <3>1. todo'[u] = todo[u] /\ locks'[u] = locks[u] /\ Follows(u)
      BY <1>1, <1>2, <2>2 DEF LockInv
    <3>2. QED
      BY <3>1 DEF Follows, Under
  <2>3. QED
    BY <2>1, <2>2
<1>6. QED
  BY <1>2, <1>4, <1>5 DEF LockInv

\* The next lock is taken when nobody else has it.
LEMMA AcquiringKeepsOrder ==
  ASSUME LockInv, NEW t \in Requests, L!Acquire(t)
  PROVE  LockInv'
<1> DEFINE h == Head(todo[t])
<1>1. /\ todo[t] # <<>> /\ year' = year
      /\ locks' = [locks EXCEPT ![t] = locks[t] \cup {h}]
      /\ todo' = [todo EXCEPT ![t] = Tail(todo[t])]
      /\ \A u \in Requests : t # u => h \notin locks[u]
  BY DEF L!Acquire, L!WaitsFor
<1>2. todo[t] \in Seq(Locks) /\ locks \in [Requests -> SUBSET Locks] /\ todo \in [Requests -> Seq(Locks)]
  BY DEF LockInv
<1>3. /\ h \in Locks /\ h = todo[t][1] /\ Tail(todo[t]) \in Seq(Locks)
      /\ Len(todo[t]) \in Nat \ {0} /\ Len(Tail(todo[t])) = Len(todo[t]) - 1
      /\ \A n \in 1..Len(Tail(todo[t])) : Tail(todo[t])[n] = todo[t][n + 1]
  BY <1>1, <1>2, HeadTailProperties, EmptySeq
<1> HIDE DEF h
<1>4. /\ todo'[t] = Tail(todo[t]) /\ locks'[t] = locks[t] \cup {h}
      /\ \A u \in Requests : u # t => todo'[u] = todo[u] /\ locks'[u] = locks[u]
  BY <1>1, <1>2
<1>5. todo' \in [Requests -> Seq(Locks)] /\ locks' \in [Requests -> SUBSET Locks]
  BY <1>1, <1>2, <1>3
<1>6. ASSUME NEW a \in Requests, NEW b \in Requests, NEW l \in locks'[a] \cap locks'[b] PROVE a = b
  <2>1. CASE l = h
    BY <1>1, <1>4, <1>6, <2>1
  <2>2. CASE l # h
    <3>1. l \in locks[a] /\ l \in locks[b]
      BY <1>4, <1>6, <2>2
    <3>2. QED
      BY <3>1 DEF LockInv
  <2>3. QED
    BY <2>1, <2>2
<1>7. ASSUME NEW u \in Requests PROVE Follows(u)'
  <2>1. CASE u = t
    <3>1. PICK program \in Seq(Locks), taken \in Nat : WellOrdered(program, t) /\ Under(t, program, taken)
      BY DEF LockInv, Follows
    <3>2. Len(program) \in Nat
      BY LenProperties
    <3>3. /\ taken \in 0..Len(program) /\ Len(todo[t]) = Len(program) - taken
          /\ \A n \in 1..Len(todo[t]) : todo[t][n] = program[taken + n]
          /\ locks[t] = {program[m] : m \in 1..taken}
      BY <3>1 DEF Under
    <3>4. taken + 1 \in 0..Len(program) /\ Len(todo'[t]) = Len(program) - (taken + 1)
      BY <1>3, <1>4, <3>2, <3>3
    <3>5. \A n \in 1..Len(todo'[t]) : todo'[t][n] = program[(taken + 1) + n]
      <4>1. \A n \in 1..Len(todo'[t]) : n + 1 \in 1..Len(todo[t]) /\ taken + (n + 1) = (taken + 1) + n
        BY <1>3, <1>4
      <4>2. QED
        BY <1>3, <1>4, <3>3, <4>1
    <3>6. locks'[t] = {program[m] : m \in 1..taken + 1}
      <4>1. h = program[taken + 1]
        BY <1>3, <3>3
      <4>2. 1..taken + 1 = (1..taken) \cup {taken + 1}
        OBVIOUS
      <4>3. QED
        BY <1>4, <3>3, <4>1, <4>2
    <3>7. Under(t, program, taken + 1)'
      BY <3>4, <3>5, <3>6 DEF Under
    <3>8. taken + 1 \in Nat
      OBVIOUS
    <3>9. QED
      BY <2>1, <3>1, <3>7, <3>8 DEF Follows
  <2>2. CASE u # t
    <3>1. todo'[u] = todo[u] /\ locks'[u] = locks[u] /\ Follows(u)
      BY <1>4, <2>2 DEF LockInv
    <3>2. QED
      BY <3>1 DEF Follows, Under
  <2>3. QED
    BY <2>1, <2>2
<1>8. QED
  BY <1>1, <1>5, <1>6, <1>7 DEF LockInv

\* A transaction ends, with its work done or not.
LEMMA EndingKeepsOrder ==
  ASSUME LockInv, NEW t \in Requests, L!End(t)
  PROVE  LockInv'
<1>1. /\ year' = year /\ todo' = [todo EXCEPT ![t] = <<>>] /\ locks' = [locks EXCEPT ![t] = {}]
      /\ todo \in [Requests -> Seq(Locks)] /\ locks \in [Requests -> SUBSET Locks]
  BY DEF L!End, LockInv
<1>2. <<>> \in Seq(Locks)
  BY EmptySeq
<1>3. todo' \in [Requests -> Seq(Locks)] /\ locks' \in [Requests -> SUBSET Locks]
  BY <1>1, <1>2
<1>4. /\ todo'[t] = <<>> /\ locks'[t] = {}
      /\ \A u \in Requests : u # t => todo'[u] = todo[u] /\ locks'[u] = locks[u]
  BY <1>1
<1>5. ASSUME NEW a \in Requests, NEW b \in Requests, NEW l \in locks'[a] \cap locks'[b] PROVE a = b
  BY <1>4, <1>5 DEF LockInv
<1>6. ASSUME NEW u \in Requests PROVE Follows(u)'
  <2>1. CASE u = t
    <3>1. (todo[t])' = <<>> /\ (locks[t])' = {}
      BY <1>4
    <3>2. <<>> \in Seq(Locks) /\ Len(<<>>) = 0
      BY EmptySeq
    <3>3. WellOrdered(<<>>, t)
      BY <3>2 DEF WellOrdered, SequenceFirst, CustomerLast, NewIsOwn, RowsUnderInvoices, PaymentsEarly,
         InvoicesTakeCustomers, RowsAfterInvoices
    <3>4. Under(t, <<>>, 0)'
      BY <3>1, <3>2 DEF Under
    <3>5. QED
      BY <2>1, <3>2, <3>3, <3>4 DEF Follows
  <2>2. CASE u # t
    <3>1. todo'[u] = todo[u] /\ locks'[u] = locks[u] /\ Follows(u)
      BY <1>4, <2>2 DEF LockInv
    <3>2. QED
      BY <3>1 DEF Follows, Under
  <2>3. QED
    BY <2>1, <2>2
<1>7. QED
  BY <1>1, <1>3, <1>5, <1>6 DEF LockInv

\* Every step keeps the order.
LEMMA LocksKeepTheOrder ==
  ASSUME LockOrderParameters, LockInv, [L!Next]_<<year, todo, locks, lockers>>
  PROVE  LockInv'
<1>1. CASE \E t \in Requests : L!Ask(t) \/ L!Acquire(t) \/ L!End(t)
  BY <1>1, AskingKeepsOrder, AcquiringKeepsOrder, EndingKeepsOrder
<1>2. CASE L!NewYear
  <2>1. year' \in Years /\ todo' = todo /\ locks' = locks
    BY <1>2 DEF L!NewYear
  <2>2. ASSUME NEW t \in Requests PROVE Follows(t)'
    <3>1. Follows(t)
      BY DEF LockInv
    <3>2. QED
      BY <2>1, <3>1 DEF Follows, Under
  <2>3. QED
    BY <2>1, <2>2 DEF LockInv
<1>3. CASE UNCHANGED <<year, todo, locks, lockers>>
  <2>1. year' = year /\ todo' = todo /\ locks' = locks
    BY <1>3
  <2>2. ASSUME NEW t \in Requests PROVE Follows(t)'
    <3>1. Follows(t)
      BY DEF LockInv
    <3>2. QED
      BY <2>1, <3>1 DEF Follows, Under
  <2>3. QED
    BY <2>1, <2>2 DEF LockInv
<1>4. QED
  BY <1>1, <1>2, <1>3 DEF L!Next

\* Transactions of PaymentsRepository and InvoicesRepository never wait for one
\* another in a circle, with any invoices, payments and requests in one fiscal
\* year, and over a change of the year when there is one invoice.
THEOREM LocksNeverDeadlock ==
  ASSUME LockOrderParameters
  PROVE  L!Spec => []NeverDeadlock
<1>1. L!Init => LockInv
  BY LocksStart
<1>2. LockInv /\ [L!Next]_L!vars => LockInv'
  BY LocksKeepTheOrder DEF L!vars
<1>3. LockInv => NeverDeadlock
  BY NoCircle DEF NeverDeadlock
<1>4. QED
  BY <1>1, <1>2, <1>3, PTL DEF L!Spec

-----------------------------------------------------------------------------
(* CashBook.                                                               *)

\* Finiteness and cardinality are the same for the book.
LEMMA SetsAreSets == \A S : (B!IsFiniteSet(S) <=> IsFiniteSet(S)) /\ B!Cardinality(S) = Cardinality(S)
BY DEF IsFiniteSet, Cardinality, B!IsFiniteSet, B!Cardinality

Links == ({"payment"} \X Payments) \cup ({"expense"} \X Int)

Sent ==
  [op : {"spend"}, amount : BookAmounts, account : Accounts \cup {NoAccount, "unknown"}]
  \cup [op : {"unspend"}, of : B!Ids]
  \cup [op : {"enter"}, amount : BookAmounts, account : Accounts, link : Links \cup {None}]
  \cup [op : {"undo"}, of : B!Ids, account : Accounts]

BookLabels == {"idle", "claim", "spend", "lock", "read", "once", "mirror", "look", "enter", "commit"}

BookTransaction ==
  [pc : BookLabels, req : Sent \cup {[op |-> "none"]}, id : Nat, no : Nat,
   spent : SUBSET B!ExpenseRows, entered : SUBSET B!LineRows]

BookTypes ==
  /\ tx \in [Requests -> BookTransaction]
  /\ lock \in [B!Ids -> Requests \cup {None}]
  /\ asked \in 0..BookRequests
  /\ \A t \in Requests : IF tx[t].pc = "idle" THEN tx[t] = B!Idle ELSE tx[t].req \in Sent

\* A request under way has a number of its own, which is the id of no row.
Numbered ==
  /\ \A r \in expenses \cup lines : r.id \in B!Ids /\ r.id <= asked
  /\ \A t \in Requests : tx[t].pc # "idle" =>
       /\ tx[t].id \in 1..asked
       /\ \A r \in expenses \cup lines : r.id # tx[t].id
       /\ \A u \in B!Others(t) : tx[u].id # tx[t].id

\* The advisory lock of a row is held by a reversal of that row.
LocksFit ==
  \A i \in B!Ids : lock[i] # None =>
    tx[lock[i]].req.op \in {"unspend", "undo"} /\ tx[lock[i]].req.of = i

\* Each request is at a statement of its handler.
AtItsStatement(t) ==
  LET x == tx[t] IN
  /\ x.pc = "claim" => x.req.op \in {"spend", "unspend"} /\ x.no = 0
  /\ x.pc = "spend" => x.req.op = "spend"
  /\ x.pc \in {"lock", "read", "once", "mirror"} => x.req.op \in {"unspend", "undo"}
  /\ x.pc \in {"look", "enter"} => x.req.op = "enter"
  /\ x.pc \notin {"idle", "claim"} => (x.no # 0 <=> x.req.op \in {"spend", "unspend"})
  /\ x.pc # "commit" => x.spent = {} /\ x.entered = {}

\* A number that is claimed is the next one, and nobody else has claimed one.
HoldsTheCounter(t) ==
  tx[t].no # 0 => tx[t].no = counter + 1 /\ \A u \in B!Others(t) : tx[u].no = 0

\* What a reversal has found out stays so, by the lock of its row.
TakesBack(t, op, set) ==
  LET x == tx[t] IN
  x.req.op = op =>
    /\ B!Has(set, x.req.of)
    /\ x.pc \in {"read", "once", "mirror", "commit"} => lock[x.req.of] = t
    /\ x.pc \in {"once", "mirror", "commit"} => B!Row(set, x.req.of).of = None
    /\ x.pc \in {"mirror", "commit"} => ~B!Reversed(set, x.req.of)

\* A reversal of a line has found it without a link.
NotLinked(t) ==
  tx[t].req.op = "undo" /\ tx[t].pc \in {"once", "mirror", "commit"} =>
    B!Row(lines, tx[t].req.of).link = None

\* What a new line is to be linked to is there, of its account, and not linked.
EntersALink(t) ==
  LET x == tx[t] IN
  x.req.op = "enter" /\ x.req.link # None =>
    /\ x.req.link \in B!Documents
    /\ x.pc \in {"enter", "commit"} => B!LinkAllowed(x.req)
    /\ x.pc = "commit" =>
         /\ ~B!LinkTaken(x.req.link)
         /\ \A u \in B!Others(t) :
              tx[u].pc = "commit" /\ tx[u].req.op = "enter" => tx[u].req.link # x.req.link

\* What a request is about to commit.
Writes(t) ==
  LET x == tx[t] IN
  x.pc = "commit" =>
    /\ x.req.op = "spend" =>
         /\ x.req.account # "unknown" /\ x.entered = {}
         /\ x.spent = {B!Expense(x.id, x.no, x.req.amount, x.req.account, None)}
    /\ x.req.op = "unspend" =>
         /\ x.entered = {}
         /\ x.spent = {B!MirrorExpense(B!Row(expenses, x.req.of), x)}
    /\ x.req.op = "enter" =>
         /\ x.spent = {}
         /\ x.entered = {B!Line(x.id, x.req.amount, x.req.account, x.req.link, None)}
    /\ x.req.op = "undo" =>
         /\ x.spent = {}
         /\ x.entered = {B!MirrorLine(B!Row(lines, x.req.of), x)}

Fits(t) ==
  /\ AtItsStatement(t)
  /\ HoldsTheCounter(t)
  /\ TakesBack(t, "unspend", expenses) /\ TakesBack(t, "undo", lines) /\ NotLinked(t)
  /\ EntersALink(t)
  /\ Writes(t)

BookInv ==
  /\ BookTypes
  /\ Numbered
  /\ LocksFit
  /\ B!Sound(expenses, lines)
  /\ counter = Cardinality(expenses)
  /\ \A t \in Requests : Fits(t)

-----------------------------------------------------------------------------
(* Rows.                                                                   *)

\* Where an id is that of one row, Row finds it.
LEMMA RowIsThere ==
  ASSUME NEW set, NEW id, B!Has(set, id)
  PROVE  B!Row(set, id) \in set /\ B!Row(set, id).id = id
BY DEF B!Has, B!Row

\* Row of the id of a row is that row.
LEMMA RowIsTheOne ==
  ASSUME NEW set, B!OneRowPerId(set), NEW r \in set
  PROVE  B!Row(set, r.id) = r /\ B!Has(set, r.id)
<1>1. B!Has(set, r.id)
  BY DEF B!Has
<1>2. QED
  BY <1>1, RowIsThere DEF B!OneRowPerId

\* A row stays found when others are added.
LEMMA RowStays ==
  ASSUME NEW set, NEW more, B!OneRowPerId(set \cup more), NEW id, B!Has(set, id)
  PROVE  B!Has(set \cup more, id) /\ B!Row(set \cup more, id) = B!Row(set, id)
<1>1. B!Row(set, id) \in set \cup more /\ B!Row(set, id).id = id
  BY RowIsThere
<1>2. QED
  BY <1>1, RowIsTheOne

\* What can be said of a set of rows with one more.
LEMMA OneMoreRow ==
  ASSUME NEW set, B!OneRowPerId(set), B!FlatAndSingle(set), B!MirrorsCancel(set),
         NEW r, r.id # None, \A s \in set : s.id # r.id,
         r.of # None =>
           /\ B!Has(set, r.of) /\ B!Row(set, r.of).of = None /\ ~B!Reversed(set, r.of)
           /\ r.account = B!Row(set, r.of).account /\ r.amount = -B!Row(set, r.of).amount
  PROVE  /\ B!OneRowPerId(set \cup {r})
         /\ B!FlatAndSingle(set \cup {r})
         /\ B!MirrorsCancel(set \cup {r})
         /\ \A s \in set : s.of # r.id \/ s.of = None
<1> DEFINE all == set \cup {r}
<1>1. B!OneRowPerId(all)
  BY DEF B!OneRowPerId
<1>2. \A id : B!Has(set, id) => B!Has(all, id) /\ B!Row(all, id) = B!Row(set, id)
  BY <1>1, RowStays
<1>3. \A s \in set : s.of # r.id \/ s.of = None
  BY DEF B!FlatAndSingle, B!Has
<1>4. B!FlatAndSingle(all)
  <2>1. ASSUME NEW m \in all, m.of # None
        PROVE  /\ B!Has(all, m.of) /\ B!Row(all, m.of).of = None
               /\ m.account = B!Row(all, m.of).account
    BY <1>2, <2>1 DEF B!FlatAndSingle
  <2>2. ASSUME NEW m \in all, m.of # None, NEW n \in all, n.of = m.of PROVE n = m
    BY <2>2 DEF B!FlatAndSingle, B!Reversed
  <2>3. QED
    BY <2>1, <2>2 DEF B!FlatAndSingle
<1>5. B!MirrorsCancel(all)
  BY <1>2 DEF B!MirrorsCancel, B!FlatAndSingle
<1>6. QED
  BY <1>1, <1>3, <1>4, <1>5

\* The account of a document stays when expenses are added.
LEMMA AccountStays ==
  ASSUME NEW spent, NEW more, B!OneRowPerId(spent \cup more), NEW d \in B!DocumentsWith(spent)
  PROVE  d \in B!DocumentsWith(spent \cup more) /\ B!AccountWith(spent \cup more, d) = B!AccountWith(spent, d)
<1>1. CASE \E p \in Payments : d = <<"payment", p>>
  BY <1>1 DEF B!DocumentsWith, B!AccountWith
<1>2. CASE \E e \in spent : d = <<"expense", e.id>>
  <2>1. PICK e \in spent : d = <<"expense", e.id>>
    BY <1>2
  <2>2. B!Has(spent, d[2])
    BY <2>1 DEF B!Has
  <2>3. B!Row(spent \cup more, d[2]) = B!Row(spent, d[2])
    BY <2>2, RowStays
  <2>4. QED
    BY <2>1, <2>3 DEF B!DocumentsWith, B!AccountWith
<1>3. QED
  BY <1>1, <1>2 DEF B!DocumentsWith

\* An expense with the next number and a fresh id, that is no mirror or the first of
\* an original, keeps books sound.
LEMMA OneMoreExpense ==
  ASSUME NEW spent, NEW entered, B!Sound(spent, entered),
         NEW e \in B!ExpenseRows, e.id # None, \A s \in spent : s.id # e.id,
         e.no = Cardinality(spent) + 1,
         e.of # None =>
           /\ B!Has(spent, e.of) /\ B!Row(spent, e.of).of = None /\ ~B!Reversed(spent, e.of)
           /\ e.account = B!Row(spent, e.of).account /\ e.amount = -B!Row(spent, e.of).amount
  PROVE  B!Sound(spent \cup {e}, entered) /\ Cardinality(spent \cup {e}) = Cardinality(spent) + 1
<1>1. B!OneRowPerId(spent \cup {e}) /\ B!FlatAndSingle(spent \cup {e}) /\ B!MirrorsCancel(spent \cup {e})
  BY OneMoreRow DEF B!Sound
<1>2. /\ IsFiniteSet(spent \cup {e}) /\ e \notin spent
      /\ Cardinality(spent \cup {e}) = Cardinality(spent) + 1 /\ Cardinality(spent) \in Nat
  BY FS_AddElement, FS_CardinalityType, SetsAreSets DEF B!Sound
<1>3. B!Gapless(spent \cup {e})
  <2>1. {s.no : s \in spent \cup {e}} = {s.no : s \in spent} \cup {e.no}
    OBVIOUS
  <2>2. 1..(Cardinality(spent) + 1) = (1..Cardinality(spent)) \cup {Cardinality(spent) + 1}
    BY <1>2
  <2>3. QED
    BY <1>2, <2>1, <2>2, SetsAreSets DEF B!Sound, B!Gapless
<1>4. B!LinksFit(spent \cup {e}, entered)
  <2>1. ASSUME NEW d \in B!DocumentsWith(spent)
        PROVE  /\ d \in B!DocumentsWith(spent \cup {e})
               /\ B!AccountWith(spent \cup {e}, d) = B!AccountWith(spent, d)
    BY <1>1, AccountStays
  <2>2. B!LinksFit(spent, entered)
    BY DEF B!Sound
  <2>3. QED
    BY <2>1, <2>2 DEF B!LinksFit
<1>5. QED
  BY <1>1, <1>2, <1>3, <1>4, SetsAreSets DEF B!Sound

\* A line with a fresh id, that is linked to a document nobody has linked or is the
\* first mirror of a line without a link, keeps books sound.
LEMMA OneMoreLine ==
  ASSUME None \notin Int, NEW spent, NEW entered, B!Sound(spent, entered),
         NEW l \in B!LineRows, l.id # None, \A s \in entered : s.id # l.id,
         l.of # None =>
           /\ B!Has(entered, l.of) /\ B!Row(entered, l.of).of = None /\ ~B!Reversed(entered, l.of)
           /\ l.account = B!Row(entered, l.of).account /\ l.amount = -B!Row(entered, l.of).amount
           /\ B!Row(entered, l.of).link = None,
         l.link # None =>
           /\ l.link \in B!DocumentsWith(spent) /\ B!AccountWith(spent, l.link) \in {NoAccount, l.account}
           /\ l.of = None /\ \A s \in entered : s.link # l.link
  PROVE  B!Sound(spent, entered \cup {l})
<1> DEFINE all == entered \cup {l}
<1>1. /\ B!OneRowPerId(all) /\ B!FlatAndSingle(all) /\ B!MirrorsCancel(all)
      /\ \A s \in entered : s.of # l.id \/ s.of = None
  BY OneMoreRow DEF B!Sound
<1>2. ASSUME NEW s \in all, s.link # None
      PROVE  s.of = None /\ ~B!Reversed(all, s.id)
  <2>1. CASE s = l
    <3>1. l.of = None
      BY <1>2, <2>1
    <3>2. \A k \in all : k.of # l.id
      BY <1>1, <3>1
    <3>3. QED
      BY <2>1, <3>1, <3>2 DEF B!Reversed
  <2>2. CASE s \in entered
    <3>1. s.of = None /\ ~B!Reversed(entered, s.id)
      BY <1>2, <2>2 DEF B!Sound, B!LinksFit
    <3>2. B!Row(entered, s.id) = s
      BY <2>2, RowIsTheOne DEF B!Sound
    <3>3. s.id # None
      BY <2>2 DEF B!Sound, B!LineRows
    <3>4. l.of # s.id
      BY <1>2, <3>2, <3>3
    <3>5. QED
      BY <3>1, <3>4 DEF B!Reversed
  <2>3. QED
    BY <2>1, <2>2
<1>3. ASSUME NEW s \in all, s.link # None
      PROVE  /\ s.link \in B!DocumentsWith(spent) /\ B!AccountWith(spent, s.link) \in {NoAccount, s.account}
             /\ \A k \in all : k.link = s.link => k = s
  BY <1>3 DEF B!Sound, B!LinksFit
<1>4. B!LinksFit(spent, all)
  BY <1>2, <1>3 DEF B!LinksFit
<1>5. IsFiniteSet(all)
  BY FS_AddElement, SetsAreSets DEF B!Sound
<1>6. QED
  BY <1>1, <1>4, <1>5, SetsAreSets DEF B!Sound

-----------------------------------------------------------------------------
(* Steps that commit nothing.                                              *)

\* The transaction of a request.
LEMMA TransactionOf ==
  ASSUME BookTypes, NEW t \in Requests
  PROVE  /\ tx[t] \in BookTransaction
         /\ tx[t].pc \in BookLabels /\ tx[t].no \in Nat /\ tx[t].id \in Nat
         /\ tx[t].req.op \in {"unspend", "undo"} => tx[t].req.of \in B!Ids
         /\ tx[t].pc # "idle" => tx[t].req \in Sent
         /\ tx[t].pc = "idle" => tx[t] = B!Idle
<1>1. tx[t] \in BookTransaction
  BY DEF BookTypes
<1>2. tx[t].req \in Sent \cup {[op |-> "none"]}
  BY <1>1 DEF BookTransaction
<1>3. tx[t].req.op \in {"unspend", "undo"} => tx[t].req.of \in B!Ids
  BY <1>2 DEF Sent
<1>4. QED
  BY <1>1, <1>3 DEF BookTypes, BookTransaction

\* What a step of one request leaves of another, when it writes to no book.
LEMMA OthersStillFit ==
  ASSUME BookInv, NEW t \in Requests, NEW x, B!Become(t, x), UNCHANGED <<expenses, lines, counter>>,
         NEW u \in B!Others(t),
         \A i \in B!Ids : lock[i] = u => lock'[i] = u,
         x.no # 0 => tx[u].no = 0,
         x.pc = "commit" /\ x.req.op = "enter" /\ tx[u].pc = "commit" /\ tx[u].req.op = "enter"
           /\ tx[u].req.link # None => tx[u].req.link # x.req.link
  PROVE  Fits(u)'
<1>1. tx' = [tx EXCEPT ![t] = x] /\ tx \in [Requests -> BookTransaction] /\ u \in Requests /\ u # t
  BY DEF B!Become, B!Others, BookInv, BookTypes
<1>2. tx'[u] = tx[u] /\ tx'[t] = x
  BY <1>1
<1>3. Fits(u)
  BY <1>1 DEF BookInv
<1>4. AtItsStatement(u)'
  BY <1>2, <1>3 DEF Fits, AtItsStatement
<1>5. HoldsTheCounter(u)'
  <2>1. ASSUME tx'[u].no # 0, NEW v \in B!Others(u) PROVE tx'[v].no = 0
    <3>1. CASE v = t
      BY <1>2, <2>1, <3>1
    <3>2. CASE v # t
      BY <1>1, <1>2, <1>3, <2>1, <3>2 DEF Fits, HoldsTheCounter, B!Others
    <3>3. QED
      BY <3>1, <3>2
  <2>2. QED
    BY <1>2, <1>3, <2>1 DEF Fits, HoldsTheCounter, B!Others
<1>6. tx[u].req.op \in {"unspend", "undo"} => tx[u].req.of \in B!Ids
  BY <1>1, TransactionOf DEF BookInv
<1>7. TakesBack(u, "unspend", expenses)' /\ TakesBack(u, "undo", lines)'
  BY <1>2, <1>3, <1>6 DEF Fits, TakesBack
<1>8. NotLinked(u)'
  BY <1>2, <1>3 DEF Fits, NotLinked
<1>9. EntersALink(u)'
  <2>1. B!Documents' = B!Documents /\ B!LinkTaken(tx[u].req.link)' = B!LinkTaken(tx[u].req.link)
    BY <1>2 DEF B!Documents, B!LinkTaken, B!LinkedBy
  <2>3. B!LinkAllowed(tx[u].req)' = B!LinkAllowed(tx[u].req)
    BY <1>2 DEF B!LinkAllowed, B!AccountOfDocument
  <2>4. ASSUME tx[u].req.op = "enter", tx[u].req.link # None, tx[u].pc = "commit",
               NEW v \in B!Others(u), tx'[v].pc = "commit", tx'[v].req.op = "enter"
        PROVE  tx'[v].req.link # tx[u].req.link
    <3>1. CASE v = t
      BY <1>2, <2>4, <3>1
    <3>2. CASE v # t
      BY <1>1, <1>2, <1>3, <2>4, <3>2 DEF Fits, EntersALink, B!Others
    <3>3. QED
      BY <3>1, <3>2
  <2>5. EntersALink(u)
    BY <1>3 DEF Fits
  <2>6. QED
    BY <1>2, <2>1, <2>3, <2>4, <2>5 DEF EntersALink
<1>10. Writes(u)'
  BY <1>2, <1>3 DEF Fits, Writes
<1>11. QED
  BY <1>4, <1>5, <1>7, <1>8, <1>9, <1>10 DEF Fits

\* A statement that writes to no book, and may take the lock of the row to reverse.
LEMMA StatementStep ==
  ASSUME CashBookParameters, BookInv, NEW t \in Requests, tx[t].pc # "idle",
         NEW x \in BookTransaction, B!Become(t, x), UNCHANGED <<expenses, lines, counter, asked>>,
         x.pc # "idle", x.req = tx[t].req, x.id = tx[t].id,
         x.no # 0 => x.no = tx[t].no \/ B!CounterFree(t),
         \/ UNCHANGED lock
         \/ B!TakeLock(t) /\ x.req.op \in {"unspend", "undo"},
         x.pc = "commit" /\ x.req.op = "enter" =>
           \A u \in B!Others(t) : ~B!LinkedBy(tx[u].entered, x.req.link),
         Fits(t)'
  PROVE  BookInv'
<1>1. /\ tx' = [tx EXCEPT ![t] = x] /\ tx \in [Requests -> BookTransaction]
      /\ tx'[t] = x /\ \A u \in B!Others(t) : u \in Requests /\ tx'[u] = tx[u]
  BY DEF B!Become, B!Others, BookInv, BookTypes
<1>2. /\ lock' \in [B!Ids -> Requests \cup {None}]
      /\ \A i \in B!Ids : \/ lock'[i] = lock[i]
                        \/ /\ lock[i] = None /\ lock'[i] = t
                           /\ i = x.req.of /\ x.req.op \in {"unspend", "undo"}
  <2>1. tx[t].req.op \in {"unspend", "undo"} => tx[t].req.of \in B!Ids
    BY TransactionOf DEF BookInv
  <2>2. lock \in [B!Ids -> Requests \cup {None}]
    BY DEF BookInv, BookTypes
  <2>3. CASE UNCHANGED lock
    BY <2>2, <2>3
  <2>4. CASE B!TakeLock(t) /\ x.req.op \in {"unspend", "undo"}
    <3>1. lock' = [lock EXCEPT ![x.req.of] = t] /\ lock[x.req.of] = None /\ x.req.of \in B!Ids
      BY <2>1, <2>4 DEF B!TakeLock
    <3>2. QED
      BY <2>2, <2>4, <3>1
  <2>5. QED
    BY <2>3, <2>4
<1>3. BookTypes'
  BY <1>1, <1>2 DEF BookInv, BookTypes, B!Others
<1>4. Numbered'
  BY <1>1 DEF BookInv, Numbered, B!Others
<1>5. LocksFit'
  BY <1>1, <1>2 DEF BookInv, LocksFit, BookTypes, B!Others
<1>6. ASSUME NEW u \in B!Others(t) PROVE Fits(u)'
  <2>1. \A i \in B!Ids : lock[i] = u => lock'[i] = u
    BY <1>1, <1>2, <1>6 DEF CashBookParameters, B!NoneIsApart
  <2>2. x.no # 0 => tx[u].no = 0
    BY <1>6 DEF B!CounterFree, BookInv, Fits, HoldsTheCounter
  <2>3. ASSUME x.pc = "commit", x.req.op = "enter", tx[u].pc = "commit", tx[u].req.op = "enter",
               tx[u].req.link # None
        PROVE  tx[u].req.link # x.req.link
    <3>1. tx[u].entered = {B!Line(tx[u].id, tx[u].req.amount, tx[u].req.account, tx[u].req.link, None)}
      BY <1>1, <1>6, <2>3 DEF BookInv, Fits, Writes
    <3>2. QED
      BY <1>6, <2>3, <3>1, ~B!LinkedBy(tx[u].entered, x.req.link) DEF B!LinkedBy, B!Line
  <2>4. QED
    BY <1>6, <2>1, <2>2, <2>3, OthersStillFit
<1>7. QED
  BY <1>3, <1>4, <1>5, <1>6 DEF BookInv, B!Others

\* A transaction that ends without a commit leaves nothing.
LEMMA EndStep ==
  ASSUME CashBookParameters, BookInv, NEW t \in Requests, B!End(t), UNCHANGED <<expenses, lines, counter, asked>>
  PROVE  BookInv'
<1>1. /\ tx' = [tx EXCEPT ![t] = B!Idle] /\ tx \in [Requests -> BookTransaction]
      /\ tx'[t] = B!Idle /\ \A u \in B!Others(t) : u \in Requests /\ tx'[u] = tx[u]
  BY DEF B!End, B!Become, B!Others, BookInv, BookTypes
<1>2. /\ lock' \in [B!Ids -> Requests \cup {None}]
      /\ \A i \in B!Ids : lock'[i] = IF lock[i] = t THEN None ELSE lock[i]
  BY DEF B!End, B!Released, BookInv, BookTypes
<1>3. B!Idle \in BookTransaction /\ B!Idle.pc = "idle" /\ B!Idle.no = 0 /\ B!Idle.req.op = "none" /\ B!Idle.id = 0
  BY DEF B!Idle, BookTransaction, BookLabels
<1>4. BookTypes'
  BY <1>1, <1>2, <1>3 DEF BookInv, BookTypes, B!Others
<1>5. Numbered'
  BY <1>1, <1>3 DEF BookInv, Numbered, B!Others
<1>6. LocksFit'
  BY <1>1, <1>2, B!NoneIsApart DEF BookInv, LocksFit, BookTypes, B!Others, CashBookParameters
<1>7. Fits(t)'
  BY <1>1, <1>3 DEF Fits, AtItsStatement, HoldsTheCounter, TakesBack, NotLinked, EntersALink, Writes, B!Idle
<1>8. ASSUME NEW u \in B!Others(t) PROVE Fits(u)'
  <2>1. B!Become(t, B!Idle) /\ \A i \in B!Ids : lock[i] = u => lock'[i] = u
    BY <1>2, <1>8 DEF B!Others, B!End
  <2>2. QED
    BY <1>3, <1>8, <2>1, OthersStillFit
<1>9. QED
  BY <1>4, <1>5, <1>6, <1>7, <1>8 DEF BookInv, B!Others

-----------------------------------------------------------------------------
(* Requests.                                                               *)

\* What can be sent is a request, about rows and documents that are there.
LEMMA SendableIs ==
  ASSUME CashBookParameters, BookInv, NEW req \in B!Sendable
  PROVE  /\ req \in Sent /\ req.op \in {"spend", "unspend", "enter", "undo"}
         /\ req.op = "unspend" => B!Has(expenses, req.of)
         /\ req.op = "undo" => B!Has(lines, req.of)
         /\ req.op = "enter" /\ req.link # None => req.link \in B!Documents
<1>1. /\ {e.id : e \in expenses} \subseteq B!Ids /\ {l.id : l \in lines} \subseteq B!Ids
      /\ \A e \in expenses : e.id \in Int
  BY DEF BookInv, Numbered, B!Sound, B!ExpenseRows
<1>2. B!Documents \subseteq Links
  BY <1>1 DEF B!Documents, B!DocumentsWith, Links
<1>3. CASE req \in [op : {"spend"}, amount : BookAmounts, account : Accounts \cup {NoAccount, "unknown"}]
  BY <1>3 DEF Sent
<1>4. CASE req \in [op : {"unspend"}, of : {e.id : e \in expenses}]
  BY <1>1, <1>4 DEF Sent, B!Has
<1>5. CASE req \in [op : {"enter"}, amount : BookAmounts, account : Accounts, link : B!Documents \cup {None}]
  BY <1>2, <1>5 DEF Sent
<1>6. CASE req \in [op : {"undo"}, of : {l.id : l \in lines}, account : Accounts]
  BY <1>1, <1>6 DEF Sent, B!Has
<1>7. QED
  BY <1>3, <1>4, <1>5, <1>6 DEF B!Sendable

\* The fields of a request.
LEMMA FieldsOf ==
  ASSUME NEW req \in Sent
  PROVE  /\ req.op \in {"spend", "unspend", "enter", "undo"}
         /\ req.op = "spend" =>
              req.amount \in BookAmounts /\ req.account \in Accounts \cup {NoAccount, "unknown"}
         /\ req.op = "enter" =>
              /\ req.amount \in BookAmounts /\ req.account \in Accounts
              /\ req.link \in Links \cup {None}
         /\ req.op \in {"unspend", "undo"} => req.of \in B!Ids
BY DEF Sent

\* A request begins with a number of its own.
LEMMA AskStep ==
  ASSUME CashBookParameters, BookInv, NEW t \in Requests, B!Ask(t)
  PROVE  BookInv'
<1>1. PICK req \in B!Sendable :
        /\ tx[t] = B!Idle /\ asked < BookRequests /\ asked' = asked + 1
        /\ B!Become(t, [B!Idle EXCEPT !.req = req, !.id = asked + 1, !.pc = B!FirstStep[req.op]])
        /\ UNCHANGED <<expenses, lines, counter, lock, crashes>>
  BY DEF B!Ask
<1> DEFINE x == [B!Idle EXCEPT !.req = req, !.id = asked + 1, !.pc = B!FirstStep[req.op]]
<1>2. /\ req \in Sent /\ req.op \in {"spend", "unspend", "enter", "undo"}
      /\ req.op = "unspend" => B!Has(expenses, req.of)
      /\ req.op = "undo" => B!Has(lines, req.of)
      /\ req.op = "enter" /\ req.link # None => req.link \in B!Documents
  BY SendableIs
<1>3. /\ x.req = req /\ x.id = asked + 1 /\ x.no = 0 /\ x.spent = {} /\ x.entered = {}
      /\ x.pc = B!FirstStep[req.op]
  BY DEF B!Idle
<1>4. /\ req.op \in {"spend", "unspend"} => x.pc = "claim"
      /\ req.op = "enter" => x.pc = "look"
      /\ req.op = "undo" => x.pc = "lock"
  BY <1>3 DEF B!FirstStep
<1>5. asked \in Nat /\ BookRequests \in Nat /\ asked' \in 0..BookRequests
  BY <1>1 DEF BookInv, BookTypes, CashBookParameters, B!BoundIsNatural
<1>6. x \in BookTransaction
  <2>1. B!FirstStep[req.op] \in BookLabels /\ asked + 1 \in Nat
    BY <1>2, <1>3, <1>4, <1>5 DEF BookLabels
  <2>2. ASSUME NEW a \in Sent, NEW i \in Nat, NEW l \in BookLabels
        PROVE  [B!Idle EXCEPT !.req = a, !.id = i, !.pc = l] \in BookTransaction
    BY <2>2 DEF B!Idle, BookTransaction
  <2>3. QED
    BY <1>2, <2>1, <2>2
<1> HIDE DEF x
<1>7. /\ tx' = [tx EXCEPT ![t] = x] /\ tx \in [Requests -> BookTransaction]
      /\ tx'[t] = x /\ \A u \in B!Others(t) : u \in Requests /\ tx'[u] = tx[u]
  BY <1>1 DEF B!Become, B!Others, BookInv, BookTypes, x
<1>8. BookTypes'
  BY <1>1, <1>2, <1>3, <1>4, <1>5, <1>6, <1>7 DEF BookInv, BookTypes, B!Others
<1>9. Numbered'
  <2>1. \A u \in Requests : tx[u].id <= asked
    BY <1>5, TransactionOf DEF BookInv, Numbered, B!Idle
  <2>2. \A u \in Requests : tx[u].id \in Nat
    BY TransactionOf DEF BookInv
  <2>3. \A r \in expenses \cup lines : r.id \in Int /\ r.id <= asked /\ r.id \in B!Ids
    BY DEF BookInv, Numbered, B!Sound, B!ExpenseRows, B!LineRows
  <2>4. QED
    BY <1>1, <1>3, <1>5, <1>7, <2>1, <2>2, <2>3 DEF BookInv, Numbered, B!Others
<1>10. tx[t].req.op = "none"
  BY <1>1 DEF B!Idle
<1>11. LocksFit'
  BY <1>1, <1>7, <1>10 DEF BookInv, LocksFit, BookTypes, B!Others
<1>12. Fits(t)'
  <2>1. AtItsStatement(t)' /\ HoldsTheCounter(t)' /\ NotLinked(t)' /\ Writes(t)'
    BY <1>2, <1>3, <1>4, <1>7 DEF AtItsStatement, HoldsTheCounter, NotLinked, Writes
  <2>2. TakesBack(t, "unspend", expenses)' /\ TakesBack(t, "undo", lines)'
    BY <1>1, <1>2, <1>3, <1>4, <1>7 DEF TakesBack
  <2>3. B!Documents' = B!Documents
    BY <1>1 DEF B!Documents
  <2>4. EntersALink(t)'
    BY <1>2, <1>3, <1>4, <1>7, <2>3 DEF EntersALink
  <2>5. QED
    BY <2>1, <2>2, <2>4 DEF Fits
<1>13. ASSUME NEW u \in B!Others(t) PROVE Fits(u)'
  BY <1>1, <1>2, <1>3, <1>4, <1>13, OthersStillFit DEF x
<1>14. QED
  BY <1>1, <1>8, <1>9, <1>11, <1>12, <1>13 DEF BookInv, B!Others

\* A number is claimed where nobody holds the counter.
LEMMA ClaimNumberStep ==
  ASSUME CashBookParameters, BookInv, NEW t \in Requests, B!ClaimNumber(t)
  PROVE  BookInv'
<1> DEFINE x == [tx[t] EXCEPT !.no = counter + 1, !.pc = IF tx[t].req.op = "spend" THEN "spend" ELSE "lock"]
<1>1. /\ tx[t].pc = "claim" /\ B!CounterFree(t) /\ B!Become(t, x)
      /\ UNCHANGED <<expenses, lines, counter, lock, asked, crashes>>
  BY DEF B!ClaimNumber
<1>2. tx[t] \in BookTransaction /\ Fits(t) /\ BookTypes
  BY DEF BookInv, BookTypes
<1>3. tx[t].req.op \in {"spend", "unspend"} /\ tx[t].spent = {} /\ tx[t].entered = {}
  BY <1>1, <1>2 DEF Fits, AtItsStatement
<1>4. counter \in Nat
  BY FS_CardinalityType, SetsAreSets DEF BookInv, B!Sound
<1>5. /\ x \in BookTransaction /\ x.req = tx[t].req /\ x.id = tx[t].id /\ x.no = counter + 1
      /\ x.spent = {} /\ x.entered = {}
      /\ x.pc = IF tx[t].req.op = "spend" THEN "spend" ELSE "lock"
  <2>1. counter + 1 \in Nat /\ (IF tx[t].req.op = "spend" THEN "spend" ELSE "lock") \in BookLabels
    BY <1>4 DEF BookLabels
  <2>2. x \in BookTransaction
    BY <1>2, <2>1 DEF BookTransaction
  <2>3. QED
    BY <1>2, <1>3, <2>2 DEF BookTransaction
<1> HIDE DEF x
<1>6. tx' = [tx EXCEPT ![t] = x] /\ tx'[t] = x /\ \A u \in B!Others(t) : tx'[u] = tx[u]
  BY <1>1, <1>2 DEF B!Become, B!Others, BookTypes
<1>7. Fits(t)'
  <2>1. AtItsStatement(t)' /\ NotLinked(t)' /\ Writes(t)' /\ EntersALink(t)'
    BY <1>3, <1>4, <1>5, <1>6 DEF AtItsStatement, NotLinked, Writes, EntersALink
  <2>2. HoldsTheCounter(t)'
    BY <1>1, <1>5, <1>6 DEF HoldsTheCounter, B!CounterFree, B!Others
  <2>3. TakesBack(t, "unspend", expenses)' /\ TakesBack(t, "undo", lines)'
    BY <1>1, <1>2, <1>3, <1>5, <1>6 DEF Fits, TakesBack
  <2>4. QED
    BY <2>1, <2>2, <2>3 DEF Fits
<1>8. QED
  BY <1>1, <1>5, <1>7, StatementStep

\* A transaction that goes on is a transaction.
LEMMA GoesOn ==
  ASSUME NEW y \in BookTransaction, NEW label \in BookLabels,
         NEW spent \in SUBSET B!ExpenseRows, NEW entered \in SUBSET B!LineRows
  PROVE  /\ [y EXCEPT !.pc = label] \in BookTransaction
         /\ [y EXCEPT !.pc = label, !.spent = spent] \in BookTransaction
         /\ [y EXCEPT !.pc = label, !.entered = entered] \in BookTransaction
BY DEF BookTransaction

\* What the rows of a sound book are.
LEMMA RowsOf ==
  ASSUME BookInv
  PROVE  /\ \A id : B!Has(expenses, id) => B!Row(expenses, id) \in B!ExpenseRows /\ B!Row(expenses, id).id = id
         /\ \A id : B!Has(lines, id) => B!Row(lines, id) \in B!LineRows /\ B!Row(lines, id).id = id
         /\ B!OneRowPerId(expenses) /\ B!OneRowPerId(lines)
BY RowIsThere DEF BookInv, B!Sound

\* The insert of an expense.
LEMMA SpendStep ==
  ASSUME CashBookParameters, BookInv, NEW t \in Requests, B!Spend(t)
  PROVE  BookInv'
<1> DEFINE e == B!Expense(tx[t].id, tx[t].no, tx[t].req.amount, tx[t].req.account, None)
           x == [tx[t] EXCEPT !.pc = "commit", !.spent = {e}]
<1>1. tx[t] \in BookTransaction /\ Fits(t) /\ BookTypes
  BY DEF BookInv, BookTypes
<1>2. tx[t].pc = "spend" /\ tx[t].req.op = "spend" /\ tx[t].entered = {} /\ tx[t].no # 0
  BY <1>1 DEF B!Spend, Fits, AtItsStatement
<1>3. CASE tx[t].req.account = "unknown"
  BY <1>3, EndStep DEF B!Spend
<1>4. CASE tx[t].req.account # "unknown"
  <2>1. B!Become(t, x) /\ UNCHANGED <<expenses, lines, counter, lock, asked, crashes>>
    BY <1>4 DEF B!Spend
  <2>2. tx[t].req \in Sent
    BY <1>1, <1>2, TransactionOf
  <2>3. e \in B!ExpenseRows
    <3>1. tx[t].req.amount \in Int /\ tx[t].req.account \in Accounts \cup {NoAccount}
      BY <1>2, <1>4, <2>2, FieldsOf DEF CashBookParameters, B!AmountsAreWhole
    <3>2. tx[t].id \in Int /\ tx[t].no \in Nat
      BY <1>1, TransactionOf
    <3>3. QED
      BY <3>1, <3>2 DEF B!Expense, B!ExpenseRows
  <2>4. /\ x \in BookTransaction /\ x.req = tx[t].req /\ x.id = tx[t].id /\ x.no = tx[t].no
        /\ x.pc = "commit" /\ x.spent = {e} /\ x.entered = {}
    <3>1. x \in BookTransaction
      BY <1>1, <2>3, GoesOn DEF BookLabels
    <3>2. QED
      BY <1>1, <1>2, <3>1 DEF BookTransaction
  <2> HIDE DEF x
  <2>5. tx' = [tx EXCEPT ![t] = x] /\ tx'[t] = x /\ \A u \in B!Others(t) : tx'[u] = tx[u]
    BY <1>1, <2>1 DEF B!Become, B!Others, BookTypes
  <2>6. Fits(t)'
    <3>1. AtItsStatement(t)' /\ NotLinked(t)' /\ EntersALink(t)'
      BY <1>2, <2>4, <2>5 DEF AtItsStatement, NotLinked, EntersALink
    <3>2. HoldsTheCounter(t)'
      BY <1>1, <2>1, <2>4, <2>5 DEF Fits, HoldsTheCounter, B!Others
    <3>3. TakesBack(t, "unspend", expenses)' /\ TakesBack(t, "undo", lines)'
      BY <1>2, <2>4, <2>5 DEF TakesBack
    <3>4. Writes(t)'
      BY <1>2, <1>4, <2>4, <2>5 DEF Writes
    <3>5. QED
      BY <3>1, <3>2, <3>3, <3>4 DEF Fits
  <2>7. QED
    BY <1>2, <2>1, <2>4, <2>6, StatementStep
<1>5. QED
  BY <1>3, <1>4

\* The statements of a reversal before its insert.
LEMMA ReversalStep ==
  ASSUME CashBookParameters, BookInv, NEW t \in Requests, NEW label \in {"read", "once", "mirror"},
         tx[t].pc \in {"lock", "read", "once"}, B!Become(t, [tx[t] EXCEPT !.pc = label]),
         UNCHANGED <<expenses, lines, counter, asked>>,
         \/ tx[t].pc = "lock" /\ B!TakeLock(t) /\ label = "read"
         \/ tx[t].pc = "read" /\ UNCHANGED lock /\ label = "once"
         \/ tx[t].pc = "once" /\ UNCHANGED lock /\ label = "mirror",
         label = "once" => IF tx[t].req.op = "unspend" THEN B!Unspendable(B!Row(expenses, tx[t].req.of))
                           ELSE B!Undoable(B!Row(lines, tx[t].req.of), tx[t].req),
         label = "mirror" => ~B!AlreadyReversed(tx[t].req)
  PROVE  BookInv'
<1> DEFINE x == [tx[t] EXCEPT !.pc = label]
<1>1. tx[t] \in BookTransaction /\ Fits(t) /\ BookTypes
  BY DEF BookInv, BookTypes
<1>2. tx[t].req.op \in {"unspend", "undo"} /\ tx[t].spent = {} /\ tx[t].entered = {}
  BY <1>1 DEF Fits, AtItsStatement
<1>3. tx[t].req.of \in B!Ids
  BY <1>1, <1>2, TransactionOf
<1>4. /\ x \in BookTransaction /\ x.req = tx[t].req /\ x.id = tx[t].id /\ x.no = tx[t].no
      /\ x.pc = label /\ x.spent = {} /\ x.entered = {}
  <2>1. label \in BookLabels
    BY DEF BookLabels
  <2>2. x \in BookTransaction
    BY <1>1, <2>1, GoesOn
  <2>3. QED
    BY <1>1, <1>2, <2>2 DEF BookTransaction
<1> HIDE DEF x
<1>5. tx' = [tx EXCEPT ![t] = x] /\ tx'[t] = x /\ \A u \in B!Others(t) : tx'[u] = tx[u]
  BY <1>1 DEF B!Become, B!Others, BookTypes, x
<1>6. label = "read" => lock'[tx[t].req.of] = t
  BY <1>1, <1>3 DEF B!TakeLock, BookTypes
<1>7. Fits(t)'
  <2>1. AtItsStatement(t)' /\ EntersALink(t)' /\ Writes(t)'
    BY <1>1, <1>2, <1>4, <1>5 DEF Fits, AtItsStatement, EntersALink, Writes
  <2>2. HoldsTheCounter(t)'
    BY <1>1, <1>4, <1>5 DEF Fits, HoldsTheCounter, B!Others
  <2>3. TakesBack(t, "unspend", expenses)'
    BY <1>1, <1>4, <1>5, <1>6 DEF Fits, TakesBack, B!Unspendable, B!AlreadyReversed
  <2>4. TakesBack(t, "undo", lines)'
    BY <1>1, <1>4, <1>5, <1>6 DEF Fits, TakesBack, B!Undoable, B!AlreadyReversed
  <2>5. NotLinked(t)'
    BY <1>1, <1>4, <1>5 DEF Fits, NotLinked, B!Undoable
  <2>6. QED
    BY <2>1, <2>2, <2>3, <2>4, <2>5 DEF Fits
<1>8. B!Become(t, x)
  BY DEF x
<1>9. QED
  BY <1>2, <1>4, <1>7, <1>8, StatementStep

\* The insert of the mirror.
LEMMA InsertMirrorStep ==
  ASSUME CashBookParameters, BookInv, NEW t \in Requests, B!InsertMirror(t)
  PROVE  BookInv'
<1> DEFINE e == B!MirrorExpense(B!Row(expenses, tx[t].req.of), tx[t])
           l == B!MirrorLine(B!Row(lines, tx[t].req.of), tx[t])
           x == IF tx[t].req.op = "unspend" THEN [tx[t] EXCEPT !.pc = "commit", !.spent = {e}]
                                            ELSE [tx[t] EXCEPT !.pc = "commit", !.entered = {l}]
<1>1. tx[t] \in BookTransaction /\ Fits(t) /\ BookTypes
  BY DEF BookInv, BookTypes
<1>2. /\ tx[t].pc = "mirror" /\ tx[t].req.op \in {"unspend", "undo"}
      /\ tx[t].spent = {} /\ tx[t].entered = {}
      /\ B!Become(t, x) /\ UNCHANGED <<expenses, lines, counter, lock, asked, crashes>>
  BY <1>1 DEF B!InsertMirror, Fits, AtItsStatement
<1>3. tx[t].id \in Nat /\ tx[t].no \in Nat /\ "commit" \in BookLabels
  BY <1>1, TransactionOf DEF BookLabels
<1>4. tx[t].req.op = "unspend" => e \in B!ExpenseRows
  <2>1. tx[t].req.op = "unspend" =>
          B!Row(expenses, tx[t].req.of) \in B!ExpenseRows
    BY <1>1, RowsOf DEF Fits, TakesBack
  <2>2. QED
    BY <1>3, <2>1 DEF B!MirrorExpense, B!Expense, B!ExpenseRows
<1>5. tx[t].req.op = "undo" => l \in B!LineRows
  <2>1. tx[t].req.op = "undo" =>
          B!Row(lines, tx[t].req.of) \in B!LineRows
    BY <1>1, RowsOf DEF Fits, TakesBack
  <2>2. QED
    BY <1>3, <2>1 DEF B!MirrorLine, B!Line, B!LineRows
<1>6. x \in BookTransaction
  BY <1>1, <1>2, <1>3, <1>4, <1>5, GoesOn
<1>7. /\ x.req = tx[t].req /\ x.id = tx[t].id /\ x.no = tx[t].no /\ x.pc = "commit"
      /\ tx[t].req.op = "unspend" => x.spent = {e} /\ x.entered = {}
      /\ tx[t].req.op = "undo" => x.spent = {} /\ x.entered = {l}
  BY <1>1, <1>2 DEF BookTransaction
<1> HIDE DEF x
<1>8. tx' = [tx EXCEPT ![t] = x] /\ tx'[t] = x /\ \A u \in B!Others(t) : tx'[u] = tx[u]
  BY <1>1, <1>2 DEF B!Become, B!Others, BookTypes
<1>9. Fits(t)'
  <2>1. AtItsStatement(t)' /\ EntersALink(t)'
    BY <1>1, <1>2, <1>7, <1>8 DEF Fits, AtItsStatement, EntersALink
  <2>2. HoldsTheCounter(t)'
    BY <1>1, <1>2, <1>7, <1>8 DEF Fits, HoldsTheCounter, B!Others
  <2>3. TakesBack(t, "unspend", expenses)'
    BY <1>1, <1>2, <1>7, <1>8 DEF Fits, TakesBack
  <2>4. TakesBack(t, "undo", lines)'
    BY <1>1, <1>2, <1>7, <1>8 DEF Fits, TakesBack
  <2>5. NotLinked(t)'
    BY <1>1, <1>2, <1>7, <1>8 DEF Fits, NotLinked
  <2>6. Writes(t)'
    <3>1. /\ B!MirrorExpense(B!Row(expenses, tx[t].req.of), tx[t]) = B!MirrorExpense(B!Row(expenses, tx[t].req.of), x)
          /\ B!MirrorLine(B!Row(lines, tx[t].req.of), tx[t]) = B!MirrorLine(B!Row(lines, tx[t].req.of), x)
      BY <1>7 DEF B!MirrorExpense, B!MirrorLine
    <3>2. QED
      BY <1>2, <1>7, <1>8, <3>1 DEF Writes
  <2>7. QED
    BY <2>1, <2>2, <2>3, <2>4, <2>5, <2>6 DEF Fits
<1>10. QED
  BY <1>2, <1>6, <1>7, <1>9, StatementStep

\* A line looks at what it is to be linked to.
LEMMA LookAtLinkStep ==
  ASSUME CashBookParameters, BookInv, NEW t \in Requests, B!LookAtLink(t)
  PROVE  BookInv'
<1> DEFINE x == [tx[t] EXCEPT !.pc = "enter"]
<1>1. tx[t] \in BookTransaction /\ Fits(t) /\ BookTypes
  BY DEF BookInv, BookTypes
<1>2. CASE ~B!LinkAllowed(tx[t].req)
  BY <1>2, EndStep DEF B!LookAtLink
<1>3. CASE B!LinkAllowed(tx[t].req)
  <2>1. /\ tx[t].pc = "look" /\ tx[t].req.op = "enter" /\ tx[t].spent = {} /\ tx[t].entered = {}
        /\ B!Become(t, x) /\ UNCHANGED <<expenses, lines, counter, lock, asked, crashes>>
    BY <1>1, <1>3 DEF B!LookAtLink, Fits, AtItsStatement
  <2>2. /\ x \in BookTransaction /\ x.req = tx[t].req /\ x.id = tx[t].id /\ x.no = tx[t].no
        /\ x.pc = "enter" /\ x.spent = {} /\ x.entered = {}
    <3>1. x \in BookTransaction
      BY <1>1, GoesOn DEF BookLabels
    <3>2. QED
      BY <1>1, <2>1, <3>1 DEF BookTransaction
  <2> HIDE DEF x
  <2>3. tx' = [tx EXCEPT ![t] = x] /\ tx'[t] = x /\ \A u \in B!Others(t) : tx'[u] = tx[u]
    BY <1>1, <2>1 DEF B!Become, B!Others, BookTypes
  <2>4. Fits(t)'
    <3>1. /\ AtItsStatement(t)' /\ NotLinked(t)' /\ Writes(t)'
          /\ TakesBack(t, "unspend", expenses)' /\ TakesBack(t, "undo", lines)'
      BY <1>1, <2>1, <2>2, <2>3 DEF Fits, AtItsStatement, NotLinked, Writes, TakesBack
    <3>2. HoldsTheCounter(t)'
      BY <1>1, <2>1, <2>2, <2>3 DEF Fits, HoldsTheCounter, B!Others
    <3>3. B!Documents' = B!Documents /\ (B!LinkAllowed(tx[t].req) => B!LinkAllowed(tx[t].req)')
      BY <2>1, <2>2, <2>3 DEF B!Documents, B!LinkAllowed, B!AccountOfDocument
    <3>4. EntersALink(t)'
      BY <1>1, <1>3, <2>1, <2>2, <2>3, <3>3 DEF Fits, EntersALink
    <3>5. QED
      BY <3>1, <3>2, <3>4 DEF Fits
  <2>5. QED
    BY <2>1, <2>2, <2>4, StatementStep
<1>4. QED
  BY <1>2, <1>3

\* The insert of a line, which the unique index of its link refuses or not.
LEMMA EnterLineStep ==
  ASSUME CashBookParameters, BookInv, NEW t \in Requests, B!EnterLine(t)
  PROVE  BookInv'
<1> DEFINE l == B!Line(tx[t].id, tx[t].req.amount, tx[t].req.account, tx[t].req.link, None)
           x == [tx[t] EXCEPT !.pc = "commit", !.entered = {l}]
<1>1. tx[t] \in BookTransaction /\ Fits(t) /\ BookTypes
  BY DEF BookInv, BookTypes
<1>2. CASE B!LinkTaken(tx[t].req.link)
  BY <1>2, EndStep DEF B!EnterLine
<1>3. CASE ~B!LinkTaken(tx[t].req.link)
  <2>1. /\ tx[t].pc = "enter" /\ tx[t].req.op = "enter" /\ tx[t].spent = {} /\ tx[t].entered = {}
        /\ \A u \in B!Others(t) : ~B!LinkedBy(tx[u].entered, tx[t].req.link)
        /\ B!Become(t, x) /\ UNCHANGED <<expenses, lines, counter, lock, asked, crashes>>
    BY <1>1, <1>3 DEF B!EnterLine, Fits, AtItsStatement
  <2>2. tx[t].req \in Sent /\ tx[t].id \in Int
    BY <1>1, <2>1, TransactionOf
  <2>3. l \in B!LineRows
    <3>1. /\ tx[t].req.amount \in Int /\ tx[t].req.account \in Accounts
          /\ tx[t].req.link \in Links \cup {None}
      BY <2>1, <2>2, FieldsOf DEF CashBookParameters, B!AmountsAreWhole
    <3>2. QED
      BY <2>2, <3>1 DEF B!Line, B!LineRows, Links
  <2>4. /\ x \in BookTransaction /\ x.req = tx[t].req /\ x.id = tx[t].id /\ x.no = tx[t].no
        /\ x.pc = "commit" /\ x.spent = {} /\ x.entered = {l}
    <3>1. x \in BookTransaction
      <4>1. {l} \in SUBSET B!LineRows /\ "commit" \in BookLabels
        BY <2>3 DEF BookLabels
      <4> HIDE DEF l
      <4>2. QED
        BY <1>1, <4>1, GoesOn
    <3>2. QED
      BY <1>1, <2>1, <3>1 DEF BookTransaction
  <2> HIDE DEF x
  <2>5. /\ tx' = [tx EXCEPT ![t] = x] /\ tx'[t] = x
        /\ \A u \in B!Others(t) : u \in Requests /\ tx'[u] = tx[u]
    BY <1>1, <2>1 DEF B!Become, B!Others, BookTypes
  <2>6. Fits(t)'
    <3>1. /\ AtItsStatement(t)' /\ NotLinked(t)'
          /\ TakesBack(t, "unspend", expenses)' /\ TakesBack(t, "undo", lines)'
      BY <1>1, <2>1, <2>4, <2>5 DEF Fits, AtItsStatement, NotLinked, TakesBack
    <3>2. HoldsTheCounter(t)'
      BY <1>1, <2>1, <2>4, <2>5 DEF Fits, HoldsTheCounter, B!Others
    <3>3. /\ B!Documents' = B!Documents /\ (B!LinkAllowed(tx[t].req) => B!LinkAllowed(tx[t].req)')
          /\ B!LinkTaken(tx[t].req.link)' = B!LinkTaken(tx[t].req.link)
      BY <2>1, <2>4, <2>5 DEF B!Documents, B!LinkAllowed, B!AccountOfDocument, B!LinkTaken, B!LinkedBy
    <3>4. ASSUME NEW u \in B!Others(t), tx'[u].pc = "commit", tx'[u].req.op = "enter",
                 tx[t].req.link # None
          PROVE  tx'[u].req.link # tx[t].req.link
      <4>1. tx[u].entered = {B!Line(tx[u].id, tx[u].req.amount, tx[u].req.account, tx[u].req.link, None)}
        BY <2>5, <3>4 DEF BookInv, Fits, Writes
      <4>2. ~B!LinkedBy(tx[u].entered, tx[t].req.link)
        BY <2>1, <3>4
      <4>3. QED
        BY <2>5, <3>4, <4>1, <4>2 DEF B!LinkedBy, B!Line
    <3>5. EntersALink(t)'
      <4>1. EntersALink(t)
        BY <1>1 DEF Fits
      <4>2. QED
        BY <1>3, <2>1, <2>4, <2>5, <3>3, <3>4, <4>1 DEF EntersALink
    <3>6. Writes(t)'
      BY <2>1, <2>4, <2>5 DEF Writes
    <3>7. QED
      BY <3>1, <3>2, <3>5, <3>6 DEF Fits
  <2>7. QED
    BY <2>1, <2>4, <2>6, StatementStep
<1>4. QED
  BY <1>2, <1>3

-----------------------------------------------------------------------------
(* Commits.                                                                *)

\* A commit leaves sound books, and adds rows of its own number that mirror, if
\* anything, the row its request takes back.
LEMMA CommitIsSound ==
  ASSUME CashBookParameters, BookInv, NEW t \in Requests, B!Commit(t)
  PROVE  /\ B!Sound(expenses, lines)' /\ counter' = Cardinality(expenses')
         /\ tx[t].no = 0 => expenses' = expenses
         /\ \A r \in expenses' \ expenses :
              /\ r.id = tx[t].id
              /\ r.of # None => tx[t].req.op = "unspend" /\ r.of = tx[t].req.of
         /\ \A r \in lines' \ lines :
              /\ r.id = tx[t].id
              /\ r.of # None => tx[t].req.op = "undo" /\ r.of = tx[t].req.of
              /\ r.link # None => tx[t].req.op = "enter" /\ r.link = tx[t].req.link
<1> DEFINE x == tx[t]
<1>1. /\ x.pc = "commit" /\ expenses' = expenses \cup x.spent /\ lines' = lines \cup x.entered
      /\ counter' = IF x.no # 0 THEN x.no ELSE counter
  BY DEF B!Commit
<1>2. /\ BookTypes /\ Fits(t) /\ B!Sound(expenses, lines) /\ counter = Cardinality(expenses)
      /\ None \notin Int
  BY DEF BookInv, CashBookParameters, B!NoneIsApart
<1>3. x.req \in Sent /\ x.id \in Nat /\ x.no \in Nat /\ x \in BookTransaction
  BY <1>1, <1>2, TransactionOf
<1>4. /\ x.req.op \in {"spend", "unspend", "enter", "undo"}
      /\ x.no # 0 <=> x.req.op \in {"spend", "unspend"}
  BY <1>1, <1>2, <1>3, FieldsOf DEF Fits, AtItsStatement
<1>5. x.no # 0 => x.no = Cardinality(expenses) + 1
  BY <1>2 DEF Fits, HoldsTheCounter
<1>6. \A r \in expenses \cup lines : r.id # x.id
  BY <1>1 DEF BookInv, Numbered
<1>7. x.spent \subseteq B!ExpenseRows /\ x.entered \subseteq B!LineRows
  BY <1>3 DEF BookTransaction
<1>8. CASE x.req.op = "spend"
  <2> DEFINE e == B!Expense(x.id, x.no, x.req.amount, x.req.account, None)
  <2>1. x.spent = {e} /\ x.entered = {}
    BY <1>1, <1>2, <1>8 DEF Fits, Writes
  <2>2. e.id = x.id /\ e.no = x.no /\ e.of = None
    BY DEF B!Expense
  <2> HIDE DEF e
  <2>3. e \in B!ExpenseRows /\ e.id # None /\ \A s \in expenses : s.id # e.id
    BY <1>2, <1>3, <1>6, <1>7, <2>1, <2>2
  <2>4. B!Sound(expenses \cup {e}, lines) /\ Cardinality(expenses \cup {e}) = Cardinality(expenses) + 1
    BY <1>2, <1>4, <1>5, <1>8, <2>2, <2>3, OneMoreExpense
  <2>5. expenses' = expenses \cup {e} /\ lines' = lines /\ counter' = Cardinality(expenses) + 1
    BY <1>1, <1>4, <1>5, <1>8, <2>1
  <2>6. B!Sound(expenses', lines')
    BY <2>4, <2>5
  <2>7. QED
    BY <1>4, <1>8, <2>2, <2>4, <2>5, <2>6
<1>9. CASE x.req.op = "unspend"
  <2> DEFINE o == B!Row(expenses, x.req.of)
             e == B!MirrorExpense(o, x)
  <2>1. x.spent = {e} /\ x.entered = {}
    BY <1>1, <1>2, <1>9 DEF Fits, Writes
  <2>2. B!Has(expenses, x.req.of) /\ o.of = None /\ ~B!Reversed(expenses, x.req.of)
    BY <1>1, <1>2, <1>9 DEF Fits, TakesBack
  <2>3. o.id = x.req.of
    BY <2>2, RowIsThere
  <2>4. e.id = x.id /\ e.no = x.no /\ e.of = x.req.of /\ e.account = o.account /\ e.amount = -o.amount
    BY <2>3 DEF B!MirrorExpense, B!Expense
  <2> HIDE DEF e, o
  <2>5. e \in B!ExpenseRows /\ e.id # None /\ \A s \in expenses : s.id # e.id
    BY <1>2, <1>3, <1>6, <1>7, <2>1, <2>4
  <2>6. B!Sound(expenses \cup {e}, lines) /\ Cardinality(expenses \cup {e}) = Cardinality(expenses) + 1
    BY <1>2, <1>4, <1>5, <1>9, <2>2, <2>4, <2>5, OneMoreExpense DEF o
  <2>7. expenses' = expenses \cup {e} /\ lines' = lines /\ counter' = Cardinality(expenses) + 1
    BY <1>1, <1>4, <1>5, <1>9, <2>1
  <2>8. B!Sound(expenses', lines')
    BY <2>6, <2>7
  <2>9. QED
    BY <1>4, <1>9, <2>4, <2>6, <2>7, <2>8
<1>10. CASE x.req.op = "enter"
  <2> DEFINE l == B!Line(x.id, x.req.amount, x.req.account, x.req.link, None)
  <2>1. x.entered = {l} /\ x.spent = {}
    BY <1>1, <1>2, <1>10 DEF Fits, Writes
  <2>2. l.id = x.id /\ l.of = None /\ l.link = x.req.link /\ l.account = x.req.account
    BY DEF B!Line
  <2> HIDE DEF l
  <2>3. l \in B!LineRows /\ l.id # None /\ \A s \in lines : s.id # l.id
    BY <1>2, <1>3, <1>6, <1>7, <2>1, <2>2
  <2>4. l.link # None =>
          /\ l.link \in B!DocumentsWith(expenses)
          /\ B!AccountWith(expenses, l.link) \in {NoAccount, l.account}
          /\ l.of = None /\ \A s \in lines : s.link # l.link
    BY <1>1, <1>2, <1>10, <2>2
    DEF Fits, EntersALink, B!Documents, B!LinkAllowed, B!AccountOfDocument, B!LinkTaken, B!LinkedBy
  <2>5. B!Sound(expenses, lines \cup {l})
    BY <1>2, <2>2, <2>3, <2>4, OneMoreLine
  <2>6. expenses' = expenses /\ lines' = lines \cup {l} /\ counter' = counter
    BY <1>1, <1>4, <1>10, <2>1
  <2>7. B!Sound(expenses', lines')
    BY <2>5, <2>6
  <2>8. QED
    BY <1>2, <1>10, <2>2, <2>6, <2>7
<1>11. CASE x.req.op = "undo"
  <2> DEFINE o == B!Row(lines, x.req.of)
             l == B!MirrorLine(o, x)
  <2>1. x.entered = {l} /\ x.spent = {}
    BY <1>1, <1>2, <1>11 DEF Fits, Writes
  <2>2. /\ B!Has(lines, x.req.of) /\ o.of = None /\ ~B!Reversed(lines, x.req.of) /\ o.link = None
    BY <1>1, <1>2, <1>11 DEF Fits, TakesBack, NotLinked
  <2>3. o.id = x.req.of
    BY <2>2, RowIsThere
  <2>4. /\ l.id = x.id /\ l.of = x.req.of /\ l.account = o.account /\ l.amount = -o.amount
        /\ l.link = None
    BY <2>3 DEF B!MirrorLine, B!Line
  <2> HIDE DEF l, o
  <2>5. l \in B!LineRows /\ l.id # None /\ \A s \in lines : s.id # l.id
    BY <1>2, <1>3, <1>6, <1>7, <2>1, <2>4
  <2>6. B!Sound(expenses, lines \cup {l})
    BY <1>2, <2>2, <2>4, <2>5, OneMoreLine DEF o
  <2>7. expenses' = expenses /\ lines' = lines \cup {l} /\ counter' = counter
    BY <1>1, <1>4, <1>11, <2>1
  <2>8. B!Sound(expenses', lines')
    BY <2>6, <2>7
  <2>9. QED
    BY <1>2, <1>11, <2>4, <2>7, <2>8
<1>12. QED
  BY <1>4, <1>8, <1>9, <1>10, <1>11

\* A commit keeps what every other request has found out.
LEMMA CommitLeaves ==
  ASSUME CashBookParameters, BookInv, NEW t \in Requests, B!Commit(t), NEW u \in B!Others(t)
  PROVE  Fits(u)'
<1>1. /\ tx[t].pc = "commit" /\ expenses \subseteq expenses' /\ lines \subseteq lines'
      /\ expenses' = expenses \cup tx[t].spent /\ lines' = lines \cup tx[t].entered
      /\ counter' = (IF tx[t].no # 0 THEN tx[t].no ELSE counter)
      /\ tx' = [tx EXCEPT ![t] = B!Idle] /\ lock' = B!Released(t)
  BY DEF B!Commit, B!End, B!Become
<1>2. BookTypes /\ u \in Requests /\ u # t /\ Fits(u) /\ Fits(t) /\ None \notin Int /\ None \notin Requests
  BY DEF BookInv, B!Others, CashBookParameters, B!NoneIsApart
<1>3. tx'[u] = tx[u] /\ tx'[t] = B!Idle /\ B!Idle.no = 0 /\ B!Idle.pc = "idle"
  BY <1>1, <1>2 DEF BookTypes, B!Idle
<1>4. \A i \in B!Ids : lock[i] = u => lock'[i] = u
  BY <1>1, <1>2 DEF B!Released
<1>5. tx[u].req.op \in {"unspend", "undo"} => tx[u].req.of \in B!Ids
  BY <1>2, TransactionOf
<1>6. /\ B!Sound(expenses, lines)'
      /\ \A r \in expenses' \ expenses :
           r.of # None => tx[t].req.op = "unspend" /\ r.of = tx[t].req.of
      /\ \A r \in lines' \ lines :
           /\ r.of # None => tx[t].req.op = "undo" /\ r.of = tx[t].req.of
           /\ r.link # None => tx[t].req.op = "enter" /\ r.link = tx[t].req.link
  BY CommitIsSound
<1>7. B!OneRowPerId(expenses \cup tx[t].spent) /\ B!OneRowPerId(lines \cup tx[t].entered)
  BY <1>1, <1>6 DEF B!Sound
<1>8. /\ \A id : B!Has(expenses, id) => B!Has(expenses', id) /\ B!Row(expenses', id) = B!Row(expenses, id)
      /\ \A id : B!Has(lines, id) => B!Has(lines', id) /\ B!Row(lines', id) = B!Row(lines, id)
  BY <1>1, <1>7, RowStays
<1>9. AtItsStatement(u)'
  BY <1>2, <1>3 DEF Fits, AtItsStatement
<1>10. HoldsTheCounter(u)'
  <2>1. tx[u].no # 0 => tx[t].no = 0 /\ counter' = counter
    BY <1>1, <1>2 DEF Fits, HoldsTheCounter, B!Others
  <2>2. ASSUME tx[u].no # 0, NEW v \in B!Others(u) PROVE tx'[v].no = 0
    <3>1. CASE v = t
      BY <1>3, <3>1
    <3>2. CASE v # t
      BY <1>1, <1>2, <2>2, <3>2 DEF Fits, HoldsTheCounter, B!Others, BookTypes
    <3>3. QED
      BY <3>1, <3>2
  <2>3. QED
    BY <1>2, <1>3, <2>1, <2>2 DEF Fits, HoldsTheCounter, B!Others
<1>11. TakesBack(u, "unspend", expenses)'
  <2>1. ASSUME tx[u].req.op = "unspend", tx[u].pc \in {"mirror", "commit"}
        PROVE  ~B!Reversed(expenses', tx[u].req.of)
    <3>1. ~B!Reversed(expenses, tx[u].req.of) /\ B!Has(expenses, tx[u].req.of) /\ lock[tx[u].req.of] = u
      BY <1>2, <2>1 DEF Fits, TakesBack
    <3>2. tx[u].req.of # None
      BY <1>2, <3>1, RowsOf DEF B!ExpenseRows
    <3>3. tx[t].req.op = "unspend" => lock[tx[t].req.of] = t
      BY <1>1, <1>2 DEF Fits, TakesBack
    <3>4. QED
      BY <1>2, <1>6, <3>1, <3>2, <3>3 DEF B!Reversed
  <2>2. QED
    BY <1>2, <1>3, <1>4, <1>5, <1>8, <2>1 DEF Fits, TakesBack
<1>12. TakesBack(u, "undo", lines)'
  <2>1. ASSUME tx[u].req.op = "undo", tx[u].pc \in {"mirror", "commit"}
        PROVE  ~B!Reversed(lines', tx[u].req.of)
    <3>1. ~B!Reversed(lines, tx[u].req.of) /\ B!Has(lines, tx[u].req.of) /\ lock[tx[u].req.of] = u
      BY <1>2, <2>1 DEF Fits, TakesBack
    <3>2. tx[u].req.of # None
      BY <1>2, <3>1, RowsOf DEF B!LineRows
    <3>3. tx[t].req.op = "undo" => lock[tx[t].req.of] = t
      BY <1>1, <1>2 DEF Fits, TakesBack
    <3>4. QED
      BY <1>2, <1>6, <3>1, <3>2, <3>3 DEF B!Reversed
  <2>2. QED
    BY <1>2, <1>3, <1>4, <1>5, <1>8, <2>1 DEF Fits, TakesBack
<1>13. NotLinked(u)'
  BY <1>2, <1>3, <1>8 DEF Fits, NotLinked, TakesBack
<1>14. EntersALink(u)'
  <2>1. CASE tx[u].req.op # "enter" \/ tx[u].req.link = None
    BY <1>3, <2>1 DEF EntersALink
  <2>2. CASE tx[u].req.op = "enter" /\ tx[u].req.link # None
    <3>1. EntersALink(u) /\ tx[u].req.link \in B!DocumentsWith(expenses)
      BY <1>2, <2>2 DEF Fits, EntersALink, B!Documents
    <3>2. /\ tx[u].req.link \in B!DocumentsWith(expenses')
          /\ B!AccountWith(expenses', tx[u].req.link) = B!AccountWith(expenses, tx[u].req.link)
      BY <1>1, <1>7, <3>1, AccountStays
    <3>3. tx'[u].req.link \in B!Documents' /\ (B!LinkAllowed(tx[u].req) => B!LinkAllowed(tx[u].req)')
      BY <1>3, <3>2 DEF B!Documents, B!LinkAllowed, B!AccountOfDocument
    <3>4. tx[u].pc = "commit" => ~B!LinkTaken(tx[u].req.link)'
      <4>1. ASSUME tx[u].pc = "commit", NEW l \in lines', l.link = tx[u].req.link PROVE FALSE
        <5>1. CASE l \in lines
          BY <2>2, <3>1, <4>1, <5>1 DEF EntersALink, B!LinkTaken, B!LinkedBy
        <5>2. CASE l \notin lines
          BY <1>1, <1>2, <1>6, <2>2, <3>1, <4>1, <5>2 DEF EntersALink, B!Others
        <5>3. QED
          BY <5>1, <5>2
      <4>2. QED
        BY <1>3, <4>1 DEF B!LinkTaken, B!LinkedBy
    <3>5. ASSUME tx[u].pc = "commit",
                 NEW v \in B!Others(u), tx'[v].pc = "commit", tx'[v].req.op = "enter"
          PROVE  tx'[v].req.link # tx[u].req.link
      <4>1. v # t
        BY <1>3, <3>5
      <4>2. tx'[v] = tx[v]
        BY <1>1, <1>2, <3>5, <4>1 DEF B!Others, BookTypes
      <4>3. QED
        BY <2>2, <3>1, <3>5, <4>2 DEF EntersALink
    <3>6. QED
      BY <1>3, <3>1, <3>3, <3>4, <3>5 DEF EntersALink
  <2>3. QED
    BY <2>1, <2>2
<1>15. Writes(u)'
  <2>1. tx[u].req.op = "unspend" => B!Row(expenses', tx[u].req.of) = B!Row(expenses, tx[u].req.of)
    BY <1>2, <1>8 DEF Fits, TakesBack
  <2>2. tx[u].req.op = "undo" => B!Row(lines', tx[u].req.of) = B!Row(lines, tx[u].req.of)
    BY <1>2, <1>8 DEF Fits, TakesBack
  <2>3. QED
    BY <1>2, <1>3, <2>1, <2>2 DEF Fits, Writes
<1>16. QED
  BY <1>9, <1>10, <1>11, <1>12, <1>13, <1>14, <1>15 DEF Fits

\* A commit.
LEMMA CommitStep ==
  ASSUME CashBookParameters, BookInv, NEW t \in Requests, B!Commit(t)
  PROVE  BookInv'
<1>1. /\ tx[t].pc = "commit" /\ B!End(t) /\ UNCHANGED <<asked, crashes>>
      /\ tx' = [tx EXCEPT ![t] = B!Idle] /\ tx \in [Requests -> BookTransaction]
      /\ tx'[t] = B!Idle /\ \A u \in B!Others(t) : u \in Requests /\ tx'[u] = tx[u]
  BY DEF B!Commit, B!End, B!Become, B!Others, BookInv, BookTypes
<1>2. /\ lock' \in [B!Ids -> Requests \cup {None}]
      /\ \A i \in B!Ids : lock'[i] = IF lock[i] = t THEN None ELSE lock[i]
  BY <1>1 DEF B!End, B!Released, BookInv, BookTypes
<1>3. /\ B!Idle \in BookTransaction /\ B!Idle.pc = "idle" /\ B!Idle.no = 0 /\ B!Idle.req.op = "none"
      /\ B!Idle.id = 0
  BY DEF B!Idle, BookTransaction, BookLabels
<1>4. BookTypes'
  BY <1>1, <1>2, <1>3 DEF BookInv, BookTypes, B!Others
<1>5. /\ B!Sound(expenses, lines)' /\ counter' = Cardinality(expenses')
      /\ \A r \in (expenses' \cup lines') \ (expenses \cup lines) : r.id = tx[t].id
  BY CommitIsSound
<1>6. Numbered'
  <2>1. tx[t].id \in 1..asked /\ asked <= BookRequests /\ asked \in Nat
    BY <1>1 DEF BookInv, Numbered, BookTypes
  <2>2. tx[t].id \in B!Ids
    <3>1. tx[t].id \in 1..BookRequests
      BY <2>1 DEF CashBookParameters, B!BoundIsNatural
    <3>2. 1..BookRequests \subseteq B!Ids
      BY DEF B!Ids
    <3>3. QED
      BY <3>1, <3>2
  <2>3. \A u \in B!Others(t) : tx[u].pc # "idle" => tx[u].id # tx[t].id
    BY <1>1 DEF BookInv, Numbered, B!Others
  <2>4. QED
    BY <1>1, <1>3, <1>5, <2>1, <2>2, <2>3 DEF BookInv, Numbered, B!Others
<1>7. LocksFit'
  BY <1>1, <1>2 DEF BookInv, LocksFit, BookTypes, B!Others, CashBookParameters, B!NoneIsApart
<1>8. Fits(t)'
  BY <1>1, <1>3 DEF Fits, AtItsStatement, HoldsTheCounter, TakesBack, NotLinked, EntersALink, Writes, B!Idle
<1>9. \A u \in B!Others(t) : Fits(u)'
  BY CommitLeaves
<1>10. QED
  BY <1>4, <1>5, <1>6, <1>7, <1>8, <1>9 DEF BookInv, B!Others

-----------------------------------------------------------------------------
(* The invariant holds.                                                    *)

\* Every step keeps it.
LEMMA BookInvStep ==
  ASSUME CashBookParameters, BookInv, [B!Next]_ofCashBook
  PROVE  BookInv'
<1>1. CASE UNCHANGED ofCashBook
  <2>1. UNCHANGED <<expenses, lines, counter, lock, tx, asked>>
    BY <1>1 DEF ofCashBook
  <2>2. BookTypes' /\ Numbered' /\ LocksFit'
    BY <2>1 DEF BookInv, BookTypes, Numbered, LocksFit
  <2>3. B!Sound(expenses, lines)' /\ counter' = Cardinality(expenses')
    BY <2>1 DEF BookInv
  <2>4. ASSUME NEW t \in Requests PROVE Fits(t)'
    <3>1. Fits(t)
      BY DEF BookInv
    <3>2. B!Documents' = B!Documents /\ (B!LinkAllowed(tx[t].req) => B!LinkAllowed(tx[t].req)')
          /\ B!LinkTaken(tx[t].req.link)' = B!LinkTaken(tx[t].req.link)
      BY <2>1 DEF B!Documents, B!LinkAllowed, B!AccountOfDocument, B!LinkTaken, B!LinkedBy
    <3>3. EntersALink(t)'
      BY <2>1, <3>1, <3>2 DEF Fits, EntersALink
    <3>4. QED
      BY <2>1, <3>1, <3>3
      DEF Fits, AtItsStatement, HoldsTheCounter, TakesBack, NotLinked, Writes
  <2>5. QED
    BY <2>2, <2>3, <2>4 DEF BookInv
<1>2. ASSUME NEW t \in Requests, B!Ask(t) \/ B!Step(t) \/ B!Crash(t) PROVE BookInv'
  <2>1. CASE B!Ask(t)
    BY <2>1, AskStep
  <2>2. CASE B!ClaimNumber(t) \/ B!Spend(t)
    BY <2>2, ClaimNumberStep, SpendStep
  <2>3. CASE B!LockRow(t)
    BY <2>3, ReversalStep DEF B!LockRow
  <2>4. CASE B!ReadOriginal(t)
    BY <2>4, ReversalStep, EndStep DEF B!ReadOriginal
  <2>5. CASE B!CheckOnce(t)
    BY <2>5, ReversalStep, EndStep DEF B!CheckOnce
  <2>6. CASE B!InsertMirror(t)
    BY <2>6, InsertMirrorStep
  <2>7. CASE B!LookAtLink(t) \/ B!EnterLine(t)
    BY <2>7, LookAtLinkStep, EnterLineStep
  <2>8. CASE B!Commit(t)
    BY <2>8, CommitStep
  <2>9. CASE B!Crash(t)
    BY <2>9, EndStep DEF B!Crash
  <2>10. QED
    BY <1>2, <2>1, <2>2, <2>3, <2>4, <2>5, <2>6, <2>7, <2>8, <2>9 DEF B!Step
<1>3. QED
  BY <1>1, <1>2 DEF B!Next

\* It holds of any sound books to begin with.
LEMMA BookInvInit ==
  ASSUME CashBookParameters, B!Init
  PROVE  BookInv
<1>1. PICK s \in BookStarts : expenses = s.expenses /\ lines = s.lines /\ counter = Cardinality(s.expenses)
  BY SetsAreSets DEF B!Init
<1>2. /\ lock = [i \in B!Ids |-> None] /\ tx = [t \in Requests |-> B!Idle] /\ asked = 0
  BY DEF B!Init
<1>3. /\ B!Idle \in BookTransaction /\ B!Idle.pc = "idle" /\ B!Idle.no = 0 /\ B!Idle.req.op = "none"
      /\ B!Idle.spent = {} /\ B!Idle.entered = {}
  BY DEF B!Idle, BookTransaction, BookLabels
<1>4. B!Sound(expenses, lines) /\ \A r \in expenses \cup lines : r.id <= 0
  BY <1>1 DEF CashBookParameters, B!StartsAreSound
<1>5. \A r \in expenses \cup lines : r.id \in B!Ids
  <2>1. ASSUME NEW r \in expenses \cup lines PROVE r.id \in B!StartIds
    <3>1. r.id \in {q.id : q \in s.expenses \cup s.lines}
      BY <1>1
    <3>2. QED
      BY <3>1 DEF B!StartIds
  <2>2. QED
    BY <2>1 DEF B!Ids
<1>6. BookTypes
  BY <1>2, <1>3 DEF BookTypes, CashBookParameters, B!BoundIsNatural
<1>7. Numbered
  BY <1>2, <1>3, <1>4, <1>5 DEF Numbered
<1>8. LocksFit
  BY <1>2 DEF LocksFit
<1>9. \A t \in Requests : Fits(t)
  BY <1>2, <1>3 DEF Fits, AtItsStatement, HoldsTheCounter, TakesBack, NotLinked, EntersALink, Writes
<1>10. QED
  BY <1>1, <1>4, <1>6, <1>7, <1>8, <1>9 DEF BookInv

\* In every state of the cash book the books are sound and each request stands at a
\* statement whose premises still hold.
LEMMA BookInvHolds == ASSUME CashBookParameters PROVE B!Spec => []BookInv
<1>1. B!Init => BookInv
  BY BookInvInit
<1>2. BookInv /\ [B!Next]_B!vars => BookInv'
  BY BookInvStep DEF B!vars, ofCashBook
<1>3. QED
  BY <1>1, <1>2, PTL DEF B!Spec

-----------------------------------------------------------------------------
(* What the books promise.                                                 *)

\* Types of the books; the advisory lock of a row is held by a reversal of that row,
\* and goes with its transaction.
THEOREM BooksAreTyped ==
  ASSUME CashBookParameters PROVE B!Spec => []B!TypeOK
<1>1. ASSUME BookInv PROVE B!TypeOK
  <2>1. /\ \A e \in expenses : e.amount \in Int /\ e.account \in Accounts \cup {NoAccount}
        /\ \A l \in lines : l.amount \in Int /\ l.account \in Accounts
    BY <1>1 DEF BookInv, B!Sound, B!ExpenseRows, B!LineRows
  <2>2. counter \in Nat
    BY <1>1, FS_CardinalityType, SetsAreSets DEF BookInv, B!Sound
  <2>3. QED
    BY <1>1, <2>1, <2>2 DEF B!TypeOK, BookInv, LocksFit
<1>2. QED
  BY <1>1, BookInvHolds, PTL

\* reverse() of expenses and of bank lines: whatever reversals race, a row is taken
\* back once, a mirror never, and on the account of its original.
THEOREM RowsAreTakenBackOnce ==
  ASSUME CashBookParameters PROVE B!Spec => []B!ReversalsAreFlatAndSingle
<1>1. BookInv => B!ReversalsAreFlatAndSingle
  BY DEF BookInv, B!Sound, B!ReversalsAreFlatAndSingle
<1>2. QED
  BY <1>1, BookInvHolds, PTL

\* The mirror of a row carries its amount with the sign turned, so that the plain sum
\* of the rows, which is the balance the pages show, absorbs a reversal.
THEOREM MirrorsCancelTheirRows ==
  ASSUME CashBookParameters PROVE B!Spec => [](B!MirrorsCancel(expenses) /\ B!MirrorsCancel(lines))
<1>1. BookInv => B!MirrorsCancel(expenses) /\ B!MirrorsCancel(lines)
  BY DEF BookInv, B!Sound
<1>2. QED
  BY <1>1, BookInvHolds, PTL

\* findUnreconciled() of banks: a payment or an expense leaves the list of its account
\* only for one line, of that account, that nobody has taken back.
THEOREM DocumentsLeaveTheListForAReason ==
  ASSUME CashBookParameters PROVE B!Spec => []B!OffTheListForAReason
<1>1. ASSUME BookInv, NEW d \in B!Documents
      PROVE  LET linked == {l \in lines : l.link = d}
                 a      == B!AccountOfDocument(d)
             IN  /\ Cardinality(linked) <= 1
                 /\ linked \subseteq B!Live(lines)
                 /\ a # NoAccount /\ d \notin B!Unreconciled(a) => \E l \in linked : l.account = a
  <2> DEFINE linked == {l \in lines : l.link = d}
             a      == B!AccountOfDocument(d)
  <2>1. d # None
    <3>1. \A e \in expenses : e.id \in Int
      BY <1>1 DEF BookInv, B!Sound, B!ExpenseRows
    <3>2. d \in Links
      BY <1>1, <3>1 DEF B!Documents, B!DocumentsWith, Links
    <3>3. QED
      BY <3>2 DEF Links, CashBookParameters, B!NoneIsApart
  <2>2. \A l \in linked :
          /\ l \in lines /\ l.of = None /\ ~B!Reversed(lines, l.id) /\ a \in {NoAccount, l.account}
          /\ \A k \in linked : k = l
    BY <1>1, <2>1 DEF BookInv, B!Sound, B!LinksFit, B!AccountOfDocument
  <2>3. Cardinality(linked) <= 1
    <3>1. CASE linked = {}
      BY <3>1, FS_EmptySet
    <3>2. CASE linked # {}
      <4>1. PICK l : l \in linked
        BY <3>2
      <4>2. linked = {l}
        BY <2>2, <4>1
      <4>3. Cardinality({l}) = 1
        BY FS_Singleton
      <4>4. QED
        BY <4>2, <4>3
    <3>3. QED
      BY <3>1, <3>2
  <2>4. linked \subseteq B!Live(lines)
    BY <2>2 DEF B!Live
  <2>5. ASSUME a # NoAccount, d \notin B!Unreconciled(a) PROVE \E l \in linked : l.account = a
    <3>1. PICK l \in lines : l.link = d
      BY <1>1, <2>5 DEF B!Unreconciled
    <3>2. QED
      BY <2>2, <2>5, <3>1
  <2>6. QED
    BY <2>3, <2>4, <2>5
<1>2. BookInv => B!OffTheListForAReason
  BY <1>1, SetsAreSets DEF B!OffTheListForAReason
<1>3. QED
  BY <1>2, BookInvHolds, PTL

\* claimSequence() of expenses: the numbers have no gap and no duplicate, whatever
\* requests fail or die after they have claimed one.
THEOREM ExpensesAreNumbered ==
  ASSUME CashBookParameters PROVE B!Spec => []B!NumbersAreGapless
<1>1. BookInv => B!NumbersAreGapless
  BY SetsAreSets DEF BookInv, B!Sound, B!NumbersAreGapless
<1>2. QED
  BY <1>1, BookInvHolds, PTL

-----------------------------------------------------------------------------
(* What the pages show is what stands.                                     *)

AmountIn(S) == [r \in S |-> r.amount]

\* The total of rows is the sum of their amounts.
LEMMA TotalIs ==
  ASSUME NEW S, IsFiniteSet(S), \A r \in S : r.amount \in Int
  PROVE  B!Total(S) = SumOver(AmountIn(S), S)
<1> DEFINE w == AmountIn(S)
           Adds(g) == g = [s \in SUBSET S |->
                             IF s = {} THEN 0 ELSE (CHOOSE x \in s : TRUE).amount
                                                   + g[s \ {CHOOSE x \in s : TRUE}]]
<1>1. B!Total(S) = (CHOOSE g : Adds(g))[S]
  BY DEF B!Total, B!MapThenSumSet, B!MapThenFoldSet
<1>2. w \in [S -> Int] /\ \A r \in S : w[r] = r.amount
  BY DEF AmountIn
<1> HIDE DEF w
<1>3. PICK f \in [SUBSET S -> Int] : SumsUp(f, w, S)
  BY <1>2, SumsExist
<1>4. Adds(f)
  <2>1. ASSUME NEW s \in SUBSET S
        PROVE  f[s] = IF s = {} THEN 0 ELSE (CHOOSE x \in s : TRUE).amount
                                             + f[s \ {CHOOSE x \in s : TRUE}]
    <3>1. f[s] = IF s = {} THEN 0 ELSE w[Pick(s)] + f[s \ {Pick(s)}]
      BY <1>3 DEF SumsUp
    <3>2. s # {} => Pick(s) \in S
      BY DEF Pick
    <3>3. QED
      BY <1>2, <3>1, <3>2 DEF Pick
  <2>2. QED
    BY <2>1
<1>5. Adds(CHOOSE g : Adds(g))
  <2> HIDE DEF Adds
  <2>1. QED
    BY <1>4, Zenon
<1>6. \A g : Adds(g) => SumsUp(g, w, S)
  <2>1. \A s \in SUBSET S : s # {} => Pick(s) \in S
    BY DEF Pick
  <2>2. ASSUME NEW g, Adds(g) PROVE SumsUp(g, w, S)
    <3>1. \A s \in SUBSET S : (IF s = {} THEN 0 ELSE (CHOOSE x \in s : TRUE).amount
                                                     + g[s \ {CHOOSE x \in s : TRUE}])
                               = (IF s = {} THEN 0 ELSE w[Pick(s)] + g[s \ {Pick(s)}])
      BY <1>2, <2>1 DEF Pick
    <3>2. QED
      BY <2>2, <3>1 DEF SumsUp
  <2>3. QED
    BY <2>2
<1>7. AddsUp(w, S)
  BY <1>2, SumsAdd
<1> HIDE DEF Adds
<1>8. QED
  BY <1>1, <1>5, <1>6, <1>7 DEF AddsUp, w

\* Rows that mirror others make nothing with them: the total is that of the rest.
LEMMA TotalIsOfTheLive ==
  ASSUME NEW S, IsFiniteSet(S), \A r \in S : r.amount \in Int /\ r.id # None,
         B!OneRowPerId(S), B!FlatAndSingle(S), B!MirrorsCancel(S)
  PROVE  B!Total(S) = B!Total(B!Live(S))
<1> DEFINE w    == AmountIn(S)
           M    == {m \in S : m.of # None}
           of   == [m \in M |-> B!Row(S, m.of)]
           rest == S \ (M \cup {of[m] : m \in M})
<1>1. w \in [S -> Int] /\ \A r \in S : w[r] = r.amount
  BY DEF AmountIn
<1>2. \A m \in M : /\ of[m] \in S \ M /\ of[m].id = m.of
                   /\ m.amount = -of[m].amount /\ \A n \in M : n.of = m.of => n = m
  <2>1. ASSUME NEW m \in M
        PROVE  /\ B!Row(S, m.of) \in S /\ B!Row(S, m.of).id = m.of
               /\ B!Row(S, m.of).of = None /\ m.amount = -B!Row(S, m.of).amount
               /\ \A n \in S : n.of = m.of => n = m
    <3>1. B!Has(S, m.of)
      BY DEF B!FlatAndSingle
    <3>2. QED
      BY <3>1, RowIsThere DEF B!FlatAndSingle, B!MirrorsCancel
  <2>2. QED
    BY <2>1
<1>3. SumOver(w, S) = SumOver(w, rest)
  <2>1. of \in [M -> S \ M]
    BY <1>2
  <2>2. \A m, n \in M : of[m] = of[n] => m = n
    BY <1>2
  <2>3. \A m \in M : w[of[m]] = -w[m]
    <3>1. ASSUME NEW m \in M PROVE w[of[m]] = -w[m]
      <4>1. w[of[m]] = of[m].amount /\ w[m] = m.amount /\ of[m].amount \in Int
        BY <1>1, <1>2
      <4>2. m.amount = -of[m].amount
        BY <1>2
      <4>3. QED
        BY <4>1, <4>2
    <3>2. QED
      BY <3>1
  <2>4. M \in SUBSET S
    OBVIOUS
  <2> HIDE DEF w, M, of
  <2>5. QED
    BY <1>1, <2>1, <2>2, <2>3, <2>4, PairsCancel
<1>4. rest = B!Live(S)
  <2>1. ASSUME NEW r \in S, r.of = None
        PROVE  B!Reversed(S, r.id) <=> \E m \in M : of[m] = r
    <3>1. ASSUME B!Reversed(S, r.id) PROVE \E m \in M : of[m] = r
      <4>1. PICK m \in S : m.of = r.id
        BY <3>1 DEF B!Reversed
      <4>2. m \in M /\ of[m] = r
        BY <4>1, RowIsTheOne
      <4>3. QED
        BY <4>2
    <3>2. ASSUME NEW m \in M, of[m] = r PROVE B!Reversed(S, r.id)
      <4>1. m \in S /\ m.of = r.id
        BY <1>2, <3>2
      <4>2. QED
        BY <4>1 DEF B!Reversed
    <3>3. QED
      BY <3>1, <3>2
  <2>2. QED
    BY <2>1 DEF B!Live
<1>5. SumOver(w, rest) = SumOver(AmountIn(rest), rest)
  <2>1. AmountIn(rest) \in [rest -> Int] /\ \A r \in rest : AmountIn(rest)[r] = r.amount
    BY DEF AmountIn
  <2>2. rest \in SUBSET S /\ IsFiniteSet(rest)
    BY FS_Subset
  <2>3. [r \in rest |-> w[r]] = AmountIn(rest)
    BY <1>1, <2>2 DEF AmountIn
  <2>4. AddsUp(w, S) /\ AddsUp(AmountIn(rest), rest)
    BY <1>1, <2>1, <2>2, SumsAdd
  <2>5. PICK f \in [SUBSET rest -> Int] : SumsUp(f, AmountIn(rest), rest)
    BY <2>1, <2>2, SumsExist
  <2> HIDE DEF w, rest
  <2>6. SumsUp(f, w, rest)
    <3>1. \A s \in SUBSET rest : s # {} => Pick(s) \in rest
      BY DEF Pick
    <3>2. \A r \in rest : w[r] = AmountIn(rest)[r]
      BY <1>1, <2>1, <2>2
    <3>3. QED
      BY <2>5, <3>1, <3>2 DEF SumsUp
  <2>7. f[rest] = SumOver(AmountIn(rest), rest)
    BY <2>4, <2>5 DEF AddsUp
  <2>8. f[rest] = SumOver(w, rest)
    BY <2>2, <2>4, <2>6 DEF AddsUp
  <2>9. QED
    BY <2>7, <2>8
<1>6. B!Total(S) = SumOver(w, S)
  BY TotalIs
<1>7. B!Total(rest) = SumOver(AmountIn(rest), rest)
  <2>1. rest \in SUBSET S /\ IsFiniteSet(rest)
    BY FS_Subset
  <2> HIDE DEF rest
  <2>2. QED
    BY <2>1, TotalIs
<1> HIDE DEF rest, w
<1>8. QED
  BY <1>3, <1>4, <1>5, <1>6, <1>7

\* The rows of one account are flat, single and cancel by themselves.
LEMMA OneAccount ==
  ASSUME NEW S, B!OneRowPerId(S), B!FlatAndSingle(S), B!MirrorsCancel(S), NEW a,
         NEW T, T = {l \in S : l.account = a}
  PROVE  B!OneRowPerId(T) /\ B!FlatAndSingle(T) /\ B!MirrorsCancel(T)
<1>1. B!OneRowPerId(T)
  BY DEF B!OneRowPerId
<1>2. ASSUME NEW m \in T, m.of # None
      PROVE  /\ B!Has(T, m.of) /\ B!Row(T, m.of) = B!Row(S, m.of)
             /\ B!Row(S, m.of).of = None /\ m.account = B!Row(S, m.of).account
             /\ m.amount = -B!Row(S, m.of).amount
  <2>1. /\ B!Has(S, m.of) /\ B!Row(S, m.of).of = None
        /\ m.account = B!Row(S, m.of).account /\ m.amount = -B!Row(S, m.of).amount
    BY <1>2 DEF B!FlatAndSingle, B!MirrorsCancel
  <2>2. B!Row(S, m.of) \in T /\ B!Row(S, m.of).id = m.of
    BY <2>1, RowIsThere
  <2>3. QED
    BY <1>1, <2>1, <2>2, RowIsTheOne
<1>3. B!FlatAndSingle(T)
  BY <1>2 DEF B!FlatAndSingle
<1>4. B!MirrorsCancel(T)
  BY <1>2 DEF B!MirrorsCancel
<1>5. QED
  BY <1>1, <1>3, <1>4

\* Whatever was spent, entered and taken back, by whom at once: expenses, and the
\* lines of each account, sum to the rows that stand.
LEMMA BalancesAreOfTheLive == ASSUME CashBookParameters, BookInv PROVE B!BalanceIsOfTheLive
<1>1. /\ expenses \subseteq B!ExpenseRows /\ lines \subseteq B!LineRows
      /\ IsFiniteSet(expenses) /\ IsFiniteSet(lines)
      /\ B!OneRowPerId(expenses) /\ B!FlatAndSingle(expenses) /\ B!MirrorsCancel(expenses)
      /\ B!OneRowPerId(lines) /\ B!FlatAndSingle(lines) /\ B!MirrorsCancel(lines)
  BY SetsAreSets DEF BookInv, B!Sound
<1>2. \A r \in expenses \cup lines : r.amount \in Int /\ r.id # None
  BY <1>1 DEF B!ExpenseRows, B!LineRows, CashBookParameters, B!NoneIsApart
<1>3. B!Total(expenses) = B!Total(B!Live(expenses))
  BY <1>1, <1>2, TotalIsOfTheLive
<1>4. ASSUME NEW a \in Accounts, NEW here, here = {l \in lines : l.account = a}
      PROVE  B!Total(here) = B!Total(B!Live(here))
  <2>1. B!OneRowPerId(here) /\ B!FlatAndSingle(here) /\ B!MirrorsCancel(here)
    BY <1>1, <1>4, OneAccount
  <2>2. IsFiniteSet(here) /\ \A r \in here : r.amount \in Int /\ r.id # None
    BY <1>1, <1>2, <1>4, FS_Subset
  <2>3. QED
    BY <2>1, <2>2, TotalIsOfTheLive
<1>5. QED
  BY <1>3, <1>4 DEF B!BalanceIsOfTheLive

\* ExpensesRepository and BankAccountsRepository keep all their books promise
\* together: no row is taken back twice, what the pages sum is what stands, no document
\* is off the list of its account without a line there, and the numbers have no gap.
THEOREM BooksHold ==
  ASSUME CashBookParameters PROVE B!Spec => []BookHolds
<1>1. BookInv => B!BalanceIsOfTheLive
  BY BalancesAreOfTheLive
<1>2. B!Spec => [](B!TypeOK /\ B!ReversalsAreFlatAndSingle /\ B!BalanceIsOfTheLive
                   /\ B!OffTheListForAReason /\ B!NumbersAreGapless)
  BY <1>1, BookInvHolds, BooksAreTyped, RowsAreTakenBackOnce, DocumentsLeaveTheListForAReason,
     ExpensesAreNumbered, PTL
<1>3. QED
  BY <1>2, PTL DEF BookHolds
=============================================================================
