---------------------------- MODULE Maintenance ----------------------------
(***************************************************************************)
(* A service contract with its visits, and a breakdown.                    *)
(*                                                                         *)
(* Logging a visit and updating a breakdown read a row, decide, and write  *)
(* it, each in one transaction that locks nothing; changing the contract   *)
(* is a single statement.  Dates are counted in days and a recurrence is a *)
(* number of them; Calendar has the dates as they are.                     *)
(***************************************************************************)
EXTENDS Integers, Sequences

CONSTANTS
  Requests,   \* requests that may run at the same time
  Periods,    \* recurrences
  People,     \* whom a breakdown can be assigned to
  Horizon,    \* bound: the last day
  MaxVisits, MaxWrites,  \* bounds: visits, writes of the contract or the breakdown
  None

PeriodsArePositive == Periods \subseteq Nat \ {0}

VARIABLES
  today,
  contract,   \* status, next and last service, recurrence
  visits,     \* the day; onActive: history, was the contract active when it was written
  breakdown,  \* status, assignee, day it was resolved
  request,    \* what each request does and what it has read
  writes

vars == <<today, contract, visits, breakdown, request, writes>>

ContractStatuses  == {"ACTIVE", "PAUSED", "ENDED"}
BreakdownStatuses == {"OPEN", "ASSIGNED", "DONE"}
NoBreakdown == [status |-> "NONE", assignee |-> None, resolvedAt |-> None]
Idle == [op |-> "idle"]

Init ==
  /\ today = 1
  /\ contract \in [status : {"ACTIVE"}, next : {2}, last : {None}, every : Periods]
  /\ visits = <<>>
  /\ breakdown = NoBreakdown
  /\ request = [r \in Requests |-> Idle]
  /\ writes = 0

Become(r, x) == request' = [request EXCEPT ![r] = x]

NewDay ==
  /\ today < Horizon
  /\ today' = today + 1
  /\ UNCHANGED <<contract, visits, breakdown, request, writes>>

-----------------------------------------------------------------------------
(* The contract.                                                           *)

\* updateContract: any of its fields, whatever they were.
UpdateContract(r) ==
  /\ request[r] = Idle /\ writes < MaxWrites
  /\ contract' \in {[contract EXCEPT !.status = s] : s \in ContractStatuses}
                   \cup {[contract EXCEPT !.every = p] : p \in Periods}
                   \cup {[contract EXCEPT !.next = d] : d \in {today, today + 1}}
  /\ writes' = writes + 1
  /\ UNCHANGED <<today, visits, breakdown, request>>

\* Mutant: one interval, however late.
OneIntervalOn(scheduled, visited, every) == scheduled + every

\* nextServiceDateAfter: intervals are added until the day of the visit is past.
NextServiceDateAfter(scheduled, visited, every) ==
  IF visited < scheduled THEN scheduled + every
                         ELSE scheduled + every * ((visited - scheduled) \div every + 1)

AcceptsVisits(status) == status = "ACTIVE"

\* logVisit, up to the insert.
ReadContract(r) ==
  /\ request[r] = Idle /\ Len(visits) < MaxVisits
  /\ AcceptsVisits(contract.status)
  /\ Become(r, [op |-> "visit", day |-> today,
                next |-> NextServiceDateAfter(contract.next, today, contract.every)])
  /\ UNCHANGED <<today, contract, visits, breakdown, writes>>

\* The visit is inserted; the contract is updated by its id alone.
WriteVisit(r) ==
  /\ request[r].op = "visit"
  /\ visits' = Append(visits, [day |-> request[r].day, onActive |-> contract.status = "ACTIVE"])
  /\ contract' = [contract EXCEPT !.last = request[r].day, !.next = request[r].next]
  /\ Become(r, Idle)
  /\ UNCHANGED <<today, breakdown, writes>>

-----------------------------------------------------------------------------
(* The breakdown.                                                          *)

CreateBreakdown(r) == \E who \in People \cup {None} :
  /\ request[r] = Idle /\ breakdown = NoBreakdown
  /\ breakdown' = [status |-> IF who = None THEN "OPEN" ELSE "ASSIGNED",
                   assignee |-> who, resolvedAt |-> None]
  /\ UNCHANGED <<today, contract, visits, request, writes>>

\* What a request asks for; "as is" is a field it does not have.
Patches == [status : BreakdownStatuses \cup {"as is"}, assignee : People \cup {None, "as is"}]

ReadBreakdown(r) == \E patch \in Patches :
  /\ request[r] = Idle /\ breakdown # NoBreakdown /\ writes < MaxWrites
  /\ Become(r, [op |-> "breakdown", patch |-> patch, current |-> breakdown])
  /\ writes' = writes + 1
  /\ UNCHANGED <<today, contract, visits, breakdown>>

StatusAfter(patch, current) ==
  LET status == IF patch.status = "as is" THEN current.status ELSE patch.status IN
  CASE patch.assignee \in People /\ status = "OPEN"   -> "ASSIGNED"
    [] patch.assignee = None /\ status = "ASSIGNED"   -> "OPEN"
    [] OTHER                                          -> status

ResolvedAt(status, current) ==
  CASE status # "DONE"            -> None
    [] current.resolvedAt = None  -> today
    [] OTHER                      -> current.resolvedAt

\* updateBreakdown: status and date always, the assignee if the request has one.
WriteBreakdown(r) ==
  LET x == request[r] IN
  /\ x.op = "breakdown"
  /\ LET status == StatusAfter(x.patch, x.current) IN
     breakdown' = [status |-> status, resolvedAt |-> ResolvedAt(status, x.current),
                   assignee |-> IF x.patch.assignee = "as is" THEN breakdown.assignee
                                                              ELSE x.patch.assignee]
  /\ Become(r, Idle)
  /\ UNCHANGED <<today, contract, visits, writes>>

Next ==
  \/ NewDay
  \/ \E r \in Requests :
       \/ UpdateContract(r) \/ ReadContract(r) \/ WriteVisit(r)
       \/ CreateBreakdown(r) \/ ReadBreakdown(r) \/ WriteBreakdown(r)

Spec == Init /\ [][Next]_vars
-----------------------------------------------------------------------------
(* Properties.                                                             *)

\* "Logging a visit rolls the contract to its next service date": a visit leaves
\* the next service later than it was and after the day of the visit.
Rolls == visits' # visits => /\ contract'.next > contract.next
                             /\ contract'.next > visits'[Len(visits')].day

LoggingRolls == [][Rolls]_vars

\* "Only active contracts can log service visits".
VisitsOnlyOnActive == \A n \in DOMAIN visits : visits[n].onActive

\* "OPEN -> ASSIGNED -> DONE as the dispatcher assigns and the engineer closes":
\* a breakdown that is closed is opened again only by a request that says so.
StaysClosed ==
  breakdown.status = "DONE" /\ breakdown'.status # "DONE" =>
    \E r \in Requests : /\ request[r].op = "breakdown" /\ request'[r] = Idle
                        /\ request[r].patch.status \in {"OPEN", "ASSIGNED"}

ClosedStaysClosed == [][StaysClosed]_vars

\* A breakdown has a day it was resolved exactly when it is done, in whatever
\* order requests close it, open it and hand it on.
ResolvedWhenDone == breakdown.status = "DONE" <=> breakdown.resolvedAt # None

\* "ASSIGNED ... as the dispatcher assigns": somebody has the breakdown.
AssignedHasAssignee == breakdown.status = "ASSIGNED" => breakdown.assignee # None
=============================================================================
