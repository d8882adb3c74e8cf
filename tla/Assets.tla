------------------------------- MODULE Assets -------------------------------
(***************************************************************************)
(* The lifts: where each one is, whom it is sold to, the history of both,  *)
(* and the service contracts and breakdowns that copy its customer.        *)
(*                                                                         *)
(* A request reads a lift in one transaction and writes it in another; a   *)
(* change of status is written only if the status is still the one read,   *)
(* a change of customer whatever has become of the lift.  An event is      *)
(* dated with the start of the transaction that writes it.                 *)
(***************************************************************************)
EXTENDS FiniteSets, Integers, SequencesExt

CONSTANTS
  Lifts, Customers,
  Requests,   \* requests that may run at the same time
  MaxAsked,   \* bound: requests made
  None

VARIABLES
  assets,   \* status, customer, deleted
  events,   \* of each lift, as they were written
  records,  \* service contracts and breakdowns: kind, lift, customer
  request,  \* what each request does and what it has read
  clock,    \* transactions begun
  asked

vars == <<assets, events, records, request, clock, asked>>

Roles    == {"STORE_KEEPER", "TECHNICAL_MANAGER", "MAINTENANCE_ENGINEER", "GENERAL_MANAGER"}
Statuses == {"ON_ORDER", "CHECKING", "IN_STORE", "AT_SITE", "ACTIVE", "INACTIVE", "DECOMMISSIONED"}

Press(from, to, roles) == [from |-> from, to |-> to, roles |-> roles]

ASSET_STATUS_MOVES ==
  {Press("ON_ORDER", "CHECKING", {"STORE_KEEPER"}),
   Press("CHECKING", "IN_STORE", {"STORE_KEEPER"}),
   Press("IN_STORE", "AT_SITE", {"STORE_KEEPER"}),
   Press("AT_SITE", "ACTIVE", {"TECHNICAL_MANAGER"}),
   Press("AT_SITE", "IN_STORE", {"STORE_KEEPER"}),
   Press("ACTIVE", "INACTIVE", {"TECHNICAL_MANAGER", "MAINTENANCE_ENGINEER"}),
   Press("ACTIVE", "DECOMMISSIONED", {"TECHNICAL_MANAGER"}),
   Press("INACTIVE", "ACTIVE", {"TECHNICAL_MANAGER", "MAINTENANCE_ENGINEER"}),
   Press("INACTIVE", "DECOMMISSIONED", {"TECHNICAL_MANAGER"})}

\* canSkipAssetRules
AllowedMoves(status, role) ==
  {m.to : m \in {p \in ASSET_STATUS_MOVES : p.from = status /\ role \in p.roles \cup {"GENERAL_MANAGER"}}}

Idle == [op |-> "idle", pc |-> "idle"]

Init ==
  /\ assets = [l \in Lifts |-> [status |-> "UNKNOWN", customer |-> None, deleted |-> FALSE]]
  /\ events = [l \in Lifts |-> <<>>]
  /\ records = {}
  /\ request = [r \in Requests |-> Idle]
  /\ clock = 0 /\ asked = 0

Become(r, x) == request' = [request EXCEPT ![r] = x]
Ask(r)  == request[r] = Idle /\ asked < MaxAsked /\ asked' = asked + 1
Found(l) == assets[l].status # "UNKNOWN" /\ ~assets[l].deleted

\* held: history, the customer of the lift when the event is written.
Event(kind, x, at) ==
  [kind |-> kind, from |-> x.from, to |-> x.to, customer |-> x.customer, role |-> x.role,
   held |-> assets[x.lift].customer, at |-> at]

Record(l, event) == events' = [events EXCEPT ![l] = Append(@, event)]

-----------------------------------------------------------------------------
(* From registration to deletion, each in one transaction.                 *)

\* A lift from the factory has no customer, an installed one has.
Register(l) == \E start \in {[status |-> "ON_ORDER", customer |-> None]}
                            \cup [status : {"ACTIVE"}, customer : Customers] :
  /\ assets[l].status = "UNKNOWN"
  /\ assets' = [assets EXCEPT ![l].status = start.status, ![l].customer = start.customer]
  /\ Record(l, Event("REGISTERED", [lift |-> l, from |-> None, to |-> start.status,
                                    customer |-> start.customer, role |-> None], clock + 1))
  /\ clock' = clock + 1
  /\ UNCHANGED <<records, request, asked>>

SoftDelete(r, l) ==
  /\ Ask(r) /\ Found(l)
  /\ assets' = [assets EXCEPT ![l].deleted = TRUE]
  /\ Record(l, Event("DELETED", [lift |-> l, from |-> None, to |-> None,
                                 customer |-> None, role |-> None], clock + 1))
  /\ clock' = clock + 1
  /\ UNCHANGED <<records, request>>

-----------------------------------------------------------------------------
(* Status.                                                                 *)

ReadyFor(to, customer) == to = "AT_SITE" => customer # None

\* move, up to the write.
AskMove(r, l) == \E role \in Roles, to \in Statuses :
  /\ Ask(r) /\ Found(l)
  /\ to \in AllowedMoves(assets[l].status, role)
  /\ ReadyFor(to, assets[l].customer)
  /\ Become(r, [op |-> "STATUS", pc |-> "begin", lift |-> l, from |-> assets[l].status, to |-> to,
                customer |-> None, role |-> role, at |-> 0])
  /\ UNCHANGED <<assets, events, records, clock>>

\* correct: any other status, and the reason is recorded.
AskCorrection(r, l) == \E to \in Statuses \ {assets[l].status} :
  /\ Ask(r) /\ Found(l)
  /\ Become(r, [op |-> "CORRECTED", pc |-> "begin", lift |-> l, from |-> assets[l].status, to |-> to,
                customer |-> None, role |-> "GENERAL_MANAGER", at |-> 0])
  /\ UNCHANGED <<assets, events, records, clock>>

\* Mutant: the lift is moved from wherever it is.
MovableFromAnywhere(l, from) == Found(l)

Movable(l, from) == Found(l) /\ assets[l].status = from

\* moveStatus; otherwise "Someone else moved this lift just now".
MoveStatus(r) ==
  LET x == request[r] IN
  /\ x.pc = "write" /\ x.op \in {"STATUS", "CORRECTED"}
  /\ IF Movable(x.lift, x.from)
     THEN /\ assets' = [assets EXCEPT ![x.lift].status = x.to]
          /\ Record(x.lift, Event(x.op, x, x.at))
     ELSE UNCHANGED <<assets, events>>
  /\ Become(r, Idle)
  /\ UNCHANGED <<records, clock, asked>>

-----------------------------------------------------------------------------
(* The customer.                                                           *)

HasMaintenanceRecords(l) == \E rec \in records : rec.lift = l

\* setSoldTo, up to the write: the lift is there and nothing copies its customer.
AskSale(r, l) == \E c \in Customers \cup {None} :
  /\ Ask(r) /\ Found(l) /\ ~HasMaintenanceRecords(l)
  /\ Become(r, [op |-> "SOLD_TO", pc |-> "begin", lift |-> l, from |-> None, to |-> None,
                customer |-> c, role |-> None, at |-> 0])
  /\ UNCHANGED <<assets, events, records, clock>>

\* The event is written even where no row was.
SetSoldTo(r) ==
  LET x == request[r] IN
  /\ x.pc = "write" /\ x.op = "SOLD_TO"
  /\ assets' = IF Found(x.lift) THEN [assets EXCEPT ![x.lift].customer = x.customer] ELSE assets
  /\ Record(x.lift, Event("SOLD_TO", x, x.at))
  /\ Become(r, Idle)
  /\ UNCHANGED <<records, clock, asked>>

\* A transaction begins, and with it the time of what it writes.
Begin(r) ==
  /\ request[r].pc = "begin"
  /\ clock' = clock + 1
  /\ Become(r, [request[r] EXCEPT !.pc = "write", !.at = clock + 1])
  /\ UNCHANGED <<assets, events, records, asked>>

\* createContract, createBreakdown: the customer is read and copied.
AskRecord(r, l) == \E kind \in {"contract", "breakdown"} :
  /\ Ask(r) /\ Found(l) /\ assets[l].customer # None
  /\ Become(r, [op |-> "record", pc |-> "insert", kind |-> kind, lift |-> l,
                customer |-> assets[l].customer])
  /\ UNCHANGED <<assets, events, records, clock>>

InsertRecord(r) ==
  LET x == request[r] IN
  /\ x.pc = "insert"
  /\ records' = records \cup {[kind |-> x.kind, lift |-> x.lift, customer |-> x.customer]}
  /\ Become(r, Idle)
  /\ UNCHANGED <<assets, events, clock, asked>>

Next ==
  \/ \E l \in Lifts : Register(l)
  \/ \E r \in Requests :
       \/ Begin(r) \/ MoveStatus(r) \/ SetSoldTo(r) \/ InsertRecord(r)
       \/ \E l \in Lifts : \/ AskMove(r, l) \/ AskCorrection(r, l) \/ AskSale(r, l)
                           \/ AskRecord(r, l) \/ SoftDelete(r, l)

Spec == Init /\ [][Next]_vars
-----------------------------------------------------------------------------
(* Properties.                                                             *)

OfKinds(l, kinds) == SelectSeq(events[l], LAMBDA e : e.kind \in kinds)

\* "every step is recorded": the history of a lift, as it was written, leads from
\* its registration to where it is, each step from where the last one ended; a
\* step is one of the table pressed by a role that has it, or a correction.  And
\* the last sale is to the customer the lift has.
HistoryReplays ==
  \A l \in Lifts :
    LET steps == OfKinds(l, {"REGISTERED", "STATUS", "CORRECTED"})
        sales == OfKinds(l, {"REGISTERED", "SOLD_TO"})
    IN  /\ \A n \in 2..Len(steps) :
             /\ steps[n].from = steps[n - 1].to
             /\ steps[n].kind = "STATUS" => steps[n].to \in AllowedMoves(steps[n].from, steps[n].role)
        /\ steps # <<>> => Last(steps).to = assets[l].status
        /\ sales # <<>> /\ ~assets[l].deleted => Last(sales).customer = assets[l].customer

\* "Contracts and breakdowns hold their own copy of the customer, and maintenance
\* records are never rewritten": the copy is the customer the lift is sold to.
RecordsFollowTheSale == \A rec \in records : assets[rec.lift].customer = rec.customer

\* "A lift needs a customer before it can go to site": at the step itself.
ToSiteIsSold ==
  \A l \in Lifts : \A n \in DOMAIN events[l] :
    LET e == events[l][n] IN e.kind = "STATUS" /\ e.to = "AT_SITE" => e.held # None

\* "Newest first": the newest sale in the history is the one in force.
NewestSaleIsCurrent ==
  \A l \in Lifts :
    LET sales == ToSet(OfKinds(l, {"REGISTERED", "SOLD_TO"})) IN
    ~assets[l].deleted => \A e \in sales :
      (\A f \in sales : f.at <= e.at) => e.customer = assets[l].customer

\* "Who moved a lift or sold it, and when": nothing is recorded of a lift that is
\* gone.
NothingAfterDeletion ==
  \A l \in Lifts : \A n \in DOMAIN events[l] : events[l][n].kind = "DELETED" => n = Len(events[l])
=============================================================================
