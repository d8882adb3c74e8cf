---------------------------- MODULE SiteSurveys ----------------------------
(***************************************************************************)
(* The sheets salespeople fill in on site: registered one by one or from   *)
(* an uploaded file, renamed, deleted, and converted into a customer and a *)
(* project.  READ COMMITTED; the only lock is the row lock of convert.     *)
(***************************************************************************)
EXTENDS FiniteSets, Integers, TLC

CONSTANTS
  Txns,         \* requests that can be under way at once
  Names,        \* project names, as projectKey normalises them
  Started,      \* the names of sheets that are there to begin with
  MaxRequests,  \* bound: requests ever made
  MaxCrashes,   \* bound: processes that die
  None

StartedAreNames == Started \subseteq Names
NoneIsNoNumber == None \notin Nat

VARIABLES
  surveys,   \* site_surveys
  projects,  \* projects opened from a sheet, with the sheet they were opened for
  customers, \* customers made by a conversion
  rowLock,   \* who holds the row lock of a sheet
  tx,        \* each request
  requests, crashes

vars == <<surveys, projects, customers, rowLock, tx, requests, crashes>>

\* A sheet; a customer and a project are numbered by the request that makes them.
Sheet(id, name) == [id |-> id, name |-> name, project |-> None, customer |-> None]
Picked == 0  \* a customer who is there already

Ids == {s.id : s \in surveys}
Rows(id) == {s \in surveys : s.id = id}

Idle == [pc |-> "idle", op |-> "none", req |-> 0, on |-> None, names |-> {},
         customer |-> None, outcome |-> "none"]

Init ==
  /\ surveys = {Sheet(<<0, n>>, n) : n \in Started}
  /\ projects = {} /\ customers = {Picked}
  /\ rowLock = {}
  /\ tx = [t \in Txns |-> Idle]
  /\ requests = 0 /\ crashes = 0

Become(t, x) == tx' = [tx EXCEPT ![t] = x]
Finish(t, outcome) == Become(t, [tx[t] EXCEPT !.pc = "done", !.outcome = outcome])

\* A write waits for the row lock of somebody else's transaction.
Locked(id, t) == \E l \in rowLock : l[1] = id /\ l[2] # t
Unlock(t) == rowLock' = {l \in rowLock : l[2] # t}

-----------------------------------------------------------------------------

FirstStep == [create |-> "check", import |-> "sheet", update |-> "check",
              delete |-> "write", convert |-> "lock"]

Ask(t) ==
  /\ tx[t].pc = "idle" /\ requests < MaxRequests
  /\ requests' = requests + 1
  /\ \E op \in DOMAIN FirstStep, names \in SUBSET Names, on \in Ids \cup {None},
        customer \in {None, Picked} :
       /\ op = "import" => names # {}
       /\ op \in {"create", "update"} => Cardinality(names) = 1
       /\ op \in {"delete", "convert"} => names = {}
       /\ on = None <=> op \in {"create", "import"}
       /\ op # "convert" => customer = None
       /\ Become(t, [Idle EXCEPT !.pc = FirstStep[op], !.op = op, !.req = requests + 1,
                                 !.on = on, !.names = names, !.customer = customer])
  /\ UNCHANGED <<surveys, projects, customers, rowLock, crashes>>

\* registeredProjects: rows of the file that are on file are reported, not sent on.
ReadSheet(t) ==
  LET x == tx[t]
      rest == x.names \ {s.name : s \in surveys}
  IN  /\ x.pc = "sheet"
      /\ IF rest = {} THEN Finish(t, "made")
         ELSE Become(t, [x EXCEPT !.pc = "check", !.names = rest])
      /\ UNCHANGED <<surveys, projects, customers, rowLock, requests, crashes>>

\* refuseDuplicate, for each name; an edit may keep its own.
RefuseDuplicate(t) ==
  LET x == tx[t] IN
  /\ x.pc = "check"
  /\ IF \E s \in surveys : s.name \in x.names /\ s.id # x.on
     THEN Finish(t, "duplicate")
     ELSE Become(t, [x EXCEPT !.pc = "write"])
  /\ UNCHANGED <<surveys, projects, customers, rowLock, requests, crashes>>

\* One insert of every row; no index keeps names apart.
Insert(t) ==
  LET x == tx[t] IN
  /\ x.pc = "write" /\ x.op \in {"create", "import"}
  /\ surveys' = surveys \cup {Sheet(<<x.req, n>>, n) : n \in x.names}
  /\ Finish(t, "made")
  /\ UNCHANGED <<projects, customers, rowLock, requests, crashes>>

\* update by id, delete by id: 404 when the row is gone.
Write(t) ==
  LET x == tx[t]
      renamed(s) == [s EXCEPT !.name = CHOOSE n \in x.names : TRUE]
  IN  /\ x.pc = "write" /\ x.op \in {"update", "delete"} /\ ~Locked(x.on, t)
      /\ surveys' = (surveys \ Rows(x.on)) \cup
                    (IF x.op = "update" THEN {renamed(s) : s \in Rows(x.on)} ELSE {})
      /\ Finish(t, IF Rows(x.on) = {} THEN "not_found" ELSE "made")
      /\ UNCHANGED <<projects, customers, rowLock, requests, crashes>>

\* Mutant: the sheet is read without for('update').
MayLockAlways(id, t) == TRUE

MayLock(id, t) == ~Locked(id, t)

\* "Locked, so two managers converting at once open one project."
LockSurvey(t) ==
  LET x == tx[t] IN
  /\ x.pc = "lock" /\ MayLock(x.on, t)
  /\ IF Rows(x.on) = {} THEN Finish(t, "not_found") /\ UNCHANGED rowLock
     ELSE IF \E s \in Rows(x.on) : s.project # None
     THEN Finish(t, "converted") /\ UNCHANGED rowLock
     ELSE Become(t, [x EXCEPT !.pc = "open"]) /\ rowLock' = rowLock \cup {<<x.on, t>>}
  /\ UNCHANGED <<surveys, projects, customers, requests, crashes>>

\* The customer, when a new one is described, is inserted by the transaction.
ResolveCustomer(t) ==
  LET x == tx[t] IN
  /\ x.pc = "open"
  /\ Become(t, [x EXCEPT !.pc = "link", !.customer = IF @ = None THEN x.req ELSE @])
  /\ UNCHANGED <<surveys, projects, customers, rowLock, requests, crashes>>

\* The project, the link of the sheet, and the commit that shows all of it.
Convert(t) ==
  LET x == tx[t] IN
  /\ x.pc = "link"
  /\ customers' = customers \cup {x.customer}
  /\ projects' = projects \cup {[id |-> x.req, survey |-> x.on, customer |-> x.customer]}
  /\ surveys' = (surveys \ Rows(x.on)) \cup
                {[s EXCEPT !.project = x.req, !.customer = x.customer] : s \in Rows(x.on)}
  /\ Unlock(t)
  /\ Finish(t, "made")
  /\ UNCHANGED <<requests, crashes>>

Answer(t) ==
  /\ tx[t].pc = "done"
  /\ Become(t, Idle)
  /\ UNCHANGED <<surveys, projects, customers, rowLock, requests, crashes>>

\* The process dies: its transaction is rolled back.
Crash(t) ==
  /\ tx[t].pc \notin {"idle", "done"} /\ crashes < MaxCrashes
  /\ crashes' = crashes + 1
  /\ Become(t, Idle) /\ Unlock(t)
  /\ UNCHANGED <<surveys, projects, customers, requests>>

Next == \E t \in Txns :
  \/ Ask(t) \/ ReadSheet(t) \/ RefuseDuplicate(t) \/ Insert(t) \/ Write(t)
  \/ LockSurvey(t) \/ ResolveCustomer(t) \/ Convert(t) \/ Answer(t) \/ Crash(t)

Spec == Init /\ [][Next]_vars
-----------------------------------------------------------------------------
(* Properties.                                                             *)

\* "so a failure never leaves a customer with no project or a project the sheet
\* does not point at": of a sheet that is still on file the only project is the
\* one it points at, and every customer a conversion made has a project.
SheetsAndProjectsAgree ==
  /\ \A p \in projects : \A s \in Rows(p.survey) : s.project = p.id /\ s.customer = p.customer
  /\ customers \ {Picked} \subseteq {p.customer : p \in projects}

\* "A site is registered once ...: a second survey under a project name already
\* on file is refused."
RegisteredOnce == \A r, s \in surveys : r.name = s.name => r = s
=============================================================================
