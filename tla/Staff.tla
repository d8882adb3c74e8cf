------------------------------- MODULE Staff -------------------------------
(***************************************************************************)
(* The accounts of one tenant's staff: adding one, importing a sheet of    *)
(* them, and editing one's role and active flag.  Transactions are READ    *)
(* COMMITTED: a statement sees what has been committed.                    *)
(***************************************************************************)
EXTENDS FiniteSets, Integers, TLC

CONSTANTS
  Txns,         \* requests that can be under way at once
  Emails,       \* addresses, lower case
  Founders,     \* addresses of the administrators a tenant starts with
  MaxRequests,  \* bound: requests ever made
  MaxCrashes,   \* bound: processes that die
  None

ASSUME SomebodyFounds == Founders # {} /\ Founders \subseteq Emails

VARIABLES
  users,     \* the rows, by address: users_tenant_email_unique; None where there is none
  advisory,  \* who holds pg_advisory_xact_lock of the tenant
  tx,        \* each request
  requests, crashes

vars == <<users, advisory, tx, requests, crashes>>

\* One administering role and one that is not: CEO stands with ADMIN, and the
\* other roles differ only in their screens.
ADMIN_CAPABLE_ROLES == {"ADMIN"}
Roles == ADMIN_CAPABLE_ROLES \cup {"SALESPERSON"}
IMPORTABLE_ROLES == Roles \ ADMIN_CAPABLE_ROLES

\* An account; history: the request that made it.
Account(r, request) == [role |-> r, isActive |-> TRUE, via |-> request]

Accounts == [role : Roles, isActive : BOOLEAN, via : Nat]

ASSUME NoneIsApart == None \notin Txns /\ None \notin Roles /\ None \notin Accounts
ASSUME RequestsAreCounted == MaxRequests \in Nat /\ MaxCrashes \in Nat

AdminCapable(row) == row # None /\ row.isActive /\ row.role \in ADMIN_CAPABLE_ROLES

\* A request: its number, the addresses it is about, the columns of a patch,
\* the rows it is about to make, the answer.
Idle == [pc |-> "idle", op |-> "none", id |-> 0, emails |-> {}, role |-> None, active |-> None,
         fresh |-> {}, outcome |-> "none"]

Init ==
  /\ users = [e \in Emails |-> IF e \in Founders THEN Account("ADMIN", 0) ELSE None]
  /\ advisory = None
  /\ tx = [t \in Txns |-> Idle]
  /\ requests = 0 /\ crashes = 0

Become(t, x) == tx' = [tx EXCEPT ![t] = x]
Finish(t, outcome) == Become(t, [tx[t] EXCEPT !.pc = "done", !.outcome = outcome])
Taken == {e \in Emails : users[e] # None}

-----------------------------------------------------------------------------

FirstStep == [create |-> "check", import |-> "sheet", update |-> "lock"]

\* create has one address, an import a sheet of them; update one person.
Ask(t) ==
  /\ tx[t].pc = "idle" /\ requests < MaxRequests
  /\ requests' = requests + 1
  /\ \E op \in {"create", "import", "update"}, es \in (SUBSET Emails) \ {{}},
       r \in Roles \cup {None}, a \in {"on", "off", None} :
       /\ op = "create" => Cardinality(es) = 1 /\ r \in Roles /\ a = None
       /\ op = "import" => r \in IMPORTABLE_ROLES /\ a = None
       /\ op = "update" => Cardinality(es) = 1 /\ es \subseteq Taken /\ {r, a} # {None}
       /\ Become(t, [Idle EXCEPT !.pc = FirstStep[op], !.op = op, !.id = requests + 1,
                                  !.emails = es, !.role = r, !.active = a])
  /\ UNCHANGED <<users, advisory, crashes>>

\* findExistingEmails: the report on the sheet, before the passwords are hashed.
ReadSheet(t) ==
  LET x == tx[t] IN
  /\ x.pc = "sheet"
  /\ Become(t, [x EXCEPT !.pc = "check", !.emails = @ \ Taken])
  /\ UNCHANGED <<users, advisory, requests, crashes>>

\* The read of create refuses an address in use; that of createMany leaves it out.
CheckEmails(t) ==
  LET x == tx[t] IN
  /\ x.pc = "check"
  /\ IF x.op = "create" /\ x.emails \cap Taken # {} THEN Finish(t, "conflict")
     ELSE IF x.emails \subseteq Taken THEN Finish(t, "made")
     ELSE Become(t, [x EXCEPT !.pc = "insert", !.fresh = x.emails \ Taken])
  /\ UNCHANGED <<users, advisory, requests, crashes>>

\* One insert of every row: a row somebody else has committed since fails it.
Insertable(x) == x.fresh \cap Taken = {}

Insert(t) ==
  LET x == tx[t] IN
  /\ x.pc = "insert"
  /\ IF Insertable(x)
     THEN /\ users' = [e \in Emails |-> IF e \in x.fresh \ Taken
                         THEN Account(x.role, x.id) ELSE users[e]]
          /\ Finish(t, "made")
     ELSE Finish(t, "unique_violation") /\ UNCHANGED users
  /\ UNCHANGED <<advisory, requests, crashes>>

\* Mutant: the check runs without the lock.
LockFreeAlways == TRUE

LockFree == advisory = None

TakeLock(t) ==
  /\ tx[t].pc = "lock" /\ LockFree
  /\ advisory' = t
  /\ Become(t, [tx[t] EXCEPT !.pc = "guard"])
  /\ UNCHANGED <<users, requests, crashes>>

Release(t) == advisory' = IF advisory = t THEN None ELSE advisory

Person(t) == CHOOSE e \in tx[t].emails : TRUE

Another(e) == \E f \in Emails \ {e} : AdminCapable(users[f])

\* Columns the patch leaves out stay.
Patched(row, x) ==
  [row EXCEPT !.role = IF x.role = None THEN @ ELSE x.role,
              !.isActive = IF x.active = None THEN @ ELSE x.active = "on"]

\* assertNotLastAdmin.
AssertNotLastAdmin(t) ==
  LET x == tx[t]
      e == Person(t)
  IN  /\ x.pc = "guard"
      /\ IF AdminCapable(users[e]) /\ ~AdminCapable(Patched(users[e], x)) /\ ~Another(e)
         THEN Finish(t, "last_admin") /\ Release(t)
         ELSE Become(t, [x EXCEPT !.pc = "write"]) /\ UNCHANGED advisory
      /\ UNCHANGED <<users, requests, crashes>>

\* The write and its commit, which lets the lock go.
Update(t) ==
  LET x == tx[t] IN
  /\ x.pc = "write"
  /\ users' = [users EXCEPT ![Person(t)] = Patched(@, x)]
  /\ Finish(t, "made") /\ Release(t)
  /\ UNCHANGED <<requests, crashes>>

Answer(t) ==
  /\ tx[t].pc = "done"
  /\ Become(t, Idle)
  /\ UNCHANGED <<users, advisory, requests, crashes>>

\* The process dies: what was not committed is gone, the lock with it.
Crash(t) ==
  /\ tx[t].pc \notin {"idle", "done"} /\ crashes < MaxCrashes
  /\ crashes' = crashes + 1
  /\ Become(t, Idle) /\ Release(t)
  /\ UNCHANGED <<users, requests>>

Next == \E t \in Txns :
  \/ Ask(t) \/ ReadSheet(t) \/ CheckEmails(t) \/ Insert(t)
  \/ TakeLock(t) \/ AssertNotLastAdmin(t) \/ Update(t) \/ Answer(t) \/ Crash(t)

Spec == Init /\ [][Next]_vars
-----------------------------------------------------------------------------
(* Properties.                                                             *)

\* "two concurrent demotions of two different admins can each see the other
\* still active under READ COMMITTED and both pass the guard": whatever edits
\* interleave, somebody active can administer the tenant.
AnAdminRemains == \E e \in Emails : AdminCapable(users[e])

\* "a half-applied staff import is impossible": an import that fails has made
\* nobody, and one that succeeds has everybody it was to make.
ImportsAreWhole == \A t \in Txns :
  LET x == tx[t]
      Made == {e \in Taken : users[e].via = x.id}
  IN  x.pc = "done" /\ x.op = "import" =>
        IF x.outcome = "made" THEN x.fresh \subseteq Made ELSE x.fresh \cap Made = {}

\* "anything missing from that set was created by someone else between the
\* caller's check and this transaction, and is a skip, not a failure."
ImportSkipsWhatIsThere == \A t \in Txns :
  tx[t].op = "import" => tx[t].outcome # "unique_violation"
=============================================================================
