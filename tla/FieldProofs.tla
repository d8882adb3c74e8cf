----------------------------- MODULE FieldProofs -----------------------------
(***************************************************************************)
(* Proofs about three parts of MCField.  Staff, for any addresses,         *)
(* founders and number of requests under way: somebody can always          *)
(* administer the tenant, and an import makes everybody it was to make or  *)
(* nobody.  SiteSurveys, for any sheets, requests and crashes: a sheet, its *)
(* project and the customer of both agree.  Sessions, for any stores, tabs *)
(* and tokens: a refresh is refused for a reason.                          *)
(***************************************************************************)
EXTENDS MCField, FiniteSetTheorems, TLAPS

Labels == {"idle", "sheet", "check", "insert", "lock", "guard", "write", "done"}

RequestStates ==
  [pc : Labels, op : {"none", "create", "import", "update"}, id : Nat,
   emails : SUBSET Emails, role : Roles \cup {None}, active : {"on", "off", None},
   fresh : SUBSET Emails,
   outcome : {"none", "conflict", "made", "unique_violation", "last_admin"}]

\* Types of the rows, the lock and the requests.
TypeOK ==
  /\ users \in [Emails -> Accounts \cup {None}]
  /\ advisory \in Txns \cup {None}
  /\ tx \in [Txns -> RequestStates]
  /\ requests \in Nat

\* Each request is at a statement of its operation, with what it was asked.
AtItsStatement(t) ==
  LET x == tx[t] IN
  /\ x.pc = "idle" => x = Idle
  /\ x.pc \in {"sheet", "check", "insert"} => x.op \in {"create", "import"} /\ x.role \in Roles
  /\ x.pc \in {"lock", "guard", "write"} => x.op = "update"
  /\ x.op = "update" => x.emails # {} /\ x.emails \subseteq Taken
  /\ x.pc \in {"sheet", "check", "lock", "guard", "write"} => x.fresh = {}

\* Between the lock and the commit an update holds the lock.
HoldsTheLock(t) == tx[t].pc \in {"guard", "write"} => advisory = t

\* What the guard established is still true at the write.
GuardHolds(t) ==
  tx[t].pc = "write" =>
    LET e == Person(t) IN
    ~(AdminCapable(users[e]) /\ ~AdminCapable(Patched(users[e], tx[t])) /\ ~Another(e))

\* A request that is under way has a number of its own, and no account has the
\* number of a request to come.
Numbered ==
  /\ \A t \in Txns : tx[t].id \leq requests /\ (tx[t].pc # "idle" => tx[t].id > 0)
  /\ \A t, u \in Txns : t # u /\ tx[t].pc # "idle" => tx[t].id # tx[u].id
  /\ \A e \in Taken : users[e].via \leq requests

\* A request has made its accounts when it says so, and none before.
MadeWhenSaid(t) ==
  LET x == tx[t] IN
  x.pc # "idle" =>
    IF x.pc = "done" /\ x.outcome = "made"
    THEN \A e \in x.fresh : users[e] # None /\ users[e].via = x.id
    ELSE \A e \in Taken : users[e].via # x.id

IInv ==
  /\ TypeOK
  /\ \A t \in Txns : AtItsStatement(t) /\ HoldsTheLock(t) /\ GuardHolds(t) /\ MadeWhenSaid(t)
  /\ Numbered
  /\ AnAdminRemains

-----------------------------------------------------------------------------
(* Steps.                                                                  *)

\* A step of one request leaves the others as they are.
LEMMA OthersStay ==
  ASSUME TypeOK, NEW t \in Txns, NEW x, Become(t, x)
  PROVE  tx'[t] = x /\ \A u \in Txns \ {t} : tx'[u] = tx[u]
BY DEF TypeOK, Become

\* Giving up the lock takes nobody else's.
LEMMA ReleaseKeepsOthers ==
  ASSUME TypeOK, NEW t \in Txns, Release(t)
  PROVE  /\ advisory' \in Txns \cup {None}
         /\ \A u \in Txns \ {t} : advisory = u => advisory' = u
BY DEF TypeOK, Release

\* The one person of an update has an account.
LEMMA PersonIsTaken ==
  ASSUME IInv, NEW t \in Txns, tx[t].op = "update"
  PROVE  Person(t) \in Emails /\ users[Person(t)] \in Accounts
BY DEF IInv, TypeOK, AtItsStatement, Person, Taken

\* A statement that writes no account: it leaves the request with a number of its
\* own or idle, at a statement that fits.
LEMMA ReadingStep ==
  ASSUME IInv, NEW t \in Txns, NEW x \in RequestStates, Become(t, x),
         UNCHANGED <<users, requests>>,
         x = Idle \/ (x.id = tx[t].id /\ tx[t].pc # "idle"),
         advisory' \in Txns \cup {None},
         \A u \in Txns \ {t} : advisory = u => advisory' = u,
         AtItsStatement(t)', HoldsTheLock(t)', GuardHolds(t)', MadeWhenSaid(t)'
  PROVE  IInv'
<1>1. tx'[t] = x /\ \A u \in Txns \ {t} : tx'[u] = tx[u]
  BY OthersStay DEF IInv
<1>2. TypeOK'
  BY DEF IInv, TypeOK, Become
<1>3. ASSUME NEW u \in Txns
      PROVE  (AtItsStatement(u) /\ HoldsTheLock(u) /\ GuardHolds(u) /\ MadeWhenSaid(u))'
  <2>1. CASE u = t
    BY <2>1
  <2>2. CASE u # t
    <3>1. tx'[u] = tx[u] /\ (advisory = u => advisory' = u)
      BY <1>1, <2>2
    <3>2. AtItsStatement(u) /\ HoldsTheLock(u) /\ GuardHolds(u) /\ MadeWhenSaid(u)
      BY DEF IInv
    <3>3. AtItsStatement(u)' /\ HoldsTheLock(u)' /\ MadeWhenSaid(u)'
      BY <3>1, <3>2 DEF AtItsStatement, HoldsTheLock, MadeWhenSaid, Taken
    <3>4. GuardHolds(u)'
      BY <3>1, <3>2 DEF GuardHolds, Person, Another
    <3>5. QED
      BY <3>3, <3>4
  <2>3. QED
    BY <2>1, <2>2
<1>4. Numbered'
  BY <1>1 DEF IInv, Numbered, Idle, Taken, TypeOK
<1>5. AnAdminRemains'
  BY DEF IInv, AnAdminRemains
<1>6. QED
  BY <1>2, <1>3, <1>4, <1>5 DEF IInv

\* The tenant starts with its founders, who are active administrators.
LEMMA InvariantInit == Init => IInv
<1> SUFFICES ASSUME Init PROVE IInv
  OBVIOUS
<1>1. Idle \in RequestStates
  BY DEF Idle, RequestStates, Labels
<1>2. Account("ADMIN", 0) \in Accounts
  BY DEF Account, Accounts, Roles, ADMIN_CAPABLE_ROLES
<1>3. TypeOK
  BY <1>1, <1>2 DEF Init, TypeOK
<1>4. \A t \in Txns : tx[t] = Idle
  BY DEF Init
<1>5. \A t \in Txns : AtItsStatement(t) /\ HoldsTheLock(t) /\ GuardHolds(t) /\ MadeWhenSaid(t)
  BY <1>4 DEF AtItsStatement, HoldsTheLock, GuardHolds, MadeWhenSaid, Idle
<1>6. Numbered
  <2>1. \A e \in Taken : users[e] = Account("ADMIN", 0)
    BY DEF Init, Taken
  <2>2. requests = 0 /\ Account("ADMIN", 0).via = 0
    BY DEF Init, Account
  <2>3. QED
    BY <1>4, <2>1, <2>2 DEF Numbered, Idle
<1>7. AnAdminRemains
  <2>1. PICK e \in Founders : TRUE
    BY SomebodyFounds
  <2>2. e \in Emails /\ users[e] = Account("ADMIN", 0)
    BY SomebodyFounds DEF Init
  <2>3. users[e] # None
    BY <1>2, <2>2, NoneIsApart
  <2>4. AdminCapable(users[e])
    BY <2>2, <2>3 DEF AdminCapable, Account, ADMIN_CAPABLE_ROLES
  <2>5. QED
    BY <2>2, <2>4 DEF AnAdminRemains
<1>8. QED
  BY <1>3, <1>5, <1>6, <1>7 DEF IInv

\* A request that comes in has the next number, which no account has.
LEMMA AskStep == ASSUME IInv, NEW t \in Txns, Ask(t) PROVE IInv'
<1>1. PICK op \in {"create", "import", "update"}, es \in (SUBSET Emails) \ {{}},
           r \in Roles \cup {None}, a \in {"on", "off", None} :
        /\ op = "create" => Cardinality(es) = 1 /\ r \in Roles /\ a = None
        /\ op = "import" => r \in IMPORTABLE_ROLES /\ a = None
        /\ op = "update" => Cardinality(es) = 1 /\ es \subseteq Taken /\ {r, a} # {None}
        /\ Become(t, [Idle EXCEPT !.pc = FirstStep[op], !.op = op, !.id = requests + 1,
                                  !.emails = es, !.role = r, !.active = a])
  BY DEF Ask
<1> DEFINE next == requests + 1
           x == [Idle EXCEPT !.pc = FirstStep[op], !.op = op, !.id = next,
                             !.emails = es, !.role = r, !.active = a]
<1>2. requests' = next /\ tx[t].pc = "idle" /\ UNCHANGED <<users, advisory>>
  BY DEF Ask
<1>3. requests \in Nat /\ next \in Nat /\ next > requests
  BY DEF IInv, TypeOK
<1>4. /\ x.pc = FirstStep[op] /\ x.op = op /\ x.id = next /\ x.emails = es /\ x.role = r
      /\ x.outcome = "none" /\ x.fresh = {}
  BY DEF Idle
<1>5. FirstStep[op] \in {"check", "sheet", "lock"} /\ (op = "update" <=> FirstStep[op] = "lock")
  BY op = "create" \/ op = "import" \/ op = "update" DEF FirstStep
<1>6. x \in RequestStates
  <2>1. Idle \in RequestStates
    BY DEF Idle, RequestStates, Labels
  <2>2. FirstStep[op] \in Labels
    BY <1>5 DEF Labels
  <2> HIDE DEF next
  <2>3. QED
    BY <1>3, <2>1, <2>2 DEF RequestStates
<1>7. Become(t, x)
  BY <1>1
<1> HIDE DEF next, x
<1>8. tx'[t] = x /\ \A u \in Txns \ {t} : tx'[u] = tx[u]
  BY <1>7, OthersStay DEF IInv
<1>9. TypeOK'
  BY <1>2, <1>3, <1>6, <1>7 DEF IInv, TypeOK, Become
<1>10. (AtItsStatement(t) /\ HoldsTheLock(t) /\ GuardHolds(t))'
  <2>1. r \in Roles \/ op = "update"
    BY <1>1 DEF IMPORTABLE_ROLES
  <2>2. op = "update" => es # {} /\ es \subseteq Taken /\ Taken' = Taken
    BY <1>1, <1>2 DEF Taken
  <2>3. QED
    BY <1>4, <1>5, <1>8, <2>1, <2>2 DEF AtItsStatement, HoldsTheLock, GuardHolds
<1>11. MadeWhenSaid(t)'
  <2>1. \A e \in Taken : users[e].via \leq requests /\ users[e].via \in Nat
    BY DEF IInv, Numbered, TypeOK, Taken, Accounts
  <2>2. QED
    BY <1>2, <1>3, <1>4, <1>5, <1>8, <2>1 DEF MadeWhenSaid, Taken
<1>12. ASSUME NEW u \in Txns \ {t}
       PROVE  (AtItsStatement(u) /\ HoldsTheLock(u) /\ GuardHolds(u) /\ MadeWhenSaid(u))'
  BY <1>2, <1>8 DEF IInv, AtItsStatement, HoldsTheLock, GuardHolds, MadeWhenSaid, Person, Another, Taken
<1>13. Numbered'
  <2>1. \A u \in Txns : tx[u].id \in Nat
    BY DEF IInv, TypeOK, RequestStates
  <2>2. \A e \in Taken : users[e].via \in Nat
    BY DEF IInv, TypeOK, Taken, Accounts
  <2>3. tx'[t].id = next
    BY <1>4, <1>8
  <2>4. (\A v \in Txns : tx[v].id \leq requests /\ (tx[v].pc # "idle" => tx[v].id > 0))'
    BY <1>2, <1>3, <1>8, <2>1, <2>3 DEF IInv, Numbered
  <2>5. (\A v, u \in Txns : v # u /\ tx[v].pc # "idle" => tx[v].id # tx[u].id)'
    <3>1. \A v, u \in Txns : v # u /\ tx[v].pc # "idle" => tx[v].id # tx[u].id
      BY DEF IInv, Numbered
    <3>2. \A v \in Txns : tx[v].id < next
      BY <1>3, <2>1 DEF IInv, Numbered
    <3>3. ASSUME NEW v \in Txns, NEW u \in Txns, v # u, tx'[v].pc # "idle" PROVE tx'[v].id # tx'[u].id
      <4>1. CASE v = t
        BY <1>3, <1>8, <2>1, <2>3, <3>2, <3>3, <4>1
      <4>2. CASE u = t
        BY <1>3, <1>8, <2>1, <2>3, <3>2, <3>3, <4>2
      <4>3. CASE v # t /\ u # t
        BY <1>8, <3>1, <3>3, <4>3
      <4>4. QED
        BY <4>1, <4>2, <4>3
    <3>4. QED
      BY <3>3
  <2>6. (\A e \in Taken : users[e].via \leq requests)'
    BY <1>2, <1>3, <2>2 DEF IInv, Numbered, Taken
  <2>7. QED
    BY <2>4, <2>5, <2>6 DEF Numbered
<1>14. AnAdminRemains'
  BY <1>2 DEF IInv, AnAdminRemains
<1>15. QED
  BY <1>9, <1>10, <1>11, <1>12, <1>13, <1>14 DEF IInv

\* The report on a sheet leaves out the addresses in use.
LEMMA ReadSheetStep == ASSUME IInv, NEW t \in Txns, ReadSheet(t) PROVE IInv'
<1> DEFINE x == [tx[t] EXCEPT !.pc = "check", !.emails = @ \ Taken]
<1>1. tx[t] \in RequestStates /\ tx[t].pc = "sheet" /\ Become(t, x) /\ UNCHANGED <<users, advisory, requests>>
  BY DEF ReadSheet, IInv, TypeOK
<1>2. x \in RequestStates /\ x.pc = "check" /\ x.id = tx[t].id /\ x.op = tx[t].op /\ x.role = tx[t].role
      /\ x.outcome = tx[t].outcome /\ x.fresh = tx[t].fresh
  BY <1>1 DEF RequestStates, Labels
<1>3. tx'[t] = x
  BY <1>1, OthersStay DEF IInv
<1> HIDE DEF x
<1>4. (AtItsStatement(t) /\ HoldsTheLock(t) /\ GuardHolds(t) /\ MadeWhenSaid(t))'
  BY <1>1, <1>2, <1>3 DEF IInv, AtItsStatement, HoldsTheLock, GuardHolds, MadeWhenSaid, Taken
<1>5. advisory' \in Txns \cup {None}
  BY <1>1 DEF IInv, TypeOK
<1>6. QED
  BY <1>1, <1>2, <1>4, <1>5, ReadingStep

\* An outcome ends a request that has made nothing.
LEMMA RefusedStep ==
  ASSUME IInv, NEW t \in Txns, tx[t].pc \notin {"idle", "done"},
         NEW outcome \in {"conflict", "unique_violation", "last_admin"},
         Finish(t, outcome), UNCHANGED <<users, requests>>,
         advisory' \in Txns \cup {None},
         \A u \in Txns \ {t} : advisory = u => advisory' = u
  PROVE  IInv'
<1> DEFINE x == [tx[t] EXCEPT !.pc = "done", !.outcome = outcome]
<1>1. x \in RequestStates /\ x.pc = "done" /\ x.id = tx[t].id /\ x.op = tx[t].op
      /\ x.emails = tx[t].emails /\ x.outcome = outcome
  BY DEF IInv, TypeOK, RequestStates, Labels
<1>2. Become(t, x)
  BY DEF Finish
<1> HIDE DEF x
<1>3. tx'[t] = x
  BY <1>2, OthersStay DEF IInv
<1>4. (AtItsStatement(t) /\ HoldsTheLock(t) /\ GuardHolds(t))'
  BY <1>1, <1>3 DEF IInv, AtItsStatement, HoldsTheLock, GuardHolds, Taken
<1>5. MadeWhenSaid(t)'
  BY <1>1, <1>3 DEF IInv, MadeWhenSaid, Taken
<1>6. QED
  BY <1>1, <1>2, <1>4, <1>5, ReadingStep

\* A request that finds its addresses free will insert them; one that does not is
\* refused, or has nobody to make.
LEMMA CheckEmailsStep == ASSUME IInv, NEW t \in Txns, CheckEmails(t) PROVE IInv'
<1>1. tx[t] \in RequestStates /\ tx[t].pc = "check" /\ UNCHANGED <<users, advisory, requests>>
  BY DEF CheckEmails, IInv, TypeOK
<1>2. advisory' \in Txns \cup {None}
  BY <1>1 DEF IInv, TypeOK
<1>3. CASE Finish(t, "conflict")
  BY <1>1, <1>2, <1>3, RefusedStep
<1>4. CASE Finish(t, "made") /\ tx[t].emails \subseteq Taken
  <2> DEFINE x == [tx[t] EXCEPT !.pc = "done", !.outcome = "made"]
  <2>1. x \in RequestStates /\ x.pc = "done" /\ x.id = tx[t].id /\ x.op = tx[t].op /\ x.outcome = "made"
        /\ x.fresh = tx[t].fresh
    BY <1>1 DEF RequestStates, Labels
  <2>2. Become(t, x)
    BY <1>4 DEF Finish
  <2> HIDE DEF x
  <2>3. tx'[t] = x
    BY <2>2, OthersStay DEF IInv
  <2>4. (AtItsStatement(t) /\ HoldsTheLock(t) /\ GuardHolds(t))'
    BY <1>1, <2>1, <2>3 DEF IInv, AtItsStatement, HoldsTheLock, GuardHolds
  <2>5. x.fresh = {}
    BY <1>1, <2>1 DEF IInv, AtItsStatement
  <2>6. MadeWhenSaid(t)'
    BY <2>1, <2>3, <2>5 DEF MadeWhenSaid
  <2>7. QED
    BY <1>1, <1>2, <2>1, <2>2, <2>4, <2>6, ReadingStep
<1>5. CASE Become(t, [tx[t] EXCEPT !.pc = "insert", !.fresh = tx[t].emails \ Taken])
  <2> DEFINE x == [tx[t] EXCEPT !.pc = "insert", !.fresh = tx[t].emails \ Taken]
  <2>1. x \in RequestStates /\ x.pc = "insert" /\ x.id = tx[t].id /\ x.op = tx[t].op /\ x.role = tx[t].role
    BY <1>1 DEF RequestStates, Labels
  <2>2. Become(t, x)
    BY <1>5
  <2> HIDE DEF x
  <2>3. tx'[t] = x
    BY <2>2, OthersStay DEF IInv
  <2>4. (AtItsStatement(t) /\ HoldsTheLock(t) /\ GuardHolds(t) /\ MadeWhenSaid(t))'
    BY <1>1, <2>1, <2>3 DEF IInv, AtItsStatement, HoldsTheLock, GuardHolds, MadeWhenSaid, Taken
  <2>5. QED
    BY <1>1, <1>2, <2>1, <2>2, <2>4, ReadingStep
<1>6. QED
  BY <1>3, <1>4, <1>5 DEF CheckEmails

\* The lock is taken from nobody.
LEMMA TakeLockStep == ASSUME IInv, NEW t \in Txns, TakeLock(t) PROVE IInv'
<1> DEFINE x == [tx[t] EXCEPT !.pc = "guard"]
<1>1. tx[t] \in RequestStates /\ tx[t].pc = "lock" /\ advisory = None /\ advisory' = t
      /\ Become(t, x) /\ UNCHANGED <<users, requests>>
  BY DEF TakeLock, LockFree, IInv, TypeOK
<1>2. x \in RequestStates /\ x.pc = "guard" /\ x.id = tx[t].id /\ x.op = tx[t].op
      /\ x.emails = tx[t].emails /\ x.fresh = tx[t].fresh
  BY <1>1 DEF RequestStates, Labels
<1> HIDE DEF x
<1>3. tx'[t] = x
  BY <1>1, OthersStay DEF IInv
<1>4. (AtItsStatement(t) /\ HoldsTheLock(t) /\ GuardHolds(t) /\ MadeWhenSaid(t))'
  BY <1>1, <1>2, <1>3 DEF IInv, AtItsStatement, HoldsTheLock, GuardHolds, MadeWhenSaid, Taken
<1>5. \A u \in Txns \ {t} : advisory # u
  BY <1>1, NoneIsApart
<1>6. QED
  BY <1>1, <1>2, <1>4, <1>5, ReadingStep

\* The guard passes an update that leaves somebody, or ends it.
LEMMA GuardStep == ASSUME IInv, NEW t \in Txns, AssertNotLastAdmin(t) PROVE IInv'
<1> DEFINE e == Person(t)
           refused == AdminCapable(users[e]) /\ ~AdminCapable(Patched(users[e], tx[t])) /\ ~Another(e)
           x == [tx[t] EXCEPT !.pc = "write"]
<1>1. tx[t] \in RequestStates /\ tx[t].pc = "guard" /\ UNCHANGED <<users, requests>>
  BY DEF AssertNotLastAdmin, IInv, TypeOK
<1>2. CASE refused
  <2>1. Finish(t, "last_admin") /\ Release(t)
    BY <1>2 DEF AssertNotLastAdmin
  <2>2. QED
    BY <1>1, <2>1, ReleaseKeepsOthers, RefusedStep DEF IInv
<1>3. CASE ~refused
  <2>1. Become(t, x) /\ UNCHANGED advisory
    BY <1>3 DEF AssertNotLastAdmin
  <2>2. x \in RequestStates /\ x.pc = "write" /\ x.id = tx[t].id /\ x.op = tx[t].op
        /\ x.emails = tx[t].emails /\ x.role = tx[t].role /\ x.active = tx[t].active
        /\ x.fresh = tx[t].fresh
    BY <1>1 DEF RequestStates, Labels
  <2> HIDE DEF x
  <2>3. tx'[t] = x
    BY <2>1, OthersStay DEF IInv
  <2>4. (AtItsStatement(t) /\ HoldsTheLock(t) /\ MadeWhenSaid(t))'
    BY <1>1, <2>1, <2>2, <2>3 DEF IInv, AtItsStatement, HoldsTheLock, MadeWhenSaid, Taken
  <2>5. Person(t)' = e
    BY <2>2, <2>3 DEF Person
  <2>6. GuardHolds(t)'
    BY <1>1, <1>3, <2>2, <2>3, <2>5 DEF GuardHolds, Patched, Another
  <2>7. advisory' \in Txns \cup {None}
    BY <2>1 DEF IInv, TypeOK
  <2>8. QED
    BY <1>1, <2>1, <2>2, <2>4, <2>6, <2>7, ReadingStep
<1>4. QED
  BY <1>2, <1>3

\* An answered request is forgotten, and so is one whose process has died.
LEMMA ForgetStep ==
  ASSUME IInv, NEW t \in Txns, Become(t, Idle), UNCHANGED <<users, requests>>,
         advisory' \in Txns \cup {None},
         \A u \in Txns \ {t} : advisory = u => advisory' = u
  PROVE  IInv'
<1>1. tx'[t] = Idle
  BY OthersStay DEF IInv
<1>2. Idle \in RequestStates
  BY DEF Idle, RequestStates, Labels
<1>3. (AtItsStatement(t) /\ HoldsTheLock(t) /\ GuardHolds(t) /\ MadeWhenSaid(t))'
  BY <1>1 DEF AtItsStatement, HoldsTheLock, GuardHolds, MadeWhenSaid, Idle
<1>4. QED
  BY <1>2, <1>3, ReadingStep

\* The accounts of a request are new addresses and carry its number, which no other
\* request has.
LEMMA InsertStep == ASSUME IInv, NEW t \in Txns, Insert(t) PROVE IInv'
<1>1. tx[t] \in RequestStates /\ tx[t].pc = "insert" /\ UNCHANGED <<advisory, requests>>
  BY DEF Insert, IInv, TypeOK
<1>2. advisory' \in Txns \cup {None}
  BY <1>1 DEF IInv, TypeOK
<1>3. CASE ~Insertable(tx[t])
  <2>1. Finish(t, "unique_violation") /\ UNCHANGED users
    BY <1>3 DEF Insert
  <2>2. QED
    BY <1>1, <1>2, <2>1, RefusedStep
<1>4. CASE Insertable(tx[t])
  <2> DEFINE made == Account(tx[t].role, tx[t].id)
             fresh == tx[t].fresh
             x == [tx[t] EXCEPT !.pc = "done", !.outcome = "made"]
  <2>1. x \in RequestStates /\ x.pc = "done" /\ x.id = tx[t].id /\ x.op = tx[t].op
        /\ x.outcome = "made" /\ x.fresh = fresh /\ x.emails = tx[t].emails
    BY <1>1 DEF RequestStates, Labels
  <2>2. Become(t, x)
    BY <1>4 DEF Insert, Finish
  <2> HIDE DEF x
  <2>3. tx'[t] = x /\ \A u \in Txns \ {t} : tx'[u] = tx[u]
    BY <2>2, OthersStay DEF IInv
  <2>4. made \in Accounts /\ made # None /\ made.via = tx[t].id
    <3>1. tx[t].role \in Roles /\ tx[t].id \in Nat
      BY <1>1 DEF IInv, AtItsStatement, RequestStates
    <3>2. made \in Accounts /\ made.via = tx[t].id
      BY <3>1 DEF Account, Accounts
    <3>3. QED
      BY <3>2, NoneIsApart
  <2>5. users' = [e \in Emails |-> IF e \in fresh THEN made ELSE users[e]] /\ fresh \cap Taken = {}
        /\ fresh \subseteq Emails
    BY <1>1, <1>4 DEF Insert, Insertable, RequestStates
  <2> HIDE DEF made
  <2>6. /\ \A e \in Taken : users'[e] = users[e]
        /\ \A e \in fresh : users'[e] = made
        /\ Taken' = Taken \cup fresh
    BY <2>4, <2>5 DEF Taken
  <2>7. TypeOK'
    BY <1>1, <1>2, <2>1, <2>2, <2>4, <2>5 DEF IInv, TypeOK, Become
  <2>8. tx[t].id \in 1..requests /\ \A u \in Txns \ {t} : tx[u].id # tx[t].id
    BY <1>1 DEF IInv, TypeOK, Numbered, RequestStates
  <2>9. (AtItsStatement(t) /\ HoldsTheLock(t) /\ GuardHolds(t) /\ MadeWhenSaid(t))'
    BY <1>1, <2>1, <2>3, <2>4, <2>6 DEF IInv, AtItsStatement, HoldsTheLock, GuardHolds, MadeWhenSaid
  <2>10. ASSUME NEW u \in Txns \ {t}
         PROVE  (AtItsStatement(u) /\ HoldsTheLock(u) /\ GuardHolds(u) /\ MadeWhenSaid(u))'
    <3>1. tx'[u] = tx[u]
      BY <2>3
    <3>2. AtItsStatement(u) /\ HoldsTheLock(u) /\ GuardHolds(u) /\ MadeWhenSaid(u)
      BY DEF IInv
    <3>3. AtItsStatement(u)' /\ HoldsTheLock(u)'
      BY <1>1, <2>6, <3>1, <3>2 DEF AtItsStatement, HoldsTheLock
    <3>4. GuardHolds(u)'
      <4> SUFFICES ASSUME tx[u].pc = "write" PROVE GuardHolds(u)'
        BY <3>1 DEF GuardHolds
      <4>1. Person(u) \in Taken /\ Person(u)' = Person(u)
        BY <3>1, <3>2, PersonIsTaken, NoneIsApart DEF AtItsStatement, Person, Taken
      <4>2. users'[Person(u)] = users[Person(u)]
        BY <2>6, <4>1
      <4>3. Another(Person(u)) => Another(Person(u))'
        BY <2>6, <4>1 DEF Another, AdminCapable, Taken
      <4>4. QED
        BY <3>1, <3>2, <4>1, <4>2, <4>3 DEF GuardHolds, Patched
    <3>5. MadeWhenSaid(u)'
      <4>1. CASE tx[u].pc = "done" /\ tx[u].outcome = "made"
        <5>1. tx[u].fresh \subseteq Emails
          BY DEF IInv, TypeOK, RequestStates
        <5>2. \A e \in tx[u].fresh : e \in Taken /\ users[e].via = tx[u].id
          BY <3>2, <4>1, <5>1 DEF MadeWhenSaid, Taken
        <5>3. QED
          BY <2>6, <3>1, <4>1, <5>2 DEF MadeWhenSaid, Taken
      <4>2. CASE ~(tx[u].pc = "done" /\ tx[u].outcome = "made")
        BY <2>4, <2>6, <2>8, <3>1, <3>2, <4>2 DEF MadeWhenSaid
      <4>3. QED
        BY <4>1, <4>2
    <3>6. QED
      BY <3>3, <3>4, <3>5
  <2>11. Numbered'
    <3>1. \A e \in Taken' : users'[e].via \leq requests'
      BY <1>1, <2>4, <2>6, <2>8 DEF IInv, Numbered
    <3>2. \A v \in Txns : tx'[v].id = tx[v].id /\ (tx'[v].pc # "idle" => tx[v].pc # "idle")
      BY <1>1, <2>1, <2>3
    <3>3. QED
      BY <1>1, <3>1, <3>2 DEF IInv, Numbered
  <2>12. AnAdminRemains'
    BY <2>6 DEF IInv, AnAdminRemains, AdminCapable, Taken
  <2>13. QED
    BY <2>7, <2>9, <2>10, <2>11, <2>12 DEF IInv
<1>5. QED
  BY <1>3, <1>4

\* The write of an update: nobody else could pass the guard since it did.
LEMMA UpdateStep == ASSUME IInv, NEW t \in Txns, Update(t) PROVE IInv'
<1> DEFINE e == Person(t)
           after == Patched(users[e], tx[t])
           x == [tx[t] EXCEPT !.pc = "done", !.outcome = "made"]
<1>1. tx[t] \in RequestStates /\ tx[t].pc = "write" /\ UNCHANGED requests /\ Release(t)
  BY DEF Update, IInv, TypeOK
<1>2. /\ advisory = t /\ tx[t].op = "update" /\ tx[t].fresh = {} /\ tx[t].emails # {}
      /\ tx[t].emails \subseteq Taken
  BY <1>1 DEF IInv, AtItsStatement, HoldsTheLock
<1>3. e \in Emails /\ users[e] \in Accounts
  BY <1>2, PersonIsTaken
<1>4. after \in Accounts /\ after.via = users[e].via
  <2>1. tx[t].role \in Roles \cup {None}
    BY <1>1 DEF RequestStates
  <2>2. QED
    BY <1>3, <2>1 DEF Patched, Accounts
<1>5. after # None /\ users[e] # None
  BY <1>3, <1>4, NoneIsApart
<1>6. users' = [users EXCEPT ![e] = after]
  BY DEF Update
<1>7. x \in RequestStates /\ x.pc = "done" /\ x.id = tx[t].id /\ x.op = tx[t].op
      /\ x.outcome = "made" /\ x.fresh = {} /\ x.emails = tx[t].emails
  BY <1>1, <1>2 DEF RequestStates, Labels
<1>8. Become(t, x)
  BY DEF Update, Finish
<1> HIDE DEF x, after
<1>9. tx'[t] = x /\ \A u \in Txns \ {t} : tx'[u] = tx[u]
  BY <1>8, OthersStay DEF IInv
<1>10. users'[e] = after /\ \A f \in Emails \ {e} : users'[f] = users[f]
  BY <1>3, <1>6 DEF IInv, TypeOK
<1>11. Taken' = Taken /\ \A f \in Taken : users'[f].via = users[f].via
  BY <1>4, <1>5, <1>10 DEF Taken
<1>12. /\ advisory' \in Txns \cup {None}
       /\ \A u \in Txns \ {t} : advisory = u => advisory' = u
  BY <1>1, ReleaseKeepsOthers DEF IInv
<1>13. TypeOK'
  BY <1>1, <1>4, <1>6, <1>7, <1>8, <1>12 DEF IInv, TypeOK, Become
<1>14. (AtItsStatement(t) /\ HoldsTheLock(t) /\ GuardHolds(t) /\ MadeWhenSaid(t))'
  BY <1>2, <1>7, <1>9, <1>11 DEF IInv, AtItsStatement, HoldsTheLock, GuardHolds, MadeWhenSaid
<1>15. ASSUME NEW u \in Txns \ {t}
       PROVE  (AtItsStatement(u) /\ HoldsTheLock(u) /\ GuardHolds(u) /\ MadeWhenSaid(u))'
  <2>1. tx'[u] = tx[u]
    BY <1>9
  <2>2. AtItsStatement(u) /\ HoldsTheLock(u) /\ MadeWhenSaid(u) /\ tx[u].pc # "write"
    BY <1>2 DEF IInv, HoldsTheLock
  <2>3. AtItsStatement(u)' /\ HoldsTheLock(u)' /\ GuardHolds(u)'
    BY <1>11, <1>12, <2>1, <2>2 DEF AtItsStatement, HoldsTheLock, GuardHolds
  <2>4. MadeWhenSaid(u)'
    <3>1. tx[u].fresh \subseteq Emails
      BY DEF IInv, TypeOK, RequestStates
    <3>2. \A f \in Emails : users[f] # None <=> f \in Taken
      BY DEF Taken
    <3>3. \A f \in Emails : users'[f] # None <=> f \in Taken
      BY <1>11 DEF Taken
    <3>4. QED
      BY <1>11, <2>1, <2>2, <3>1, <3>2, <3>3 DEF MadeWhenSaid
  <2>5. QED
    BY <2>3, <2>4
<1>16. Numbered'
  <2>1. \A v \in Txns : tx'[v].id = tx[v].id /\ (tx'[v].pc # "idle" => tx[v].pc # "idle")
    BY <1>1, <1>7, <1>9
  <2>2. QED
    BY <1>1, <1>11, <2>1 DEF IInv, Numbered
<1>17. AnAdminRemains'
  <2>1. ~(AdminCapable(users[e]) /\ ~AdminCapable(after) /\ ~Another(e))
    BY <1>1 DEF IInv, GuardHolds, after
  <2>2. CASE AdminCapable(after)
    BY <1>3, <1>10, <2>2 DEF AnAdminRemains
  <2>3. CASE Another(e)
    BY <1>10, <2>3 DEF AnAdminRemains, Another
  <2>4. CASE ~AdminCapable(users[e])
    BY <1>10, <2>4 DEF IInv, AnAdminRemains
  <2>5. QED
    BY <2>1, <2>2, <2>3, <2>4
<1>18. QED
  BY <1>13, <1>14, <1>15, <1>16, <1>17 DEF IInv

\* Every step of the staff's requests keeps the invariant.
LEMMA InvariantStep == ASSUME IInv, [Next]_vars PROVE IInv'
<1>1. ASSUME NEW t \in Txns, Answer(t) PROVE IInv'
  <2>1. UNCHANGED advisory /\ advisory \in Txns \cup {None}
    BY <1>1 DEF Answer, IInv, TypeOK
  <2>2. QED
    BY <1>1, <2>1, ForgetStep DEF Answer
<1>2. ASSUME NEW t \in Txns, Crash(t) PROVE IInv'
  BY <1>2, ReleaseKeepsOthers, ForgetStep DEF Crash, IInv
<1>3. CASE UNCHANGED vars
  BY <1>3 DEF vars, IInv, TypeOK, AtItsStatement, HoldsTheLock, GuardHolds, MadeWhenSaid, Numbered,
     AnAdminRemains, Person, Another, Taken
<1>4. QED
  BY <1>1, <1>2, <1>3, AskStep, ReadSheetStep, CheckEmailsStep, InsertStep, TakeLockStep,
     GuardStep, UpdateStep DEF Next

\* The invariant holds in every reachable state.
LEMMA InvariantHolds == Spec => []IInv
<1>1. IInv /\ [Next]_vars => IInv'
  BY InvariantStep
<1>2. QED
  BY <1>1, InvariantInit, PTL DEF Spec

\* However many demotions, deactivations, creations and imports interleave, and
\* whoever dies on the way, somebody active can administer the tenant.
THEOREM SomebodyAdministers == Spec => []AnAdminRemains
<1>1. IInv => AnAdminRemains
  BY DEF IInv
<1>2. QED
  BY <1>1, InvariantHolds, PTL

\* Whoever a finished import has made is known by what it answered.
LEMMA WholeWhenSaid == IInv => ImportsAreWhole
<1> SUFFICES ASSUME IInv, NEW t \in Txns, tx[t].pc = "done"
             PROVE  LET Made == {e \in Taken : users[e].via = tx[t].id} IN
                    IF tx[t].outcome = "made" THEN tx[t].fresh \subseteq Made
                                              ELSE tx[t].fresh \cap Made = {}
  BY DEF ImportsAreWhole
<1>1. tx[t].fresh \subseteq Emails
  BY DEF IInv, TypeOK, RequestStates
<1>2. MadeWhenSaid(t)
  BY DEF IInv
<1>3. QED
  BY <1>1, <1>2 DEF MadeWhenSaid, Taken

\* An import that answers with success has made everybody it was to make, and one
\* that fails has made nobody: there is no half-applied staff import.
THEOREM ImportsMakeAllOrNobody == Spec => []ImportsAreWhole
BY WholeWhenSaid, InvariantHolds, PTL

-----------------------------------------------------------------------------
(* SiteSurveys, a part of MCField.                                         *)

SheetIds == Nat \X SurveyNames

Forms ==
  [pc : {"idle", "sheet", "check", "write", "lock", "open", "link", "done"},
   op : {"none", "create", "import", "update", "delete", "convert"}, req : Nat,
   on : SheetIds \cup {None}, names : SUBSET SurveyNames, customer : Nat \cup {None},
   outcome : {"none", "made", "duplicate", "not_found", "converted"}]

SurveyTypes ==
  /\ surveys \subseteq [id : SheetIds, name : SurveyNames,
                        project : Nat \cup {None}, customer : Nat \cup {None}]
  /\ projects \subseteq [id : Nat, survey : SheetIds, customer : Nat \cup {None}]
  /\ rowLock \subseteq SheetIds \X Txns
  /\ form \in [Txns -> Forms]
  /\ forms \in Nat

Busy(t) == form[t].pc \notin {"idle", "done"}
Making(t) == Busy(t) /\ form[t].op \in {"create", "import"}

\* A sheet was registered by a request that is not about to register another.
Old(id) == id[1] \in 0..forms /\ \A t \in Txns : Making(t) => form[t].req # id[1]

\* Requests under way have numbers of their own, and the sheets there are or were
\* have other ones than those still to be registered.
SheetsAreNumbered ==
  /\ \A t \in Txns : Busy(t) => form[t].req \in 1..forms
  /\ \A t, u \in Txns : Busy(t) /\ Busy(u) /\ form[t].req = form[u].req => t = u
  /\ \A s \in surveys : Old(s.id)
  /\ \A p \in projects : Old(p.survey)
  /\ \A t \in Txns : form[t].op \in {"update", "delete", "convert"} =>
       form[t].on \in SheetIds /\ Old(form[t].on)

\* A row lock has one holder; who has found a sheet unconverted holds its lock and
\* finds it so until the commit.
ConversionsAreAlone ==
  /\ \A l, m \in rowLock : l[1] = m[1] => l = m
  /\ \A t \in Txns : form[t].pc = "lock" => form[t].op = "convert"
  /\ \A t \in Txns : form[t].pc \in {"open", "link"} =>
       /\ form[t].op = "convert" /\ <<form[t].on, t>> \in rowLock
       /\ \A s \in surveys : s.id = form[t].on => s.project = None

NamesAreGiven == \A t \in Txns : form[t].op = "update" => form[t].names # {}

SurveyInv ==
  /\ SurveyTypes /\ SheetsAreNumbered /\ ConversionsAreAlone /\ NamesAreGiven
  /\ V!SheetsAndProjectsAgree

\* Only the sheets there are to begin with.
LEMMA SurveysBegin == V!Init => SurveyInv
<1> SUFFICES ASSUME V!Init PROVE SurveyInv
  OBVIOUS
<1> DEFINE started == {CHOOSE n \in SurveyNames : TRUE}
<1>1. /\ surveys = {V!Sheet(<<0, n>>, n) : n \in started} /\ projects = {} /\ customers = {V!Picked}
      /\ rowLock = {} /\ form = [t \in Txns |-> V!Idle] /\ forms = 0
  BY DEF V!Init
<1>2. started \subseteq SurveyNames
  BY FieldParameters DEF V!StartedAreNames
<1> HIDE DEF started
<1>3. V!Idle \in Forms /\ V!Idle.pc = "idle" /\ V!Idle.op = "none"
  BY DEF V!Idle, Forms
<1>4. \A s \in surveys : s.id \in SheetIds /\ s.id[1] = 0
  BY <1>1, <1>2 DEF V!Sheet, SheetIds
<1>5. SurveyTypes
  BY <1>1, <1>2, <1>3 DEF SurveyTypes, V!Sheet, SheetIds
<1>6. \A t \in Txns : ~Busy(t) /\ form[t].op = "none" /\ form[t].pc = "idle"
  BY <1>1, <1>3 DEF Busy
<1>7. SheetsAreNumbered
  BY <1>1, <1>4, <1>6 DEF SheetsAreNumbered, Old, Making
<1>8. ConversionsAreAlone /\ NamesAreGiven
  BY <1>1, <1>6 DEF ConversionsAreAlone, NamesAreGiven
<1>9. V!SheetsAndProjectsAgree
  BY <1>1 DEF V!SheetsAndProjectsAgree
<1>10. QED
  BY <1>5, <1>7, <1>8, <1>9 DEF SurveyInv

\* What becomes of the requests when one of them becomes something else.
LEMMA FormsBecome ==
  ASSUME SurveyInv, NEW t \in Txns, NEW x \in Forms, V!Become(t, x)
  PROVE  /\ form' \in [Txns -> Forms] /\ form'[t] = x
         /\ \A u \in Txns \ {t} : form'[u] = form[u]
BY DEF SurveyInv, SurveyTypes, V!Become

\* A request begins on a sheet that is on file, or with a number nothing has yet.
LEMMA AskSurveyKeeps ==
  ASSUME SurveyInv, NEW t \in Txns, V!Ask(t)
  PROVE  SurveyInv'
<1>1. /\ form[t].pc = "idle" /\ forms' = forms + 1 /\ forms \in Nat
      /\ UNCHANGED <<surveys, projects, customers, rowLock>>
  BY DEF V!Ask, SurveyInv, SurveyTypes
<1>2. PICK op \in DOMAIN V!FirstStep, names \in SUBSET SurveyNames,
           on \in V!Ids \cup {None}, customer \in {None, V!Picked} :
        /\ op = "import" => names # {}
        /\ op \in {"create", "update"} => V!Cardinality(names) = 1
        /\ op \in {"delete", "convert"} => names = {}
        /\ on = None <=> op \in {"create", "import"}
        /\ op # "convert" => customer = None
        /\ V!Become(t, [V!Idle EXCEPT !.pc = V!FirstStep[op], !.op = op, !.req = forms + 1,
                                      !.on = on, !.names = names, !.customer = customer])
  BY Zenon DEF V!Ask
<1> DEFINE x == [V!Idle EXCEPT !.pc = V!FirstStep[op], !.op = op, !.req = forms + 1,
                               !.on = on, !.names = names, !.customer = customer]
<1>3. /\ op \in {"create", "import", "update", "delete", "convert"}
      /\ V!FirstStep[op] \in {"sheet", "check", "write", "lock"}
      /\ V!FirstStep[op] = "lock" => op = "convert"
  BY DEF V!FirstStep
<1>4. on \in SheetIds \cup {None} /\ customer \in Nat \cup {None}
  BY DEF V!Ids, V!Picked, SurveyInv, SurveyTypes
<1>5. x \in Forms
  <2> DEFINE next == forms + 1
             first == V!FirstStep[op]
  <2>1. V!Idle \in Forms
    BY DEF V!Idle, Forms
  <2>2. next \in Nat /\ first \in {"sheet", "check", "write", "lock"}
    BY <1>1, <1>3
  <2> HIDE DEF next, first
  <2>3. [V!Idle EXCEPT !.pc = first, !.op = op, !.req = next, !.on = on, !.names = names,
                       !.customer = customer] \in Forms
    BY <1>3, <1>4, <2>1, <2>2 DEF Forms
  <2>4. QED
    BY <2>3 DEF next, first
<1>6. /\ x.pc \in {"sheet", "check", "write", "lock"} /\ (x.pc = "lock" => op = "convert")
      /\ x.op = op /\ x.req = forms + 1 /\ x.on = on /\ x.names = names
  BY <1>3 DEF V!Idle
<1> HIDE DEF x
<1>7. /\ form' \in [Txns -> Forms] /\ form'[t] = x
      /\ \A u \in Txns \ {t} : form'[u] = form[u]
  BY <1>2, <1>5, FormsBecome DEF x
<1>8. SurveyTypes'
  BY <1>1, <1>7 DEF SurveyInv, SurveyTypes
<1>9. NamesAreGiven'
  <2>1. op = "update" => names # {}
    <3>1. V!Cardinality({}) = 0
      BY FS_EmptySet DEF V!Cardinality, Cardinality
    <3>2. QED
      BY <1>2, <3>1
  <2>2. QED
    BY <1>6, <1>7, <2>1 DEF SurveyInv, NamesAreGiven
<1>10. SheetsAreNumbered'
  <2>1. \A u \in Txns \ {t} : Busy(u)' <=> Busy(u)
    BY <1>7 DEF Busy
  <2>2. ASSUME NEW id, Old(id) PROVE Old(id)'
    <3>1. id[1] \in 0..forms' /\ id[1] # forms + 1
      BY <1>1, <2>2 DEF Old
    <3>2. ASSUME NEW u \in Txns, Making(u)' PROVE form'[u].req # id[1]
      BY <1>6, <1>7, <2>2, <3>1, <3>2 DEF Old, Making, Busy
    <3>3. QED
      BY <3>1, <3>2 DEF Old
  <2>3. \A u \in Txns : Busy(u)' => form'[u].req \in 1..forms'
    BY <1>1, <1>6, <1>7, <2>1 DEF SurveyInv, SheetsAreNumbered
  <2>4. \A u \in Txns \ {t} : Busy(u)' => form'[u].req # forms + 1
    BY <1>1, <1>7, <2>1 DEF SurveyInv, SheetsAreNumbered
  <2>5. \A u, w \in Txns : Busy(u)' /\ Busy(w)' /\ form'[u].req = form'[w].req => u = w
    BY <1>6, <1>7, <2>1, <2>4 DEF SurveyInv, SheetsAreNumbered
  <2>6. op \in {"update", "delete", "convert"} => on \in SheetIds /\ Old(on)
    BY <1>2 DEF V!Ids, SurveyInv, SurveyTypes, SheetsAreNumbered
  <2>7. \A u \in Txns : form'[u].op \in {"update", "delete", "convert"} =>
          form'[u].on \in SheetIds /\ (Old(form[u].on))'
    <3>1. ASSUME NEW u \in Txns, form'[u].op \in {"update", "delete", "convert"}
          PROVE  form'[u].on \in SheetIds /\ Old(form'[u].on)
      BY <1>6, <1>7, <2>6, <3>1 DEF SurveyInv, SheetsAreNumbered
    <3>2. QED
      BY <2>2, <3>1
  <2>8. \A s \in surveys' : Old(s.id)'
    BY <1>1, <2>2 DEF SurveyInv, SheetsAreNumbered
  <2>9. \A p \in projects' : Old(p.survey)'
    BY <1>1, <2>2 DEF SurveyInv, SheetsAreNumbered
  <2>10. QED
    BY <2>3, <2>5, <2>7, <2>8, <2>9 DEF SheetsAreNumbered
<1>11. ConversionsAreAlone'
  BY <1>1, <1>6, <1>7 DEF SurveyInv, ConversionsAreAlone
<1>12. V!SheetsAndProjectsAgree'
  BY <1>1 DEF SurveyInv, V!SheetsAndProjectsAgree, V!Rows
<1>13. QED
  BY <1>8, <1>9, <1>10, <1>11, <1>12 DEF SurveyInv

\* A request that goes on as it was, or is forgotten, and the numbers.
LEMMA NumbersStay ==
  ASSUME SurveyInv, NEW t \in Txns, NEW x \in Forms, V!Become(t, x), UNCHANGED forms,
         \/ x.op = "none" /\ x.pc = "idle"
         \/ /\ x.op = form[t].op /\ x.req = form[t].req /\ x.on = form[t].on
            /\ x.pc \notin {"idle", "done"} => Busy(t)
  PROVE  /\ \A u \in Txns : Busy(u)' => Busy(u) /\ form'[u].req = form[u].req
         /\ \A id : Old(id) => Old(id)'
         /\ \A u \in Txns : Busy(u)' => form'[u].req \in 1..forms
         /\ \A u, w \in Txns : Busy(u)' /\ Busy(w)' /\ form'[u].req = form'[w].req => u = w
         /\ \A u \in Txns : form'[u].op \in {"update", "delete", "convert"} =>
              /\ form'[u].on = form[u].on /\ form[u].on \in SheetIds /\ Old(form[u].on)
<1>1. form'[t] = x /\ \A u \in Txns \ {t} : form'[u] = form[u]
  BY FormsBecome
<1>2. \A u \in Txns : Busy(u)' => Busy(u) /\ form'[u].req = form[u].req
  BY <1>1 DEF Busy
<1>3. \A u \in Txns : Making(u)' => Making(u) /\ form'[u].req = form[u].req
  BY <1>1, <1>2 DEF Making, Busy
<1>4. \A id : Old(id) => Old(id)'
  BY <1>3 DEF Old
<1>5. \A u \in Txns : form'[u].op \in {"update", "delete", "convert"} =>
        form'[u].on = form[u].on /\ form[u].op \in {"update", "delete", "convert"}
  BY <1>1
<1>6. QED
  BY <1>2, <1>4, <1>5 DEF SurveyInv, SheetsAreNumbered

\* A statement of a request that changes no sheet.
LEMMA FormMoves ==
  ASSUME SurveyInv, NEW t \in Txns, NEW x \in Forms, V!Become(t, x),
         UNCHANGED <<surveys, projects, customers, forms>>,
         \/ x.op = "none" /\ x.pc = "idle"
         \/ /\ x.op = form[t].op /\ x.req = form[t].req /\ x.on = form[t].on
            /\ x.pc \notin {"idle", "done"} => Busy(t)
            /\ x.op = "update" => x.names # {},
         rowLock' \subseteq SheetIds \X Txns, ConversionsAreAlone'
  PROVE  SurveyInv'
<1>1. form' \in [Txns -> Forms] /\ form'[t] = x /\ \A u \in Txns \ {t} : form'[u] = form[u]
  BY FormsBecome
<1>2. SurveyTypes'
  BY <1>1 DEF SurveyInv, SurveyTypes
<1>3. NamesAreGiven'
  BY <1>1 DEF SurveyInv, NamesAreGiven
<1>4. SheetsAreNumbered'
  <2>1. /\ \A id : Old(id) => Old(id)'
        /\ \A u \in Txns : Busy(u)' => form'[u].req \in 1..forms
        /\ \A u, w \in Txns : Busy(u)' /\ Busy(w)' /\ form'[u].req = form'[w].req => u = w
        /\ \A u \in Txns : form'[u].op \in {"update", "delete", "convert"} =>
             /\ form'[u].on = form[u].on /\ form[u].on \in SheetIds /\ Old(form[u].on)
    BY NumbersStay
  <2>2. \A s \in surveys' : Old(s.id)'
    BY <2>1 DEF SurveyInv, SheetsAreNumbered
  <2>3. \A p \in projects' : Old(p.survey)'
    BY <2>1 DEF SurveyInv, SheetsAreNumbered
  <2>4. ASSUME NEW u \in Txns, form'[u].op \in {"update", "delete", "convert"}
        PROVE  form'[u].on \in SheetIds /\ Old(form[u].on)'
    BY <2>1, <2>4
  <2>5. QED
    BY <2>1, <2>2, <2>3, <2>4 DEF SheetsAreNumbered
<1>5. V!SheetsAndProjectsAgree'
  BY DEF SurveyInv, V!SheetsAndProjectsAgree, V!Rows
<1>6. QED
  BY <1>2, <1>3, <1>4, <1>5 DEF SurveyInv

\* A request that comes to its end without a lock leaves the locks alone.
LEMMA LocksStay ==
  ASSUME SurveyInv, NEW t \in Txns, NEW x \in Forms, V!Become(t, x), UNCHANGED <<surveys, rowLock>>,
         x.pc \in {"idle", "sheet", "check", "write", "done"}
  PROVE  ConversionsAreAlone'
BY FormsBecome DEF SurveyInv, ConversionsAreAlone

\* A file is read, a name refused or passed, an answer sent.
LEMMA SmallStepKeeps ==
  ASSUME SurveyInv, NEW t \in Txns, V!ReadSheet(t) \/ V!RefuseDuplicate(t) \/ V!Answer(t)
  PROVE  SurveyInv'
<1>1. form[t] \in Forms /\ (form[t].op = "update" => form[t].names # {})
      /\ rowLock \subseteq SheetIds \X Txns
  BY DEF SurveyInv, SurveyTypes, NamesAreGiven
<1>2. ASSUME NEW x \in Forms, V!Become(t, x), Busy(t), x.op = form[t].op, x.req = form[t].req,
             x.on = form[t].on, x.pc \in {"check", "write", "done"}, x.op = "update" => x.names # {},
             UNCHANGED <<surveys, projects, customers, rowLock, forms>>
      PROVE  SurveyInv'
  BY <1>1, <1>2, LocksStay, FormMoves
<1>3. CASE V!ReadSheet(t)
  <2> DEFINE rest == form[t].names \ {s.name : s \in surveys}
             x == IF rest = {} THEN [form[t] EXCEPT !.pc = "done", !.outcome = "made"]
                  ELSE [form[t] EXCEPT !.pc = "check", !.names = rest]
  <2>1. V!Become(t, x) /\ Busy(t) /\ UNCHANGED <<surveys, projects, customers, rowLock, forms>>
    BY <1>3 DEF V!ReadSheet, V!Finish, Busy
  <2>2. x \in Forms
    BY <1>1 DEF Forms
  <2>3. /\ x.op = form[t].op /\ x.req = form[t].req /\ x.on = form[t].on /\ x.pc \in {"check", "done"}
        /\ x.op = "update" => x.names # {}
    BY <1>1 DEF Forms
  <2>4. QED
    BY <1>2, <2>1, <2>2, <2>3
<1>4. CASE V!RefuseDuplicate(t)
  <2>1. PICK x : /\ V!Become(t, x) /\ \/ x = [form[t] EXCEPT !.pc = "done", !.outcome = "duplicate"]
                                      \/ x = [form[t] EXCEPT !.pc = "write"]
    BY <1>4 DEF V!RefuseDuplicate, V!Finish
  <2>2. Busy(t) /\ UNCHANGED <<surveys, projects, customers, rowLock, forms>>
    BY <1>4 DEF V!RefuseDuplicate, Busy
  <2>3. /\ x \in Forms /\ x.op = form[t].op /\ x.req = form[t].req /\ x.on = form[t].on
        /\ x.pc \in {"write", "done"} /\ x.names = form[t].names
    BY <1>1, <2>1 DEF Forms
  <2>4. QED
    BY <1>1, <1>2, <2>1, <2>2, <2>3
<1>5. CASE V!Answer(t)
  <2>1. V!Become(t, V!Idle) /\ UNCHANGED <<surveys, projects, customers, rowLock, forms>>
    BY <1>5 DEF V!Answer
  <2>2. V!Idle \in Forms /\ V!Idle.op = "none" /\ V!Idle.pc = "idle"
    BY DEF V!Idle, Forms
  <2>3. QED
    BY <1>1, <2>1, <2>2, LocksStay, FormMoves
<1>6. QED
  BY <1>3, <1>4, <1>5

\* "Locked, so two managers converting at once open one project."
LEMMA LockSurveyKeeps ==
  ASSUME SurveyInv, NEW t \in Txns, V!LockSurvey(t)
  PROVE  SurveyInv'
<1>1. /\ form[t] \in Forms /\ form[t].pc = "lock" /\ form[t].op = "convert" /\ form[t].on \in SheetIds
      /\ rowLock \subseteq SheetIds \X Txns /\ Busy(t)
  BY DEF V!LockSurvey, SurveyInv, SurveyTypes, ConversionsAreAlone, SheetsAreNumbered, Busy
<1>2. UNCHANGED <<surveys, projects, customers, forms>>
  BY DEF V!LockSurvey
<1>3. ASSUME NEW o \in {"not_found", "converted"}, V!Finish(t, o), UNCHANGED rowLock
      PROVE  SurveyInv'
  <2> DEFINE x == [form[t] EXCEPT !.pc = "done", !.outcome = o]
  <2>1. V!Become(t, x)
    BY <1>3 DEF V!Finish
  <2>2. x \in Forms /\ x.pc = "done" /\ x.op = form[t].op /\ x.req = form[t].req /\ x.on = form[t].on
    BY <1>1 DEF Forms
  <2>3. QED
    BY <1>1, <1>2, <1>3, <2>1, <2>2, LocksStay, FormMoves
<1>4. CASE /\ ~\E s \in V!Rows(form[t].on) : s.project # None
           /\ V!Become(t, [form[t] EXCEPT !.pc = "open"])
           /\ rowLock' = rowLock \cup {<<form[t].on, t>>}
  <2> DEFINE x == [form[t] EXCEPT !.pc = "open"]
  <2>1. x \in Forms /\ x.pc = "open" /\ x.op = form[t].op /\ x.req = form[t].req /\ x.on = form[t].on
    BY <1>1 DEF Forms
  <2>2. form'[t] = x /\ \A u \in Txns \ {t} : form'[u] = form[u]
    BY <1>4, <2>1, FormsBecome
  <2>3. \A l \in rowLock : l[1] = form[t].on => l = <<form[t].on, t>>
    <3>1. \A l \in rowLock : l[1] = form[t].on => l[2] = t
      BY DEF V!LockSurvey, V!MayLock, V!Locked
    <3>2. QED
      BY <1>1, <3>1
  <2>4. \A l, m \in rowLock' : l[1] = m[1] => l = m
    BY <1>4, <2>3 DEF SurveyInv, ConversionsAreAlone
  <2>5. \A s \in surveys : s.id = form[t].on => s.project = None
    BY <1>4 DEF V!Rows
  <2>6. ASSUME NEW u \in Txns, form'[u].pc \in {"open", "link"}
        PROVE  /\ form'[u].op = "convert" /\ <<form'[u].on, u>> \in rowLock'
               /\ \A s \in surveys' : s.id = form'[u].on => s.project = None
    <3>1. CASE u = t
      BY <1>1, <1>2, <1>4, <2>1, <2>2, <2>5, <3>1
    <3>2. CASE u # t
      BY <1>2, <1>4, <2>2, <2>6, <3>2 DEF SurveyInv, ConversionsAreAlone
    <3>3. QED
      BY <3>1, <3>2
  <2>7. ASSUME NEW u \in Txns, form'[u].pc = "lock" PROVE form'[u].op = "convert"
    <3>1. u # t
      BY <2>1, <2>2, <2>7
    <3>2. QED
      BY <2>2, <2>7, <3>1 DEF SurveyInv, ConversionsAreAlone
  <2>8. ConversionsAreAlone'
    BY <2>4, <2>6, <2>7 DEF ConversionsAreAlone
  <2>9. rowLock' \subseteq SheetIds \X Txns
    BY <1>1, <1>4
  <2>10. QED
    BY <1>1, <1>2, <1>4, <2>1, <2>8, <2>9, FormMoves
<1>5. QED
  BY <1>3, <1>4 DEF V!LockSurvey

\* The customer of a conversion is found or described.
LEMMA ResolveCustomerKeeps ==
  ASSUME SurveyInv, NEW t \in Txns, V!ResolveCustomer(t)
  PROVE  SurveyInv'
<1>1. /\ form[t] \in Forms /\ form[t].pc = "open" /\ form[t].op = "convert" /\ Busy(t)
      /\ rowLock \subseteq SheetIds \X Txns
      /\ UNCHANGED <<surveys, projects, customers, rowLock, forms>>
  BY DEF V!ResolveCustomer, SurveyInv, SurveyTypes, ConversionsAreAlone, Busy
<1>2. PICK c \in Nat \cup {None} : V!Become(t, [form[t] EXCEPT !.pc = "link", !.customer = c])
  BY <1>1 DEF V!ResolveCustomer, Forms
<1> DEFINE x == [form[t] EXCEPT !.pc = "link", !.customer = c]
<1>3. /\ x \in Forms /\ x.pc = "link" /\ x.op = form[t].op /\ x.req = form[t].req
      /\ x.on = form[t].on
  BY <1>1 DEF Forms
<1> HIDE DEF x
<1>4. V!Become(t, x)
  BY <1>2 DEF x
<1>5. form'[t] = x /\ \A u \in Txns \ {t} : form'[u] = form[u]
  BY <1>3, <1>4, FormsBecome
<1>6. ConversionsAreAlone'
  <2>1. ASSUME NEW u \in Txns, form'[u].pc = "lock" PROVE form'[u].op = "convert"
    <3>1. u # t
      BY <1>3, <1>5, <2>1
    <3>2. QED
      BY <1>5, <2>1, <3>1 DEF SurveyInv, ConversionsAreAlone
  <2>2. ASSUME NEW u \in Txns, form'[u].pc \in {"open", "link"}
        PROVE  /\ form'[u].op = "convert" /\ <<form'[u].on, u>> \in rowLock'
               /\ \A s \in surveys' : s.id = form'[u].on => s.project = None
    <3>1. form[u].pc \in {"open", "link"} /\ form'[u].op = form[u].op /\ form'[u].on = form[u].on
      BY <1>1, <1>3, <1>5, <2>2
    <3>2. QED
      BY <1>1, <3>1 DEF SurveyInv, ConversionsAreAlone
  <2>3. QED
    BY <1>1, <2>1, <2>2 DEF SurveyInv, ConversionsAreAlone
<1>7. QED
  BY <1>1, <1>3, <1>4, <1>6, FormMoves

\* The locks after a transaction has let go of its own.
LEMMA UnlockKeeps ==
  ASSUME SurveyInv, NEW t \in Txns, NEW x \in Forms, V!Become(t, x), V!Unlock(t),
         x.pc \in {"idle", "done"},
         \A u \in Txns \ {t} : form[u].pc \in {"open", "link"} =>
           \A s \in surveys' : s.id = form[u].on => s.project = None
  PROVE  ConversionsAreAlone' /\ rowLock' \subseteq SheetIds \X Txns
<1>1. form'[t] = x /\ \A u \in Txns \ {t} : form'[u] = form[u]
  BY FormsBecome
<1>2. rowLock' = {l \in rowLock : l[2] # t} /\ rowLock \subseteq SheetIds \X Txns
  BY DEF V!Unlock, SurveyInv, SurveyTypes
<1>3. \A l, m \in rowLock' : l[1] = m[1] => l = m
  BY <1>2 DEF SurveyInv, ConversionsAreAlone
<1>4. ASSUME NEW u \in Txns, form'[u].pc = "lock" PROVE form'[u].op = "convert"
  <2>1. u # t
    BY <1>1, <1>4
  <2>2. QED
    BY <1>1, <1>4, <2>1 DEF SurveyInv, ConversionsAreAlone
<1>5. ASSUME NEW u \in Txns, form'[u].pc \in {"open", "link"}
      PROVE  /\ form'[u].op = "convert" /\ <<form'[u].on, u>> \in rowLock'
             /\ \A s \in surveys' : s.id = form'[u].on => s.project = None
  <2>1. u # t
    BY <1>1, <1>5
  <2>2. form'[u] = form[u] /\ form[u].op = "convert" /\ <<form[u].on, u>> \in rowLock
    BY <1>1, <1>5, <2>1 DEF SurveyInv, ConversionsAreAlone
  <2>3. <<form[u].on, u>> \in rowLock'
    BY <1>2, <2>1, <2>2
  <2>4. QED
    BY <1>5, <2>1, <2>2, <2>3
<1>6. QED
  BY <1>2, <1>3, <1>4, <1>5 DEF ConversionsAreAlone

\* A transaction that dies leaves nothing behind.
LEMMA CrashSurveyKeeps ==
  ASSUME SurveyInv, NEW t \in Txns, V!Crash(t)
  PROVE  SurveyInv'
<1>1. /\ V!Become(t, V!Idle) /\ V!Unlock(t)
      /\ UNCHANGED <<surveys, projects, customers, forms>>
  BY DEF V!Crash
<1>2. V!Idle \in Forms /\ V!Idle.op = "none" /\ V!Idle.pc = "idle"
  BY DEF V!Idle, Forms
<1>3. \A u \in Txns \ {t} : form[u].pc \in {"open", "link"} =>
        \A s \in surveys' : s.id = form[u].on => s.project = None
  BY <1>1 DEF SurveyInv, ConversionsAreAlone
<1>4. ConversionsAreAlone' /\ rowLock' \subseteq SheetIds \X Txns
  BY <1>1, <1>2, <1>3, UnlockKeeps
<1>5. QED
  BY <1>1, <1>2, <1>4, FormMoves

\* A request that ends with its write.
LEMMA FinishOf ==
  ASSUME SurveyInv, NEW t \in Txns, NEW o \in {"made", "not_found"}, Busy(t), V!Finish(t, o),
         UNCHANGED forms
  PROVE  \E x \in Forms :
           /\ V!Become(t, x) /\ x.pc = "done" /\ x.op = form[t].op /\ x.req = form[t].req
           /\ x.on = form[t].on /\ x.names = form[t].names
<1> DEFINE x == [form[t] EXCEPT !.pc = "done", !.outcome = o]
<1>1. V!Become(t, x)
  BY DEF V!Finish
<1>2. /\ x \in Forms /\ x.pc = "done" /\ x.op = form[t].op /\ x.req = form[t].req
      /\ x.on = form[t].on /\ x.names = form[t].names
  BY DEF SurveyInv, SurveyTypes, Forms
<1>3. QED
  BY <1>1, <1>2

\* New sheets have ids nobody has pointed at.
LEMMA InsertSurveyKeeps ==
  ASSUME SurveyInv, NEW t \in Txns, V!Insert(t)
  PROVE  SurveyInv'
<1>1. /\ form[t].pc = "write" /\ form[t].op \in {"create", "import"} /\ Busy(t) /\ Making(t)
      /\ surveys' = surveys \cup {V!Sheet(<<form[t].req, n>>, n) : n \in form[t].names}
      /\ V!Finish(t, "made") /\ UNCHANGED <<projects, customers, rowLock, forms>>
  BY DEF V!Insert, Busy, Making
<1>2. PICK x \in Forms :
        /\ V!Become(t, x) /\ x.pc = "done" /\ x.op = form[t].op /\ x.req = form[t].req
        /\ x.on = form[t].on /\ x.names = form[t].names
  BY <1>1, FinishOf
<1>3. /\ form' \in [Txns -> Forms] /\ form'[t] = x
      /\ \A u \in Txns \ {t} : form'[u] = form[u]
  BY <1>2, FormsBecome
<1>4. form[t].req \in Nat /\ form[t].names \subseteq SurveyNames /\ form[t].req \in 1..forms
  BY <1>1 DEF SurveyInv, SurveyTypes, Forms, SheetsAreNumbered
<1>5. ASSUME NEW s \in surveys', s \notin surveys
      PROVE  /\ s \in [id : SheetIds, name : SurveyNames, project : Nat \cup {None}, customer : Nat \cup {None}]
             /\ s.id[1] = form[t].req /\ s.project = None
  <2>1. PICK n \in form[t].names : s = V!Sheet(<<form[t].req, n>>, n)
    BY <1>1, <1>5
  <2>2. n \in SurveyNames /\ <<form[t].req, n>> \in SheetIds
    BY <1>4 DEF SheetIds
  <2>3. QED
    BY <2>1, <2>2 DEF V!Sheet
<1>6. SurveyTypes'
  BY <1>1, <1>3, <1>5 DEF SurveyInv, SurveyTypes
<1>7. /\ \A u \in Txns : Busy(u)' => Busy(u) /\ form'[u].req = form[u].req
      /\ \A id : Old(id) => Old(id)'
      /\ \A u \in Txns : Busy(u)' => form'[u].req \in 1..forms
      /\ \A u, w \in Txns : Busy(u)' /\ Busy(w)' /\ form'[u].req = form'[w].req => u = w
      /\ \A u \in Txns : form'[u].op \in {"update", "delete", "convert"} =>
           /\ form'[u].on = form[u].on /\ form[u].on \in SheetIds /\ Old(form[u].on)
  BY <1>1, <1>2, NumbersStay
<1>8. SheetsAreNumbered'
  <2>1. ASSUME NEW id, id[1] = form[t].req PROVE Old(id)'
    <3>1. id[1] \in 0..forms'
      BY <1>1, <1>4, <2>1
    <3>2. ASSUME NEW u \in Txns, Making(u)' PROVE form'[u].req # id[1]
      <4>1. Busy(u)' /\ u # t
        BY <1>2, <1>3, <3>2 DEF Making, Busy
      <4>2. form'[u].req = form[u].req /\ Busy(u)
        BY <1>7, <4>1
      <4>3. QED
        BY <1>1, <2>1, <4>1, <4>2 DEF SurveyInv, SheetsAreNumbered
    <3>3. QED
      BY <3>1, <3>2 DEF Old
  <2>2. \A s \in surveys' : Old(s.id)'
    BY <1>5, <1>7, <2>1 DEF SurveyInv, SheetsAreNumbered
  <2>3. \A p \in projects' : Old(p.survey)'
    BY <1>1, <1>7 DEF SurveyInv, SheetsAreNumbered
  <2>4. ASSUME NEW u \in Txns, form'[u].op \in {"update", "delete", "convert"}
        PROVE  form'[u].on \in SheetIds /\ Old(form[u].on)'
    BY <1>7, <2>4
  <2>5. QED
    BY <1>1, <1>7, <2>2, <2>3, <2>4 DEF SheetsAreNumbered
<1>9. NamesAreGiven'
  BY <1>1, <1>2, <1>3 DEF SurveyInv, NamesAreGiven
<1>10. ConversionsAreAlone'
  <2>1. ASSUME NEW u \in Txns, form'[u].pc \in {"lock", "open", "link"}
        PROVE  u # t /\ form'[u] = form[u]
    BY <1>2, <1>3, <2>1
  <2>2. QED
    BY <1>1, <1>5, <2>1 DEF SurveyInv, ConversionsAreAlone
<1>11. V!SheetsAndProjectsAgree'
  <2>1. ASSUME NEW p \in projects, NEW s \in surveys', s.id = p.survey PROVE s \in surveys
    <3>1. p.survey[1] # form[t].req
      BY <1>1 DEF SurveyInv, SheetsAreNumbered, Old
    <3>2. QED
      BY <1>5, <2>1, <3>1
  <2>2. QED
    BY <1>1, <2>1 DEF SurveyInv, V!SheetsAndProjectsAgree, V!Rows
<1>12. QED
  BY <1>6, <1>8, <1>9, <1>10, <1>11 DEF SurveyInv

\* A sheet that is renamed keeps its project, one that is deleted leaves the others.
LEMMA WriteSurveyKeeps ==
  ASSUME SurveyInv, NEW t \in Txns, V!Write(t)
  PROVE  SurveyInv'
<1> DEFINE renamed(s) == [s EXCEPT !.name = CHOOSE n \in form[t].names : TRUE]
           found == V!Rows(form[t].on)
<1>1. /\ form[t].pc = "write" /\ form[t].op \in {"update", "delete"} /\ Busy(t)
      /\ surveys' = (surveys \ found) \cup
                    (IF form[t].op = "update" THEN {renamed(s) : s \in found} ELSE {})
      /\ UNCHANGED <<projects, customers, rowLock, forms>>
  BY DEF V!Write, Busy
<1>2. V!Finish(t, "not_found") \/ V!Finish(t, "made")
  BY DEF V!Write
<1>3. PICK x \in Forms :
        /\ V!Become(t, x) /\ x.pc = "done" /\ x.op = form[t].op /\ x.req = form[t].req
        /\ x.on = form[t].on /\ x.names = form[t].names
  BY <1>1, <1>2, FinishOf
<1>4. /\ form' \in [Txns -> Forms] /\ form'[t] = x
      /\ \A u \in Txns \ {t} : form'[u] = form[u]
  BY <1>3, FormsBecome
<1>5. ASSUME NEW s \in surveys'
      PROVE  /\ s \in [id : SheetIds, name : SurveyNames, project : Nat \cup {None}, customer : Nat \cup {None}]
             /\ \E r \in surveys : r.id = s.id /\ r.project = s.project /\ r.customer = s.customer
  <2> DEFINE Sheets == [id : SheetIds, name : SurveyNames, project : Nat \cup {None},
                        customer : Nat \cup {None}]
  <2>1. surveys \subseteq Sheets
    BY DEF SurveyInv, SurveyTypes
  <2>2. CASE s \in surveys
    BY <2>1, <2>2
  <2>3. CASE form[t].op = "update" /\ \E r \in found : s = renamed(r)
    <3>1. PICK r \in found : s = renamed(r)
      BY <2>3
    <3>2. r \in surveys /\ r \in Sheets
      BY <2>1, <3>1 DEF V!Rows
    <3>3. (CHOOSE n \in form[t].names : TRUE) \in SurveyNames
      BY <2>3 DEF SurveyInv, SurveyTypes, Forms, NamesAreGiven
    <3>4. /\ renamed(r) \in Sheets /\ r.id = renamed(r).id /\ r.project = renamed(r).project
          /\ r.customer = renamed(r).customer
      BY <3>2, <3>3
    <3>5. QED
      BY <3>1, <3>2, <3>4
  <2>4. QED
    BY <1>1, <2>2, <2>3
<1>6. SurveyTypes'
  BY <1>1, <1>4, <1>5 DEF SurveyInv, SurveyTypes
<1>7. /\ \A id : Old(id) => Old(id)'
      /\ \A u \in Txns : Busy(u)' => form'[u].req \in 1..forms
      /\ \A u, w \in Txns : Busy(u)' /\ Busy(w)' /\ form'[u].req = form'[w].req => u = w
      /\ \A u \in Txns : form'[u].op \in {"update", "delete", "convert"} =>
           /\ form'[u].on = form[u].on /\ form[u].on \in SheetIds /\ Old(form[u].on)
  BY <1>1, <1>3, NumbersStay
<1>8. SheetsAreNumbered'
  <2>1. ASSUME NEW s \in surveys' PROVE Old(s.id)'
    <3>1. Old(s.id)
      BY <1>5 DEF SurveyInv, SheetsAreNumbered
    <3>2. QED
      BY <1>7, <3>1
  <2>2. \A p \in projects' : Old(p.survey)'
    BY <1>1, <1>7 DEF SurveyInv, SheetsAreNumbered
  <2>3. ASSUME NEW u \in Txns, form'[u].op \in {"update", "delete", "convert"}
        PROVE  form'[u].on \in SheetIds /\ Old(form[u].on)'
    BY <1>7, <2>3
  <2>4. QED
    BY <1>1, <1>7, <2>1, <2>2, <2>3 DEF SheetsAreNumbered
<1>9. NamesAreGiven'
  BY <1>3, <1>4 DEF SurveyInv, NamesAreGiven
<1>10. ConversionsAreAlone'
  <2>1. ASSUME NEW u \in Txns, form'[u].pc \in {"lock", "open", "link"}
        PROVE  u # t /\ form'[u] = form[u]
    BY <1>3, <1>4, <2>1
  <2>2. QED
    BY <1>1, <1>5, <2>1 DEF SurveyInv, ConversionsAreAlone
<1>11. V!SheetsAndProjectsAgree'
  BY <1>1, <1>5 DEF SurveyInv, V!SheetsAndProjectsAgree, V!Rows
<1>12. QED
  BY <1>6, <1>8, <1>9, <1>10, <1>11 DEF SurveyInv

\* The project that is opened is the only one of its sheet, because the sheet had
\* none and whoever converts it holds its lock.
LEMMA ConvertKeeps ==
  ASSUME SurveyInv, NEW t \in Txns, V!Convert(t)
  PROVE  SurveyInv'
<1> DEFINE on     == form[t].on
           new    == [id |-> form[t].req, survey |-> on, customer |-> form[t].customer]
           won(s) == [s EXCEPT !.project = form[t].req, !.customer = form[t].customer]
           found  == V!Rows(on)
<1>1. /\ form[t].pc = "link" /\ form[t].op = "convert" /\ Busy(t)
      /\ customers' = customers \cup {form[t].customer}
      /\ projects' = projects \cup {new}
      /\ surveys' = (surveys \ found) \cup {won(s) : s \in found}
      /\ V!Unlock(t) /\ V!Finish(t, "made") /\ UNCHANGED forms
  BY DEF V!Convert, SurveyInv, ConversionsAreAlone, Busy
<1>2. PICK x \in Forms :
        /\ V!Become(t, x) /\ x.pc = "done" /\ x.op = form[t].op /\ x.req = form[t].req
        /\ x.on = form[t].on /\ x.names = form[t].names
  BY <1>1, FinishOf
<1>3. /\ form' \in [Txns -> Forms] /\ form'[t] = x
      /\ \A u \in Txns \ {t} : form'[u] = form[u]
  BY <1>2, FormsBecome
<1>4. /\ form[t] \in Forms /\ form[t].req \in Nat /\ form[t].customer \in Nat \cup {None}
      /\ on \in SheetIds /\ Old(on) /\ <<on, t>> \in rowLock
      /\ \A s \in found : s.project = None
  BY <1>1 DEF SurveyInv, SurveyTypes, Forms, SheetsAreNumbered, ConversionsAreAlone, V!Rows
<1>5. ASSUME NEW s \in surveys'
      PROVE  /\ s \in [id : SheetIds, name : SurveyNames, project : Nat \cup {None}, customer : Nat \cup {None}]
             /\ \/ s \in surveys /\ s.id # on
                \/ /\ s.id = on /\ on \in {r.id : r \in surveys}
                   /\ s.project = form[t].req /\ s.customer = form[t].customer
  <2> DEFINE Sheets == [id : SheetIds, name : SurveyNames, project : Nat \cup {None},
                        customer : Nat \cup {None}]
  <2>1. surveys \subseteq Sheets
    BY DEF SurveyInv, SurveyTypes
  <2>2. CASE s \in surveys \ found
    BY <2>1, <2>2 DEF V!Rows
  <2>3. CASE \E r \in found : s = won(r)
    <3>1. PICK r \in found : s = won(r)
      BY <2>3
    <3>2. r \in surveys /\ r \in Sheets /\ r.id = on
      BY <2>1, <3>1 DEF V!Rows
    <3>3. /\ won(r) \in Sheets /\ won(r).id = on
          /\ won(r).project = form[t].req /\ won(r).customer = form[t].customer
      BY <1>4, <3>2
    <3>4. QED
      BY <3>1, <3>2, <3>3
  <2>4. QED
    BY <1>1, <2>2, <2>3
<1>6. \A u \in Txns \ {t} : form[u].pc \in {"open", "link"} =>
        /\ form[u].on # on
        /\ \A s \in surveys' : s.id = form[u].on => s.project = None
  <2>1. ASSUME NEW u \in Txns \ {t}, form[u].pc \in {"open", "link"}
        PROVE  form[u].on # on
    <3>1. <<form[u].on, u>> \in rowLock
      BY <2>1 DEF SurveyInv, ConversionsAreAlone
    <3>2. QED
      BY <1>4, <2>1, <3>1 DEF SurveyInv, ConversionsAreAlone
  <2>2. QED
    BY <1>5, <2>1 DEF SurveyInv, ConversionsAreAlone
<1>7. ConversionsAreAlone' /\ rowLock' \subseteq SheetIds \X Txns
  BY <1>1, <1>2, <1>6, UnlockKeeps
<1>8. new \in [id : Nat, survey : SheetIds, customer : Nat \cup {None}]
  BY <1>4
<1>9. SurveyTypes'
  BY <1>1, <1>3, <1>5, <1>7, <1>8 DEF SurveyInv, SurveyTypes
<1>10. /\ \A id : Old(id) => Old(id)'
       /\ \A u \in Txns : Busy(u)' => form'[u].req \in 1..forms
       /\ \A u, w \in Txns : Busy(u)' /\ Busy(w)' /\ form'[u].req = form'[w].req => u = w
       /\ \A u \in Txns : form'[u].op \in {"update", "delete", "convert"} =>
            /\ form'[u].on = form[u].on /\ form[u].on \in SheetIds /\ Old(form[u].on)
  BY <1>1, <1>2, NumbersStay
<1>11. SheetsAreNumbered'
  <2>1. ASSUME NEW s \in surveys' PROVE Old(s.id)'
    <3>1. Old(s.id)
      BY <1>4, <1>5 DEF SurveyInv, SheetsAreNumbered
    <3>2. QED
      BY <1>10, <3>1
  <2>2. ASSUME NEW p \in projects' PROVE Old(p.survey)'
    <3>1. CASE p = new
      <4>1. p.survey = on
        BY <3>1
      <4>2. QED
        BY <1>4, <1>10, <4>1
    <3>2. CASE p \in projects
      <4>1. Old(p.survey)
        BY <3>2 DEF SurveyInv, SheetsAreNumbered
      <4>2. QED
        BY <1>10, <4>1
    <3>3. QED
      BY <1>1, <3>1, <3>2
  <2>3. ASSUME NEW u \in Txns, form'[u].op \in {"update", "delete", "convert"}
        PROVE  form'[u].on \in SheetIds /\ Old(form[u].on)'
    BY <1>10, <2>3
  <2>4. QED
    BY <1>1, <1>10, <2>1, <2>2, <2>3 DEF SheetsAreNumbered
<1>12. NamesAreGiven'
  BY <1>1, <1>2, <1>3 DEF SurveyInv, NamesAreGiven
<1>13. V!SheetsAndProjectsAgree'
  <2>1. ASSUME NEW p \in projects', NEW s \in surveys', s.id = p.survey
        PROVE  s.project = p.id /\ s.customer = p.customer
    <3>1. CASE p = new
      BY <1>5, <2>1, <3>1
    <3>2. CASE p \in projects /\ s.id # on
      BY <1>5, <2>1, <3>2 DEF SurveyInv, V!SheetsAndProjectsAgree, V!Rows
    <3>3. CASE p \in projects /\ s.id = on
      <4>1. PICK r \in surveys : r.id = on
        BY <1>5, <3>3
      <4>2. r.project = None
        BY <1>4, <4>1 DEF V!Rows
      <4>3. r.project = p.id /\ p.id \in Nat
        BY <2>1, <3>3, <4>1 DEF SurveyInv, V!SheetsAndProjectsAgree, V!Rows, SurveyTypes
      <4>4. QED
        BY <4>2, <4>3, FieldParameters DEF V!NoneIsNoNumber
    <3>4. QED
      BY <1>1, <3>1, <3>2, <3>3
  <2>2. ASSUME NEW c \in customers' \ {V!Picked} PROVE \E p \in projects' : p.customer = c
    <3>1. CASE c = form[t].customer
      <4>1. new.customer = c /\ new \in projects'
        BY <1>1, <3>1
      <4>2. QED
        BY <4>1
    <3>2. CASE c \in customers
      <4>1. c \in {p.customer : p \in projects}
        BY <2>2, <3>2 DEF SurveyInv, V!SheetsAndProjectsAgree
      <4>2. QED
        BY <1>1, <4>1
    <3>3. QED
      BY <1>1, <2>2, <3>1, <3>2
  <2>3. QED
    BY <2>1, <2>2 DEF V!SheetsAndProjectsAgree, V!Rows
<1>14. QED
  BY <1>7, <1>9, <1>11, <1>12, <1>13 DEF SurveyInv

\* Every step of the sheets, and none.
LEMMA SurveysStep ==
  ASSUME SurveyInv, V!Next \/ UNCHANGED ofSurveys
  PROVE  SurveyInv'
<1>1. CASE V!Next
  BY <1>1, AskSurveyKeeps, SmallStepKeeps, InsertSurveyKeeps, WriteSurveyKeeps, LockSurveyKeeps,
     ResolveCustomerKeeps, ConvertKeeps, CrashSurveyKeeps DEF V!Next
<1>2. CASE UNCHANGED ofSurveys
  <2>1. UNCHANGED <<surveys, projects, customers, rowLock, form, forms>>
    BY <1>2 DEF ofSurveys
  <2>2. SurveyTypes' /\ ConversionsAreAlone' /\ NamesAreGiven'
    BY <2>1 DEF SurveyInv, SurveyTypes, ConversionsAreAlone, NamesAreGiven
  <2>3. SheetsAreNumbered'
    BY <2>1 DEF SurveyInv, SheetsAreNumbered, Old, Busy, Making
  <2>4. V!SheetsAndProjectsAgree'
    BY <2>1 DEF SurveyInv, V!SheetsAndProjectsAgree, V!Rows
  <2>5. QED
    BY <2>2, <2>3, <2>4 DEF SurveyInv
<1>3. QED
  BY <1>1, <1>2

-----------------------------------------------------------------------------
(* Sessions, a part of MCField.                                            *)

Callers == Txns \cup {PhoneCall}
Devices == {Browser, Phone}
Tokens  == 0..Len(issued)

Calls ==
  [pc : {"idle", "sent", "read", "granted", "refused"},
   op : {"none", "login", "refresh", "change"}, sent : Tokens, password : 0..1, got : Tokens]

SessionTypes ==
  /\ issued \in Seq(0..1) /\ admin \in Nat
  /\ user \in [hash : Tokens, password : 0..1, temporary : BOOLEAN, active : BOOLEAN,
               by : {"admin", "person"}]
  /\ kept \in [Devices -> Tokens]
  /\ call \in [Callers -> Calls]
  /\ \A c \in Callers : call[c].op = "none" => call[c].pc = "idle"
  /\ newest \in Tokens /\ ended \subseteq Tokens

Refreshing(c) == call[c].op = "refresh"

\* A device has one refresh under way; what a refresh sends, what an answer brings
\* and what the devices keep are different tokens, except that the device of a
\* refresh may keep what it sends.
TokensAreApart ==
  /\ \A c, d \in Callers : Refreshing(c) /\ Refreshing(d) /\ S!Store(c) = S!Store(d) => c = d
  /\ \A c, d \in Callers : Refreshing(c) /\ Refreshing(d) /\ call[c].sent = call[d].sent => c = d
  /\ \A c \in Callers, s \in Devices :
       Refreshing(c) /\ call[c].sent = kept[s] => s = S!Store(c)
  /\ \A c, d \in Callers : Refreshing(c) => call[c].sent # 0 /\ call[c].sent # call[d].got
  /\ \A c, d \in Callers : call[c].got = call[d].got => c = d \/ call[c].got = 0
  /\ \A c \in Callers, s \in Devices : call[c].got = kept[s] => kept[s] = 0
  /\ \A s, r \in Devices : kept[s] = kept[r] => s = r \/ kept[s] = 0
  /\ \A c \in Callers : call[c].op = "login" => call[c].sent = 0
  /\ \A c \in Callers : call[c].got # 0 => call[c].pc = "granted"

\* The row holds it, or something else than its own refresh has ended it.
Usable(token) == token = 0 \/ token \in ended \/ (user.active /\ user.hash = token)

\* What an answer brings, a refresh sends and a device keeps can be used, unless the
\* device is about to get what has come of it.
TokensAreUsable ==
  /\ \A c \in Callers : Usable(call[c].got)
  /\ \A c \in Callers : Refreshing(c) /\ call[c].pc = "sent" => Usable(call[c].sent)
  /\ \A s \in Devices :
       \/ Usable(kept[s])
       \/ \E c \in Callers : /\ Refreshing(c) /\ call[c].pc = "granted"
                             /\ S!Store(c) = s /\ call[c].sent = kept[s]
  /\ \A c \in Callers : Refreshing(c) /\ call[c].pc = "refused" => call[c].sent \in ended

SessionInv == SessionTypes /\ TokensAreApart /\ TokensAreUsable

\* A device is its own store.
LEMMA StoresAreDevices ==
  \A c \in Callers : S!Store(c) = TabAndPhone[c] /\ TabAndPhone[c] \in Devices
BY DEF Callers, Devices, TabAndPhone, S!Store

\* Nobody is signed in.
LEMMA SessionsBegin == S!Init => SessionInv
<1> SUFFICES ASSUME S!Init PROVE SessionInv
  OBVIOUS
<1>1. /\ user = [hash |-> 0, password |-> 0, temporary |-> TRUE, active |-> TRUE, by |-> "admin"]
      /\ kept = [s \in Devices |-> 0] /\ call = [c \in Callers |-> S!Quiet]
      /\ issued = <<>> /\ ended = {} /\ newest = 0 /\ admin = 0
  BY DEF S!Init, S!NoToken, Devices, Callers
<1>2. issued \in Seq(0..1) /\ Len(issued) = 0
  BY <1>1
<1>3. 0 \in Tokens
  BY <1>2 DEF Tokens
<1>4. S!Quiet \in Calls /\ S!Quiet.got = 0 /\ S!Quiet.op = "none" /\ S!Quiet.pc = "idle"
  BY <1>3 DEF S!Quiet, S!NoToken, Calls
<1>5. SessionTypes
  BY <1>1, <1>2, <1>3, <1>4 DEF SessionTypes
<1>6. \A c \in Callers : call[c] = S!Quiet
  BY <1>1
<1>7. TokensAreApart
  BY <1>1, <1>4, <1>6 DEF TokensAreApart, Refreshing
<1>8. TokensAreUsable
  BY <1>1, <1>4, <1>6 DEF TokensAreUsable, Refreshing, Usable
<1>9. QED
  BY <1>5, <1>7, <1>8 DEF SessionInv

\* What becomes of the requests when one of them becomes something else.
LEMMA CallsBecome ==
  ASSUME SessionInv, NEW c \in Callers, NEW x, S!Become(c, x)
  PROVE  /\ call'[c] = x
         /\ \A d \in Callers \ {c} : call'[d] = call[d]
         /\ Calls' = Calls /\ x \in Calls => call' \in [Callers -> Calls]'
BY DEF SessionInv, SessionTypes, S!Become

\* The same after a step.
UsableNext(token) == token = 0 \/ token \in ended' \/ (user'.active /\ user'.hash = token)

\* A token stays usable when what leaves the row is put down as ended.
LEMMA UsableStays ==
  ASSUME ended \subseteq ended',
         \/ user'.hash = user.hash /\ (user.active => user'.active)
         \/ user.hash \in ended'
  PROVE  \A token : Usable(token) => UsableNext(token)
BY DEF Usable, UsableNext

\* The tokens when no new one has been issued.
LEMMA TokensStay == UNCHANGED issued => Tokens' = Tokens /\ Calls' = Calls
BY DEF Tokens, Calls

\* A tab sends a refresh only when none of its own is under way, with what it keeps.
LEMMA SendKeeps ==
  ASSUME SessionInv, NEW c \in Callers, S!Send(c)
  PROVE  SessionInv'
<1>1. /\ call[c] = S!Quiet
      /\ UNCHANGED <<user, kept, issued, ended, newest, admin>>
  BY DEF S!Send
<1>2. PICK op \in {"login", "refresh", "change"} :
        /\ op = "login" <=> kept[S!Store(c)] = S!NoToken
        /\ op = "refresh" => S!MayRefresh(c)
        /\ S!Become(c, [S!Quiet EXCEPT !.pc = "sent", !.op = op,
                          !.sent = kept[S!Store(c)], !.password = user.password])
  BY Zenon DEF S!Send
<1> DEFINE x == [S!Quiet EXCEPT !.pc = "sent", !.op = op,
                   !.sent = kept[S!Store(c)], !.password = user.password]
           mine == kept[S!Store(c)]
<1>3. S!Store(c) \in Devices
  BY StoresAreDevices
<1>4. mine \in Tokens /\ user.password \in 0..1 /\ 0 \in Tokens
  BY <1>3 DEF SessionInv, SessionTypes, Tokens
<1>5. x \in Calls /\ x.pc = "sent" /\ x.op = op /\ x.sent = mine /\ x.got = 0
  BY <1>4 DEF S!Quiet, S!NoToken, Calls
<1> HIDE DEF x
<1>6. S!Become(c, x)
  BY <1>2 DEF x
<1>7. /\ call'[c] = x /\ \A d \in Callers \ {c} : call'[d] = call[d]
      /\ call' \in [Callers -> Calls]'
  BY <1>1, <1>5, <1>6, CallsBecome, TokensStay
<1>8. SessionTypes'
  <2>1. \A d \in Callers : call'[d].op = "none" => call'[d].pc = "idle"
    BY <1>5, <1>7 DEF SessionInv, SessionTypes
  <2>2. QED
    BY <1>1, <1>7, <2>1, TokensStay DEF SessionInv, SessionTypes
<1>9. /\ op = "login" => mine = 0
      /\ op = "refresh" => mine # 0 /\ \A d \in Callers : Refreshing(d) => S!Store(d) # S!Store(c)
  <2>1. op = "login" <=> mine = 0
    BY <1>2 DEF S!NoToken
  <2>2. op = "refresh" => \A d \in Callers : Refreshing(d) => S!Store(d) # S!Store(c)
    BY <1>2, StoresAreDevices DEF S!MayRefresh, Callers, Refreshing
  <2>3. QED
    BY <2>1, <2>2
<1> HIDE DEF mine
<1>10. op = "refresh" => \A d \in Callers \ {c} : mine # call[d].got /\ (Refreshing(d) => call[d].sent # mine)
  BY <1>3, <1>9 DEF SessionInv, TokensAreApart, mine
<1>11. \A s \in Devices : mine = kept[s] => s = S!Store(c) \/ mine = 0
  BY <1>3 DEF SessionInv, TokensAreApart, mine
<1>12. TokensAreApart'
  <2>1. \A d, e \in Callers : Refreshing(d)' /\ Refreshing(e)' /\ S!Store(d) = S!Store(e) => d = e
    BY <1>5, <1>7, <1>9 DEF SessionInv, TokensAreApart, Refreshing
  <2>2. \A d, e \in Callers : Refreshing(d)' /\ Refreshing(e)' /\ call'[d].sent = call'[e].sent => d = e
    BY <1>5, <1>7, <1>10 DEF SessionInv, TokensAreApart, Refreshing
  <2>3. \A d \in Callers, s \in Devices :
          Refreshing(d)' /\ call'[d].sent = kept'[s] => s = S!Store(d)
    BY <1>1, <1>5, <1>7, <1>9, <1>11 DEF SessionInv, TokensAreApart, Refreshing
  <2>4. \A d, e \in Callers : Refreshing(d)' => call'[d].sent # 0 /\ call'[d].sent # call'[e].got
    BY <1>5, <1>7, <1>9, <1>10 DEF SessionInv, TokensAreApart, Refreshing
  <2>5. /\ \A d, e \in Callers : call'[d].got = call'[e].got => d = e \/ call'[d].got = 0
        /\ \A d \in Callers, s \in Devices : call'[d].got = kept'[s] => kept'[s] = 0
    BY <1>1, <1>5, <1>7 DEF SessionInv, TokensAreApart
  <2>6. /\ \A s, r \in Devices : kept'[s] = kept'[r] => s = r \/ kept'[s] = 0
        /\ \A d \in Callers : call'[d].op = "login" => call'[d].sent = 0
        /\ \A d \in Callers : call'[d].got # 0 => call'[d].pc = "granted"
    BY <1>1, <1>5, <1>7, <1>9 DEF SessionInv, TokensAreApart
  <2>7. \A d \in Callers : S!Store(d)' = S!Store(d)
    BY DEF S!Store
  <2>8. QED
    BY <2>1, <2>2, <2>3, <2>4, <2>5, <2>6, <2>7 DEF TokensAreApart
<1>13. TokensAreUsable'
  <2>1. \A token : UsableNext(token) <=> Usable(token)
    BY <1>1 DEF Usable, UsableNext
  <2>2. op = "refresh" => Usable(mine)
    BY <1>3, <1>9 DEF SessionInv, TokensAreUsable, mine
  <2>3. \A d \in Callers : Usable(call'[d].got)
    BY <1>5, <1>7 DEF SessionInv, TokensAreUsable, Usable
  <2>4. \A d \in Callers : Refreshing(d)' /\ call'[d].pc = "sent" => Usable(call'[d].sent)
    BY <1>5, <1>7, <2>2 DEF SessionInv, TokensAreUsable, Refreshing
  <2>5. ASSUME NEW s \in Devices, ~Usable(kept[s])
        PROVE  \E d \in Callers : /\ Refreshing(d)' /\ call'[d].pc = "granted"
                                  /\ S!Store(d)' = s /\ call'[d].sent = kept'[s]
    <3>1. PICK d \in Callers : /\ Refreshing(d) /\ call[d].pc = "granted"
                               /\ S!Store(d) = s /\ call[d].sent = kept[s]
      BY <2>5 DEF SessionInv, TokensAreUsable
    <3>2. d # c
      BY <1>1, <3>1 DEF S!Quiet
    <3>3. QED
      BY <1>1, <1>7, <3>1, <3>2 DEF Refreshing, S!Store
  <2>6. \A d \in Callers : Refreshing(d)' /\ call'[d].pc = "refused" => call'[d].sent \in ended'
    BY <1>1, <1>5, <1>7 DEF SessionInv, TokensAreUsable, Refreshing
  <2>7. QED
    BY <1>1, <2>1, <2>3, <2>4, <2>5, <2>6 DEF TokensAreUsable, Usable, UsableNext
<1>14. QED
  BY <1>8, <1>12, <1>13 DEF SessionInv

\* Tokens that are apart stay so when some are forgotten.
LEMMA ApartWithLess ==
  ASSUME SessionInv,
         \A d \in Callers : Refreshing(d)' => Refreshing(d) /\ call'[d].sent = call[d].sent,
         \A d \in Callers : call'[d].got \in {0, call[d].got},
         \A d \in Callers : call'[d].op = "login" => call'[d].sent = 0,
         \A d \in Callers : call'[d].got # 0 => call'[d].pc = "granted",
         \A s \in Devices : kept'[s] \in {0, kept[s]}
  PROVE  TokensAreApart'
<1>1. \A d \in Callers : S!Store(d)' = S!Store(d)
  BY DEF S!Store
<1>2. /\ \A d, e \in Callers : Refreshing(d)' /\ Refreshing(e)' /\ S!Store(d) = S!Store(e) => d = e
      /\ \A d, e \in Callers : Refreshing(d)' /\ Refreshing(e)' /\ call'[d].sent = call'[e].sent => d = e
  BY DEF SessionInv, TokensAreApart
<1>3. \A d \in Callers, s \in Devices :
        Refreshing(d)' /\ call'[d].sent = kept'[s] => s = S!Store(d)
  BY DEF SessionInv, TokensAreApart
<1>4. \A d, e \in Callers : Refreshing(d)' => call'[d].sent # 0 /\ call'[d].sent # call'[e].got
  BY DEF SessionInv, TokensAreApart
<1>5. /\ \A d, e \in Callers : call'[d].got = call'[e].got => d = e \/ call'[d].got = 0
      /\ \A d \in Callers, s \in Devices : call'[d].got = kept'[s] => kept'[s] = 0
      /\ \A s, r \in Devices : kept'[s] = kept'[r] => s = r \/ kept'[s] = 0
  BY DEF SessionInv, TokensAreApart
<1>6. QED
  BY <1>1, <1>2, <1>3, <1>4, <1>5 DEF TokensAreApart

\* Tokens stay usable when nobody sends a new one and a device keeps what it kept,
\* or nothing, or what an answer brings it.
LEMMA UsableWithLess ==
  ASSUME SessionInv, NEW c \in Callers,
         \A token : Usable(token) => UsableNext(token),
         \A d \in Callers \ {c} : call'[d] = call[d], ended \subseteq ended',
         UsableNext(call'[c].got),
         Refreshing(c)' /\ call'[c].pc = "sent" => UsableNext(call'[c].sent),
         Refreshing(c)' /\ call'[c].pc = "refused" => call'[c].sent \in ended',
         \A s \in Devices : kept'[s] = kept[s] \/ UsableNext(kept'[s]),
         \A s \in Devices : Refreshing(c) /\ call[c].pc = "granted" /\ S!Store(c) = s /\ call[c].sent = kept[s]
           => UsableNext(kept'[s])
  PROVE  TokensAreUsable'
<1>1. \A d \in Callers : UsableNext(call'[d].got)
  BY DEF SessionInv, TokensAreUsable
<1>2. \A d \in Callers : Refreshing(d)' /\ call'[d].pc = "sent" => UsableNext(call'[d].sent)
  BY DEF SessionInv, TokensAreUsable, Refreshing
<1>3. \A d \in Callers : Refreshing(d)' /\ call'[d].pc = "refused" => call'[d].sent \in ended'
  BY DEF SessionInv, TokensAreUsable, Refreshing
<1>4. ASSUME NEW s \in Devices, ~UsableNext(kept'[s])
      PROVE  \E d \in Callers : /\ Refreshing(d)' /\ call'[d].pc = "granted"
                                /\ S!Store(d)' = s /\ call'[d].sent = kept'[s]
  <2>1. kept'[s] = kept[s] /\ ~Usable(kept[s])
    BY <1>4
  <2>2. PICK d \in Callers : /\ Refreshing(d) /\ call[d].pc = "granted"
                             /\ S!Store(d) = s /\ call[d].sent = kept[s]
    BY <2>1 DEF SessionInv, TokensAreUsable
  <2>3. d # c
    BY <1>4, <2>2
  <2>4. QED
    BY <2>1, <2>2, <2>3 DEF Refreshing, S!Store
<1>5. QED
  BY <1>1, <1>2, <1>3, <1>4 DEF TokensAreUsable, Usable, UsableNext

\* The tokens of an answer are stored, and those the device had are gone.
LEMMA DeliverKeeps ==
  ASSUME SessionInv, NEW c \in Callers, S!Deliver(c)
  PROVE  SessionInv'
<1> DEFINE mine == S!Store(c)
           stored == call[c].op = "refresh" \/ (call[c].op = "login" /\ call[c].pc = "granted")
<1>1. /\ call[c].pc \in {"granted", "refused"} /\ S!Become(c, S!Quiet)
      /\ kept' = IF stored THEN [kept EXCEPT ![mine] = call[c].got] ELSE kept
      /\ UNCHANGED <<user, issued, ended, newest, admin>>
  BY DEF S!Deliver
<1>2. mine \in Devices
  BY StoresAreDevices
<1>3. S!Quiet \in Calls /\ S!Quiet.got = 0 /\ S!Quiet.op = "none" /\ S!Quiet.pc = "idle"
  BY DEF S!Quiet, S!NoToken, Calls, SessionInv, SessionTypes, Tokens
<1>4. /\ call'[c] = S!Quiet /\ \A d \in Callers \ {c} : call'[d] = call[d]
      /\ call' \in [Callers -> Calls]'
  BY <1>1, <1>3, CallsBecome, TokensStay
<1>5. call[c].got \in Tokens /\ Usable(call[c].got)
  BY DEF SessionInv, SessionTypes, Calls, TokensAreUsable
<1>6. /\ \A s \in Devices \ {mine} : kept'[s] = kept[s]
      /\ kept'[mine] = IF stored THEN call[c].got ELSE kept[mine]
      /\ kept' \in [Devices -> Tokens]
  BY <1>1, <1>2, <1>5 DEF SessionInv, SessionTypes
<1> HIDE DEF mine
<1>7. SessionTypes'
  <2>1. \A d \in Callers : call'[d].op = "none" => call'[d].pc = "idle"
    BY <1>3, <1>4 DEF SessionInv, SessionTypes
  <2>2. QED
    BY <1>1, <1>4, <1>6, <2>1, TokensStay DEF SessionInv, SessionTypes
<1>8. \A d \in Callers : Refreshing(d)' => Refreshing(d) /\ call'[d] = call[d] /\ d # c
  BY <1>3, <1>4 DEF Refreshing
<1>9. TokensAreApart'
  <2>1. CASE kept'[mine] = kept[mine]
    <3>1. \A s \in Devices : kept'[s] \in {0, kept[s]}
      BY <1>6, <2>1
    <3>2. /\ \A d \in Callers : call'[d].got \in {0, call[d].got}
          /\ \A d \in Callers : call'[d].op = "login" => call'[d].sent = 0
          /\ \A d \in Callers : call'[d].got # 0 => call'[d].pc = "granted"
      BY <1>3, <1>4 DEF SessionInv, TokensAreApart
    <3>3. QED
      BY <1>8, <3>1, <3>2, ApartWithLess
  <2>2. CASE stored
    <3>1. /\ \A d, e \in Callers : Refreshing(d)' /\ Refreshing(e)' /\ S!Store(d) = S!Store(e) => d = e
          /\ \A d, e \in Callers : Refreshing(d)' /\ Refreshing(e)' /\ call'[d].sent = call'[e].sent => d = e
      BY <1>8 DEF SessionInv, TokensAreApart
    <3>2. \A d \in Callers, s \in Devices :
            Refreshing(d)' /\ call'[d].sent = kept'[s] => s = S!Store(d)
      BY <1>6, <1>8, <2>2 DEF SessionInv, TokensAreApart
    <3>3. \A d, e \in Callers : Refreshing(d)' => call'[d].sent # 0 /\ call'[d].sent # call'[e].got
      BY <1>3, <1>4, <1>8 DEF SessionInv, TokensAreApart
    <3>4. \A d, e \in Callers : call'[d].got = call'[e].got => d = e \/ call'[d].got = 0
      BY <1>3, <1>4 DEF SessionInv, TokensAreApart
    <3>5. \A d \in Callers, s \in Devices : call'[d].got = kept'[s] => kept'[s] = 0
      BY <1>3, <1>4, <1>6, <2>2 DEF SessionInv, TokensAreApart
    <3>6. \A s, r \in Devices : kept'[s] = kept'[r] => s = r \/ kept'[s] = 0
      BY <1>6, <2>2 DEF SessionInv, TokensAreApart
    <3>7. /\ \A d \in Callers : call'[d].op = "login" => call'[d].sent = 0
          /\ \A d \in Callers : call'[d].got # 0 => call'[d].pc = "granted"
      BY <1>3, <1>4 DEF SessionInv, TokensAreApart
    <3>8. \A d \in Callers : S!Store(d)' = S!Store(d)
      BY DEF S!Store
    <3>9. QED
      BY <3>1, <3>2, <3>3, <3>4, <3>5, <3>6, <3>7, <3>8 DEF TokensAreApart
  <2>3. QED
    BY <1>6, <2>1, <2>2
<1>10. TokensAreUsable'
  <2>1. \A token : Usable(token) => UsableNext(token)
    BY <1>1 DEF Usable, UsableNext
  <2>2. UsableNext(0)
    BY DEF Usable, UsableNext
  <2>3. \A s \in Devices : kept'[s] = kept[s] \/ UsableNext(kept'[s])
    BY <1>5, <1>6, <2>1
  <2>4. \A s \in Devices : Refreshing(c) /\ call[c].pc = "granted" /\ S!Store(c) = s
          => UsableNext(kept'[s])
    BY <1>5, <1>6, <2>1 DEF Refreshing, mine
  <2>5. ended \subseteq ended'
    BY <1>1
  <2>6. QED
    BY <1>3, <1>4, <1>8, <2>1, <2>2, <2>3, <2>4, <2>5, UsableWithLess
<1>11. QED
  BY <1>7, <1>9, <1>10 DEF SessionInv

\* An answer that never arrives ends the tokens it is about.
LEMMA LoseKeeps ==
  ASSUME SessionInv, NEW c \in Callers, S!Lose(c)
  PROVE  SessionInv'
<1>1. /\ S!Become(c, S!Quiet) /\ ended' = ended \cup {call[c].sent, call[c].got}
      /\ UNCHANGED <<user, kept, issued, newest, admin>>
  BY DEF S!Lose
<1>2. S!Quiet \in Calls /\ S!Quiet.got = 0 /\ S!Quiet.op = "none" /\ S!Quiet.pc = "idle"
  BY DEF S!Quiet, S!NoToken, Calls, SessionInv, SessionTypes, Tokens
<1>3. /\ call'[c] = S!Quiet /\ \A d \in Callers \ {c} : call'[d] = call[d]
      /\ call' \in [Callers -> Calls]'
  BY <1>1, <1>2, CallsBecome, TokensStay
<1>4. SessionTypes'
  <2>1. call[c].sent \in Tokens /\ call[c].got \in Tokens
    BY DEF SessionInv, SessionTypes, Calls
  <2>2. \A d \in Callers : call'[d].op = "none" => call'[d].pc = "idle"
    BY <1>2, <1>3 DEF SessionInv, SessionTypes
  <2>3. ended' \subseteq Tokens
    BY <1>1, <2>1 DEF SessionInv, SessionTypes
  <2>4. QED
    BY <1>1, <1>3, <2>2, <2>3, TokensStay DEF SessionInv, SessionTypes
<1>5. \A d \in Callers : Refreshing(d)' => Refreshing(d) /\ call'[d] = call[d] /\ d # c
  BY <1>2, <1>3 DEF Refreshing
<1>6. TokensAreApart'
  <2>1. /\ \A d \in Callers : call'[d].got \in {0, call[d].got}
        /\ \A d \in Callers : call'[d].op = "login" => call'[d].sent = 0
        /\ \A d \in Callers : call'[d].got # 0 => call'[d].pc = "granted"
        /\ \A s \in Devices : kept'[s] \in {0, kept[s]}
    BY <1>1, <1>2, <1>3 DEF SessionInv, TokensAreApart
  <2>2. QED
    BY <1>5, <2>1, ApartWithLess
<1>7. TokensAreUsable'
  <2>1. \A token : Usable(token) => UsableNext(token)
    BY <1>1 DEF Usable, UsableNext
  <2>2. UsableNext(0) /\ UsableNext(call[c].sent)
    BY <1>1 DEF Usable, UsableNext
  <2>3. \A s \in Devices : call[c].sent = kept[s] => UsableNext(kept'[s])
    BY <1>1, <2>2
  <2>4. ended \subseteq ended' /\ \A s \in Devices : kept'[s] = kept[s]
    BY <1>1
  <2>5. QED
    BY <1>2, <1>3, <1>5, <2>1, <2>2, <2>3, <2>4, UsableWithLess
<1>8. QED
  BY <1>4, <1>6, <1>7 DEF SessionInv

\* A person signs out of a device.
LEMMA LogoutKeeps ==
  ASSUME SessionInv, NEW c \in Callers, S!Logout(c)
  PROVE  SessionInv'
<1> DEFINE mine == S!Store(c)
<1>1. /\ call[c] = S!Quiet /\ kept' = [kept EXCEPT ![mine] = 0]
      /\ UNCHANGED <<call, issued, newest, admin>>
      /\ \/ user' = [user EXCEPT !.hash = 0] /\ ended' = ended \cup {user.hash}
         \/ UNCHANGED <<user, ended>>
  BY DEF S!Logout, S!NoToken
<1>2. mine \in Devices /\ 0 \in Tokens /\ user.hash \in Tokens
  BY StoresAreDevices DEF SessionInv, SessionTypes, Tokens
<1>3. /\ \A s \in Devices : kept'[s] \in {0, kept[s]}
      /\ kept' \in [Devices -> Tokens]
  BY <1>1, <1>2 DEF SessionInv, SessionTypes
<1>4. SessionTypes'
  <2>1. user' \in [hash : Tokens, password : 0..1, temporary : BOOLEAN, active : BOOLEAN,
                   by : {"admin", "person"}]
    BY <1>1, <1>2 DEF SessionInv, SessionTypes
  <2>2. ended' \subseteq Tokens
    BY <1>1, <1>2 DEF SessionInv, SessionTypes
  <2>3. QED
    BY <1>1, <1>3, <2>1, <2>2, TokensStay DEF SessionInv, SessionTypes
<1>5. TokensAreApart'
  <2>1. /\ \A d \in Callers : Refreshing(d)' => Refreshing(d) /\ call'[d].sent = call[d].sent
        /\ \A d \in Callers : call'[d].got \in {0, call[d].got}
        /\ \A d \in Callers : call'[d].op = "login" => call'[d].sent = 0
        /\ \A d \in Callers : call'[d].got # 0 => call'[d].pc = "granted"
    BY <1>1 DEF SessionInv, TokensAreApart, Refreshing
  <2>2. QED
    BY <1>3, <2>1, ApartWithLess
<1>6. TokensAreUsable'
  <2>1. \A token : Usable(token) => UsableNext(token)
    BY <1>1 DEF Usable, UsableNext
  <2>2. UsableNext(0)
    BY DEF Usable, UsableNext
  <2>3. S!Quiet.got = 0 /\ S!Quiet.op = "none"
    BY DEF S!Quiet, S!NoToken
  <2>4. ended \subseteq ended'
    BY <1>1
  <2>5. QED
    BY <1>1, <1>3, <2>1, <2>2, <2>3, <2>4, UsableWithLess DEF Refreshing
<1>7. QED
  BY <1>4, <1>5, <1>6 DEF SessionInv

\* The row is read: a refresh whose token is usable and not accepted sends an
\* ended one.
LEMMA ReadUserKeeps ==
  ASSUME SessionInv, NEW c \in Callers, S!ReadUser(c)
  PROVE  SessionInv'
<1>1. /\ call[c].pc = "sent" /\ call[c] \in Calls
      /\ UNCHANGED <<user, kept, issued, ended, newest, admin>>
  BY DEF S!ReadUser, SessionInv, SessionTypes
<1>2. ASSUME NEW x \in Calls, S!Become(c, x), x.op = call[c].op, x.sent = call[c].sent,
             x.got = call[c].got, x.pc \in {"read", "refused"},
             Refreshing(c) /\ x.pc = "refused" => x.sent \in ended
      PROVE  SessionInv'
  <2>1. /\ call'[c] = x /\ \A d \in Callers \ {c} : call'[d] = call[d]
        /\ call' \in [Callers -> Calls]'
    BY <1>1, <1>2, CallsBecome, TokensStay
  <2>2. SessionTypes'
    <3>1. \A d \in Callers : call'[d].op = "none" => call'[d].pc = "idle"
      BY <1>1, <1>2, <2>1 DEF SessionInv, SessionTypes
    <3>2. QED
      BY <1>1, <2>1, <3>1, TokensStay DEF SessionInv, SessionTypes
  <2>3. x.got = 0
    BY <1>1, <1>2 DEF SessionInv, TokensAreApart
  <2>4. TokensAreApart'
    <3>1. /\ \A d \in Callers : Refreshing(d)' => Refreshing(d) /\ call'[d].sent = call[d].sent
          /\ \A d \in Callers : call'[d].got \in {0, call[d].got}
          /\ \A d \in Callers : call'[d].op = "login" => call'[d].sent = 0
          /\ \A d \in Callers : call'[d].got # 0 => call'[d].pc = "granted"
          /\ \A s \in Devices : kept'[s] \in {0, kept[s]}
      BY <1>1, <1>2, <2>1, <2>3 DEF SessionInv, TokensAreApart, Refreshing
    <3>2. QED
      BY <3>1, ApartWithLess
  <2>5. TokensAreUsable'
    <3>1. (\A token : Usable(token) => UsableNext(token)) /\ UsableNext(0)
      BY <1>1 DEF Usable, UsableNext
    <3>2. /\ Refreshing(c)' /\ call'[c].pc = "refused" => call'[c].sent \in ended'
          /\ call'[c].pc # "sent" /\ call[c].pc # "granted" /\ call'[c].got = 0
      BY <1>1, <1>2, <2>1, <2>3 DEF Refreshing
    <3>3. ended \subseteq ended' /\ \A s \in Devices : kept'[s] = kept[s]
      BY <1>1
    <3>4. QED
      BY <2>1, <3>1, <3>2, <3>3, UsableWithLess
  <2>6. QED
    BY <2>2, <2>4, <2>5 DEF SessionInv
<1>3. CASE ~S!Accepts(call[c])
  <2> DEFINE x == [call[c] EXCEPT !.pc = "refused"]
  <2>1. S!Become(c, x)
    BY <1>3 DEF S!ReadUser
  <2>2. /\ x \in Calls /\ x.pc = "refused" /\ x.op = call[c].op /\ x.sent = call[c].sent
        /\ x.got = call[c].got
    BY <1>1 DEF Calls
  <2>3. Refreshing(c) => x.sent \in ended
    <3>1. Refreshing(c) => Usable(call[c].sent) /\ call[c].sent # 0
      BY <1>1 DEF SessionInv, TokensAreUsable, TokensAreApart
    <3>2. Refreshing(c) => ~(user.active /\ user.hash = call[c].sent)
      BY <1>3 DEF S!Accepts, Refreshing
    <3>3. QED
      BY <2>2, <3>1, <3>2 DEF Usable
  <2>4. QED
    BY <1>2, <2>1, <2>2, <2>3
<1>4. CASE S!Accepts(call[c])
  <2>1. PICK password \in 0..1 : S!Become(c, [call[c] EXCEPT !.pc = "read", !.password = password])
    <3>1. CASE call[c].op = "refresh"
      <4>1. call[c].sent \in 1..Len(issued)
        BY <1>1, <3>1 DEF SessionInv, TokensAreApart, Refreshing, Calls, Tokens
      <4>2. issued[call[c].sent] \in 0..1
        BY <4>1 DEF SessionInv, SessionTypes
      <4>3. QED
        BY <1>1, <1>4, <3>1, <4>2 DEF S!ReadUser
    <3>2. CASE call[c].op # "refresh"
      <4>1. S!Become(c, [call[c] EXCEPT !.pc = "read"])
        BY <1>4, <3>2 DEF S!ReadUser
      <4>2. [call[c] EXCEPT !.pc = "read"] = [call[c] EXCEPT !.pc = "read", !.password = call[c].password]
        BY <1>1 DEF Calls
      <4>3. call[c].password \in 0..1
        BY <1>1 DEF Calls
      <4>4. QED
        BY <4>1, <4>2, <4>3
    <3>3. QED
      BY <3>1, <3>2
  <2> DEFINE x == [call[c] EXCEPT !.pc = "read", !.password = password]
  <2>2. /\ x \in Calls /\ x.pc = "read" /\ x.op = call[c].op /\ x.sent = call[c].sent
        /\ x.got = call[c].got
    BY <1>1 DEF Calls
  <2>3. QED
    BY <1>2, <2>1, <2>2
<1>5. QED
  BY <1>3, <1>4

\* The token in the row gives way to a new one: it was the one that is exchanged,
\* which only this device may still keep, or it is ended.
LEMMA IssueTokensKeeps ==
  ASSUME SessionInv, NEW c \in Callers, S!IssueTokens(c)
  PROVE  SessionInv'
<1> DEFINE token == Len(issued) + 1
           sent  == call[c].sent
           x     == [call[c] EXCEPT !.pc = "granted", !.got = token]
<1>1. /\ call[c].pc = "read" /\ call[c].op # "change" /\ call[c] \in Calls
      /\ issued' = Append(issued, call[c].password)
      /\ user' = [user EXCEPT !.hash = token]
      /\ ended' = ended \cup (IF user.hash = sent THEN {} ELSE {user.hash})
                        \cup (IF user.active THEN {} ELSE {token})
      /\ newest' \in {token, newest}
      /\ S!Become(c, x) /\ UNCHANGED <<kept, admin>>
  BY DEF S!IssueTokens, S!Fresh, SessionInv, SessionTypes
<1>2. /\ Len(issued) \in Nat /\ call[c].password \in 0..1 /\ issued' \in Seq(0..1)
      /\ Len(issued') = token
  BY <1>1 DEF SessionInv, SessionTypes, Calls
<1>3. Tokens \subseteq Tokens' /\ token \in Tokens' /\ token \notin Tokens /\ token # 0
  BY <1>2 DEF Tokens
<1> HIDE DEF token
<1>4. Calls \subseteq Calls'
  BY <1>3 DEF Calls
<1>5. /\ x \in Calls' /\ x.pc = "granted" /\ x.op = call[c].op /\ x.sent = sent
      /\ x.got = token
  BY <1>1, <1>3, <1>4 DEF Calls
<1> HIDE DEF x
<1>6. call'[c] = x /\ \A d \in Callers \ {c} : call'[d] = call[d]
  BY <1>1, CallsBecome
<1>7. call' \in [Callers -> Calls']
  BY <1>1, <1>4, <1>5 DEF S!Become, SessionInv, SessionTypes
<1>8. /\ user' \in [hash : Tokens', password : 0..1, temporary : BOOLEAN, active : BOOLEAN,
                    by : {"admin", "person"}]
      /\ user'.hash = token /\ user'.active = user.active /\ user.hash \in Tokens
  BY <1>1, <1>3 DEF SessionInv, SessionTypes
<1>9. SessionTypes'
  <2>1. kept' \in [Devices -> Tokens'] /\ newest' \in Tokens' /\ ended' \subseteq Tokens'
    BY <1>1, <1>3, <1>8 DEF SessionInv, SessionTypes
  <2>2. \A d \in Callers : call'[d].op = "none" => call'[d].pc = "idle"
    BY <1>1, <1>5, <1>6 DEF SessionInv, SessionTypes
  <2>3. QED
    BY <1>1, <1>2, <1>7, <1>8, <2>1, <2>2 DEF SessionInv, SessionTypes
<1>10. \A d \in Callers : call[d].sent \in Tokens /\ call[d].got \in Tokens
  BY DEF SessionInv, SessionTypes, Calls
<1>11. \A d \in Callers : (Refreshing(d)' <=> Refreshing(d)) /\ call'[d].sent = call[d].sent
  BY <1>5, <1>6 DEF Refreshing
<1>12. \A s \in Devices : kept'[s] = kept[s] /\ kept[s] \in Tokens
  BY <1>1 DEF SessionInv, SessionTypes
<1>13. TokensAreApart'
  <2>1. \A d \in Callers : S!Store(d)' = S!Store(d)
    BY DEF S!Store
  <2>2. /\ \A d, e \in Callers : Refreshing(d) /\ Refreshing(e) /\ S!Store(d) = S!Store(e) => d = e
        /\ \A d, e \in Callers : Refreshing(d) /\ Refreshing(e) /\ call[d].sent = call[e].sent => d = e
        /\ \A d \in Callers, s \in Devices : Refreshing(d) /\ call[d].sent = kept[s] => s = S!Store(d)
        /\ \A s, r \in Devices : kept[s] = kept[r] => s = r \/ kept[s] = 0
    BY DEF SessionInv, TokensAreApart
  <2>3. \A d, e \in Callers : Refreshing(d) => call[d].sent # 0 /\ call[d].sent # call'[e].got
    BY <1>3, <1>5, <1>6, <1>10 DEF SessionInv, TokensAreApart
  <2>4. \A d, e \in Callers : call'[d].got = call'[e].got => d = e \/ call'[d].got = 0
    BY <1>3, <1>5, <1>6, <1>10 DEF SessionInv, TokensAreApart
  <2>5. \A d \in Callers, s \in Devices : call'[d].got = kept[s] => kept[s] = 0
    BY <1>3, <1>5, <1>6, <1>12 DEF SessionInv, TokensAreApart
  <2>6. /\ \A d \in Callers : call'[d].op = "login" => call'[d].sent = 0
        /\ \A d \in Callers : call'[d].got # 0 => call'[d].pc = "granted"
    BY <1>5, <1>6 DEF SessionInv, TokensAreApart
  <2>7. QED
    BY <1>11, <1>12, <2>1, <2>2, <2>3, <2>4, <2>5, <2>6 DEF TokensAreApart
<1>14. ASSUME NEW old, Usable(old), Refreshing(c) => old # sent PROVE UsableNext(old)
  <2>1. ~Refreshing(c) => sent = 0
    BY <1>1 DEF SessionInv, SessionTypes, TokensAreApart, Refreshing, Calls
  <2>2. QED
    BY <1>1, <1>14, <2>1 DEF Usable, UsableNext
<1>15. UsableNext(token)
  BY <1>1, <1>8 DEF UsableNext
<1>16. TokensAreUsable'
  <2>1. \A d \in Callers : UsableNext(call'[d].got)
    BY <1>5, <1>6, <1>14, <1>15 DEF SessionInv, TokensAreUsable, TokensAreApart
  <2>2. \A d \in Callers : Refreshing(d)' /\ call'[d].pc = "sent" => UsableNext(call'[d].sent)
    BY <1>5, <1>6, <1>11, <1>14 DEF SessionInv, TokensAreUsable, TokensAreApart
  <2>3. \A d \in Callers : Refreshing(d)' /\ call'[d].pc = "refused" => call'[d].sent \in ended'
    BY <1>1, <1>5, <1>6, <1>11 DEF SessionInv, TokensAreUsable
  <2>4. ASSUME NEW s \in Devices, ~UsableNext(kept'[s])
        PROVE  \E d \in Callers : /\ Refreshing(d)' /\ call'[d].pc = "granted"
                                  /\ S!Store(d)' = s /\ call'[d].sent = kept'[s]
    <3>1. CASE Usable(kept[s])
      <4>1. Refreshing(c) /\ kept[s] = sent
        BY <1>12, <1>14, <2>4, <3>1
      <4>2. S!Store(c) = s
        BY <4>1 DEF SessionInv, TokensAreApart
      <4>3. QED
        BY <1>5, <1>6, <1>11, <1>12, <4>1, <4>2 DEF S!Store
    <3>2. CASE ~Usable(kept[s])
      <4>1. PICK d \in Callers : /\ Refreshing(d) /\ call[d].pc = "granted"
                                 /\ S!Store(d) = s /\ call[d].sent = kept[s]
        BY <3>2 DEF SessionInv, TokensAreUsable
      <4>2. d # c
        BY <1>1, <4>1
      <4>3. QED
        BY <1>6, <1>11, <1>12, <4>1, <4>2 DEF S!Store
    <3>3. QED
      BY <3>1, <3>2
  <2>5. QED
    BY <2>1, <2>2, <2>3, <2>4 DEF TokensAreUsable, Usable, UsableNext
<1>17. QED
  BY <1>9, <1>13, <1>16 DEF SessionInv

\* A password is set or the account switched: what the row held is ended.
LEMMA AdministerKeeps ==
  ASSUME SessionInv, S!ResetPassword \/ S!SwitchAccount \/ \E c \in Callers : S!SetOwnPassword(c)
  PROVE  SessionInv'
<1>1. /\ ended' = ended \cup {user.hash} /\ UNCHANGED <<kept, issued, newest>>
      /\ admin' = admin + 1 /\ admin + 1 \in 0..1 /\ admin' \in Nat
  <2>1. PICK u : S!Administer(u)
    BY DEF S!ResetPassword, S!SwitchAccount, S!SetOwnPassword
  <2>2. QED
    BY <2>1 DEF S!Administer, SessionInv, SessionTypes
<1>2. user.hash \in Tokens /\ 0 \in Tokens
  BY DEF SessionInv, SessionTypes, Tokens
<1>3. user' \in [hash : Tokens, password : 0..1, temporary : BOOLEAN, active : BOOLEAN,
                 by : {"admin", "person"}]
  <2> DEFINE next == admin + 1
  <2>1. \/ user' = [user EXCEPT !.hash = 0, !.password = next, !.temporary = FALSE, !.by = "person"]
        \/ user' = [user EXCEPT !.hash = 0, !.password = next, !.by = "admin"]
        \/ user' = [user EXCEPT !.active = ~@]
    BY DEF S!ResetPassword, S!SwitchAccount, S!SetOwnPassword, S!Administer, S!NoToken
  <2>2. next \in 0..1
    BY <1>1
  <2> HIDE DEF next
  <2>3. QED
    BY <1>2, <2>1, <2>2 DEF SessionInv, SessionTypes
<1>4. PICK c \in Callers :
        /\ \A d \in Callers \ {c} : call'[d] = call[d]
        /\ call' \in [Callers -> Calls]
        /\ \/ call'[c] = call[c]
           \/ /\ call[c].op = "change" /\ call'[c].op = "change" /\ call[c].pc = "read"
              /\ call'[c].pc = "granted" /\ call'[c].got = call[c].got
  <2>1. CASE UNCHANGED call
    <3>1. PhoneCall \in Callers /\ call \in [Callers -> Calls]
      BY DEF Callers, SessionInv, SessionTypes
    <3>2. QED
      BY <2>1, <3>1
  <2>2. CASE \E c \in Callers : S!SetOwnPassword(c)
    <3>1. PICK c \in Callers : S!SetOwnPassword(c)
      BY <2>2
    <3> DEFINE x == [call[c] EXCEPT !.pc = "granted"]
    <3>2. call[c].op = "change" /\ call[c].pc = "read" /\ S!Become(c, x) /\ call[c] \in Calls
      BY <3>1 DEF S!SetOwnPassword, SessionInv, SessionTypes
    <3>3. x \in Calls /\ x.op = "change" /\ x.pc = "granted" /\ x.got = call[c].got
      BY <3>2 DEF Calls
    <3>4. /\ call'[c] = x /\ \A d \in Callers \ {c} : call'[d] = call[d]
          /\ call' \in [Callers -> Calls]
      BY <1>1, <3>2, <3>3, CallsBecome, TokensStay
    <3>5. QED
      BY <3>2, <3>3, <3>4
  <2>3. QED
    BY <2>1, <2>2 DEF S!ResetPassword, S!SwitchAccount
<1>5. SessionTypes'
  <2>1. \A d \in Callers : call'[d].op = "none" => call'[d].pc = "idle"
    BY <1>4 DEF SessionInv, SessionTypes
  <2>2. ended' \subseteq Tokens
    BY <1>1, <1>2 DEF SessionInv, SessionTypes
  <2>3. QED
    BY <1>1, <1>3, <1>4, <2>1, <2>2, TokensStay DEF SessionInv, SessionTypes
<1>6. TokensAreApart'
  <2>1. /\ \A d \in Callers : Refreshing(d)' => Refreshing(d) /\ call'[d].sent = call[d].sent
        /\ \A d \in Callers : call'[d].got \in {0, call[d].got}
        /\ \A d \in Callers : call'[d].op = "login" => call'[d].sent = 0
        /\ \A d \in Callers : call'[d].got # 0 => call'[d].pc = "granted"
        /\ \A s \in Devices : kept'[s] \in {0, kept[s]}
    BY <1>1, <1>4 DEF SessionInv, TokensAreApart, Refreshing
  <2>2. QED
    BY <2>1, ApartWithLess
<1>7. TokensAreUsable'
  <2>1. \A token : Usable(token) => UsableNext(token)
    BY <1>1 DEF Usable, UsableNext
  <2>2. ended \subseteq ended' /\ \A s \in Devices : kept'[s] = kept[s]
    BY <1>1
  <2>3. UsableNext(call'[c].got)
    BY <1>4, <2>1 DEF SessionInv, TokensAreUsable
  <2>4. /\ Refreshing(c)' /\ call'[c].pc = "sent" => UsableNext(call'[c].sent)
        /\ Refreshing(c)' /\ call'[c].pc = "refused" => call'[c].sent \in ended'
    BY <1>4, <2>1, <2>2 DEF SessionInv, TokensAreUsable, Refreshing
  <2>5. \A d \in Callers : Refreshing(d)' <=> Refreshing(d)
    BY <1>4 DEF Refreshing
  <2>6. \A d \in Callers : Refreshing(d) => call'[d] = call[d]
    BY <1>4 DEF Refreshing
  <2>7. /\ \A d \in Callers : UsableNext(call'[d].got)
        /\ \A d \in Callers : Refreshing(d)' /\ call'[d].pc = "sent" => UsableNext(call'[d].sent)
        /\ \A d \in Callers : Refreshing(d)' /\ call'[d].pc = "refused" => call'[d].sent \in ended'
    BY <1>4, <2>1, <2>2, <2>3, <2>5, <2>6 DEF SessionInv, TokensAreUsable
  <2>8. \A s \in Devices :
          \/ UsableNext(kept'[s])
          \/ \E d \in Callers : /\ Refreshing(d)' /\ call'[d].pc = "granted"
                                /\ S!Store(d)' = s /\ call'[d].sent = kept'[s]
    <3>1. ASSUME NEW s \in Devices, ~UsableNext(kept'[s])
          PROVE  \E d \in Callers : /\ Refreshing(d)' /\ call'[d].pc = "granted"
                                    /\ S!Store(d)' = s /\ call'[d].sent = kept'[s]
      <4>1. PICK d \in Callers : /\ Refreshing(d) /\ call[d].pc = "granted"
                                 /\ S!Store(d) = s /\ call[d].sent = kept[s]
        BY <2>1, <2>2, <3>1 DEF SessionInv, TokensAreUsable
      <4>2. QED
        BY <2>2, <2>5, <2>6, <4>1 DEF S!Store
    <3>2. QED
      BY <3>1
  <2>9. QED
    BY <2>7, <2>8 DEF TokensAreUsable, Usable, UsableNext
<1>8. QED
  BY <1>5, <1>6, <1>7 DEF SessionInv

\* Every step of the sessions, and none.
LEMMA SessionsStep ==
  ASSUME SessionInv, S!Next \/ UNCHANGED ofSessions
  PROVE  SessionInv'
<1>1. CASE S!Next
  BY <1>1, SendKeeps, DeliverKeeps, LoseKeeps, LogoutKeeps, ReadUserKeeps, IssueTokensKeeps,
     AdministerKeeps DEF S!Next, Callers
<1>2. CASE UNCHANGED ofSessions
  <2>1. UNCHANGED <<user, kept, call, issued, ended, newest, admin>>
    BY <1>2 DEF ofSessions
  <2>2. SessionTypes'
    BY <2>1, TokensStay DEF SessionInv, SessionTypes
  <2>3. TokensAreApart'
    BY <2>1 DEF SessionInv, TokensAreApart, Refreshing, S!Store
  <2>4. TokensAreUsable'
    BY <2>1 DEF SessionInv, TokensAreUsable, Refreshing, Usable, S!Store
  <2>5. QED
    BY <2>2, <2>3, <2>4 DEF SessionInv
<1>3. QED
  BY <1>1, <1>2

-----------------------------------------------------------------------------
(* MCField: one part a behaviour.                                          *)

FieldInv ==
  /\ part = "staff" => IInv
  /\ part = "sessions" => SessionInv
  /\ part = "surveys" => SurveyInv

\* Every part begins as it should and keeps to it.
LEMMA FieldHolds == MCSpec => []FieldInv
<1>1. MCInit => FieldInv
  BY InvariantInit, SessionsBegin, SurveysBegin DEF MCInit, FieldInv
<1>2. FieldInv /\ [MCNext]_allVars => FieldInv'
  <2> SUFFICES ASSUME FieldInv, [MCNext]_allVars PROVE FieldInv'
    OBVIOUS
  <2>1. part' = part
    BY DEF MCNext, allVars
  <2>2. ASSUME part = "staff" PROVE IInv'
    <3>1. IInv
      BY <2>2 DEF FieldInv
    <3>2. [Next]_vars
      BY <2>2 DEF MCNext, allVars
    <3>3. QED
      BY <3>1, <3>2, InvariantStep
  <2>3. ASSUME part = "sessions" PROVE SessionInv'
    <3>1. SessionInv
      BY <2>3 DEF FieldInv
    <3>2. S!Next \/ UNCHANGED ofSessions
      BY <2>3 DEF MCNext, allVars
    <3>3. QED
      BY <3>1, <3>2, SessionsStep
  <2>4. ASSUME part = "surveys" PROVE SurveyInv'
    <3>1. SurveyInv
      BY <2>4 DEF FieldInv
    <3>2. V!Next \/ UNCHANGED ofSurveys
      BY <2>4 DEF MCNext, allVars
    <3>3. QED
      BY <3>1, <3>2, SurveysStep
  <2>5. QED
    BY <2>1, <2>2, <2>3, <2>4 DEF FieldInv
<1>3. QED
  BY <1>1, <1>2, PTL DEF MCSpec

\* "so a failure never leaves a customer with no project or a project the sheet
\* does not point at": whatever requests are cut short or raced, of a sheet on
\* file the only project is the one it points at, every customer a conversion
\* made has one, and an import has made everybody or nobody.
THEOREM SheetsStayWhole == MCSpec => []SheetsAreWhole
<1>1. FieldInv => SheetsAreWhole
  <2>1. ASSUME IInv PROVE ImportsAreWhole
    BY <2>1, WholeWhenSaid
  <2>2. QED
    BY <2>1 DEF FieldInv, SheetsAreWhole, SurveyInv
<1>2. QED
  BY <1>1, FieldHolds, PTL

\* "two concurrent refreshes would invalidate each other and log the user out. All
\* 401s share one in-flight refresh instead" (web/src/lib/api.ts): with one refresh
\* of a device at a time, a refresh is refused only when a sign-in or sign-out, a
\* password, a switched account or a lost reply has ended its token, and no two
\* devices ever keep the same one.
THEOREM RefusalsHaveAReason == MCSpec => []RefusedForAReason
<1>1. FieldInv => RefusedForAReason
  <2>1. ASSUME SessionInv PROVE S!TypeOK
    <3>1. \A c \in Callers : {call[c].sent, call[c].got} \subseteq 0..Len(issued)
      BY <2>1 DEF SessionInv, SessionTypes, Calls, Tokens
    <3>2. \A s, r \in Devices : s # r /\ kept[s] = kept[r] => kept[s] = 0
      BY <2>1 DEF SessionInv, TokensAreApart
    <3>3. QED
      BY <2>1, <3>1, <3>2
         DEF SessionInv, SessionTypes, Tokens, S!TypeOK, S!NoToken, Callers, Devices
  <2>2. ASSUME SessionInv PROVE S!RefusedForAReason
    BY <2>2 DEF SessionInv, TokensAreUsable, Refreshing, S!RefusedForAReason, Callers
  <2>3. QED
    BY <2>1, <2>2 DEF FieldInv, RefusedForAReason
<1>2. QED
  BY <1>1, FieldHolds, PTL
=============================================================================
