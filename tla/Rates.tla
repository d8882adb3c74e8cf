------------------------------- MODULE Rates -------------------------------
(***************************************************************************)
(* The versions of one statutory rate: an administrator's rotation closes  *)
(* the open version the day before the new one begins, the deploy script   *)
(* seeds a rate that has none, and everybody resolves a rate on a day.     *)
(***************************************************************************)
EXTENDS Integers, FiniteSets, TLC

CONSTANTS
  Txns,        \* connections: administrators and deploys
  LastDay,     \* bound: the calendar is 1..LastDay
  SeedDay,     \* validFrom of the seeded version
  Starts,      \* the versions to begin with
  MaxRequests, \* bound: rotations and seedings ever begun
  MaxCrashes   \* bound: processes that die

Days == 1..LastDay

\* valid_to of a version that has none: later than every day.
Open == LastDay + 1

ASSUME TheCalendarEnds == LastDay \in Nat
ASSUME TheSeedHasADay  == SeedDay \in Days

VARIABLES
  versions,  \* committed rate_versions of this kind
  lock,      \* who holds the advisory lock of this kind
  tx,        \* each connection's request and transaction
  asked, crashes

vars == <<versions, lock, tx, asked, crashes>>

Version(from, to, id) == [from |-> from, to |-> to, id |-> id]

Versions == [from : Days, to : Days \cup {Open}, id : Int]

Covers(v, day) == v.from <= day /\ v.to >= day

\* A table that is empty, or has an open version and one version for every day
\* since its first.
Sound(set) ==
  /\ set \subseteq Versions
  /\ set # {} => \E v \in set : v.to = Open
  /\ \A v, w \in set : v.id = w.id => v = w
  /\ \A v, w \in set : \A day \in Days : Covers(v, day) /\ Covers(w, day) => v = w
  /\ \A v \in set : \A day \in Days : v.from <= day => \E w \in set : Covers(w, day)

\* The numbers of the requests to come are the ids of their versions.
ASSUME StartsAreSound == \A set \in Starts : Sound(set) /\ \A v \in set : v.id <= 0

Idle == [pc |-> "idle", from |-> 0, no |-> 0, seen |-> {}, del |-> {}, ins |-> {}]

NoOne == "nobody"

ASSUME NobodyIsNoTxn == NoOne \notin Txns

Init ==
  /\ versions \in Starts
  /\ lock = NoOne
  /\ tx = [t \in Txns |-> Idle]
  /\ asked = 0 /\ crashes = 0

Become(t, x) == tx' = [tx EXCEPT ![t] = x]

Release(t) == IF lock = t THEN NoOne ELSE lock

\* The transaction is over; the lock goes with it.
End(t) == Become(t, Idle) /\ lock' = Release(t)

OpenOf(set) == {v \in set : v.to = Open}

\* findActive: the latest of those that hold on the day.
Resolve(set, day) ==
  LET active == {v \in set : Covers(v, day)} IN
  {v \in active : \A w \in active : w.from <= v.from}

-----------------------------------------------------------------------------
AskRotate(t) == \E day \in Days :
  /\ tx[t] = Idle /\ asked < MaxRequests
  /\ asked' = asked + 1
  /\ Become(t, [Idle EXCEPT !.pc = "lock", !.from = day, !.no = asked + 1])
  /\ UNCHANGED <<versions, lock, crashes>>

LockIsFree(t) == lock = NoOne

\* pg_advisory_xact_lock, released when the transaction ends.
TakeLock(t) ==
  /\ tx[t].pc = "lock" /\ LockIsFree(t)
  /\ lock' = t
  /\ Become(t, [tx[t] EXCEPT !.pc = "read"])
  /\ UNCHANGED <<versions, asked, crashes>>

TooEarly(from, seen) == \E v \in seen : from <= v.from

ReadOpen(t) ==
  LET x == tx[t]
      seen == OpenOf(versions)
  IN  /\ x.pc = "read"
      /\ IF TooEarly(x.from, seen) THEN End(t)
         ELSE Become(t, [x EXCEPT !.pc = IF seen = {} THEN "insert" ELSE "close", !.seen = seen])
              /\ UNCHANGED lock
      /\ UNCHANGED <<versions, asked, crashes>>

\* Mutant: the old version keeps the day the new one begins.
ClosedOn(v, from) == [v EXCEPT !.to = from]

\* The day before, inclusive: dayBefore.
Closed(v, from) == [v EXCEPT !.to = from - 1]

Others(t) == Txns \ {t}

\* UPDATE by id of the version that was read, as it is by then.
CloseOpen(t) ==
  LET x    == tx[t]
      rows == {v \in versions : \E s \in x.seen : s.id = v.id}
  IN  /\ x.pc = "close"
      /\ \A u \in Others(t) : tx[u].del \cap rows = {}
      /\ Become(t, [x EXCEPT !.pc = "insert", !.del = rows, !.ins = {Closed(v, x.from) : v \in rows}])
      /\ UNCHANGED <<versions, lock, asked, crashes>>

View(t) == (versions \ tx[t].del) \cup tx[t].ins

\* Nobody else is adding or closing an open version.
IndexFree(t) == \A u \in Others(t) : OpenOf(tx[u].ins \cup tx[u].del) = {}

\* rate_versions_one_open_per_kind
Insert(t) ==
  LET x == tx[t] IN
  /\ x.pc = "insert" /\ IndexFree(t)
  /\ IF OpenOf(View(t)) # {} THEN End(t)
     ELSE Become(t, [x EXCEPT !.pc = "commit", !.ins = @ \cup {Version(x.from, Open, x.no)}])
          /\ UNCHANGED lock
  /\ UNCHANGED <<versions, asked, crashes>>

Commit(t) ==
  /\ tx[t].pc = "commit"
  /\ versions' = View(t)
  /\ End(t)
  /\ UNCHANGED <<asked, crashes>>

\* seedRates: kinds without an open version get theirs, in a statement of its
\* own; a violated index ends the script.
AskSeed(t) ==
  /\ tx[t] = Idle /\ asked < MaxRequests
  /\ asked' = asked + 1
  /\ IF OpenOf(versions) # {} THEN UNCHANGED tx
     ELSE Become(t, [Idle EXCEPT !.pc = "seed", !.no = asked + 1])
  /\ UNCHANGED <<versions, lock, crashes>>

Seed(t) ==
  /\ tx[t].pc = "seed" /\ IndexFree(t)
  /\ versions' = IF OpenOf(versions) # {} THEN versions
                 ELSE versions \cup {Version(SeedDay, Open, tx[t].no)}
  /\ Become(t, Idle)
  /\ UNCHANGED <<lock, asked, crashes>>

\* The process or its connection dies: the transaction rolls back.
Crash(t) ==
  /\ tx[t] # Idle /\ crashes < MaxCrashes
  /\ crashes' = crashes + 1
  /\ End(t)
  /\ UNCHANGED <<versions, asked>>

Step(t) == TakeLock(t) \/ ReadOpen(t) \/ CloseOpen(t) \/ Insert(t) \/ Commit(t) \/ Seed(t)

Next == \E t \in Txns : AskRotate(t) \/ AskSeed(t) \/ Step(t) \/ Crash(t)

Spec == Init /\ [][Next]_vars
-----------------------------------------------------------------------------
(* Properties.                                                             *)

\* Types; the lock is held by a rotation under way.
TypeOK ==
  /\ \A v \in versions : v.from \in Days /\ v.to \in 0..Open
  /\ \A t \in Txns : tx[t].pc \in {"idle", "lock", "read", "close", "insert", "commit", "seed"}
  /\ lock # NoOne => tx[lock].pc \in {"read", "close", "insert", "commit"}

\* On every day since the first version began exactly one version holds: no
\* day without a rate, and none with two, whatever rotates at once.
OneRatePerDay ==
  \A day \in Days :
    (\E v \in versions : v.from <= day) =>
      Cardinality({v \in versions : Covers(v, day)}) = 1

\* "Every posted document stores the rate version": a rotation leaves what a
\* day before its own first day resolves to, and never takes a version away.
HistoryStands ==
  [][\A day \in Days : \A v \in Resolve(versions, day) :
       (\A w \in versions' : w.id \in {u.id : u \in versions} \/ w.from > day) =>
         {w.id : w \in Resolve(versions', day)} = {v.id}]_vars

\* "the advisory lock above should make this unreachable": once a rate has a
\* version, no rotation meets the unique index.
ConflictIsUnreachable ==
  \A t \in Txns : tx[t].pc = "insert" /\ tx[t].seen # {} => OpenOf(View(t)) = {}
=============================================================================
