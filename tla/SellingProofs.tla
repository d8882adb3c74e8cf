---------------------------- MODULE SellingProofs ----------------------------
(***************************************************************************)
(* Proofs about Rates, for any calendar, connections and sound versions to *)
(* begin with: every day since the first version has one rate, no rotation *)
(* meets the unique index, and what a day resolved to stays.  The last part *)
(* is about MCSelling: what QuotationProofs and SalesProofs show of their   *)
(* modules holds of each part of a behaviour that runs one of them.         *)
(***************************************************************************)
EXTENDS MCSelling, Sequences, FiniteSetTheorems, TLAPS

Labels == {"idle", "lock", "read", "close", "insert", "commit", "seed"}

Requests ==
  [pc : Labels, from : 0..LastDay, no : Nat,
   seen : SUBSET Versions, del : SUBSET Versions, ins : SUBSET Versions]

Types ==
  /\ tx \in [Txns -> Requests]
  /\ lock \in Txns \cup {NoOne}
  /\ asked \in Nat
  /\ \A t \in Txns : tx[t].pc = "idle" => tx[t] = Idle

\* A request under way has a number of its own, which is the id of no version.
Numbered ==
  /\ \A v \in versions : v.id <= asked
  /\ \A t \in Txns : tx[t].pc # "idle" =>
       /\ tx[t].no \in 1..asked
       /\ \A v \in versions : v.id # tx[t].no
       /\ \A u \in Txns \ {t} : tx[u].no # tx[t].no

\* What a rotation has read is what there is, and what it will write closes it the
\* day before the new version begins.
Rotates(t) ==
  LET x == tx[t] IN
  /\ x.pc \in {"read", "close", "insert", "commit"} => lock = t
  /\ x.pc \in {"lock", "read", "close", "insert", "commit"} => x.from \in Days
  /\ x.pc \notin {"insert", "commit"} => x.del = {} /\ x.ins = {}
  /\ x.pc = "close" => x.seen # {}
  /\ x.pc \in {"close", "insert", "commit"} /\ x.seen # {} =>
       x.seen = OpenOf(versions) /\ \A v \in x.seen : v.from < x.from
  /\ x.pc \in {"insert", "commit"} =>
       /\ x.del = x.seen
       /\ x.ins = {Closed(v, x.from) : v \in x.seen}
                    \cup IF x.pc = "commit" THEN {Version(x.from, Open, x.no)} ELSE {}
  /\ x.pc = "commit" /\ x.seen = {} => versions = {}

IInv ==
  /\ Types
  /\ Sound(versions)
  /\ Numbered
  /\ \A t \in Txns : Rotates(t)

-----------------------------------------------------------------------------
(* Tables.                                                                 *)

\* There is a day, and the open end is later than any.
LEMMA Calendar == LastDay \in Nat \ {0} /\ LastDay \in Days /\ Open \notin Days
BY TheCalendarEnds, TheSeedHasADay DEF Days, Open

\* A version of which only the bounds are said.
LEMMA VersionTyped ==
  ASSUME NEW from \in Days, NEW to \in Days \cup {Open}, NEW id \in Int
  PROVE  /\ Version(from, to, id) \in Versions
         /\ Version(from, to, id).from = from /\ Version(from, to, id).to = to
         /\ Version(from, to, id).id = id
BY DEF Version, Versions

\* A version that is closed keeps its beginning and its id.
LEMMA ClosedTyped ==
  ASSUME NEW v \in Versions, NEW from \in Days, v.from < from
  PROVE  /\ Closed(v, from) \in Versions
         /\ Closed(v, from).from = v.from /\ Closed(v, from).to = from - 1
         /\ Closed(v, from).id = v.id /\ Closed(v, from).to # Open
<1>1. v.from \in Days /\ from - 1 \in Days
  BY TheCalendarEnds DEF Versions, Days
<1>2. from - 1 \in Days \cup {Open} /\ from - 1 # Open
  BY <1>1, Calendar
<1> DEFINE to == from - 1
<1> HIDE DEF to
<1>3. [v EXCEPT !.to = to] \in Versions /\ [v EXCEPT !.to = to].from = v.from
      /\ [v EXCEPT !.to = to].to = to /\ [v EXCEPT !.to = to].id = v.id
  BY <1>2 DEF Versions, to
<1>4. QED
  BY <1>2, <1>3 DEF Closed, to

\* A sound table has at most one open version, which is its last.
LEMMA OneOpen ==
  ASSUME NEW set, Sound(set), NEW v \in set, NEW w \in set, v.to = Open
  PROVE  /\ w.to = Open => w = v
         /\ \A day \in Days : day >= v.from /\ Covers(w, day) => w = v
<1>1. v \in Versions /\ w \in Versions
  BY DEF Sound
<1>2. v.from \in Days /\ w.from \in Days
  BY <1>1 DEF Versions
<1>3. Covers(v, LastDay) /\ (w.to = Open => Covers(w, LastDay))
  BY <1>2, TheCalendarEnds DEF Covers, Days, Open
<1>4. ASSUME NEW day \in Days, day >= v.from PROVE Covers(v, day)
  BY <1>2, <1>4, TheCalendarEnds DEF Covers, Days, Open
<1>5. QED
  BY <1>3, <1>4, Calendar DEF Sound

\* The first version of a table.
LEMMA FirstIsSound ==
  ASSUME NEW from \in Days, NEW id \in Int
  PROVE  Sound({Version(from, Open, id)})
<1> DEFINE v == Version(from, Open, id)
<1>1. v \in Versions /\ v.to = Open /\ v.from = from
  BY VersionTyped
<1> HIDE DEF v
<1>2. \A day \in Days : v.from <= day => Covers(v, day)
  BY <1>1, TheCalendarEnds DEF Covers, Days, Open
<1>3. QED
  BY <1>1, <1>2 DEF Sound, v

\* A rotation: the open version ends the day before the new one begins.
LEMMA RotatedIsSound ==
  ASSUME NEW set, Sound(set), NEW v \in set, v.to = Open,
         NEW from \in Days, v.from < from, NEW id \in Int, \A w \in set : w.id # id
  PROVE  Sound((set \ {v}) \cup {Closed(v, from), Version(from, Open, id)})
<1> DEFINE c == Closed(v, from)
           n == Version(from, Open, id)
           old == set \ {v}
           new == old \cup {c, n}
<1>1. set \subseteq Versions /\ v \in Versions
  BY DEF Sound
<1>2. c \in Versions /\ c.from = v.from /\ c.to = from - 1 /\ c.id = v.id /\ c.to # Open
  BY <1>1, ClosedTyped
<1>3. n \in Versions /\ n.from = from /\ n.to = Open /\ n.id = id
  BY VersionTyped
<1> HIDE DEF c, n
<1>4. /\ v.from \in Days /\ v.from \in Int /\ from \in Int /\ LastDay \in Int
      /\ \A day \in Days : day \in Int
  BY <1>1, TheCalendarEnds DEF Versions, Days
<1>5. \A day \in Days : Covers(c, day) <=> day >= v.from /\ day < from
  BY <1>2, <1>4 DEF Covers
<1>6. \A day \in Days : Covers(n, day) <=> day >= from
  BY <1>3, <1>4 DEF Covers, Days, Open
<1>7. ASSUME NEW w \in old, NEW day \in Days, Covers(w, day)
      PROVE  day < v.from
  <2>1. w \in set /\ w # v
    OBVIOUS
  <2>2. ~ (day >= v.from)
    BY <1>7, <2>1, OneOpen
  <2>3. day \in Int /\ v.from \in Int
    BY <1>4
  <2>4. QED
    BY <2>2, <2>3
<1>8. new \subseteq Versions /\ n \in new /\ n.to = Open
  BY <1>1, <1>2, <1>3
<1>9. \A x, y \in new : x.id = y.id => x = y
  BY <1>2, <1>3 DEF Sound
<1>10. ASSUME NEW x \in new, NEW y \in new, NEW day \in Days, Covers(x, day), Covers(y, day)
       PROVE  x = y
  <2>1. CASE x \in old /\ y \in old
    BY <1>10, <2>1 DEF Sound
  <2> DEFINE Before == day < v.from
             Between == day >= v.from /\ day < from
             After == day >= from
  <2>0. day \in Int /\ v.from \in Int /\ from \in Int
    BY <1>4
  <2>2. ~ (Before /\ Between) /\ ~ (Before /\ After) /\ ~ (Between /\ After)
    BY <2>0
  <2>3. \A z \in {x, y} : /\ z \in old => Before
                          /\ z = c => Between
                          /\ z = n => After
    BY <1>5, <1>6, <1>7, <1>10
  <2> HIDE DEF Before, Between, After
  <2>4. CASE x \notin old \/ y \notin old
    BY <2>2, <2>3, <2>4
  <2>5. QED
    BY <2>1, <2>4
<1>11. ASSUME NEW x \in new, NEW day \in Days, x.from <= day PROVE \E w \in new : Covers(w, day)
  <2>1. CASE day >= from
    BY <1>6, <1>8, <2>1
  <2>2. CASE day < from /\ day >= v.from
    BY <1>5, <2>2
  <2>3. CASE day < from /\ day < v.from
    <3>0. /\ day \in Int /\ v.from \in Int /\ from \in Int
          /\ ~ (v.from <= day) /\ ~ (from <= day)
      <4>1. day \in Int /\ v.from \in Int /\ from \in Int
        BY <1>4
      <4>2. QED
        BY <2>3, <4>1
    <3>1. x \in old
      BY <1>2, <1>3, <1>11, <3>0
    <3>2. PICK w \in set : Covers(w, day)
      BY <1>11, <3>1 DEF Sound
    <3>3. w # v
      BY <3>0, <3>2 DEF Covers
    <3>4. QED
      BY <3>2, <3>3
  <2>4. day \in Int /\ v.from \in Int
    BY <1>4
  <2>5. QED
    BY <1>4, <2>1, <2>2, <2>3, <2>4
<1>12. QED
  BY <1>8, <1>9, <1>10, <1>11 DEF Sound, c, n

\* What rates a sound table resolves.
LEMMA SoundHasOneRate ==
  ASSUME NEW set, Sound(set), NEW day \in Days, NEW v \in set, v.from <= day
  PROVE  \E w \in set : /\ {u \in set : Covers(u, day)} = {w}
                        /\ Resolve(set, day) = {w}
<1>1. PICK w \in set : Covers(w, day)
  BY DEF Sound
<1>2. {u \in set : Covers(u, day)} = {w}
  BY <1>1 DEF Sound
<1>3. w.from <= w.from
  BY DEF Sound, Versions, Days
<1>4. Resolve(set, day) = {w}
  BY <1>2, <1>3 DEF Resolve
<1>5. QED
  BY <1>2, <1>4

\* A sound table without an open version is empty.
LEMMA SoundIsOpen ==
  ASSUME NEW set, Sound(set)
  PROVE  OpenOf(set) = {} => set = {}
BY DEF Sound, OpenOf

\* A sound table with an open version has no other.
LEMMA OpenIsOne ==
  ASSUME NEW set, Sound(set), OpenOf(set) # {}
  PROVE  \E v \in set : v.to = Open /\ OpenOf(set) = {v}
<1>1. PICK v \in set : v.to = Open
  BY DEF OpenOf
<1>2. OpenOf(set) = {v}
  BY <1>1, OneOpen DEF OpenOf
<1>3. QED
  BY <1>1, <1>2

-----------------------------------------------------------------------------
(* Each step keeps the invariant.                                          *)

\* A request that has not begun.
LEMMA IdleTyped ==
  /\ Idle \in Requests /\ Idle.pc = "idle" /\ Idle.no = 0 /\ Idle.del = {} /\ Idle.ins = {}
  /\ Idle.from = 0 /\ Idle.seen = {}
<1>1. 0 \in 0..LastDay
  BY TheCalendarEnds
<1>2. QED
  BY <1>1 DEF Idle, Requests, Labels

\* The tables to begin with.
LEMMA InvariantInit == Init => IInv
<1> SUFFICES ASSUME Init PROVE IInv
  OBVIOUS
<1>1. Types
  BY IdleTyped DEF Init, Types
<1>2. Sound(versions)
  BY StartsAreSound DEF Init
<1>3. Numbered
  BY StartsAreSound, IdleTyped DEF Init, Numbered
<1>4. \A t \in Txns : Rotates(t)
  BY IdleTyped DEF Init, Rotates
<1>5. QED
  BY <1>1, <1>2, <1>3, <1>4 DEF IInv

\* One connection goes on while the table stays as it is: what has to be seen is
\* that its own request still fits.
LEMMA OneTurns ==
  ASSUME IInv, NEW t \in Txns, NEW x \in Requests, Become(t, x), UNCHANGED versions,
         lock' \in Txns \cup {NoOne}, \A u \in Txns \ {t} : lock = u => lock' = u,
         asked' \in Nat, asked' >= asked,
         x.pc = "idle" => x = Idle,
         x.pc # "idle" => \/ x.no = asked' /\ asked' > asked
                          \/ x.no = tx[t].no /\ tx[t].pc # "idle",
         Rotates(t)'
  PROVE  IInv'
<1>1. tx \in [Txns -> Requests] /\ asked \in Nat
  BY DEF IInv, Types
<1>2. tx' = [u \in Txns |-> IF u = t THEN x ELSE tx[u]]
  BY <1>1 DEF Become
<1>3. Types'
  BY <1>1, <1>2 DEF IInv, Types
<1>4. ASSUME NEW u \in Txns PROVE tx[u].no \in 0..asked /\ (tx[u].pc = "idle" => tx[u].no = 0)
  BY <1>1, IdleTyped DEF IInv, Types, Numbered
<1>5. Numbered'
  <2>1. \A v \in versions' : v.id <= asked'
    <3>1. \A v \in versions : v.id \in Int /\ v.id <= asked
      BY DEF IInv, Sound, Versions, Numbered
    <3>2. QED
      BY <1>1, <3>1
  <2>2. ASSUME NEW u \in Txns, u # t, tx[u].pc # "idle"
        PROVE  /\ tx[u].no \in 1..asked'
               /\ \A v \in versions : v.id # tx[u].no
               /\ \A w \in Txns \ {t, u} : tx[w].no # tx[u].no
    <3>1. /\ tx[u].no \in 1..asked
          /\ \A v \in versions : v.id # tx[u].no
          /\ \A w \in Txns \ {u} : tx[w].no # tx[u].no
      BY <2>2 DEF IInv, Numbered
    <3>2. QED
      BY <1>1, <3>1
  <2>3. ASSUME x.pc # "idle"
        PROVE  /\ x.no \in 1..asked'
               /\ \A v \in versions : v.id # x.no
               /\ \A w \in Txns \ {t} : tx[w].no # x.no
    <3>1. CASE x.no = asked' /\ asked' > asked
      <4>1. \A v \in versions : v.id \in Int /\ v.id <= asked
        BY DEF IInv, Sound, Versions, Numbered
      <4>2. QED
        BY <1>1, <1>4, <3>1, <4>1
    <3>2. CASE x.no = tx[t].no /\ tx[t].pc # "idle"
      <4>1. /\ tx[t].no \in 1..asked
            /\ \A v \in versions : v.id # tx[t].no
            /\ \A w \in Txns \ {t} : tx[w].no # tx[t].no
        BY <3>2 DEF IInv, Numbered
      <4>2. QED
        BY <1>1, <3>2, <4>1
    <3>3. QED
      BY <2>3, <3>1, <3>2
  <2>4. ASSUME NEW u \in Txns, u # t, tx[u].pc # "idle" PROVE x.no # tx[u].no
    <3>1. CASE x.pc = "idle"
      BY <2>2, <2>4, <3>1, IdleTyped
    <3>2. CASE x.pc # "idle"
      BY <2>3, <2>4, <3>2
    <3>3. QED
      BY <3>1, <3>2
  <2>5. QED
    BY <1>2, <2>1, <2>2, <2>3, <2>4 DEF Numbered
<1>6. ASSUME NEW u \in Txns, u # t PROVE Rotates(u)'
  <2>1. Rotates(u) /\ tx'[u] = tx[u] /\ (lock = u => lock' = u)
    BY <1>2, <1>6 DEF IInv
  <2>2. QED
    BY <2>1 DEF Rotates
<1>7. QED
  BY <1>3, <1>5, <1>6 DEF IInv

\* A transaction that ends without a word leaves nothing behind.
LEMMA EndStep ==
  ASSUME IInv, NEW t \in Txns, End(t), UNCHANGED <<versions, asked>>
  PROVE  IInv'
<1>1. /\ lock' \in Txns \cup {NoOne} /\ \A u \in Txns \ {t} : lock = u => lock' = u
      /\ asked' \in Nat /\ asked' >= asked
  BY DEF End, Release, IInv, Types
<1>2. tx'[t] = Idle
  BY DEF End, Become, IInv, Types
<1>3. Rotates(t)'
  BY <1>2, IdleTyped DEF Rotates
<1>4. QED
  BY <1>1, <1>3, IdleTyped, OneTurns DEF End

\* A request that begins takes the next number.
LEMMA AskStep ==
  ASSUME IInv, NEW t \in Txns, AskRotate(t) \/ AskSeed(t)
  PROVE  IInv'
<1>1. /\ tx[t] = Idle /\ asked \in Nat /\ asked' = asked + 1
      /\ UNCHANGED <<versions, lock>>
  BY DEF AskRotate, AskSeed, IInv, Types
<1> DEFINE next == asked + 1
<1>2. next \in Nat /\ next > asked /\ asked' = next /\ next >= asked
  BY <1>1
<1>3. lock' \in Txns \cup {NoOne} /\ \A u \in Txns \ {t} : lock = u => lock' = u
  BY <1>1 DEF IInv, Types
<1> HIDE DEF next
<1>4. ASSUME NEW day \in Days, Become(t, [Idle EXCEPT !.pc = "lock", !.from = day, !.no = next])
      PROVE  IInv'
  <2> DEFINE x == [Idle EXCEPT !.pc = "lock", !.from = day, !.no = next]
  <2>1. day \in 0..LastDay
    BY TheCalendarEnds DEF Days
  <2>2. x \in Requests /\ x.pc = "lock" /\ x.from = day /\ x.no = next /\ x.del = {} /\ x.ins = {}
    BY <1>2, <2>1 DEF Idle, Requests, Labels
  <2>3. tx'[t] = x
    BY <1>4 DEF Become, IInv, Types
  <2> HIDE DEF x
  <2>4. Rotates(t)'
    BY <2>2, <2>3 DEF Rotates
  <2>5. Become(t, x)
    BY <1>4 DEF x
  <2>6. QED
    BY <1>1, <1>2, <1>3, <2>2, <2>4, <2>5, OneTurns
<1>5. ASSUME Become(t, [Idle EXCEPT !.pc = "seed", !.no = next])
      PROVE  IInv'
  <2> DEFINE x == [Idle EXCEPT !.pc = "seed", !.no = next]
  <2>1. x \in Requests /\ x.pc = "seed" /\ x.no = next /\ x.del = {} /\ x.ins = {}
    BY <1>2, IdleTyped DEF Requests, Labels
  <2>2. tx'[t] = x
    BY <1>5 DEF Become, IInv, Types
  <2> HIDE DEF x
  <2>3. Rotates(t)'
    BY <2>1, <2>2 DEF Rotates
  <2>4. Become(t, x)
    BY <1>5 DEF x
  <2>5. QED
    BY <1>1, <1>2, <1>3, <2>1, <2>3, <2>4, OneTurns
<1>6. ASSUME UNCHANGED tx PROVE IInv'
  <2>1. tx' = [tx EXCEPT ![t] = Idle]
    BY <1>1, <1>6 DEF IInv, Types
  <2>2. tx'[t] = Idle
    BY <1>1, <1>6
  <2>3. Rotates(t)'
    BY <2>2, IdleTyped DEF Rotates
  <2>4. QED
    BY <1>1, <1>2, <1>3, <2>1, <2>3, IdleTyped, OneTurns DEF Become
<1>7. CASE AskRotate(t)
  BY <1>4, <1>7 DEF AskRotate, next
<1>8. CASE AskSeed(t)
  BY <1>5, <1>6, <1>8 DEF AskSeed, next
<1>9. QED
  BY <1>7, <1>8

\* The lock is taken.
LEMMA TakeLockStep ==
  ASSUME IInv, NEW t \in Txns, TakeLock(t)
  PROVE  IInv'
<1> DEFINE x == [tx[t] EXCEPT !.pc = "read"]
<1>1. tx[t] \in Requests /\ tx[t].pc = "lock" /\ Rotates(t)
  BY DEF TakeLock, IInv, Types
<1>2. x \in Requests /\ x.pc = "read" /\ x.from = tx[t].from /\ x.no = tx[t].no
      /\ x.del = {} /\ x.ins = {}
  BY <1>1 DEF Requests, Labels, Rotates
<1>3. tx'[t] = x
  BY DEF TakeLock, Become, IInv, Types
<1>4. Become(t, x)
  BY DEF TakeLock
<1> HIDE DEF x
<1>5. Rotates(t)'
  BY <1>1, <1>2, <1>3 DEF TakeLock, Rotates
<1>6. /\ UNCHANGED versions /\ lock' \in Txns \cup {NoOne}
      /\ \A u \in Txns \ {t} : lock = u => lock' = u
      /\ asked' \in Nat /\ asked' >= asked
  BY NobodyIsNoTxn DEF TakeLock, LockIsFree, IInv, Types
<1>7. QED
  BY <1>1, <1>2, <1>4, <1>5, <1>6, OneTurns

\* The open version is read.
LEMMA ReadOpenStep ==
  ASSUME IInv, NEW t \in Txns, ReadOpen(t)
  PROVE  IInv'
<1> DEFINE seen == OpenOf(versions)
           x == [tx[t] EXCEPT !.pc = IF seen = {} THEN "insert" ELSE "close", !.seen = seen]
<1>1. tx[t] \in Requests /\ tx[t].pc = "read" /\ Rotates(t)
  BY DEF ReadOpen, IInv, Types
<1>2. CASE TooEarly(tx[t].from, seen)
  BY <1>2, EndStep DEF ReadOpen
<1>3. CASE ~ TooEarly(tx[t].from, seen)
  <2>1. seen \in SUBSET Versions
    BY DEF OpenOf, IInv, Sound
  <2>2. Become(t, x) /\ UNCHANGED <<versions, lock, asked>>
    BY <1>3 DEF ReadOpen
  <2>3. \A v \in seen : v.from < tx[t].from
    <3>1. tx[t].from \in Int /\ \A v \in seen : v.from \in Int
      BY <1>1, <2>1, TheCalendarEnds DEF Requests, Versions, Days
    <3>2. \A v \in seen : ~ (tx[t].from <= v.from)
      BY <1>3 DEF TooEarly
    <3>3. QED
      BY <3>1, <3>2
  <2>4. tx'[t] = x
    BY <2>2 DEF Become, IInv, Types
  <2> HIDE DEF seen
  <2>5. /\ x \in Requests /\ x.from = tx[t].from /\ x.no = tx[t].no /\ x.seen = seen
        /\ x.del = {} /\ x.ins = {}
        /\ x.pc = IF seen = {} THEN "insert" ELSE "close"
    BY <1>1, <2>1 DEF Requests, Labels, Rotates
  <2> HIDE DEF x
  <2>6. Rotates(t)'
    <3>1. seen = {} => {Closed(v, x.from) : v \in seen} \cup {} = {}
      OBVIOUS
    <3>2. OpenOf(versions') = seen
      BY <2>2 DEF seen
    <3>3. CASE seen = {}
      BY <1>1, <2>2, <2>4, <2>5, <3>1, <3>3 DEF Rotates
    <3>4. CASE seen # {}
      BY <1>1, <2>2, <2>3, <2>4, <2>5, <3>2, <3>4 DEF Rotates
    <3>5. QED
      BY <3>3, <3>4
  <2>7. /\ lock' \in Txns \cup {NoOne} /\ \A u \in Txns \ {t} : lock = u => lock' = u
        /\ asked' \in Nat /\ asked' >= asked
    BY <2>2 DEF IInv, Types
  <2>8. x.pc # "idle" /\ tx[t].pc # "idle"
    BY <1>1, <2>5
  <2>9. QED
    BY <2>2, <2>5, <2>6, <2>7, <2>8, OneTurns
<1>4. QED
  BY <1>2, <1>3

\* The version that was read is closed, as it still is.
LEMMA CloseOpenStep ==
  ASSUME IInv, NEW t \in Txns, CloseOpen(t)
  PROVE  IInv'
<1> DEFINE entries == {v \in versions : \E s \in tx[t].seen : s.id = v.id}
           ins  == {Closed(v, tx[t].from) : v \in entries}
           x    == [tx[t] EXCEPT !.pc = "insert", !.del = entries, !.ins = ins]
<1>1. tx[t] \in Requests /\ tx[t].pc = "close" /\ Rotates(t)
  BY DEF CloseOpen, IInv, Types
<1>2. /\ tx[t].seen = OpenOf(versions) /\ tx[t].from \in Days /\ lock = t
      /\ \A v \in tx[t].seen : v.from < tx[t].from
  BY <1>1 DEF Rotates
<1>3. entries = tx[t].seen /\ entries \subseteq versions
  BY <1>2 DEF OpenOf, IInv, Sound
<1>4. Become(t, x) /\ UNCHANGED <<versions, lock, asked>>
  BY DEF CloseOpen
<1>5. tx'[t] = x
  BY <1>4 DEF Become, IInv, Types
<1> HIDE DEF entries
<1>6. entries \in SUBSET Versions /\ ins \in SUBSET Versions
  <2>1. entries \subseteq Versions
    BY <1>3 DEF IInv, Sound
  <2>2. \A v \in entries : v.from < tx[t].from
    BY <1>2, <1>3
  <2>3. \A v \in entries : Closed(v, tx[t].from) \in Versions
    BY <1>2, <2>1, <2>2, ClosedTyped
  <2>4. QED
    BY <2>1, <2>3
<1> HIDE DEF ins
<1>7. /\ x \in Requests /\ x.from = tx[t].from /\ x.no = tx[t].no /\ x.seen = tx[t].seen
      /\ x.del = entries /\ x.ins = ins /\ x.pc = "insert"
  BY <1>1, <1>6 DEF Requests, Labels
<1> HIDE DEF x
<1>8. Rotates(t)'
  <2>1. x.ins = {Closed(v, x.from) : v \in x.seen} \cup {}
    BY <1>3, <1>7 DEF ins
  <2>2. QED
    BY <1>2, <1>3, <1>4, <1>5, <1>7, <2>1 DEF Rotates
<1>9. /\ lock' \in Txns \cup {NoOne} /\ \A u \in Txns \ {t} : lock = u => lock' = u
      /\ asked' \in Nat /\ asked' >= asked
  BY <1>4 DEF IInv, Types
<1>10. QED
  BY <1>1, <1>4, <1>7, <1>8, <1>9, OneTurns

\* What a rotation that has read the open version makes of the table.
LEMMA ViewOfARotation ==
  ASSUME IInv, NEW t \in Txns, tx[t].pc \in {"insert", "commit"}, tx[t].seen # {}
  PROVE  \E v \in versions :
           /\ v.to = Open /\ v.from < tx[t].from /\ tx[t].from \in Days
           /\ View(t) = (versions \ {v}) \cup {Closed(v, tx[t].from)}
                          \cup IF tx[t].pc = "commit"
                                 THEN {Version(tx[t].from, Open, tx[t].no)} ELSE {}
<1>1. Rotates(t)
  BY DEF IInv
<1>2. /\ tx[t].seen = OpenOf(versions) /\ tx[t].from \in Days /\ tx[t].del = tx[t].seen
      /\ \A v \in tx[t].seen : v.from < tx[t].from
      /\ tx[t].ins = {Closed(v, tx[t].from) : v \in tx[t].seen}
           \cup IF tx[t].pc = "commit" THEN {Version(tx[t].from, Open, tx[t].no)} ELSE {}
  BY <1>1 DEF Rotates
<1>3. PICK v \in versions : v.to = Open /\ OpenOf(versions) = {v}
  BY <1>2, OpenIsOne DEF IInv
<1>4. {Closed(w, tx[t].from) : w \in {v}} = {Closed(v, tx[t].from)}
  OBVIOUS
<1>5. QED
  BY <1>2, <1>3, <1>4 DEF View

\* What a first rotation makes of the table.
LEMMA ViewOfAFirst ==
  ASSUME IInv, NEW t \in Txns, tx[t].pc \in {"insert", "commit"}, tx[t].seen = {}
  PROVE  /\ tx[t].from \in Days
         /\ View(t) = versions \cup IF tx[t].pc = "commit"
                                      THEN {Version(tx[t].from, Open, tx[t].no)} ELSE {}
<1>1. Rotates(t)
  BY DEF IInv
<1>2. {Closed(v, tx[t].from) : v \in tx[t].seen} = {}
  OBVIOUS
<1>3. QED
  BY <1>1, <1>2 DEF Rotates, View

\* The unique index is met by no rotation of a rate that has a version.
LEMMA NoConflict ==
  ASSUME IInv, NEW t \in Txns, tx[t].pc = "insert", tx[t].seen # {}
  PROVE  OpenOf(View(t)) = {}
<1>1. PICK v \in versions :
        /\ v.to = Open /\ v.from < tx[t].from /\ tx[t].from \in Days
        /\ View(t) = (versions \ {v}) \cup {Closed(v, tx[t].from)} \cup {}
  BY ViewOfARotation
<1>2. Closed(v, tx[t].from).to # Open
  BY <1>1, ClosedTyped DEF IInv, Sound
<1>3. \A w \in versions : w.to = Open => w = v
  BY <1>1, OneOpen DEF IInv
<1>4. QED
  BY <1>1, <1>2, <1>3 DEF OpenOf

\* The new version is inserted.
LEMMA InsertStep ==
  ASSUME IInv, NEW t \in Txns, Insert(t)
  PROVE  IInv'
<1> DEFINE n   == Version(tx[t].from, Open, tx[t].no)
           ins == tx[t].ins \cup {n}
           x   == [tx[t] EXCEPT !.pc = "commit", !.ins = ins]
<1>1. tx[t] \in Requests /\ tx[t].pc = "insert" /\ Rotates(t)
  BY DEF Insert, IInv, Types
<1>2. CASE OpenOf(View(t)) # {}
  BY <1>2, EndStep DEF Insert
<1>3. CASE OpenOf(View(t)) = {}
  <2>1. Become(t, x) /\ UNCHANGED <<versions, lock, asked>>
    BY <1>3 DEF Insert
  <2>2. tx'[t] = x
    BY <2>1 DEF Become, IInv, Types
  <2>3. tx[t].from \in Days /\ n \in Versions
    BY <1>1, VersionTyped DEF Rotates, Requests
  <2> HIDE DEF n
  <2>4. ins \in SUBSET Versions
    BY <1>1, <2>3 DEF Requests
  <2>5. /\ x \in Requests /\ x.from = tx[t].from /\ x.no = tx[t].no /\ x.seen = tx[t].seen
        /\ x.del = tx[t].del /\ x.ins = ins /\ x.pc = "commit"
    <3> HIDE DEF ins
    <3>1. QED
      BY <1>1, <2>4 DEF Requests, Labels
  <2> HIDE DEF x
  <2>6. x.seen = {} => versions = {}
    <3>1. tx[t].seen = {} => View(t) = versions
      BY <1>1, ViewOfAFirst
    <3>2. QED
      BY <1>3, <2>5, <3>1, SoundIsOpen DEF IInv
  <2>7. x.ins = {Closed(v, x.from) : v \in x.seen} \cup {Version(x.from, Open, x.no)}
    BY <1>1, <2>5 DEF Rotates, n
  <2>8. Rotates(t)'
    BY <1>1, <2>1, <2>2, <2>5, <2>6, <2>7 DEF Rotates
  <2>9. /\ lock' \in Txns \cup {NoOne} /\ \A u \in Txns \ {t} : lock = u => lock' = u
        /\ asked' \in Nat /\ asked' >= asked
    BY <2>1 DEF IInv, Types
  <2>10. QED
    BY <1>1, <2>1, <2>5, <2>8, <2>9, OneTurns
<1>4. QED
  BY <1>2, <1>3

\* A connection writes the table: what has to be seen is that the table is sound
\* and only has ids that were there or the connection's own, and that whoever else
\* is at work does not depend on what was there.
LEMMA OneWrites ==
  ASSUME IInv, NEW t \in Txns, tx[t].pc # "idle", Become(t, Idle), UNCHANGED asked,
         lock' \in Txns \cup {NoOne}, \A u \in Txns \ {t} : lock = u => lock' = u,
         Sound(versions'),
         \A w \in versions' : w.id = tx[t].no \/ \E v \in versions : v.id = w.id,
         \A u \in Txns \ {t} :
            /\ tx[u].pc \in {"close", "insert", "commit"} => tx[u].seen = {}
            /\ tx[u].pc # "commit"
  PROVE  IInv'
<1>1. tx' = [u \in Txns |-> IF u = t THEN Idle ELSE tx[u]] /\ asked \in Nat
  BY DEF Become, IInv, Types
<1>2. Types'
  BY <1>1, IdleTyped DEF IInv, Types
<1>3. Numbered'
  <2>1. \A w \in versions' : w.id <= asked
    BY DEF IInv, Numbered
  <2>2. ASSUME NEW u \in Txns, u # t, tx[u].pc # "idle"
        PROVE  \A w \in versions' : w.id # tx[u].no
    BY <2>2 DEF IInv, Numbered
  <2>3. ASSUME NEW u \in Txns, tx[u].pc # "idle" PROVE tx[u].no # 0
    BY <1>1, <2>3 DEF IInv, Numbered
  <2>4. QED
    BY <1>1, <2>1, <2>2, <2>3, IdleTyped DEF IInv, Numbered
<1>4. ASSUME NEW u \in Txns PROVE Rotates(u)'
  <2>1. CASE u = t
    <3>1. tx'[u] = Idle
      BY <1>1, <2>1
    <3>2. QED
      BY <3>1, IdleTyped DEF Rotates
  <2>2. CASE u # t
    <3>1. /\ Rotates(u) /\ tx'[u] = tx[u] /\ (lock = u => lock' = u) /\ tx[u].pc # "commit"
          /\ tx[u].pc \in {"close", "insert", "commit"} => tx[u].seen = {}
      BY <1>1, <2>2 DEF IInv
    <3>2. QED
      BY <3>1 DEF Rotates
  <2>3. QED
    BY <2>1, <2>2
<1>5. QED
  BY <1>2, <1>3, <1>4 DEF IInv

\* The connection's own number is the id of nothing yet.
LEMMA NumberIsFresh ==
  ASSUME IInv, NEW t \in Txns, tx[t].pc # "idle"
  PROVE  tx[t].no \in Int /\ \A v \in versions : v.id # tx[t].no
BY DEF IInv, Numbered

\* A rotation is committed.
LEMMA CommitStep ==
  ASSUME IInv, NEW t \in Txns, Commit(t)
  PROVE  IInv'
<1>1. /\ tx[t] \in Requests /\ tx[t].pc = "commit" /\ Rotates(t) /\ lock = t
      /\ versions' = View(t) /\ UNCHANGED asked
  BY DEF Commit, IInv, Types, Rotates
<1>2. /\ Become(t, Idle) /\ lock' \in Txns \cup {NoOne}
      /\ \A u \in Txns \ {t} : lock = u => lock' = u
  BY DEF Commit, End, Release, IInv, Types
<1>3. ASSUME NEW u \in Txns \ {t}
      PROVE  tx[u].pc \notin {"read", "close", "insert", "commit"}
  BY <1>1 DEF IInv, Rotates
<1>4. tx[t].no \in Int /\ \A v \in versions : v.id # tx[t].no
  BY <1>1, NumberIsFresh
<1>5. Sound(versions') /\ \A w \in versions' : w.id = tx[t].no \/ \E v \in versions : v.id = w.id
  <2>1. CASE tx[t].seen = {}
    <3>1. tx[t].from \in Days /\ versions' = {Version(tx[t].from, Open, tx[t].no)}
      BY <1>1, <2>1, ViewOfAFirst DEF Rotates
    <3>2. QED
      BY <1>4, <3>1, FirstIsSound DEF Version
  <2>2. CASE tx[t].seen # {}
    <3>1. PICK v \in versions :
            /\ v.to = Open /\ v.from < tx[t].from /\ tx[t].from \in Days
            /\ View(t) = (versions \ {v}) \cup {Closed(v, tx[t].from)}
                           \cup {Version(tx[t].from, Open, tx[t].no)}
      BY <1>1, <2>2, ViewOfARotation
    <3>2. View(t) = (versions \ {v}) \cup {Closed(v, tx[t].from), Version(tx[t].from, Open, tx[t].no)}
      BY <3>1
    <3>3. Sound(View(t))
      BY <1>4, <3>1, <3>2, RotatedIsSound DEF IInv
    <3>4. Closed(v, tx[t].from).id = v.id
      BY <3>1, ClosedTyped DEF IInv, Sound
    <3>5. Version(tx[t].from, Open, tx[t].no).id = tx[t].no
      BY DEF Version
    <3>6. QED
      BY <1>1, <3>2, <3>3, <3>4, <3>5
  <2>3. QED
    BY <2>1, <2>2
<1>6. QED
  BY <1>1, <1>2, <1>3, <1>5, OneWrites

\* The deploy seeds a rate that has no version.
LEMMA SeedStep ==
  ASSUME IInv, NEW t \in Txns, Seed(t)
  PROVE  IInv'
<1>1. /\ tx[t].pc = "seed" /\ Become(t, Idle) /\ UNCHANGED <<lock, asked>>
      /\ lock' \in Txns \cup {NoOne} /\ asked' \in Nat /\ asked' >= asked
  BY DEF Seed, IInv, Types
<1>2. CASE OpenOf(versions) # {}
  <2>1. UNCHANGED versions
    BY <1>2 DEF Seed
  <2>2. tx'[t] = Idle
    BY <1>1 DEF Become, IInv, Types
  <2>3. Rotates(t)'
    BY <2>2, IdleTyped DEF Rotates
  <2>4. QED
    BY <1>1, <2>1, <2>3, IdleTyped, OneTurns
<1>3. CASE OpenOf(versions) = {}
  <2>1. versions = {}
    BY <1>3, SoundIsOpen DEF IInv
  <2>2. versions' = {Version(SeedDay, Open, tx[t].no)}
    BY <1>3, <2>1 DEF Seed
  <2>3. Sound(versions') /\ \A w \in versions' : w.id = tx[t].no
    BY <1>1, <2>2, NumberIsFresh, TheSeedHasADay, FirstIsSound DEF Version
  <2>4. ASSUME NEW u \in Txns \ {t}
        PROVE  /\ tx[u].pc \in {"close", "insert", "commit"} => tx[u].seen = {}
               /\ tx[u].pc # "commit"
    <3>1. Rotates(u)
      BY DEF IInv
    <3>2. tx[u].pc \in {"close", "insert", "commit"} => tx[u].seen = {}
      BY <1>3, <3>1 DEF Rotates
    <3>3. OpenOf(tx[u].ins \cup tx[u].del) = {}
      BY DEF Seed, IndexFree, Others
    <3>4. tx[u].pc = "commit" => Version(tx[u].from, Open, tx[u].no) \in tx[u].ins
      BY <3>1 DEF Rotates
    <3>5. Version(tx[u].from, Open, tx[u].no).to = Open
      BY DEF Version
    <3>6. QED
      BY <3>2, <3>3, <3>4, <3>5 DEF OpenOf
  <2>5. QED
    BY <1>1, <2>3, <2>4, OneWrites
<1>4. QED
  BY <1>2, <1>3

\* Every step keeps the invariant.
LEMMA InvariantStep == IInv /\ [Next]_vars => IInv'
<1> SUFFICES ASSUME IInv, [Next]_vars PROVE IInv'
  OBVIOUS
<1>1. CASE UNCHANGED vars
  BY <1>1 DEF vars, IInv, Types, Numbered, Rotates
<1>2. ASSUME NEW t \in Txns, AskRotate(t) \/ AskSeed(t) PROVE IInv'
  BY <1>2, AskStep
<1>3. ASSUME NEW t \in Txns, Step(t) PROVE IInv'
  BY <1>3, TakeLockStep, ReadOpenStep, CloseOpenStep, InsertStep, CommitStep, SeedStep DEF Step
<1>4. ASSUME NEW t \in Txns, Crash(t) PROVE IInv'
  BY <1>4, EndStep DEF Crash
<1>5. QED
  BY <1>1, <1>2, <1>3, <1>4 DEF Next

\* The table stays sound, and whoever rotates fits it.
LEMMA InvariantHolds == Spec => []IInv
<1>1. QED
  BY InvariantInit, InvariantStep, PTL DEF Spec

-----------------------------------------------------------------------------
(* Results.                                                                *)

\* On every day since the first version exactly one holds: rotate, of however
\* many administrators at once, and seedRates, whatever dies in between.
THEOREM EveryDayHasItsRate == Spec => []OneRatePerDay
<1>1. IInv => OneRatePerDay
  <2> SUFFICES ASSUME IInv, NEW day \in Days, NEW v \in versions, v.from <= day
               PROVE  Cardinality({u \in versions : Covers(u, day)}) = 1
    BY DEF OneRatePerDay
  <2>1. PICK w \in versions : {u \in versions : Covers(u, day)} = {w}
    BY SoundHasOneRate DEF IInv
  <2>2. QED
    BY <2>1, FS_Singleton
<1>2. QED
  BY <1>1, InvariantHolds, PTL

\* The comment of RatesRepository.rotate: the lock makes the conflict of the unique
\* index unreachable, once the rate has a version.
THEOREM TheIndexIsNeverMet == Spec => []ConflictIsUnreachable
<1>1. IInv => ConflictIsUnreachable
  BY NoConflict DEF ConflictIsUnreachable
<1>2. QED
  BY <1>1, InvariantHolds, PTL

\* In a sound table the version that covers a day is what the day resolves to.
LEMMA WhatADayResolvesTo ==
  ASSUME NEW set, Sound(set), NEW day \in Days, NEW x \in set, Covers(x, day)
  PROVE  Resolve(set, day) = {x}
<1>1. PICK w \in set : {u \in set : Covers(u, day)} = {w} /\ Resolve(set, day) = {w}
  BY SoundHasOneRate DEF Covers
<1>2. QED
  BY <1>1

\* Only a commit and a first seed write the table.
LEMMA WhoWrites ==
  ASSUME IInv, [Next]_vars, versions' # versions
  PROVE  \/ versions = {}
         \/ \E t \in Txns : Commit(t) /\ tx[t].seen # {}
<1>1. PICK t \in Txns : Commit(t) \/ Seed(t)
  BY DEF vars, Next, AskRotate, AskSeed, Step, TakeLock, ReadOpen, CloseOpen, Insert, Crash
<1>2. CASE Seed(t)
  BY <1>2, SoundIsOpen DEF Seed, IInv
<1>3. CASE Commit(t)
  BY <1>3 DEF Commit, IInv, Rotates
<1>4. QED
  BY <1>1, <1>2, <1>3

\* A rotation leaves what a day before its own first day resolves to: a posted
\* document keeps the rate it was posted with.
THEOREM HistoryIsKept == Spec => HistoryStands
<1> DEFINE Stands(day, v) ==
      (\A w \in versions' : w.id \in {u.id : u \in versions} \/ w.from > day) =>
        {w.id : w \in Resolve(versions', day)} = {v.id}
<1>1. ASSUME IInv, IInv', [Next]_vars, NEW day \in Days, NEW v \in Resolve(versions, day)
      PROVE  Stands(day, v)
  <2>1. v \in versions /\ Covers(v, day)
    BY <1>1 DEF Resolve
  <2>2. Sound(versions) /\ Sound(versions')
    BY <1>1 DEF IInv
  <2>3. CASE versions' = versions
    <3>1. Resolve(versions', day) = {v}
      BY <2>1, <2>2, <2>3, WhatADayResolvesTo
    <3>2. QED
      BY <3>1
  <2>4. CASE versions' # versions
    <3>1. PICK t \in Txns : Commit(t) /\ tx[t].seen # {}
      BY <1>1, <2>1, <2>4, WhoWrites
    <3> DEFINE from == tx[t].from
               n    == Version(from, Open, tx[t].no)
    <3>2. tx[t].pc = "commit" /\ versions' = View(t)
      BY <3>1 DEF Commit
    <3>3. PICK o \in versions :
            /\ o.to = Open /\ o.from < from /\ from \in Days
            /\ versions' = (versions \ {o}) \cup {Closed(o, from)} \cup {n}
      BY <1>1, <3>1, <3>2, ViewOfARotation
    <3>4. n.id = tx[t].no /\ n.from = from /\ n \in versions'
      BY <3>3 DEF Version
    <3>5. n.id \notin {u.id : u \in versions}
      BY <1>1, <3>2, <3>4, NumberIsFresh
    <3>6. CASE from > day
      <4>1. PICK x \in versions' : x.id = v.id /\ Covers(x, day)
        <5>1. CASE v = o
          <6>1. /\ Closed(o, from) \in versions' /\ Closed(o, from).id = o.id
                /\ Closed(o, from).from = o.from /\ Closed(o, from).to = from - 1
            BY <2>2, <3>3, ClosedTyped DEF Sound
          <6>2. day \in Int /\ from \in Int
            BY <3>3 DEF Days
          <6>3. Covers(Closed(o, from), day)
            BY <2>1, <3>6, <5>1, <6>1, <6>2 DEF Covers
          <6>4. QED
            BY <5>1, <6>1, <6>3
        <5>2. CASE v # o
          BY <2>1, <3>3, <5>2
        <5>3. QED
          BY <5>1, <5>2
      <4>2. Resolve(versions', day) = {x}
        BY <2>2, <4>1, WhatADayResolvesTo
      <4>3. QED
        BY <4>1, <4>2
    <3>7. CASE ~ (from > day)
      BY <3>4, <3>5, <3>7
    <3>8. QED
      BY <3>6, <3>7
  <2>5. QED
    BY <2>3, <2>4
<1>2. IInv /\ IInv' /\ [Next]_vars =>
        [\A day \in Days : \A v \in Resolve(versions, day) : Stands(day, v)]_vars
  BY <1>1
<1>3. QED
  BY <1>2, InvariantHolds, PTL DEF Spec, HistoryStands

-----------------------------------------------------------------------------
(* The parts of a behaviour.                                               *)

\* What is shown of Quotation and of Sales, for the quotation and the sales of
\* MCSelling.
QP == INSTANCE QuotationProofs
        WITH ListPrices <- {300}, Grands <- {230}, VatPercent <- Vat, Threshold <- 500,
             TermSets <- {<<>>, <<10000>>, <<6000, 4000>>}, Offered <- QuotationKinds,
             Starts <- QuotationStarts, MaxRequests <- QuotationRequests

SP == INSTANCE SalesProofs
        WITH ProjectOf <- OneProject, Starts <- {Empty, Quoted, Offer, Drafted, SignedAll},
             Offered <- {r.op : r \in Void!Requests}, MaxRequests <- SalesRequests

\* The two instances of Quotation compute alike.
LEMMA QuotationComputesAlike ==
  /\ \A amounts : Q!Total(amounts) = QP!Total(amounts)
  /\ \A nets, grosses, rate :
       Q!QuoteTotals(nets, grosses, rate) = QP!QuoteTotals(nets, grosses, rate)
  /\ \A lists, target : Q!AllocateToLines(lists, target) = QP!AllocateToLines(lists, target)
  /\ \A grand, rate : Q!DeriveFromGrandTotal(grand, rate) = QP!DeriveFromGrandTotal(grand, rate)
  /\ \A a, b : Q!ComputeDiscount(a, b) = QP!ComputeDiscount(a, b)
  /\ \A f : Q!InOrder(f) = QP!InOrder(f)
  /\ \A f : Q!Live(f) = QP!Live(f)
  /\ \A f, order, column : Q!Column(f, order, column) = QP!Column(f, order, column)
  /\ \A lists : Q!NoSheet(lists) = QP!NoSheet(lists)
  /\ \A h : Q!LegacyRow(h) = QP!LegacyRow(h)
  /\ \A f, g : Q!Over(f, g) = QP!Over(f, g)
  /\ \A f : Q!Stale(f) = QP!Stale(f)
  /\ \A t, lists : Q!Rebuilt(t, lists) = QP!Rebuilt(t, lists)
<1>1. ASSUME NEW amounts PROVE Q!Total(amounts) = QP!Total(amounts)
  BY DEF Q!MapThenFoldSet, Q!Total,
         QP!MapThenFoldSet, QP!Total
<1>2. ASSUME NEW nets, NEW grosses, NEW rate
       PROVE  Q!QuoteTotals(nets, grosses, rate) = QP!QuoteTotals(nets, grosses, rate)
  BY DEF Q!MapThenFoldSet, Q!Null, Q!QuoteTotals, Q!RoundHalfUp, Q!Total, Q!Whole,
         QP!MapThenFoldSet, QP!Null, QP!QuoteTotals, QP!RoundHalfUp, QP!Total, QP!Whole
<1>3. ASSUME NEW lists, NEW target
       PROVE  Q!AllocateToLines(lists, target) = QP!AllocateToLines(lists, target)
  BY DEF Q!AllocateToLines, Q!Cardinality, Q!MapThenFoldSet, Q!Total,
         QP!AllocateToLines, QP!Cardinality, QP!MapThenFoldSet, QP!Total
<1>4. ASSUME NEW grand, NEW rate
       PROVE  Q!DeriveFromGrandTotal(grand, rate) = QP!DeriveFromGrandTotal(grand, rate)
  BY DEF Q!DeriveFromGrandTotal, Q!RoundHalfUp, Q!Whole,
         QP!DeriveFromGrandTotal, QP!RoundHalfUp, QP!Whole
<1>5. ASSUME NEW a, NEW b PROVE Q!ComputeDiscount(a, b) = QP!ComputeDiscount(a, b)
  BY DEF Q!ComputeDiscount, Q!RoundHalfUp, Q!Whole,
         QP!ComputeDiscount, QP!RoundHalfUp, QP!Whole
<1>6. ASSUME NEW f PROVE Q!InOrder(f) = QP!InOrder(f)
  BY DEF Q!Cardinality, Q!Gone, Q!InOrder, Q!Live,
         QP!Cardinality, QP!Gone, QP!InOrder, QP!Live
<1>7. ASSUME NEW f PROVE Q!Live(f) = QP!Live(f)
  BY DEF Q!Gone, Q!Live,
         QP!Gone, QP!Live
<1>8. ASSUME NEW f, NEW order, NEW column
       PROVE  Q!Column(f, order, column) = QP!Column(f, order, column)
  BY DEF Q!Column,
         QP!Column
<1>9. ASSUME NEW lists PROVE Q!NoSheet(lists) = QP!NoSheet(lists)
  BY DEF Q!NoSheet, Q!Null,
         QP!NoSheet, QP!Null
<1>10. ASSUME NEW h PROVE Q!LegacyRow(h) = QP!LegacyRow(h)
  BY DEF Q!LegacyRow,
         QP!LegacyRow
<1>11. ASSUME NEW f, NEW g PROVE Q!Over(f, g) = QP!Over(f, g)
  BY DEF Q!Over,
         QP!Over
<1>12. ASSUME NEW f PROVE Q!Stale(f) = QP!Stale(f)
  BY DEF Q!Cardinality, Q!Gone, Q!InOrder, Q!InOrderOf, Q!Live, Q!Stale,
         QP!Cardinality, QP!Gone, QP!InOrder, QP!InOrderOf, QP!Live, QP!Stale
<1>13. ASSUME NEW t, NEW lists PROVE Q!Rebuilt(t, lists) = QP!Rebuilt(t, lists)
  BY DEF Q!Null, Q!Over, Q!Rebuilt,
         QP!Null, QP!Over, QP!Rebuilt
<1>14. QED
  BY <1>1, <1>2, <1>3, <1>4, <1>5, <1>6, <1>7, <1>8, <1>9, <1>10, <1>11, <1>12, <1>13

\* ReadLines plans alike.
LEMMA ReadLinesAlike ==
  ASSUME NEW t PROVE Q!ReadLines(t) <=> QP!ReadLines(t)
<1> DEFINE x  == tx[t]
           r  == IF Q!Live(lines) # {} THEN lines ELSE [lines EXCEPT ![Legacy] = Q!LegacyRow(hdr)]
           rP == IF QP!Live(lines) # {} THEN lines ELSE [lines EXCEPT ![Legacy] = QP!LegacyRow(hdr)]
           i  == Q!InOrder(r)
           iP == QP!InOrder(rP)
           l  == Q!Column(r, i, "list")
           lP == QP!Column(rP, iP, "list")
           n  == Q!NoSheet(l)
           nP == QP!NoSheet(lP)
           c  == Q!QuoteTotals(l, n, x.seen.rate).total
           cP == QP!QuoteTotals(lP, nP, x.seen.rate).total
           q  == Q!DeriveFromGrandTotal(x.req.grand, x.seen.rate)
           qP == QP!DeriveFromGrandTotal(x.req.grand, x.seen.rate)
           p  == Q!ComputeDiscount(c, q.total).percent
           pP == QP!ComputeDiscount(cP, qP.total).percent
           a  == Q!AllocateToLines(l, q.sub)
           aP == QP!AllocateToLines(lP, qP.sub)
<1>1. Q!ReadLines(t) <=>
        /\ x.pc = "readLines"
        /\ IF p > 99999 \/ -p > 99999 THEN Q!Refuse(t)
           ELSE Q!Become(t, [x EXCEPT !.pc = "gate",
                  !.plan = [ids |-> i, prices |-> a,
                            set |-> [sub |-> q.sub, tax |-> q.tax, total |-> q.total,
                                     calc |-> c, signed |-> Q!Null]]])
        /\ UNCHANGED <<hdr, lines, terms, proformas, openVat, asked, crashes, deal>>
  BY DEF Q!ReadLines
<1>2. QP!ReadLines(t) <=>
        /\ x.pc = "readLines"
        /\ IF pP > 99999 \/ -pP > 99999 THEN QP!Refuse(t)
           ELSE QP!Become(t, [x EXCEPT !.pc = "gate",
                  !.plan = [ids |-> iP, prices |-> aP,
                            set |-> [sub |-> qP.sub, tax |-> qP.tax, total |-> qP.total,
                                     calc |-> cP, signed |-> QP!Null]]])
        /\ UNCHANGED <<hdr, lines, terms, proformas, openVat, asked, crashes, deal>>
  BY DEF QP!ReadLines
<1>3. r = rP
  BY QuotationComputesAlike
<1> HIDE DEF r, rP
<1>4. i = iP
  BY <1>3, QuotationComputesAlike
<1> HIDE DEF i, iP
<1>5. l = lP
  BY <1>3, <1>4, QuotationComputesAlike
<1> HIDE DEF l, lP
<1>6. n = nP
  BY <1>5, QuotationComputesAlike
<1> HIDE DEF n, nP
<1>7. c = cP
  BY <1>5, <1>6, QuotationComputesAlike
<1> HIDE DEF c, cP
<1>8. q = qP
  BY QuotationComputesAlike
<1> HIDE DEF q, qP
<1>9. p = pP
  BY <1>7, <1>8, QuotationComputesAlike
<1>10. a = aP
  BY <1>5, <1>8, QuotationComputesAlike
<1> HIDE DEF p, pP, a, aP
<1>11. QED
  BY <1>1, <1>2, <1>4, <1>7, <1>8, <1>9, <1>10
     DEF Q!Refuse, Q!Become, Q!Idle, Q!Null, QP!Refuse, QP!Become, QP!Idle, QP!Null

\* resyncHeaderFromLines writes alike.
LEMMA ResyncAlike ==
  ASSUME NEW t PROVE Q!Resync(t) <=> QP!Resync(t)
<1> DEFINE x  == tx[t]
           r  == Q!View(t)
           rP == QP!View(t)
           i  == Q!InOrder(r)
           iP == QP!InOrder(rP)
           l  == Q!Column(r, i, "list")
           lP == QP!Column(rP, iP, "list")
           n  == Q!NoSheet(l)
           nP == QP!NoSheet(lP)
           c  == Q!QuoteTotals(l, n, x.doc.rate)
           cP == QP!QuoteTotals(lP, nP, x.doc.rate)
           s  == Q!Stale(r)
           sP == QP!Stale(rP)
           h  == Q!Rebuilt(c, l)
           hP == QP!Rebuilt(cP, lP)
<1>1. Q!Resync(t) <=>
        /\ x.pc = "resync"
        /\ Q!Run(t, x, [k \in DOMAIN s |-> Q!SetLine(s[k], [price |-> r[s[k]].list])]
                         \o <<Q!SetHeader(h)>>, "commit")
        /\ UNCHANGED <<hdr, lines, terms, proformas, openVat, asked, crashes, deal>>
  BY DEF Q!Resync
<1>2. QP!Resync(t) <=>
        /\ x.pc = "resync"
        /\ QP!Run(t, x, [k \in DOMAIN sP |-> QP!SetLine(sP[k], [price |-> rP[sP[k]].list])]
                          \o <<QP!SetHeader(hP)>>, "commit")
        /\ UNCHANGED <<hdr, lines, terms, proformas, openVat, asked, crashes, deal>>
  BY DEF QP!Resync
<1>3. r = rP
  BY QuotationComputesAlike DEF Q!View, QP!View
<1> HIDE DEF r, rP
<1>4. i = iP
  BY <1>3, QuotationComputesAlike
<1> HIDE DEF i, iP
<1>5. l = lP
  BY <1>3, <1>4, QuotationComputesAlike
<1> HIDE DEF l, lP
<1>6. n = nP
  BY <1>5, QuotationComputesAlike
<1> HIDE DEF n, nP
<1>7. c = cP
  BY <1>5, <1>6, QuotationComputesAlike
<1> HIDE DEF c, cP
<1>8. s = sP
  BY <1>3, QuotationComputesAlike
<1>9. h = hP
  BY <1>5, <1>7, QuotationComputesAlike
<1> HIDE DEF s, sP, h, hP
<1>10. [k \in DOMAIN s |-> Q!SetLine(s[k], [price |-> r[s[k]].list])] =
         [k \in DOMAIN sP |-> QP!SetLine(sP[k], [price |-> rP[sP[k]].list])]
  BY <1>3, <1>8 DEF Q!SetLine, QP!SetLine
<1>11. Q!SetHeader(h) = QP!SetHeader(hP)
  BY <1>9 DEF Q!SetHeader, QP!SetHeader, Q!Transitions, QP!Transitions
<1>12. QED
  BY <1>1, <1>2, <1>10, <1>11 DEF Q!Run, Q!Become, QP!Run, QP!Become

\* The two instances of Quotation are one specification.
LEMMA QuotationIsQuotation ==
  /\ Q!Init <=> QP!Init
  /\ [Q!Next]_(Q!vars) <=> [QP!Next]_(QP!vars)
  /\ QP!Parameters
  /\ Q!IssuedDiscountsAreSigned <=> QP!IssuedDiscountsAreSigned
  /\ Q!ConvertedOnce <=> QP!ConvertedOnce
<1>1. Q!Init <=> QP!Init
  BY DEF Q!Idle, Q!Init,
         QP!Idle, QP!Init
<1>2. /\ Q!IssuedDiscountsAreSigned <=> QP!IssuedDiscountsAreSigned
      /\ Q!ConvertedOnce <=> QP!ConvertedOnce
  BY DEF Q!ComputeDiscount, Q!ConvertedOnce, Q!DiscountNeedsSignOff,
         Q!IssuedDiscountsAreSigned, Q!NoThreshold, Q!Null, Q!RoundHalfUp, Q!Unsigned, Q!Whole,
         QP!ComputeDiscount, QP!ConvertedOnce, QP!DiscountNeedsSignOff,
         QP!IssuedDiscountsAreSigned, QP!NoThreshold, QP!Null, QP!RoundHalfUp, QP!Unsigned,
         QP!Whole
<1>3. QP!Parameters
  BY QuotationParameters
     DEF QP!Parameters, Q!Header, Q!IsFiniteSet, Q!LegacyIsALine, Q!LinesAreFinite, Q!Null, Q!Row,
         Q!StartsAreQuotes, Q!Transitions,
         QP!Header, QP!IsFiniteSet, QP!LegacyIsALine, QP!LinesAreFinite, QP!Null, QP!Row,
         QP!StartsAreQuotes, QP!Transitions
<1>4. ASSUME NEW t PROVE Q!Step(t) <=> QP!Step(t)
  <2>1. Q!ReadQuote(t) <=> QP!ReadQuote(t)
    BY DEF Q!Become, Q!Cas, Q!ComputeDiscount, Q!DiscountNeedsSignOff, Q!Idle, Q!NoThreshold,
           Q!Null, Q!ReadQuote, Q!Refuse, Q!RoundHalfUp, Q!Run, Q!Transitions, Q!Unsigned,
           Q!Whole,
           QP!Become, QP!Cas, QP!ComputeDiscount, QP!DiscountNeedsSignOff, QP!Idle,
           QP!NoThreshold, QP!Null, QP!ReadQuote, QP!Refuse, QP!RoundHalfUp, QP!Run,
           QP!Transitions, QP!Unsigned, QP!Whole
  <2>2. Q!ReadLines(t) <=> QP!ReadLines(t)
    BY ReadLinesAlike
  <2>3. Q!Gate(t) <=> QP!Gate(t)
    BY DEF Q!Become, Q!Editable, Q!Gate, Q!Idle, Q!Refuse, Q!Run, Q!SetHeader, Q!Transitions,
           QP!Become, QP!Editable, QP!Gate, QP!Idle, QP!Refuse, QP!Run, QP!SetHeader,
           QP!Transitions
  <2>4. Q!LinesRead(t) <=> QP!LinesRead(t)
    BY DEF Q!Become, Q!Cardinality, Q!Delete, Q!FreshLine, Q!Gone, Q!Idle, Q!InOrder,
           Q!InOrderOf, Q!Insert, Q!LegacyRow, Q!LinesRead, Q!Live, Q!MustSet, Q!Refuse,
           Q!RemovalAllowed, Q!Renumber, Q!Room, Q!Run, Q!SetHeader, Q!SetLine,
           Q!StillTheLines, Q!Transitions, Q!Unused,
           QP!Become, QP!Cardinality, QP!Delete, QP!FreshLine, QP!Gone, QP!Idle, QP!InOrder,
           QP!InOrderOf, QP!Insert, QP!LegacyRow, QP!LinesRead, QP!Live, QP!MustSet, QP!Refuse,
           QP!RemovalAllowed, QP!Renumber, QP!Room, QP!Run, QP!SetHeader, QP!SetLine,
           QP!StillTheLines, QP!Transitions, QP!Unused
  <2>5. Q!Resync(t) <=> QP!Resync(t)
    BY ResyncAlike
  <2>6. Q!Respec(t) <=> QP!Respec(t)
    BY DEF Q!Become, Q!Cardinality, Q!Gone, Q!InOrder, Q!Live, Q!Over, Q!Respec, Q!Run,
           Q!SetHeader, Q!Transitions, Q!View,
           QP!Become, QP!Cardinality, QP!Gone, QP!InOrder, QP!Live, QP!Over, QP!Respec, QP!Run,
           QP!SetHeader, QP!Transitions, QP!View
  <2>7. Q!WriteHeader(t) <=> QP!WriteHeader(t)
    BY DEF Q!Become, Q!HdrView, Q!HoldsHeader, Q!Idle, Q!Others, Q!Over, Q!Pop, Q!Refuse,
           Q!WriteHeader,
           QP!Become, QP!HdrView, QP!HoldsHeader, QP!Idle, QP!Others, QP!Over, QP!Pop,
           QP!Refuse, QP!WriteHeader
  <2>8. Q!WriteLine(t) <=> QP!WriteLine(t)
    BY DEF Q!Become, Q!Gone, Q!Idle, Q!Others, Q!Over, Q!Pop, Q!Refuse, Q!View, Q!WriteLine,
           QP!Become, QP!Gone, QP!Idle, QP!Others, QP!Over, QP!Pop, QP!Refuse, QP!View,
           QP!WriteLine
  <2>9. Q!IndexLine(t) <=> QP!IndexLine(t)
    BY DEF Q!Become, Q!Gone, Q!Idle, Q!IndexLine, Q!IndexTaken, Q!Others, Q!Over, Q!Pop,
           Q!Refuse, Q!View,
           QP!Become, QP!Gone, QP!Idle, QP!IndexLine, QP!IndexTaken, QP!Others, QP!Over,
           QP!Pop, QP!Refuse, QP!View
  <2>10. Q!ReadTerms(t) <=> QP!ReadTerms(t)
    BY DEF Q!Become, Q!ReadTerms,
           QP!Become, QP!ReadTerms
  <2>11. Q!DeleteTerms(t) <=> QP!DeleteTerms(t)
    BY DEF Q!Become, Q!DeleteTerms, Q!Others,
           QP!Become, QP!DeleteTerms, QP!Others
  <2>12. Q!InsertTerms(t) <=> QP!InsertTerms(t)
    BY DEF Q!Become, Q!Idle, Q!InsertTerms, Q!Others, Q!Refuse, Q!TermView, Q!TermsCollide,
           QP!Become, QP!Idle, QP!InsertTerms, QP!Others, QP!Refuse, QP!TermView,
           QP!TermsCollide
  <2>13. Q!IssueClaim(t) <=> QP!IssueClaim(t)
    BY DEF Q!Become, Q!Cas, Q!IssueClaim, Q!Run,
           QP!Become, QP!Cas, QP!IssueClaim, QP!Run
  <2>14. Q!IssueGuard(t) <=> QP!IssueGuard(t)
    BY DEF Q!Become, Q!ComputeDiscount, Q!DiscountNeedsSignOff, Q!HdrView, Q!Idle,
           Q!IssueGuard, Q!IssueRefused, Q!NoThreshold, Q!Null, Q!Over, Q!Refuse,
           Q!RoundHalfUp, Q!Unsigned, Q!Whole,
           QP!Become, QP!ComputeDiscount, QP!DiscountNeedsSignOff, QP!HdrView, QP!Idle,
           QP!IssueGuard, QP!IssueRefused, QP!NoThreshold, QP!Null, QP!Over, QP!Refuse,
           QP!RoundHalfUp, QP!Unsigned, QP!Whole
  <2>15. Q!CopyTerms(t) <=> QP!CopyTerms(t)
    BY DEF Q!Become, Q!CopyTerms, Q!TermView,
           QP!Become, QP!CopyTerms, QP!TermView
  <2>16. Q!CopyLines(t) <=> QP!CopyLines(t)
    BY DEF Q!Become, Q!Cardinality, Q!Column, Q!CopyLines, Q!Gone, Q!HdrView, Q!InOrder,
           Q!Live, Q!Over, Q!View,
           QP!Become, QP!Cardinality, QP!Column, QP!CopyLines, QP!Gone, QP!HdrView, QP!InOrder,
           QP!Live, QP!Over, QP!View
  <2>17. Q!Commit(t) <=> QP!Commit(t)
    BY DEF Q!Become, Q!Commit, Q!Continued, Q!HdrView, Q!Idle, Q!Null, Q!Over, Q!TermView,
           Q!View,
           QP!Become, QP!Commit, QP!Continued, QP!HdrView, QP!Idle, QP!Null, QP!Over,
           QP!TermView, QP!View
  <2>18. Q!DeadlockAbort(t) <=> QP!DeadlockAbort(t)
    BY DEF Q!Become, Q!DeadlockAbort, Q!HoldsHeader, Q!Idle, Q!Others, Q!Refuse, Q!WaitsFor,
           QP!Become, QP!DeadlockAbort, QP!HoldsHeader, QP!Idle, QP!Others, QP!Refuse,
           QP!WaitsFor
  <2>19. QED
    BY <2>1, <2>2, <2>3, <2>4, <2>5, <2>6, <2>7, <2>8, <2>9, <2>10, <2>11, <2>12, <2>13,
       <2>14, <2>15, <2>16, <2>17, <2>18
       DEF Q!Step, QP!Step
<1>5. ASSUME NEW t PROVE (Q!Ask(t) <=> QP!Ask(t)) /\ (Q!Crash(t) <=> QP!Crash(t))
  BY DEF Q!Ask, Q!Become, Q!Cardinality, Q!Crash, Q!Idle, Q!MapThenFoldSet,
         Q!PaymentTermsMismatch, Q!Refuse, Q!Requests, Q!Sensible, Q!Total, Q!Whole,
         QP!Ask, QP!Become, QP!Cardinality, QP!Crash, QP!Idle, QP!MapThenFoldSet,
         QP!PaymentTermsMismatch, QP!Refuse, QP!Requests, QP!Sensible, QP!Total, QP!Whole
<1>6. Q!RotateVat <=> QP!RotateVat
  BY DEF Q!RotateVat, QP!RotateVat
<1>7. Q!Next <=> QP!Next
  BY <1>4, <1>5, <1>6 DEF Q!Next, QP!Next
<1>8. [Q!Next]_(Q!vars) <=> [QP!Next]_(QP!vars)
  BY <1>7 DEF Q!vars, QP!vars
<1>9. QED
  BY <1>1, <1>2, <1>3, <1>8

\* So are those of Sales.
LEMMA SalesIsSales ==
  /\ S!Init <=> SP!Init
  /\ [S!Next]_(S!vars) <=> [SP!Next]_(SP!vars)
  /\ SP!Parameters
  /\ S!TypeOK <=> SP!TypeOK
  /\ S!SignedIsWon <=> SP!SignedIsWon
  /\ S!NoDeadlock <=> SP!NoDeadlock
<1>1. (S!Init <=> SP!Init) /\ ([S!Next]_(S!vars) <=> [SP!Next]_(SP!vars))
  BY DEF S!Advance, S!AdvanceTo, S!Ask, S!Become, S!CancelContract, S!CancelProforma, S!Cas,
         S!Check, S!Claim, S!Commit, S!Counters, S!Crash, S!CreateProject, S!CreateQuotation,
         S!DeleteCustomer, S!Done, S!Exists, S!Handover, S!Held, S!Idle, S!Init, S!Insert,
         S!IssueContract, S!IssueInvoice, S!IssueProforma, S!Move, S!MoveProject, S!Next,
         S!NoWrites, S!Papers, S!Program, S!Quiet, S!Rank, S!Refuse, S!Requests, S!Rows,
         S!RunAdvance, S!RunCheck, S!RunInsert, S!RunMove, S!RunUpdate, S!Runs, S!SignContract,
         S!StageMoves, S!Stages, S!Step, S!SubmitQuotation, S!Touch, S!View, S!VoidInvoice,
         S!vars,
         SP!Advance, SP!AdvanceTo, SP!Ask, SP!Become, SP!CancelContract, SP!CancelProforma,
         SP!Cas, SP!Check, SP!Claim, SP!Commit, SP!Counters, SP!Crash, SP!CreateProject,
         SP!CreateQuotation, SP!DeleteCustomer, SP!Done, SP!Exists, SP!Handover, SP!Held,
         SP!Idle, SP!Init, SP!Insert, SP!IssueContract, SP!IssueInvoice, SP!IssueProforma,
         SP!Move, SP!MoveProject, SP!Next, SP!NoWrites, SP!Papers, SP!Program, SP!Quiet,
         SP!Rank, SP!Refuse, SP!Requests, SP!Rows, SP!RunAdvance, SP!RunCheck, SP!RunInsert,
         SP!RunMove, SP!RunUpdate, SP!Runs, SP!SignContract, SP!StageMoves, SP!Stages, SP!Step,
         SP!SubmitQuotation, SP!Touch, SP!View, SP!VoidInvoice, SP!vars
<1>2. /\ S!TypeOK <=> SP!TypeOK
      /\ S!SignedIsWon <=> SP!SignedIsWon
      /\ S!NoDeadlock <=> SP!NoDeadlock
  BY DEF S!Counters, S!Exists, S!NoDeadlock, S!Papers, S!PapersFit, S!Rows, S!Runs,
         S!SignedIsWon, S!Stages, S!StagesFit, S!Statuses, S!TypeOK, S!WaitsFor,
         SP!Counters, SP!Exists, SP!NoDeadlock, SP!Papers, SP!PapersFit, SP!Rows, SP!Runs,
         SP!SignedIsWon, SP!Stages, SP!StagesFit, SP!Statuses, SP!TypeOK, SP!WaitsFor
<1>3. SP!Parameters
  BY SalesParameters
     DEF SP!Parameters, S!Counters, S!EveryDealHasAProject, S!Exists, S!Papers, S!PapersFit, S!Rows,
         S!SameIsNoStatus, S!Stages, S!StagesFit, S!StartsAreSound, S!Statuses,
         SP!Counters, SP!EveryDealHasAProject, SP!Exists, SP!Papers, SP!PapersFit, SP!Rows,
         SP!SameIsNoStatus, SP!Stages, SP!StagesFit, SP!StartsAreSound, SP!Statuses
<1>4. QED
  BY <1>1, <1>2, <1>3

Part(p) == part = p
Elsewhere == part \notin {"quotation", "sales", "rates"}

\* A behaviour goes on with the part it began.
LEMMA PartsStay ==
  MCSpec => \/ []Part("quotation") /\ Q!Spec
            \/ []Part("sales") /\ S!Spec
            \/ []Part("rates") /\ Spec
            \/ []Elsewhere
<1>1. MCInit => \/ Part("quotation") /\ Q!Init
                \/ Part("sales") /\ S!Init
                \/ Part("rates") /\ Init
                \/ Elsewhere
  BY DEF MCInit, Part, Elsewhere
<1>2. Part("quotation") /\ [MCNext]_allVars => Part("quotation")' /\ [Q!Next]_(Q!vars)
  BY DEF MCNext, allVars, ofQuotation, Q!vars, Part
<1>3. Part("sales") /\ [MCNext]_allVars => Part("sales")' /\ [S!Next]_(S!vars)
  BY DEF MCNext, allVars, S!vars, Part
<1>4. Part("rates") /\ [MCNext]_allVars => Part("rates")' /\ [Next]_vars
  BY DEF MCNext, allVars, ofRates, vars, Part
<1>5. Elsewhere /\ [MCNext]_allVars => Elsewhere'
  BY DEF MCNext, allVars, Elsewhere
<1>6. QED
  BY <1>1, <1>2, <1>3, <1>4, <1>5, PTL DEF MCSpec, Q!Spec, S!Spec, Spec

\* Of a behaviour that runs quotations, sales or rates: a proforma's discount is
\* signed off, a quotation becomes one proforma, and a change of a rate never
\* meets the unique index.
THEOREM ProformasStaySound == MCSpec => []ProformasAreSound
<1>1. QP!Spec => []QP!IssuedDiscountsAreSigned /\ []QP!ConvertedOnce
  BY QuotationIsQuotation, QP!DiscountsAreSigned, QP!QuotationsConvertOnce
<1>2. Q!Spec => []Q!IssuedDiscountsAreSigned /\ []Q!ConvertedOnce
  BY <1>1, QuotationIsQuotation, PTL DEF Q!Spec, QP!Spec
<1>3. /\ Part("quotation") /\ Q!IssuedDiscountsAreSigned /\ Q!ConvertedOnce => ProformasAreSound
      /\ Part("rates") /\ ConflictIsUnreachable => ProformasAreSound
      /\ Part("sales") \/ Elsewhere => ProformasAreSound
  BY DEF ProformasAreSound, Part, Elsewhere
<1>4. QED
  BY <1>2, <1>3, PartsStay, TheIndexIsNeverMet, PTL

\* A signed contract's project is won, a quoted one is no lead, and requests on
\* papers, projects and counters never wait in a circle.
THEOREM SignedContractsAreWon == MCSpec => []SignedIsWon
<1>1. SP!Spec => []SP!TypeOK /\ []SP!SignedIsWon /\ []SP!NoDeadlock
  BY SalesIsSales, SP!PapersHaveTheirSources, SP!SignedProjectsAreWon, SP!NoCircle
<1>2. S!Spec => []S!TypeOK /\ []S!SignedIsWon /\ []S!NoDeadlock
  BY <1>1, SalesIsSales, PTL DEF S!Spec, SP!Spec
<1>3. /\ Part("sales") /\ S!TypeOK /\ S!SignedIsWon /\ S!NoDeadlock => SignedIsWon
      /\ Part("quotation") \/ Part("rates") \/ Elsewhere => SignedIsWon
  BY DEF SignedIsWon, Part, Elsewhere
<1>4. QED
  BY <1>2, <1>3, PartsStay, PTL
=============================================================================
