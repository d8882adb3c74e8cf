--------------------------- MODULE QuotationProofs ---------------------------
(***************************************************************************)
(* Proofs about Quotation, for any connections, lines, prices, rates and   *)
(* starting quotations: a quotation becomes at most one proforma, which is *)
(* one version of it and carries no discount that nobody signed.           *)
(***************************************************************************)
EXTENDS Quotation, FiniteSetTheorems, SequenceTheorems, WellFoundedInduction, TLAPS

Parameters == LegacyIsALine /\ LinesAreFinite /\ StartsAreQuotes

-----------------------------------------------------------------------------
(* Sequences of lines and of statements.                                   *)

IsSequence(s) == s \in Seq({s[n] : n \in DOMAIN s})

\* A line as it may be stored or about to be: numbered, or on its way.
IsRow(r) == "seq" \in DOMAIN r /\ r.seq \in Int

\* A set of natural numbers that is not empty has a least one.
LEMMA LeastNatural ==
  ASSUME NEW T, T \subseteq Nat, T # {}
  PROVE  \E n \in T : \A m \in T : n <= m
<1>1. PICK n \in T : \A m \in T : <<m, n>> \notin OpToRel(<, Nat)
  BY NatLessThanWellFounded, WFMin, Zenon
<1>2. \A m \in T : ~(m < n)
  BY <1>1, Zenon DEF OpToRel
<1>3. QED
  BY <1>2

\* Lines with their sequence numbers in order, each once: what InOrder chooses among.
Ordered(s, f, n, S) ==
  s \in [1..n -> S] /\ \A i, j \in 1..n : i < j => s[i] # s[j] /\ f[s[i]].seq <= f[s[j]].seq

\* A line finds its place among lines that are in order.
LEMMA OneMoreLine ==
  ASSUME NEW f, NEW S, \A l \in S : f[l].seq \in Int,
         NEW x \in S, NEW m \in Nat, NEW s, Ordered(s, f, m, S \ {x})
  PROVE  \E r : Ordered(r, f, m + 1, S)
<1> DEFINE K == {i \in 1..m : f[s[i]].seq > f[x].seq} \cup {m + 1}
<1>0. K \subseteq Nat /\ K # {}
  OBVIOUS
<1>1. PICK k \in K : \A i \in K : k <= i
  BY <1>0, LeastNatural
<1>2. k \in 1..(m + 1)
  OBVIOUS
<1>3. \A i \in 1..m : i < k => f[s[i]].seq <= f[x].seq
  BY <1>1, <1>2 DEF Ordered
<1>4. \A i \in 1..m : k <= i => f[x].seq <= f[s[i]].seq
  <2> SUFFICES ASSUME NEW i \in 1..m, k <= i PROVE f[x].seq <= f[s[i]].seq
    OBVIOUS
  <2>1. k \in 1..m /\ f[s[k]].seq > f[x].seq
    BY <1>2
  <2>2. f[s[k]].seq <= f[s[i]].seq
    BY <2>1 DEF Ordered
  <2>3. f[s[k]].seq \in Int /\ f[s[i]].seq \in Int /\ f[x].seq \in Int
    BY <2>1 DEF Ordered
  <2>4. QED
    BY <2>1, <2>2, <2>3
<1> DEFINE r == [i \in 1..(m + 1) |-> IF i < k THEN s[i] ELSE IF i = k THEN x ELSE s[i - 1]]
<1>5. \A i \in 1..(m + 1) : \/ i < k /\ i \in 1..m /\ r[i] = s[i]
                            \/ i = k /\ r[i] = x
                            \/ i > k /\ (i - 1) \in 1..m /\ k <= i - 1 /\ r[i] = s[i - 1]
  BY <1>2
<1>6. \A i \in 1..m : s[i] \in S /\ s[i] # x
  BY DEF Ordered
<1>7. r \in [1..(m + 1) -> S]
  BY <1>5, <1>6
<1>8. ASSUME NEW i \in 1..(m + 1), NEW j \in 1..(m + 1), i < j
      PROVE  r[i] # r[j] /\ f[r[i]].seq <= f[r[j]].seq
  <2>1. CASE j < k
    <3>1. i \in 1..m /\ j \in 1..m /\ r[i] = s[i] /\ r[j] = s[j]
      BY <1>2, <1>5, <1>8, <2>1
    <3>2. QED
      BY <3>1, <1>8 DEF Ordered
  <2>2. CASE j = k
    <3>1. i \in 1..m /\ i < k /\ r[i] = s[i] /\ r[j] = x
      BY <1>2, <1>5, <1>8, <2>2
    <3>2. QED
      BY <3>1, <1>3, <1>6
  <2>3. CASE j > k /\ i < k
    <3>1. i \in 1..m /\ (j - 1) \in 1..m /\ i < j - 1 /\ r[i] = s[i] /\ r[j] = s[j - 1]
      BY <1>2, <1>5, <1>8, <2>3
    <3>2. QED
      BY <3>1 DEF Ordered
  <2>4. CASE j > k /\ i = k
    <3>1. (j - 1) \in 1..m /\ k <= j - 1 /\ r[i] = x /\ r[j] = s[j - 1]
      BY <1>2, <1>5, <1>8, <2>4
    <3>2. QED
      BY <3>1, <1>4, <1>6
  <2>5. CASE j > k /\ i > k
    <3>1. (i - 1) \in 1..m /\ (j - 1) \in 1..m /\ i - 1 < j - 1 /\ r[i] = s[i - 1] /\ r[j] = s[j - 1]
      BY <1>2, <1>5, <1>8, <2>5
    <3>2. QED
      BY <3>1 DEF Ordered
  <2>6. QED
    BY <1>2, <1>8, <2>1, <2>2, <2>3, <2>4, <2>5
<1>9. QED
  BY <1>7, <1>8 DEF Ordered

\* Finitely many lines can be put in order.
LEMMA LinesCanBeOrdered ==
  ASSUME NEW L, IsFiniteSet(L), NEW f, \A l \in L : f[l].seq \in Int
  PROVE  \E s : Ordered(s, f, Cardinality(L), L)
<1> DEFINE Able(S) == \E s : Ordered(s, f, Cardinality(S), S)
           Bad == {n \in Nat : \E S \in SUBSET L : Cardinality(S) = n /\ ~Able(S)}
<1>1. \A S \in SUBSET L : IsFiniteSet(S) /\ Cardinality(S) \in Nat
  BY FS_Subset, FS_CardinalityType
<1>2. Bad = {}
  <2> SUFFICES ASSUME Bad # {} PROVE FALSE
    OBVIOUS
  <2>1. Bad \subseteq Nat
    OBVIOUS
  <2>2. PICK n \in Bad : \A m \in Bad : n <= m
    BY <2>1, LeastNatural
  <2>3. PICK S \in SUBSET L : Cardinality(S) = n /\ ~Able(S)
    BY <2>2
  <2>4. S # {}
    <3> SUFFICES ASSUME S = {} PROVE FALSE
      OBVIOUS
    <3>1. Cardinality(S) = 0
      BY FS_EmptySet
    <3>2. Ordered([i \in 1..0 |-> i], f, 0, S)
      BY DEF Ordered
    <3>3. QED
      BY <3>1, <3>2, <2>3
  <2>5. PICK x \in S : TRUE
    BY <2>4
  <2>6. Cardinality(S \ {x}) = n - 1 /\ n - 1 \in Nat
    <3>1. IsFiniteSet(S) /\ IsFiniteSet(S \ {x}) /\ Cardinality(S \ {x}) = Cardinality(S) - 1
      BY <1>1, <2>3, <2>5, FS_RemoveElement
    <3>2. Cardinality(S \ {x}) \in Nat
      BY <3>1, FS_CardinalityType
    <3>3. QED
      BY <2>3, <3>1, <3>2
  <2>7. n - 1 \notin Bad
    BY <2>2, <2>6
  <2>8. Able(S \ {x})
    <3>1. S \ {x} \in SUBSET L
      BY <2>3
    <3>2. QED
      BY <2>6, <2>7, <3>1
  <2>9. PICK s : Ordered(s, f, n - 1, S \ {x})
    BY <2>6, <2>8
  <2>10. \A l \in S : f[l].seq \in Int
    BY <2>3
  <2>11. \E r : Ordered(r, f, (n - 1) + 1, S)
    BY <2>5, <2>6, <2>9, <2>10, OneMoreLine
  <2>12. n = (n - 1) + 1
    BY <2>6
  <2>13. QED
    BY <2>3, <2>11, <2>12
<1>3. L \in SUBSET L /\ Cardinality(L) \in Nat
  BY FS_CardinalityType
<1>4. Able(L)
  BY <1>2, <1>3
<1>5. QED
  BY <1>4

\* What InOrder lists are the lines there are, one after the other.
LEMMA InOrderIs ==
  ASSUME LinesAreFinite, NEW f, \A l \in Lines : f[l].seq \in Int
  PROVE  /\ Cardinality(Live(f)) \in Nat
         /\ Ordered(InOrder(f), f, Cardinality(Live(f)), Live(f))
         /\ InOrder(f) \in Seq(Live(f)) /\ InOrder(f) \in Seq(Lines)
         /\ Len(InOrder(f)) = Cardinality(Live(f))
         /\ Live(f) # {} => Len(InOrder(f)) > 0
<1> DEFINE n == Cardinality(Live(f))
<1>1. Live(f) \subseteq Lines /\ IsFiniteSet(Live(f)) /\ n \in Nat
  BY FS_Subset, FS_CardinalityType DEF LinesAreFinite, Live
<1>2. \E s : Ordered(s, f, n, Live(f))
  BY <1>1, LinesCanBeOrdered
<1>3. Ordered(InOrder(f), f, n, Live(f))
  <2> DEFINE P(s) == \A i, j \in 1..n : i < j => s[i] # s[j] /\ f[s[i]].seq <= f[s[j]].seq
  <2>1. \E s \in [1..n -> Live(f)] : P(s)
    BY <1>2 DEF Ordered
  <2>2. InOrder(f) = CHOOSE s \in [1..n -> Live(f)] : P(s)
    BY DEF InOrder
  <2>3. InOrder(f) \in [1..n -> Live(f)] /\ P(InOrder(f))
    BY <2>1, <2>2, Zenon
  <2>4. QED
    BY <2>3 DEF Ordered
<1>4. InOrder(f) \in [1..n -> Live(f)]
  BY <1>3 DEF Ordered
<1>5. InOrder(f) \in Seq(Live(f)) /\ InOrder(f) \in Seq(Lines) /\ Len(InOrder(f)) = n
  BY <1>1, <1>4
<1>6. Live(f) # {} => n # 0
  BY <1>1, FS_EmptySet
<1>7. QED
  BY <1>1, <1>3, <1>5, <1>6

\* A sequence is a function on the numbers up to its length, and so is one.
LEMMA SequenceIs ==
  ASSUME NEW s, IsSequence(s)
  PROVE  Len(s) \in Nat /\ DOMAIN s = 1..Len(s)
BY DEF IsSequence

\* A list written as a function of 1..n is a sequence of length n.
LEMMA FunctionIsSequence ==
  ASSUME NEW n \in Nat, NEW s, s = [i \in 1..n |-> s[i]]
  PROVE  IsSequence(s) /\ Len(s) = n /\ DOMAIN s = 1..n
<1>1. DOMAIN s = 1..n
  OBVIOUS
<1>2. s \in [1..n -> {s[i] : i \in 1..n}]
  OBVIOUS
<1>3. QED
  BY <1>1, <1>2 DEF IsSequence

\* Every element of Seq(S) is a sequence in this sense.
LEMMA AnySequence ==
  ASSUME NEW S, NEW s \in Seq(S)
  PROVE  IsSequence(s)
<1>1. Len(s) \in Nat /\ s \in [1..Len(s) -> S]
  BY LenProperties
<1>2. s = [i \in 1..Len(s) |-> s[i]]
  BY <1>1
<1>3. QED
  BY <1>1, <1>2, FunctionIsSequence

\* The list of one statement.
LEMMA SequenceOfOne ==
  ASSUME NEW e
  PROVE  IsSequence(<<e>>) /\ Len(<<e>>) = 1 /\ DOMAIN <<e>> = {1} /\ <<e>>[1] = e
BY DEF IsSequence

\* The empty list.
LEMMA NoStatements ==
  IsSequence(<<>>) /\ Len(<<>>) = 0 /\ DOMAIN <<>> = {}
BY DEF IsSequence

\* What one list after another holds, and how it ends.
LEMMA Concatenation ==
  ASSUME NEW r, IsSequence(r), NEW s, IsSequence(s)
  PROVE  /\ IsSequence(r \o s) /\ Len(r \o s) = Len(r) + Len(s)
         /\ \A n \in DOMAIN (r \o s) : \/ \E m \in DOMAIN r : (r \o s)[n] = r[m]
                                      \/ \E m \in DOMAIN s : (r \o s)[n] = s[m]
         /\ Len(s) > 0 => (r \o s)[Len(r \o s)] = s[Len(s)]
<1> DEFINE S == {r[n] : n \in DOMAIN r} \cup {s[n] : n \in DOMAIN s}
<1>1. r \in Seq(S) /\ s \in Seq(S)
  BY SequenceIs DEF IsSequence
<1>2. Len(r) \in Nat /\ Len(s) \in Nat /\ DOMAIN r = 1..Len(r) /\ DOMAIN s = 1..Len(s)
  BY SequenceIs
<1> DEFINE q == r \o s
<1>3. /\ q \in Seq(S) /\ Len(q) = Len(r) + Len(s)
      /\ \A n \in 1..(Len(r) + Len(s)) : q[n] = IF n <= Len(r) THEN r[n] ELSE s[n - Len(r)]
  BY <1>1, ConcatProperties
<1>4. DOMAIN q = 1..(Len(r) + Len(s))
  BY <1>3
<1>5. ASSUME NEW n \in DOMAIN q
      PROVE  (\E m \in DOMAIN r : q[n] = r[m]) \/ (\E m \in DOMAIN s : q[n] = s[m])
  <2>1. CASE n <= Len(r)
    <3>1. n \in DOMAIN r /\ q[n] = r[n]
      BY <1>2, <1>3, <1>4, <1>5, <2>1
    <3>2. QED
      BY <3>1
  <2>2. CASE n > Len(r)
    <3>1. (n - Len(r)) \in DOMAIN s /\ q[n] = s[n - Len(r)]
      BY <1>2, <1>3, <1>4, <1>5, <2>2
    <3>2. QED
      BY <3>1
  <2>3. QED
    BY <1>2, <1>4, <2>1, <2>2
<1>7. IsSequence(q)
  BY <1>3, AnySequence
<1>8. Len(s) > 0 => q[Len(q)] = s[Len(s)]
  BY <1>2, <1>3
<1>9. QED
  BY <1>3, <1>5, <1>7, <1>8

\* What is left of a list when its head is done.
LEMMA TailIs ==
  ASSUME NEW s, IsSequence(s), Len(s) # 0
  PROVE  /\ IsSequence(Tail(s)) /\ Len(Tail(s)) = Len(s) - 1
         /\ \A n \in DOMAIN Tail(s) : n + 1 \in DOMAIN s /\ Tail(s)[n] = s[n + 1]
         /\ Head(s) = s[1] /\ 1 \in DOMAIN s
<1> DEFINE S == {s[n] : n \in DOMAIN s}
           q == Tail(s)
<1>1. s \in Seq(S) /\ Len(s) \in Nat /\ DOMAIN s = 1..Len(s)
  BY SequenceIs DEF IsSequence
<1>2. s # <<>>
  BY NoStatements
<1>3. /\ Head(s) = s[1] /\ q \in Seq(S) /\ Len(q) = Len(s) - 1
      /\ \A i \in 1..Len(q) : q[i] = s[i + 1]
  BY <1>1, <1>2, HeadTailProperties
<1>4. DOMAIN q = 1..Len(q) /\ Len(q) \in Nat
  BY <1>1, <1>3
<1>6. IsSequence(q)
  BY <1>3, AnySequence
<1>7. \A n \in DOMAIN q : n + 1 \in DOMAIN s /\ q[n] = s[n + 1]
  BY <1>1, <1>3, <1>4
<1>8. 1 \in DOMAIN s
  BY <1>1
<1>9. QED
  BY <1>3, <1>6, <1>7, <1>8

-----------------------------------------------------------------------------
(* The inductive invariant: what each transaction holds and has before it. *)

Converted == "CONVERTED_TO_PROFORMA"

Columns == {"status", "rate", "version", "sub", "tax", "total", "calc", "signed", "spec"}

\* The operations that write lines.
LineOps == {"add", "update", "remove", "reorder", "setVat", "price"}

IsRequest(r) ==
  /\ r.op \in LineOps \cup {"terms", "signoff", "issue", "status"}
  /\ r.op \in {"update", "remove"} => r.id \in Lines
  /\ r.op = "reorder" => r.ids \in Seq(Lines)
  /\ r.op = "status" => r.to # Converted

\* A statement of the request r.
IsStatement(s, r) ==
  /\ s.kind \in {"header", "insert", "delete", "line", "must"}
  /\ s.kind = "header" =>
       /\ DOMAIN s.set # {}
       /\ "status" \in DOMAIN s.set => r.op \in {"status", "issue"}
       /\ r.op = "issue" => /\ s.from = {"PENDING_APPROVAL", "APPROVED"}
                            /\ s.set = [status |-> Converted]
       /\ r.op = "status" => \E from \in DOMAIN Transitions :
                               /\ s.from = {from}
                               /\ s.set = [status |-> r.to] /\ r.to \in Transitions[from]
  /\ s.kind # "header" =>
       /\ r.op \in LineOps /\ s.id \in Lines
       /\ s.kind = "insert" => IsRow(s.set)
       /\ s.kind \in {"line", "must"} /\ "seq" \in DOMAIN s.set => s.set.seq \in Int
       /\ r.op = "reorder" => \/ s.kind = "insert" /\ s.set # Gone
                              \/ s.kind = "line" /\ "seq" \in DOMAIN s.set /\ s.set.seq # 0

Fields ==
  {"pc", "req", "seen", "vat", "plan", "doc", "todo", "next", "hdr", "own", "keys", "read", "del",
   "ins", "copy"}

BeforeWriting ==
  {"idle", "read", "readLines", "gate", "lines", "readTerms", "deleteTerms", "insertTerms", "issue"}

Writing == {"write", "index"}

\* Each request is at a step of its operation.
AtItsStep(x) ==
  /\ x.pc \in Labels
  /\ x.pc # "idle" => IsRequest(x.req)
  /\ x.pc = "readLines" => x.req.op = "price"
  /\ x.pc = "read" => x.req.op \in {"setVat", "price", "signoff", "status"}
  /\ x.pc = "gate" => x.req.op \notin {"status", "issue"}
  /\ x.pc = "lines" => x.req.op \in LineOps
  /\ x.pc \in {"gate", "lines"} /\ x.req.op = "price" =>
       /\ x.plan.ids \in Seq(Lines)
       /\ DOMAIN x.plan.set # {} /\ "status" \notin DOMAIN x.plan.set
  /\ x.pc = "resync" => x.req.op \in {"add", "update", "remove", "setVat"}
  /\ x.pc = "respec" => x.req.op = "reorder"
  /\ x.pc \in {"readTerms", "deleteTerms", "insertTerms"} => x.req.op = "terms"
  /\ x.pc \in {"issue", "guard", "copyTerms", "copyLines"} => x.req.op = "issue"
  /\ x.pc \in Writing =>
       \/ x.next = "guard" /\ x.req.op = "issue"
       \/ x.next = "resync" /\ x.req.op \in {"add", "update", "remove", "setVat"}
       \/ x.next = "respec" /\ x.req.op = "reorder"
       \/ x.next = "commit" /\ x.req.op \in LineOps \cup {"signoff", "status"}

\* What it has written.  Whoever is about to commit lines has the header as well.
HasWritten(x) ==
  /\ x.pc \in BeforeWriting => DOMAIN x.hdr = {} /\ DOMAIN x.own = {}
  /\ DOMAIN x.own \subseteq Lines /\ \A l \in DOMAIN x.own : IsRow(x.own[l])
  /\ x.req.op \notin LineOps => DOMAIN x.own = {}
  /\ x.req.op = "reorder" => \A l \in DOMAIN x.own : x.own[l] # Gone
  /\ "status" \in DOMAIN x.hdr => x.req.op \in {"status", "issue"}
  /\ x.pc = "commit" /\ DOMAIN x.own # {} => DOMAIN x.hdr # {}
  /\ ~(x.pc = "commit" /\ x.req.op = "issue") => x.copy = {}

\* What it has still to write: the header last, if nothing is decided after it.
HasToWrite(x) ==
  x.pc \in Writing =>
    /\ IsSequence(x.todo) /\ Len(x.todo) # 0
    /\ \A n \in DOMAIN x.todo : IsStatement(x.todo[n], x.req)
    /\ x.next = "commit" => x.todo[Len(x.todo)].kind = "header"
    /\ x.pc = "index" => x.todo[1].kind # "header"
    /\ x.req.op \in {"status", "issue"} => Len(x.todo) = 1 /\ DOMAIN x.hdr = {}

Sound(x) == DOMAIN x = Fields /\ AtItsStep(x) /\ HasWritten(x) /\ HasToWrite(x)

\* p is frozen from the header h and the lines f.
FrozenFrom(p, h, f) ==
  /\ p.total = h.total /\ p.tax = h.tax /\ p.calc = h.calc /\ p.signed = h.signed
  /\ p.prices = Column(f, InOrder(f), "price")

\* A transaction that has changed the status, beside the stored header h and
\* lines f: nobody changes what it decided on.
Agrees(x, h, f) ==
  /\ x.req.op = "status" /\ "status" \in DOMAIN x.hdr =>
       x.hdr.status \in Transitions[h.status] /\ x.hdr.status # Converted
  /\ x.req.op = "issue" /\ x.pc \in {"guard", "copyTerms", "copyLines", "commit"} =>
       /\ x.hdr = [status |-> Converted]
       /\ h.status \in {"PENDING_APPROVAL", "APPROVED"}
       /\ x.pc # "guard" => ~Unsigned(h)
       /\ x.pc = "commit" => \E p \in x.copy : x.copy = {p} /\ FrozenFrom(p, h, f)

\* What is stored.
Stored ==
  /\ hdr = [c \in DOMAIN hdr |-> hdr[c]] /\ Columns \subseteq DOMAIN hdr
  /\ hdr.status \in DOMAIN Transitions
  /\ lines = [l \in Lines |-> lines[l]] /\ \A l \in Lines : IsRow(lines[l])

OneHoldsTheHeader == \A t, u \in Txns : HoldsHeader(t) /\ HoldsHeader(u) => t = u

IInv ==
  /\ tx = [t \in Txns |-> tx[t]]
  /\ \A t \in Txns : Sound(tx[t]) /\ Agrees(tx[t], hdr, lines)
  /\ Stored /\ OneHoldsTheHeader
  /\ ConvertedOnce /\ IssuedDiscountsAreSigned

-----------------------------------------------------------------------------
(* A step of one transaction that stores nothing.                          *)

\* What a transaction goes on to do is all there is to look at, and that it has
\* the header for itself if it has written it.
LEMMA OneGoesOn ==
  ASSUME IInv, NEW t \in Txns, NEW y, Become(t, y), UNCHANGED <<hdr, lines, proformas>>,
         Sound(y), Agrees(y, hdr, lines),
         DOMAIN y.hdr # {} => \A u \in Others(t) : ~HoldsHeader(u)
  PROVE  IInv'
<1>1. /\ tx' = [u \in Txns |-> tx'[u]] /\ tx'[t] = y
      /\ \A u \in Txns : u # t => tx'[u] = tx[u]
  BY DEF IInv, Become
<1>2. \A u \in Txns : Sound(tx'[u]) /\ Agrees(tx'[u], hdr, lines)
  BY <1>1 DEF IInv
<1>3. OneHoldsTheHeader'
  BY <1>1 DEF IInv, OneHoldsTheHeader, HoldsHeader, Others
<1>4. Stored' /\ ConvertedOnce' /\ IssuedDiscountsAreSigned'
  BY DEF IInv, Stored, ConvertedOnce, IssuedDiscountsAreSigned
<1>5. \A u \in Txns : Sound(tx[u])' /\ Agrees(tx[u], hdr, lines)'
  BY <1>2
<1>6. QED
  BY <1>1, <1>3, <1>4, <1>5 DEF IInv

\* A connection without a request is sound.
LEMMA IdleIsSound ==
  Sound(Idle) /\ Agrees(Idle, hdr, lines) /\ DOMAIN Idle.hdr = {}
<1>1. DOMAIN Idle.hdr = {} /\ DOMAIN Idle.own = {}
  BY NoStatements DEF Idle
<1>2. DOMAIN Idle = Fields /\ Idle.pc = "idle" /\ Idle.req.op = "none" /\ Idle.copy = {}
  BY DEF Idle, Fields
<1>3. AtItsStep(Idle)
  BY <1>2 DEF AtItsStep, Labels, Writing
<1>4. HasWritten(Idle)
  BY <1>1, <1>2 DEF HasWritten, BeforeWriting, LineOps
<1>5. HasToWrite(Idle)
  BY <1>2 DEF HasToWrite, Writing
<1>6. Agrees(Idle, hdr, lines)
  BY <1>1, <1>2 DEF Agrees
<1>7. QED
  BY <1>1, <1>2, <1>3, <1>4, <1>5, <1>6 DEF Sound

\* A request that is refused leaves a connection at rest and nothing stored.
LEMMA RefuseStep ==
  ASSUME IInv, NEW t \in Txns, Refuse(t), UNCHANGED <<hdr, lines, proformas>>
  PROVE  IInv'
BY IdleIsSound, OneGoesOn DEF Refuse

\* Whoever has the header keeps it for itself.
LEMMA HolderIsAlone ==
  ASSUME IInv, NEW t \in Txns, DOMAIN tx[t].hdr # {}
  PROVE  \A u \in Others(t) : ~HoldsHeader(u)
BY DEF IInv, OneHoldsTheHeader, HoldsHeader, Others

\* A request that has its statements to run.
LEMMA RunStep ==
  ASSUME IInv, NEW t \in Txns, NEW x, NEW todo, NEW next, Run(t, x, todo, next),
         UNCHANGED <<hdr, lines, proformas>>, tx[t].pc \notin {"idle", "commit"},
         DOMAIN x = Fields, x.req = tx[t].req, x.hdr = tx[t].hdr, x.own = tx[t].own,
         x.copy = tx[t].copy,
         IsSequence(todo), Len(todo) # 0, \A n \in DOMAIN todo : IsStatement(todo[n], x.req),
         \/ next = "guard" /\ x.req.op = "issue"
         \/ next = "resync" /\ x.req.op \in {"add", "update", "remove", "setVat"}
         \/ next = "respec" /\ x.req.op = "reorder"
         \/ next = "commit" /\ x.req.op \in LineOps \cup {"signoff", "status"},
         next = "commit" => todo[Len(todo)].kind = "header",
         x.req.op \in {"status", "issue"} => Len(todo) = 1 /\ DOMAIN x.hdr = {}
  PROVE  IInv'
<1> DEFINE y == [x EXCEPT !.pc = "write", !.todo = todo, !.next = next]
<1>1. /\ DOMAIN y = Fields /\ y.pc = "write" /\ y.todo = todo /\ y.next = next
      /\ y.req = x.req /\ y.hdr = x.hdr /\ y.own = x.own /\ y.copy = x.copy
  BY DEF Fields
<1>2. Sound(tx[t]) /\ Agrees(tx[t], hdr, lines)
  BY DEF IInv
<1>3. AtItsStep(y)
  BY <1>1, <1>2 DEF Sound, AtItsStep, Labels, Writing
<1>4. HasWritten(y)
  BY <1>1, <1>2 DEF Sound, HasWritten, BeforeWriting
<1>5. HasToWrite(y)
  BY <1>1 DEF HasToWrite
<1>6. Agrees(y, hdr, lines)
  BY <1>1 DEF Agrees
<1>7. Become(t, y)
  BY DEF Run
<1> HIDE DEF y
<1>8. QED
  BY <1>1, <1>3, <1>4, <1>5, <1>6, <1>7, OneGoesOn, HolderIsAlone DEF Sound

\* A request that goes on without writing.
LEMMA MoveStep ==
  ASSUME IInv, NEW t \in Txns, NEW y, Become(t, y),
         UNCHANGED <<hdr, lines, proformas>>, tx[t].pc # "commit",
         DOMAIN y = Fields, y.req = tx[t].req, y.hdr = tx[t].hdr, y.own = tx[t].own,
         y.copy = tx[t].copy \/ (y.pc = "commit" /\ y.req.op = "issue"),
         AtItsStep(y), y.pc \notin Writing, Agrees(y, hdr, lines),
         y.pc \in BeforeWriting => tx[t].pc \in BeforeWriting,
         y.pc = "commit" => DOMAIN y.own = {}
  PROVE  IInv'
<1>1. Sound(tx[t])
  BY DEF IInv
<1>2. HasWritten(y)
  BY <1>1 DEF Sound, HasWritten
<1>3. HasToWrite(y)
  BY DEF HasToWrite
<1>4. QED
  BY <1>2, <1>3, OneGoesOn, HolderIsAlone DEF Sound

-----------------------------------------------------------------------------
(* Before the first statement.                                             *)

\* A new request begins with nothing written.
LEMMA AskStep ==
  ASSUME IInv, NEW t \in Txns, Ask(t)
  PROVE  IInv'
<1>1. PICK req \in Requests :
        /\ Become(t, [Idle EXCEPT !.req = req,
             !.pc = CASE req.op \in {"setVat", "price", "signoff", "status"} -> "read"
                      [] req.op = "issue" -> "issue"
                      [] OTHER            -> "gate"])
        /\ UNCHANGED <<hdr, lines, proformas>>
  BY DEF Ask
<1> DEFINE pc == CASE req.op \in {"setVat", "price", "signoff", "status"} -> "read"
                   [] req.op = "issue" -> "issue"
                   [] OTHER            -> "gate"
           y == [Idle EXCEPT !.req = req, !.pc = pc]
<1>2. IsRequest(req)
  <2>1. CASE req.op = "reorder"
    <3>1. PICK n \in 1..Cardinality(Lines) : req.ids \in [1..n -> Lines]
      BY <2>1 DEF Requests
    <3>2. n \in Nat
      OBVIOUS
    <3>3. req.ids \in Seq(Lines)
      BY <3>1, <3>2
    <3>4. QED
      BY <2>1, <3>3 DEF IsRequest, LineOps
  <2>2. CASE req.op # "reorder"
    BY <2>2 DEF Requests, IsRequest, LineOps, Converted
  <2>3. QED
    BY <2>1, <2>2
<1>3. /\ pc \in {"read", "issue", "gate"}
      /\ pc = "read" => req.op \in {"setVat", "price", "signoff", "status"}
      /\ pc = "issue" => req.op = "issue"
      /\ pc = "gate" => req.op \notin {"setVat", "price", "signoff", "status", "issue"}
  OBVIOUS
<1> HIDE DEF pc
<1>4. /\ DOMAIN y = Fields /\ y.pc = pc /\ y.req = req /\ y.hdr = Idle.hdr
      /\ y.own = Idle.own /\ y.copy = {}
  BY DEF Idle, Fields
<1>5. DOMAIN y.hdr = {} /\ DOMAIN y.own = {}
  BY <1>4, NoStatements DEF Idle
<1> HIDE DEF y
<1>6. AtItsStep(y)
  BY <1>2, <1>3, <1>4 DEF AtItsStep, Labels, Writing
<1>7. HasWritten(y)
  BY <1>3, <1>4, <1>5 DEF HasWritten
<1>8. HasToWrite(y)
  BY <1>3, <1>4 DEF HasToWrite, Writing
<1>9. Agrees(y, hdr, lines)
  BY <1>3, <1>4, <1>5 DEF Agrees
<1>10. Sound(y)
  BY <1>4, <1>6, <1>7, <1>8 DEF Sound
<1>11. Become(t, y)
  BY <1>1 DEF y, pc
<1>12. QED
  BY <1>1, <1>5, <1>9, <1>10, <1>11, OneGoesOn

\* A request decides on what it reads.
LEMMA ReadQuoteStep ==
  ASSUME IInv, NEW t \in Txns, ReadQuote(t)
  PROVE  IInv'
<1> DEFINE x == tx[t]
<1>1. UNCHANGED <<hdr, lines, proformas>> /\ x.pc = "read" /\ Sound(x) /\ Agrees(x, hdr, lines)
  BY DEF ReadQuote, IInv
<1>2. /\ DOMAIN x = Fields /\ x.req.op \in {"setVat", "price", "signoff", "status"}
      /\ IsRequest(x.req) /\ DOMAIN x.hdr = {} /\ DOMAIN x.own = {} /\ x.copy = {}
  BY <1>1 DEF Sound, AtItsStep, HasWritten, BeforeWriting
<1>3. CASE Refuse(t)
  BY <1>1, <1>3, RefuseStep
<1>4. CASE /\ x.req.op = "status" /\ x.req.to \in Transitions[hdr.status]
           /\ Run(t, x, <<Cas({hdr.status}, [status |-> x.req.to])>>, "commit")
  <2> DEFINE s == Cas({hdr.status}, [status |-> x.req.to])
  <2>1. hdr.status \in DOMAIN Transitions
    BY DEF IInv, Stored
  <2>2. s.kind = "header" /\ s.from = {hdr.status} /\ s.set = [status |-> x.req.to]
    BY DEF Cas
  <2>3. DOMAIN s.set # {}
    BY <2>2
  <2>4. IsStatement(s, x.req)
    BY <1>4, <2>1, <2>2, <2>3 DEF IsStatement
  <2> HIDE DEF s
  <2>5. IsSequence(<<s>>) /\ Len(<<s>>) = 1 /\ <<s>>[1] = s /\ \A n \in DOMAIN <<s>> : <<s>>[n] = s
    BY SequenceOfOne
  <2>6. Run(t, x, <<s>>, "commit")
    BY <1>4 DEF s
  <2>7. QED
    BY <1>1, <1>2, <1>4, <2>2, <2>4, <2>5, <2>6, RunStep
<1>5. CASE /\ x.req.op # "status"
           /\ Become(t, [x EXCEPT !.seen = hdr, !.vat = openVat,
                     !.pc = IF x.req.op = "price" THEN "readLines" ELSE "gate"])
  <2> DEFINE y == [x EXCEPT !.seen = hdr, !.vat = openVat,
                     !.pc = IF x.req.op = "price" THEN "readLines" ELSE "gate"]
  <2>1. /\ DOMAIN y = Fields /\ y.req = x.req /\ y.hdr = x.hdr /\ y.own = x.own /\ y.copy = x.copy
        /\ y.pc = IF x.req.op = "price" THEN "readLines" ELSE "gate"
    BY <1>2 DEF Fields
  <2>2. Become(t, y)
    BY <1>5
  <2> HIDE DEF y
  <2>3. AtItsStep(y)
    BY <1>2, <1>5, <2>1 DEF AtItsStep, Labels, Writing
  <2>4. Agrees(y, hdr, lines)
    BY <1>2, <1>5, <2>1 DEF Agrees
  <2>5. y.pc \notin Writing /\ y.pc # "commit" /\ x.pc \in BeforeWriting /\ x.pc # "commit"
    BY <1>1, <2>1 DEF BeforeWriting, Writing
  <2>6. QED
    BY <1>1, <2>1, <2>2, <2>3, <2>4, <2>5, MoveStep
<1>6. QED
  BY <1>2, <1>3, <1>4, <1>5 DEF ReadQuote

\* A price is worked out on the lines there are.
LEMMA ReadLinesStep ==
  ASSUME IInv, NEW t \in Txns, ReadLines(t), LinesAreFinite
  PROVE  IInv'
<1> DEFINE x == tx[t]
           rows == IF Live(lines) # {} THEN lines ELSE [lines EXCEPT ![Legacy] = LegacyRow(hdr)]
           ids  == InOrder(rows)
<1>1. UNCHANGED <<hdr, lines, proformas>> /\ x.pc = "readLines" /\ Sound(x) /\ Agrees(x, hdr, lines)
  BY DEF ReadLines, IInv
<1>2. /\ DOMAIN x = Fields /\ x.req.op = "price" /\ IsRequest(x.req)
  BY <1>1 DEF Sound, AtItsStep
<1>3. CASE Refuse(t)
  BY <1>1, <1>3, RefuseStep
<1>4. CASE ~Refuse(t)
  <2> DEFINE lists  == Column(rows, ids, "list")
             calc   == QuoteTotals(lists, NoSheet(lists), x.seen.rate).total
             quoted == DeriveFromGrandTotal(x.req.grand, x.seen.rate)
             plan   == [ids |-> ids, prices |-> AllocateToLines(lists, quoted.sub),
                        set |-> [sub |-> quoted.sub, tax |-> quoted.tax, total |-> quoted.total,
                                 calc |-> calc, signed |-> Null]]
             y      == [x EXCEPT !.pc = "gate", !.plan = plan]
  <2>1. Become(t, y)
    BY <1>4 DEF ReadLines
  <2>2. ids \in Seq(Lines)
    <3>1. \A l \in Lines : IsRow(lines[l]) /\ lines = [k \in Lines |-> lines[k]]
      BY DEF IInv, Stored
    <3>2. \A l \in Lines : rows[l].seq \in Int
      BY <3>1 DEF IsRow, LegacyRow
    <3> HIDE DEF rows
    <3>3. QED
      BY <3>2, InOrderIs
  <2>3. plan.ids = ids /\ DOMAIN plan.set # {} /\ "status" \notin DOMAIN plan.set
    OBVIOUS
  <2> HIDE DEF ids, plan
  <2>4. /\ DOMAIN y = Fields /\ y.req = x.req /\ y.hdr = x.hdr /\ y.own = x.own /\ y.copy = x.copy
        /\ y.pc = "gate" /\ y.plan = plan
    BY <1>2, <2>3 DEF Fields
  <2> HIDE DEF y
  <2>5. AtItsStep(y)
    BY <1>2, <2>2, <2>3, <2>4 DEF AtItsStep, Labels, Writing
  <2>6. Agrees(y, hdr, lines)
    BY <1>2, <2>4 DEF Agrees
  <2>7. y.pc \notin Writing /\ y.pc # "commit" /\ x.pc \in BeforeWriting /\ x.pc # "commit"
    BY <1>1, <2>4 DEF BeforeWriting, Writing
  <2>8. QED
    BY <1>1, <2>1, <2>4, <2>5, <2>6, <2>7, MoveStep
<1>5. QED
  BY <1>3, <1>4

-----------------------------------------------------------------------------
(* The statements a request makes of the lines it reads.                   *)

AreStatements(s, r) == IsSequence(s) /\ \A n \in DOMAIN s : IsStatement(s[n], r)

\* Two lists of statements of one request make one, which ends as the second does.
LEMMA StatementsJoin ==
  ASSUME NEW r, NEW p, AreStatements(p, r), NEW q, AreStatements(q, r)
  PROVE  /\ AreStatements(p \o q, r) /\ Len(p \o q) = Len(p) + Len(q)
         /\ Len(p) \in Nat /\ Len(q) \in Nat
         /\ Len(q) > 0 => (p \o q)[Len(p \o q)] = q[Len(q)]
<1>1. IsSequence(p) /\ IsSequence(q)
  BY DEF AreStatements
<1> DEFINE j == p \o q
<1>2. /\ IsSequence(j) /\ Len(j) = Len(p) + Len(q)
      /\ \A n \in DOMAIN j : (\E m \in DOMAIN p : j[n] = p[m]) \/ (\E m \in DOMAIN q : j[n] = q[m])
      /\ Len(q) > 0 => j[Len(j)] = q[Len(q)]
  BY <1>1, Concatenation
<1>3. \A n \in DOMAIN j : IsStatement(j[n], r)
  BY <1>2 DEF AreStatements
<1>4. Len(p) \in Nat /\ Len(q) \in Nat
  BY <1>1, SequenceIs
<1>5. QED
  BY <1>2, <1>3, <1>4 DEF AreStatements

\* A statement after a list of them is the last of the list.
LEMMA LastStatement ==
  ASSUME NEW r, NEW p, AreStatements(p, r), NEW s, IsStatement(s, r), NEW j, j = p \o <<s>>
  PROVE  AreStatements(j, r) /\ Len(j) > 0 /\ j[Len(j)] = s
<1>1. AreStatements(<<s>>, r) /\ Len(<<s>>) = 1 /\ <<s>>[1] = s
  BY SequenceOfOne DEF AreStatements
<1>2. AreStatements(j, r) /\ Len(j) = Len(p) + 1 /\ Len(p) \in Nat /\ j[Len(j)] = <<s>>[Len(<<s>>)]
  BY <1>1, StatementsJoin
<1>3. Len(j) > 0
  BY <1>2
<1>4. QED
  BY <1>1, <1>2, <1>3

\* A list of one statement.
LEMMA OneStatement ==
  ASSUME NEW r, NEW s, IsStatement(s, r)
  PROVE  AreStatements(<<s>>, r) /\ Len(<<s>>) = 1 /\ <<s>>[1] = s
BY SequenceOfOne DEF AreStatements

\* A header statement of a request that leaves the status alone.
LEMMA HeaderStatement ==
  ASSUME NEW set, DOMAIN set # {}, "status" \notin DOMAIN set,
         NEW r, r.op \notin {"issue", "status"}
  PROVE  AreStatements(<<SetHeader(set)>>, r) /\ Len(<<SetHeader(set)>>) = 1
         /\ <<SetHeader(set)>>[1].kind = "header"
<1>1. SetHeader(set).kind = "header" /\ SetHeader(set).set = set
  BY DEF SetHeader
<1>2. IsStatement(SetHeader(set), r)
  BY <1>1 DEF IsStatement
<1>3. QED
  BY <1>1, <1>2, OneStatement

\* The new numbers of lines, in two rounds.
LEMMA RenumberStatements ==
  ASSUME NEW ids \in Seq(Lines), NEW r, r.op \in LineOps
  PROVE  /\ AreStatements(Renumber(ids), r)
         /\ Len(Renumber(ids)) = Len(ids) + Len(ids) /\ Len(ids) \in Nat
<1> DEFINE p == [n \in DOMAIN ids |-> SetLine(ids[n], [seq |-> -n])]
           q == [n \in DOMAIN ids |-> SetLine(ids[n], [seq |-> n])]
<1>1. Len(ids) \in Nat /\ DOMAIN ids = 1..Len(ids) /\ \A n \in 1..Len(ids) : ids[n] \in Lines
  OBVIOUS
<1>2. ASSUME NEW l \in Lines, NEW n \in Int, n # 0
      PROVE  IsStatement(SetLine(l, [seq |-> n]), r)
  <2>1. /\ SetLine(l, [seq |-> n]).kind = "line" /\ SetLine(l, [seq |-> n]).id = l
        /\ SetLine(l, [seq |-> n]).set = [seq |-> n]
    BY DEF SetLine
  <2>2. "seq" \in DOMAIN [seq |-> n] /\ [seq |-> n].seq = n
    OBVIOUS
  <2>3. QED
    BY <1>2, <2>1, <2>2 DEF IsStatement
<1>3. IsSequence(p) /\ Len(p) = Len(ids) /\ DOMAIN p = 1..Len(ids)
  BY <1>1, FunctionIsSequence
<1>4. IsSequence(q) /\ Len(q) = Len(ids) /\ DOMAIN q = 1..Len(ids)
  BY <1>1, FunctionIsSequence
<1>5. ASSUME NEW n \in 1..Len(ids) PROVE IsStatement(p[n], r) /\ IsStatement(q[n], r)
  <2>1. -n \in Int /\ -n # 0 /\ n \in Int /\ n # 0 /\ ids[n] \in Lines /\ n \in DOMAIN ids
    BY <1>1
  <2>2. p[n] = SetLine(ids[n], [seq |-> -n]) /\ q[n] = SetLine(ids[n], [seq |-> n])
    BY <2>1
  <2>3. QED
    BY <1>2, <2>1, <2>2
<1>6. AreStatements(p, r) /\ AreStatements(q, r)
  BY <1>3, <1>4, <1>5 DEF AreStatements
<1>7. Renumber(ids) = p \o q
  BY DEF Renumber
<1> HIDE DEF p, q
<1>8. AreStatements(p \o q, r) /\ Len(p \o q) = Len(p) + Len(q)
  BY <1>6, StatementsJoin
<1>9. QED
  BY <1>1, <1>3, <1>4, <1>7, <1>8

\* Statements that set the price of the lines, one each.
LEMMA PriceStatements ==
  ASSUME NEW ids \in Seq(Lines), NEW r, r.op \in LineOps \ {"reorder"},
         NEW p, p = [n \in DOMAIN ids |-> p[n]],
         \A n \in DOMAIN ids : \E v : p[n] = SetLine(ids[n], [price |-> v])
  PROVE  AreStatements(p, r)
<1>1. Len(ids) \in Nat /\ DOMAIN ids = 1..Len(ids) /\ \A n \in 1..Len(ids) : ids[n] \in Lines
  OBVIOUS
<1>2. IsSequence(p) /\ DOMAIN p = 1..Len(ids)
  BY <1>1, FunctionIsSequence
<1>3. ASSUME NEW n \in 1..Len(ids) PROVE IsStatement(p[n], r)
  <2>1. PICK v : p[n] = SetLine(ids[n], [price |-> v])
    BY <1>1
  <2> DEFINE set == [price |-> v]
  <2>2. p[n] = SetLine(ids[n], set) /\ ids[n] \in Lines /\ "seq" \notin DOMAIN set
    BY <1>1, <2>1
  <2> HIDE DEF set
  <2>3. p[n].kind = "line" /\ p[n].id \in Lines /\ p[n].set = set
    BY <2>2 DEF SetLine
  <2>4. QED
    BY <2>2, <2>3 DEF IsStatement
<1>4. QED
  BY <1>2, <1>3 DEF AreStatements

\* The lines a request works on: a quotation without any has the legacy line.
LEMMA RowsRead ==
  ASSUME IInv, LegacyIsALine, NEW h
  PROVE  LET rows == IF Live(lines) # {} THEN lines ELSE [lines EXCEPT ![Legacy] = LegacyRow(h)]
         IN  /\ \A l \in Lines : IsRow(rows[l])
             /\ Live(rows) # {}
             /\ Live(lines) = {} => rows[Legacy] # Gone
<1> DEFINE rows == IF Live(lines) # {} THEN lines ELSE [lines EXCEPT ![Legacy] = LegacyRow(h)]
<1>1. IsRow(LegacyRow(h)) /\ LegacyRow(h) # Gone
  <2>1. LegacyRow(h).seq = 1 /\ Gone.seq = 0 /\ "seq" \in DOMAIN LegacyRow(h)
    BY DEF LegacyRow, Gone
  <2>2. QED
    BY <2>1 DEF IsRow
<1>2. CASE Live(lines) # {}
  BY <1>2 DEF IInv, Stored
<1>3. CASE Live(lines) = {}
  <2>1. rows = [lines EXCEPT ![Legacy] = LegacyRow(h)]
    BY <1>3
  <2>2. rows[Legacy] = LegacyRow(h) /\ \A l \in Lines : l # Legacy => rows[l] = lines[l]
    BY <2>1 DEF IInv, Stored, LegacyIsALine
  <2>3. \A l \in Lines : IsRow(rows[l])
    BY <1>1, <2>2 DEF IInv, Stored
  <2>4. Legacy \in Live(rows)
    BY <1>1, <2>2 DEF Live, LegacyIsALine
  <2>5. QED
    BY <1>1, <2>2, <2>3, <2>4
<1>4. QED
  BY <1>2, <1>3

\* requireDraft lets the request go on, or not.
LEMMA GateStep ==
  ASSUME IInv, NEW t \in Txns, Gate(t)
  PROVE  IInv'
<1> DEFINE x == tx[t]
<1>1. UNCHANGED <<hdr, lines, proformas>> /\ x.pc = "gate" /\ Sound(x) /\ Agrees(x, hdr, lines)
  BY DEF Gate, IInv
<1>2. /\ DOMAIN x = Fields /\ IsRequest(x.req) /\ x.req.op \notin {"status", "issue"}
      /\ x.req.op = "price" => /\ x.plan.ids \in Seq(Lines)
                               /\ DOMAIN x.plan.set # {} /\ "status" \notin DOMAIN x.plan.set
  BY <1>1 DEF Sound, AtItsStep
<1>3. CASE Refuse(t)
  BY <1>1, <1>3, RefuseStep
<1>4. CASE x.req.op = "signoff" /\ Run(t, x, <<SetHeader([signed |-> x.seen.total])>>, "commit")
  <2> DEFINE set == [signed |-> x.seen.total]
             todo == <<SetHeader(set)>>
  <2>1. DOMAIN set # {} /\ "status" \notin DOMAIN set
    OBVIOUS
  <2>2. Run(t, x, todo, "commit")
    BY <1>4
  <2> HIDE DEF set
  <2>3. AreStatements(todo, x.req) /\ Len(todo) = 1 /\ todo[1].kind = "header"
    BY <1>2, <2>1, HeaderStatement
  <2> HIDE DEF todo
  <2>4. /\ IsSequence(todo) /\ Len(todo) # 0 /\ \A n \in DOMAIN todo : IsStatement(todo[n], x.req)
        /\ todo[Len(todo)].kind = "header" /\ x.pc \notin {"idle", "commit"}
    BY <1>1, <2>3 DEF AreStatements
  <2>5. QED
    BY <1>1, <1>2, <1>4, <2>2, <2>4, RunStep
<1>5. CASE /\ x.req.op # "signoff"
           /\ Become(t, [x EXCEPT !.doc = hdr,
                 !.pc = IF x.req.op = "terms" THEN "readTerms" ELSE "lines"])
  <2> DEFINE y == [x EXCEPT !.doc = hdr, !.pc = IF x.req.op = "terms" THEN "readTerms" ELSE "lines"]
  <2>1. /\ DOMAIN y = Fields /\ y.req = x.req /\ y.hdr = x.hdr /\ y.own = x.own /\ y.copy = x.copy
        /\ y.plan = x.plan /\ y.pc = IF x.req.op = "terms" THEN "readTerms" ELSE "lines"
    BY <1>2 DEF Fields
  <2>2. Become(t, y)
    BY <1>5
  <2> HIDE DEF y
  <2>3. AtItsStep(y)
    BY <1>2, <1>5, <2>1 DEF AtItsStep, Labels, Writing, IsRequest
  <2>4. Agrees(y, hdr, lines)
    BY <1>2, <1>5, <2>1 DEF Agrees
  <2>5. y.pc \notin Writing /\ y.pc # "commit" /\ x.pc \in BeforeWriting /\ x.pc # "commit"
    BY <1>1, <2>1 DEF BeforeWriting, Writing
  <2>6. QED
    BY <1>1, <2>1, <2>2, <2>3, <2>4, <2>5, MoveStep
<1>6. QED
  BY <1>3, <1>4, <1>5 DEF Gate

\* Statements that run before the request decides again.
LEMMA RunOnStep ==
  ASSUME IInv, NEW t \in Txns, NEW x, NEW todo, NEW next, Run(t, x, todo, next),
         UNCHANGED <<hdr, lines, proformas>>, tx[t].pc \notin {"idle", "commit"},
         DOMAIN x = Fields, x.req = tx[t].req, x.hdr = tx[t].hdr, x.own = tx[t].own,
         x.copy = tx[t].copy,
         AreStatements(todo, x.req), Len(todo) > 0,
         \/ next = "resync" /\ x.req.op \in {"add", "update", "remove", "setVat"}
         \/ next = "respec" /\ x.req.op = "reorder"
         \/ next = "commit" /\ x.req.op \in LineOps /\ todo[Len(todo)].kind = "header"
  PROVE  IInv'
<1>1. x.req.op \in LineOps /\ x.req.op \notin {"status", "issue"}
  BY DEF LineOps
<1>2. /\ IsSequence(todo) /\ Len(todo) # 0 /\ \A n \in DOMAIN todo : IsStatement(todo[n], x.req)
      /\ next = "commit" => todo[Len(todo)].kind = "header"
  BY DEF AreStatements
<1>3. QED
  BY <1>1, <1>2, RunStep

\* Whatever materializeLegacyLine and the request make of the lines is a list of
\* statements the request may run.
LEMMA LinesReadStep ==
  ASSUME IInv, NEW t \in Txns, LinesRead(t), LegacyIsALine, LinesAreFinite
  PROVE  IInv'
<1> DEFINE x     == tx[t]
           rows  == IF Live(lines) # {} THEN lines ELSE [lines EXCEPT ![Legacy] = LegacyRow(x.doc)]
           ids   == InOrder(rows)
           first == IF Live(lines) # {} THEN <<>> ELSE <<Insert(Legacy, rows[Legacy])>>
<1>1. UNCHANGED <<hdr, lines, proformas>> /\ x.pc = "lines" /\ Sound(x)
  BY DEF LinesRead, IInv
<1>2. /\ DOMAIN x = Fields /\ IsRequest(x.req) /\ x.req.op \in LineOps
      /\ x.req.op = "price" => /\ x.plan.ids \in Seq(Lines)
                               /\ DOMAIN x.plan.set # {} /\ "status" \notin DOMAIN x.plan.set
      /\ x.pc \notin {"idle", "commit"}
  BY <1>1 DEF Sound, AtItsStep
<1>3. /\ \A l \in Lines : IsRow(rows[l])
      /\ Live(rows) # {} /\ (Live(lines) = {} => rows[Legacy] # Gone)
  BY RowsRead
<1>4. /\ \/ /\ x.req.op = "add" /\ Room
            /\ Run(t, x, first \o <<Insert(FreshLine, [seq |-> rows[ids[Len(ids)]].seq + 1,
                                     list |-> x.req.list, price |-> x.req.list])>>, "resync")
         \/ /\ x.req.op = "update"
            /\ Run(t, x, first \o <<MustSet(x.req.id, [list |-> x.req.list, price |-> x.req.list])>>, "resync")
         \/ /\ x.req.op = "remove"
            /\ \/ Refuse(t)
               \/ Run(t, x, first \o <<Delete(x.req.id)>> \o Renumber(InOrderOf(rows, Lines \ {x.req.id})), "resync")
         \/ /\ x.req.op = "reorder"
            /\ \/ Refuse(t)
               \/ /\ Live(rows) = {x.req.ids[n] : n \in DOMAIN x.req.ids}
                  /\ Run(t, x, first \o Renumber(x.req.ids), "respec")
         \/ /\ x.req.op = "setVat"
            /\ LET rate == IF x.req.applies THEN VatPercent[x.vat] ELSE 0 IN
               Run(t, [x EXCEPT !.doc.rate = rate],
                   first \o <<SetHeader([rate |-> rate, version |-> x.vat])>>, "resync")
         \/ /\ x.req.op = "price"
            /\ \/ Refuse(t)
               \/ Run(t, x, first \o [n \in DOMAIN x.plan.ids |->
                                       SetLine(x.plan.ids[n], [price |-> x.plan.prices[n]])]
                             \o <<SetHeader(x.plan.set)>>, "commit")
  BY <1>2 DEF LinesRead, LineOps
<1> HIDE DEF rows
<1>5. AreStatements(first, x.req)
  <2>1. CASE Live(lines) # {}
    <3>1. first = <<>>
      BY <2>1
    <3>2. QED
      BY <3>1, NoStatements DEF AreStatements
  <2>2. CASE Live(lines) = {}
    <3> DEFINE s == Insert(Legacy, rows[Legacy])
    <3>1. s.kind = "insert" /\ s.id = Legacy /\ s.set = rows[Legacy]
      BY DEF Insert
    <3>2. IsStatement(s, x.req)
      BY <1>2, <1>3, <2>2, <3>1 DEF IsStatement, LegacyIsALine
    <3>3. first = <<s>>
      BY <2>2
    <3> HIDE DEF s, first
    <3>4. QED
      BY <3>2, <3>3, OneStatement
  <2>3. QED
    BY <2>1, <2>2
<1>6. /\ ids \in Seq(Lines) /\ Len(ids) > 0
      /\ \A l \in Lines : rows[l].seq \in Int
  <2>1. \A l \in Lines : rows[l].seq \in Int
    BY <1>3 DEF IsRow
  <2>2. QED
    BY <1>3, <2>1, InOrderIs
<1> HIDE DEF first, ids
<1>7. CASE Refuse(t)
  BY <1>1, <1>7, RefuseStep
<1>8. CASE x.req.op = "add" /\ ~Refuse(t)
  <2> DEFINE row  == [seq |-> rows[ids[Len(ids)]].seq + 1, list |-> x.req.list, price |-> x.req.list]
             s    == Insert(FreshLine, row)
             todo == first \o <<s>>
  <2>1. Room /\ Run(t, x, todo, "resync")
    BY <1>4, <1>8
  <2>2. FreshLine \in Lines
    BY <2>1 DEF FreshLine, Room
  <2>3. ids[Len(ids)] \in Lines
    BY <1>6
  <2>4. row.seq = rows[ids[Len(ids)]].seq + 1 /\ "seq" \in DOMAIN row
    OBVIOUS
  <2> HIDE DEF row
  <2>5. IsRow(row)
    BY <1>6, <2>3, <2>4 DEF IsRow
  <2>6. s.kind = "insert" /\ s.id = FreshLine /\ s.set = row
    BY DEF Insert
  <2> HIDE DEF s
  <2>7. IsStatement(s, x.req)
    BY <1>2, <1>8, <2>2, <2>5, <2>6 DEF IsStatement
  <2>8. AreStatements(<<s>>, x.req) /\ Len(<<s>>) = 1
    BY <2>7, OneStatement
  <2>9. AreStatements(todo, x.req) /\ Len(todo) > 0
    BY <1>5, <2>8, StatementsJoin
  <2> HIDE DEF todo
  <2>10. QED
    BY <1>1, <1>2, <1>8, <2>1, <2>9, RunOnStep
<1>9. CASE x.req.op = "update"
  <2> DEFINE set  == [list |-> x.req.list, price |-> x.req.list]
             s    == MustSet(x.req.id, set)
             todo == first \o <<s>>
  <2>1. Run(t, x, todo, "resync")
    BY <1>4, <1>9
  <2>2. x.req.id \in Lines /\ "seq" \notin DOMAIN set
    BY <1>2, <1>9 DEF IsRequest
  <2> HIDE DEF set
  <2>3. s.kind = "must" /\ s.id = x.req.id /\ s.set = set
    BY DEF MustSet
  <2> HIDE DEF s
  <2>4. IsStatement(s, x.req)
    BY <1>2, <1>9, <2>2, <2>3 DEF IsStatement
  <2>5. AreStatements(<<s>>, x.req) /\ Len(<<s>>) = 1
    BY <2>4, OneStatement
  <2>6. AreStatements(todo, x.req) /\ Len(todo) > 0
    BY <1>5, <2>5, StatementsJoin
  <2> HIDE DEF todo
  <2>7. QED
    BY <1>1, <1>2, <1>9, <2>1, <2>6, RunOnStep
<1>10. CASE x.req.op = "remove" /\ ~Refuse(t)
  <2> DEFINE s    == Delete(x.req.id)
             rest == InOrderOf(rows, Lines \ {x.req.id})
             todo == first \o <<s>> \o Renumber(rest)
  <2>1. Run(t, x, todo, "resync")
    BY <1>4, <1>10
  <2>2. x.req.id \in Lines
    BY <1>2, <1>10 DEF IsRequest
  <2>3. s.kind = "delete" /\ s.id = x.req.id
    BY DEF Delete
  <2>4. rest \in Seq(Lines)
    <3> DEFINE f == [l \in Lines |-> IF l \in Lines \ {x.req.id} THEN rows[l] ELSE Gone]
    <3>1. \A l \in Lines : f[l].seq \in Int
      BY <1>6 DEF Gone
    <3>2. rest = InOrder(f)
      BY DEF InOrderOf
    <3> HIDE DEF f, rest
    <3>3. QED
      BY <3>1, <3>2, InOrderIs
  <2> HIDE DEF s, rest
  <2>5. IsStatement(s, x.req)
    BY <1>2, <1>10, <2>2, <2>3 DEF IsStatement
  <2>6. AreStatements(<<s>>, x.req) /\ Len(<<s>>) = 1
    BY <2>5, OneStatement
  <2> DEFINE start == first \o <<s>>
  <2>7. AreStatements(start, x.req) /\ Len(start) > 0 /\ Len(start) \in Nat
    <3>1. AreStatements(start, x.req) /\ Len(start) = Len(first) + Len(<<s>>) /\ Len(first) \in Nat
      BY <1>5, <2>6, StatementsJoin
    <3>2. QED
      BY <2>6, <3>1
  <2>8. AreStatements(Renumber(rest), x.req)
    BY <1>2, <2>4, RenumberStatements
  <2> HIDE DEF start
  <2>9. AreStatements(start \o Renumber(rest), x.req) /\ Len(start \o Renumber(rest)) > 0
    BY <2>7, <2>8, StatementsJoin
  <2>10. AreStatements(todo, x.req) /\ Len(todo) > 0
    BY <2>9 DEF start
  <2> HIDE DEF todo
  <2>11. QED
    BY <1>1, <1>2, <1>10, <2>1, <2>10, RunOnStep
<1>11. CASE x.req.op = "reorder" /\ ~Refuse(t)
  <2> DEFINE todo == first \o Renumber(x.req.ids)
  <2>1. Run(t, x, todo, "respec") /\ Live(rows) = {x.req.ids[n] : n \in DOMAIN x.req.ids}
    BY <1>4, <1>11
  <2>2. x.req.ids \in Seq(Lines)
    BY <1>2, <1>11 DEF IsRequest
  <2>3. Len(x.req.ids) # 0
    BY <1>3, <2>1, <2>2
  <2>4. AreStatements(Renumber(x.req.ids), x.req) /\ Len(Renumber(x.req.ids)) > 0
    BY <1>2, <2>2, <2>3, RenumberStatements
  <2>5. AreStatements(todo, x.req) /\ Len(todo) > 0
    BY <1>5, <2>4, StatementsJoin
  <2> HIDE DEF todo
  <2>6. QED
    BY <1>1, <1>2, <1>11, <2>1, <2>5, RunOnStep
<1>12. CASE x.req.op = "setVat"
  <2> DEFINE rate == IF x.req.applies THEN VatPercent[x.vat] ELSE 0
             set  == [rate |-> rate, version |-> x.vat]
             y    == [x EXCEPT !.doc.rate = rate]
             todo == first \o <<SetHeader(set)>>
  <2>1. Run(t, y, todo, "resync")
    BY <1>4, <1>12
  <2>2. DOMAIN set # {} /\ "status" \notin DOMAIN set
    OBVIOUS
  <2> HIDE DEF set
  <2>3. AreStatements(<<SetHeader(set)>>, x.req) /\ Len(<<SetHeader(set)>>) = 1
    BY <1>12, <2>2, HeaderStatement
  <2>4. AreStatements(todo, x.req) /\ Len(todo) > 0
    BY <1>5, <2>3, StatementsJoin
  <2>5. DOMAIN y = Fields /\ y.req = x.req /\ y.hdr = x.hdr /\ y.own = x.own /\ y.copy = x.copy
    BY <1>2 DEF Fields
  <2> HIDE DEF todo, y
  <2>6. QED
    BY <1>1, <1>2, <1>12, <2>1, <2>4, <2>5, RunOnStep
<1>13. CASE x.req.op = "price" /\ ~Refuse(t)
  <2> DEFINE prices == [n \in DOMAIN x.plan.ids |-> SetLine(x.plan.ids[n], [price |-> x.plan.prices[n]])]
             todo   == first \o prices \o <<SetHeader(x.plan.set)>>
  <2>1. Run(t, x, todo, "commit")
    BY <1>4, <1>13
  <2>2. AreStatements(prices, x.req)
    <3>1. prices = [n \in DOMAIN x.plan.ids |-> prices[n]]
      OBVIOUS
    <3>2. \A n \in DOMAIN x.plan.ids : prices[n] = SetLine(x.plan.ids[n], [price |-> x.plan.prices[n]])
      OBVIOUS
    <3>3. x.plan.ids \in Seq(Lines) /\ x.req.op \in LineOps \ {"reorder"}
      BY <1>2, <1>13
    <3> HIDE DEF prices
    <3>4. QED
      BY <3>1, <3>2, <3>3, PriceStatements
  <2>3. IsStatement(SetHeader(x.plan.set), x.req)
    BY <1>2, <1>13 DEF SetHeader, IsStatement
  <2>4. SetHeader(x.plan.set).kind = "header"
    BY DEF SetHeader
  <2> HIDE DEF prices
  <2> DEFINE start == first \o prices
  <2>5. AreStatements(start, x.req)
    BY <1>5, <2>2, StatementsJoin
  <2> HIDE DEF start
  <2>6. todo = start \o <<SetHeader(x.plan.set)>>
    BY DEF start
  <2> HIDE DEF todo
  <2> DEFINE h == SetHeader(x.plan.set)
  <2> HIDE DEF h
  <2>7. IsStatement(h, x.req) /\ todo = start \o <<h>>
    BY <2>3, <2>6 DEF h
  <2>8. AreStatements(todo, x.req)
    BY <2>5, <2>7, LastStatement
  <2>9. Len(todo) > 0
    BY <2>5, <2>7, LastStatement
  <2>10. todo[Len(todo)] = h
    BY <2>5, <2>7, LastStatement
  <2>11. todo[Len(todo)].kind = "header"
    BY <2>4, <2>10 DEF h
  <2>12. QED
    BY <1>1, <1>2, <1>13, <2>1, <2>8, <2>9, <2>11, RunOnStep
<1>14. QED
  BY <1>2, <1>7, <1>8, <1>9, <1>10, <1>11, <1>12, <1>13 DEF LineOps

-----------------------------------------------------------------------------
(* What a transaction decides on the lines as it has written them.         *)

\* It sees its own lines in place of the stored ones.
LEMMA ViewIs ==
  ASSUME IInv, NEW t \in Txns
  PROVE  /\ View(t) = [l \in Lines |-> View(t)[l]]
         /\ \A l \in Lines : /\ IsRow(View(t)[l]) /\ View(t)[l].seq \in Int
                             /\ l \in DOMAIN tx[t].own => View(t)[l] = tx[t].own[l]
                             /\ l \notin DOMAIN tx[t].own => View(t)[l] = lines[l]
<1>1. DOMAIN tx[t].own \subseteq Lines /\ \A l \in DOMAIN tx[t].own : IsRow(tx[t].own[l])
  BY DEF IInv, Sound, HasWritten
<1>2. DOMAIN lines = Lines /\ \A l \in Lines : IsRow(lines[l])
  BY DEF IInv, Stored
<1>3. View(t) = [l \in Lines |-> IF l \in DOMAIN tx[t].own THEN tx[t].own[l] ELSE lines[l]]
  BY <1>1, <1>2 DEF View, Over
<1>4. \A l \in Lines : View(t)[l] = IF l \in DOMAIN tx[t].own THEN tx[t].own[l] ELSE lines[l]
  BY <1>3
<1>5. \A l \in Lines : IsRow(View(t)[l])
  BY <1>1, <1>2, <1>4
<1>6. QED
  BY <1>3, <1>4, <1>5 DEF IsRow

\* The header rebuilt from the lines keeps its status.
LEMMA RebuiltIs ==
  ASSUME NEW total, NEW lists
  PROVE  DOMAIN Rebuilt(total, lists) # {} /\ "status" \notin DOMAIN Rebuilt(total, lists)
<1> DEFINE f == [sub |-> total.sub, tax |-> total.tax, total |-> total.total, calc |-> Null, signed |-> Null]
           g == IF lists = <<>> THEN <<>> ELSE [spec |-> lists[1]]
<1>1. DOMAIN f = {"sub", "tax", "total", "calc", "signed"}
  OBVIOUS
<1>2. DOMAIN g \subseteq {"spec"}
  BY NoStatements
<1>3. Rebuilt(total, lists) = Over(f, g)
  BY DEF Rebuilt
<1> HIDE DEF f, g
<1>4. DOMAIN Over(f, g) = DOMAIN f \cup DOMAIN g
  BY DEF Over
<1>5. QED
  BY <1>1, <1>2, <1>3, <1>4

\* resyncHeaderFromLines ends with the header, which a writer of lines so holds when it commits.
LEMMA ResyncStep ==
  ASSUME IInv, NEW t \in Txns, Resync(t), LinesAreFinite
  PROVE  IInv'
<1> DEFINE x      == tx[t]
           rows   == View(t)
           ids    == InOrder(rows)
           lists  == Column(rows, ids, "list")
           total  == QuoteTotals(lists, NoSheet(lists), x.doc.rate)
           stale  == Stale(rows)
           prices == [n \in DOMAIN stale |-> SetLine(stale[n], [price |-> rows[stale[n]].list])]
           h      == SetHeader(Rebuilt(total, lists))
           todo   == prices \o <<h>>
<1>1. UNCHANGED <<hdr, lines, proformas>> /\ x.pc = "resync" /\ Sound(x) /\ Run(t, x, todo, "commit")
  BY DEF Resync, IInv
<1>2. /\ DOMAIN x = Fields /\ x.req.op \in {"add", "update", "remove", "setVat"}
      /\ x.pc \notin {"idle", "commit"} /\ x.req.op \in LineOps \ {"reorder"}
  BY <1>1 DEF Sound, AtItsStep, LineOps
<1>3. stale \in Seq(Lines)
  <2> DEFINE S == {l \in Lines : rows[l].price # rows[l].list}
             f == [l \in Lines |-> IF l \in S THEN rows[l] ELSE Gone]
  <2>1. \A l \in Lines : rows[l].seq \in Int
    BY ViewIs
  <2>2. \A l \in Lines : f[l].seq \in Int
    BY <2>1 DEF Gone
  <2>3. stale = InOrder(f)
    BY DEF Stale, InOrderOf
  <2> HIDE DEF f, stale
  <2>4. QED
    BY <2>2, <2>3, InOrderIs
<1>4. AreStatements(prices, x.req)
  <2>1. prices = [n \in DOMAIN stale |-> prices[n]]
    OBVIOUS
  <2>2. \A n \in DOMAIN stale : prices[n] = SetLine(stale[n], [price |-> rows[stale[n]].list])
    OBVIOUS
  <2> HIDE DEF prices, stale, rows
  <2>3. QED
    BY <1>2, <1>3, <2>1, <2>2, PriceStatements
<1>5. h.kind = "header" /\ h.set = Rebuilt(total, lists)
  BY DEF SetHeader
<1> HIDE DEF total, lists
<1>6. DOMAIN h.set # {} /\ "status" \notin DOMAIN h.set
  BY <1>5, RebuiltIs
<1> HIDE DEF prices, h, todo
<1>7. IsStatement(h, x.req)
  BY <1>2, <1>5, <1>6 DEF IsStatement
<1>8. todo = prices \o <<h>>
  BY DEF todo
<1>9. AreStatements(todo, x.req)
  BY <1>4, <1>7, <1>8, LastStatement
<1>10. Len(todo) > 0
  BY <1>4, <1>7, <1>8, LastStatement
<1>11. todo[Len(todo)] = h
  BY <1>4, <1>7, <1>8, LastStatement
<1>12. todo[Len(todo)].kind = "header"
  BY <1>5, <1>11
<1>13. QED
  BY <1>1, <1>2, <1>9, <1>10, <1>12, RunOnStep

\* A reorder that finds no line left has written none.
LEMMA RespecStep ==
  ASSUME IInv, NEW t \in Txns, Respec(t)
  PROVE  IInv'
<1> DEFINE x == tx[t]
<1>1. UNCHANGED <<hdr, lines, proformas>> /\ x.pc = "respec" /\ Sound(x)
  BY DEF Respec, IInv
<1>2. /\ DOMAIN x = Fields /\ x.req.op = "reorder" /\ x.pc \notin {"idle", "commit"} /\ IsRequest(x.req)
      /\ x.req.op \in LineOps /\ x.copy = {}
  BY <1>1 DEF Sound, AtItsStep, HasWritten, LineOps
<1>3. CASE Live(View(t)) = {}
  <2> DEFINE y == [x EXCEPT !.pc = "commit"]
  <2>1. /\ DOMAIN y = Fields /\ y.req = x.req /\ y.hdr = x.hdr /\ y.own = x.own /\ y.copy = x.copy
        /\ y.pc = "commit"
    BY <1>2 DEF Fields
  <2>2. Become(t, y)
    BY <1>3 DEF Respec
  <2> HIDE DEF y
  <2>3. DOMAIN x.own = {}
    <3> SUFFICES ASSUME NEW l \in DOMAIN x.own PROVE FALSE
      OBVIOUS
    <3>1. l \in Lines /\ x.own[l] # Gone
      BY <1>1, <1>2 DEF Sound, HasWritten
    <3>2. View(t)[l] = x.own[l]
      BY <3>1, ViewIs
    <3>3. QED
      BY <1>3, <3>1, <3>2 DEF Live
  <2>4. AtItsStep(y)
    BY <1>2, <2>1 DEF AtItsStep, Labels, Writing
  <2>5. Agrees(y, hdr, lines)
    BY <1>2, <2>1 DEF Agrees
  <2>6. y.pc \notin Writing /\ y.pc \notin BeforeWriting /\ x.pc # "commit"
    BY <1>1, <2>1 DEF BeforeWriting, Writing
  <2>7. QED
    BY <1>1, <2>1, <2>2, <2>3, <2>4, <2>5, <2>6, MoveStep
<1>4. CASE Live(View(t)) # {}
  <2> DEFINE set  == [spec |-> View(t)[InOrder(View(t))[1]].list]
             todo == <<SetHeader(set)>>
  <2>1. Run(t, x, todo, "commit")
    BY <1>4 DEF Respec
  <2>2. DOMAIN set # {} /\ "status" \notin DOMAIN set
    OBVIOUS
  <2> HIDE DEF set
  <2>3. AreStatements(todo, x.req) /\ Len(todo) = 1 /\ todo[1].kind = "header"
    BY <1>2, <2>2, HeaderStatement
  <2> HIDE DEF todo
  <2>4. Len(todo) > 0 /\ todo[Len(todo)].kind = "header"
    BY <2>3
  <2>5. QED
    BY <1>1, <1>2, <2>1, <2>3, <2>4, RunOnStep
<1>5. QED
  BY <1>3, <1>4

-----------------------------------------------------------------------------
(* The statements.                                                         *)

\* What a statement may leave of a transaction x: the request goes on as z.
Wrote(x, z) ==
  /\ DOMAIN z = Fields
  /\ z.req = x.req /\ z.todo = x.todo /\ z.next = x.next /\ z.copy = x.copy
  /\ DOMAIN z.own \subseteq Lines /\ \A l \in DOMAIN z.own : IsRow(z.own[l])
  /\ z.req.op \notin LineOps => DOMAIN z.own = {}
  /\ z.req.op = "reorder" => \A l \in DOMAIN z.own : z.own[l] # Gone
  /\ "status" \in DOMAIN z.hdr => z.req.op \in {"status", "issue"}

\* A statement is done: on to the next, or to what follows the last.
LEMMA PopStep ==
  ASSUME IInv, NEW t \in Txns, tx[t].pc \in Writing, UNCHANGED <<hdr, lines, proformas>>,
         NEW z, Wrote(tx[t], z), Become(t, Pop(z)),
         Len(z.todo) = 1 /\ z.next = "commit" /\ DOMAIN z.own # {} => DOMAIN z.hdr # {},
         z.req.op = "status" =>
           ("status" \in DOMAIN z.hdr => z.hdr.status \in Transitions[hdr.status] /\ z.hdr.status # Converted),
         z.req.op = "issue" =>
           z.hdr = [status |-> Converted] /\ hdr.status \in {"PENDING_APPROVAL", "APPROVED"},
         DOMAIN z.hdr # {} => \A u \in Others(t) : ~HoldsHeader(u)
  PROVE  IInv'
<1> DEFINE x == tx[t]
           y == Pop(z)
<1>1. Sound(x) /\ IsRequest(x.req) /\ x.copy = {}
  BY DEF IInv, Sound, AtItsStep, HasWritten, Writing
<1>2. /\ IsSequence(z.todo) /\ Len(z.todo) # 0 /\ Len(z.todo) \in Nat
      /\ DOMAIN z.todo = 1..Len(z.todo)
      /\ \A n \in DOMAIN z.todo : IsStatement(z.todo[n], z.req)
      /\ z.next = "commit" => z.todo[Len(z.todo)].kind = "header"
      /\ z.req.op \in {"status", "issue"} => Len(z.todo) = 1
  BY <1>1, SequenceIs DEF Sound, HasToWrite, Wrote
<1>3. \/ z.next = "guard" /\ z.req.op = "issue"
      \/ z.next = "resync" /\ z.req.op \in {"add", "update", "remove", "setVat"}
      \/ z.next = "respec" /\ z.req.op = "reorder"
      \/ z.next = "commit" /\ z.req.op \in LineOps \cup {"signoff", "status"}
  BY <1>1 DEF Sound, AtItsStep, Wrote
<1>4. CASE Len(z.todo) = 1
  <2>1. /\ DOMAIN y = Fields /\ y.req = z.req /\ y.hdr = z.hdr /\ y.own = z.own /\ y.copy = z.copy
        /\ y.pc = z.next
    BY <1>4 DEF Pop, Wrote, Fields
  <2> HIDE DEF y
  <2>2. y.pc \in {"guard", "resync", "respec", "commit"}
    BY <1>3, <2>1
  <2>3. IsRequest(y.req)
    BY <1>1, <2>1 DEF Wrote
  <2>4. AtItsStep(y)
    BY <1>3, <2>1, <2>2, <2>3 DEF AtItsStep, Labels, Writing
  <2>5. HasWritten(y)
    BY <1>1, <1>3, <1>4, <2>1, <2>2 DEF HasWritten, Wrote, BeforeWriting
  <2>6. HasToWrite(y)
    BY <2>2 DEF HasToWrite, Writing
  <2>7. Agrees(y, hdr, lines)
    <3>1. CASE z.req.op = "issue"
      <4>1. y.pc = "guard"
        BY <1>3, <2>1, <3>1 DEF LineOps
      <4>2. QED
        BY <2>1, <3>1, <4>1 DEF Agrees
    <3>2. CASE z.req.op # "issue"
      BY <2>1, <3>2 DEF Agrees
    <3>3. QED
      BY <3>1, <3>2
  <2>8. Become(t, y) /\ Sound(y)
    BY <2>1, <2>4, <2>5, <2>6 DEF Sound, y
  <2>9. QED
    BY <2>1, <2>7, <2>8, OneGoesOn
<1>5. CASE Len(z.todo) # 1
  <2> DEFINE q == Tail(z.todo)
  <2>1. /\ DOMAIN y = Fields /\ y.req = z.req /\ y.hdr = z.hdr /\ y.own = z.own /\ y.copy = z.copy
        /\ y.pc = "write" /\ y.next = z.next /\ y.todo = q
    BY <1>5 DEF Pop, Wrote, Fields
  <2> HIDE DEF y
  <2>2. /\ IsSequence(q) /\ Len(q) = Len(z.todo) - 1
        /\ \A n \in DOMAIN q : n + 1 \in DOMAIN z.todo /\ q[n] = z.todo[n + 1]
    BY <1>2, TailIs
  <2>3. Len(q) \in Nat /\ DOMAIN q = 1..Len(q)
    BY <2>2, SequenceIs
  <2> HIDE DEF q
  <2>4. Len(q) # 0 /\ Len(q) \in DOMAIN q /\ Len(q) + 1 = Len(z.todo)
    <3>1. Len(z.todo) \in Nat /\ Len(z.todo) # 0 /\ Len(z.todo) # 1
      BY <1>2, <1>5
    <3>2. Len(q) = Len(z.todo) - 1
      BY <2>2
    <3>3. Len(q) # 0 /\ Len(q) + 1 = Len(z.todo)
      BY <3>1, <3>2
    <3>4. Len(q) \in 1..Len(q)
      BY <2>3, <3>3
    <3>5. QED
      BY <2>3, <3>3, <3>4
  <2>5. \A n \in DOMAIN q : IsStatement(q[n], z.req)
    BY <1>2, <2>2
  <2>6. z.next = "commit" => q[Len(q)].kind = "header"
    BY <1>2, <2>2, <2>4
  <2>7. z.req.op \notin {"status", "issue"}
    BY <1>2, <1>5
  <2>8. HasToWrite(y)
    BY <2>1, <2>2, <2>4, <2>5, <2>6, <2>7 DEF HasToWrite
  <2>9. AtItsStep(y)
    BY <1>1, <1>3, <2>1 DEF AtItsStep, Labels, Writing, Wrote
  <2>10. HasWritten(y)
    BY <1>1, <2>1 DEF HasWritten, Wrote, BeforeWriting
  <2>11. Agrees(y, hdr, lines)
    BY <2>1, <2>7 DEF Agrees
  <2>12. Become(t, y) /\ Sound(y)
    BY <2>1, <2>8, <2>9, <2>10 DEF Sound, y
  <2>13. QED
    BY <2>1, <2>11, <2>12, OneGoesOn
<1>6. QED
  BY <1>4, <1>5

\* The statement a transaction is at.
LEMMA HeadIs ==
  ASSUME IInv, NEW t \in Txns, tx[t].pc \in Writing
  PROVE  /\ Head(tx[t].todo) = tx[t].todo[1]
         /\ IsStatement(tx[t].todo[1], tx[t].req) /\ IsRequest(tx[t].req)
         /\ tx[t].pc = "index" => tx[t].todo[1].kind # "header"
         /\ tx[t].next = "commit" /\ Len(tx[t].todo) = 1 => tx[t].todo[1].kind = "header"
         /\ tx[t].req.op \in {"status", "issue"} => DOMAIN tx[t].hdr = {}
         /\ DOMAIN tx[t] = Fields
<1>1. Sound(tx[t])
  BY DEF IInv
<1>2. IsSequence(tx[t].todo) /\ Len(tx[t].todo) # 0
  BY <1>1 DEF Sound, HasToWrite
<1>3. Head(tx[t].todo) = tx[t].todo[1] /\ 1 \in DOMAIN tx[t].todo
  BY <1>2, TailIs
<1>4. QED
  BY <1>1, <1>3 DEF Sound, HasToWrite, AtItsStep, Writing

\* Columns written over columns.
LEMMA OverIs ==
  ASSUME NEW f, NEW g
  PROVE  /\ DOMAIN Over(f, g) = DOMAIN f \cup DOMAIN g
         /\ \A c \in DOMAIN f : Over(f, g)[c] = f[c]
         /\ \A c \in DOMAIN g : c \notin DOMAIN f => Over(f, g)[c] = g[c]
         /\ Over(f, g) = [c \in DOMAIN f \cup DOMAIN g |-> Over(f, g)[c]]
BY DEF Over

\* What a request reads of the header is what is stored, if it has not written it.
LEMMA HeaderView ==
  ASSUME IInv, NEW t \in Txns
  PROVE  /\ \A c \in Columns : c \notin DOMAIN tx[t].hdr => HdrView(t)[c] = hdr[c]
         /\ DOMAIN tx[t].hdr = {} => HdrView(t) = hdr
<1>1. hdr = [c \in DOMAIN hdr |-> hdr[c]] /\ Columns \subseteq DOMAIN hdr
  BY DEF IInv, Stored
<1>2. HdrView(t) = Over(tx[t].hdr, hdr)
  BY DEF HdrView
<1>3. \A c \in Columns : c \notin DOMAIN tx[t].hdr => HdrView(t)[c] = hdr[c]
  BY <1>1, <1>2 DEF Over
<1>4. ASSUME DOMAIN tx[t].hdr = {} PROVE HdrView(t) = hdr
  BY <1>1, <1>2, <1>4 DEF Over
<1>5. QED
  BY <1>3, <1>4

\* An update of the header waits until nobody else has it, and its condition is
\* tried on the row as it is by then.
LEMMA WriteHeaderStep ==
  ASSUME IInv, NEW t \in Txns, WriteHeader(t)
  PROVE  IInv'
<1> DEFINE x == tx[t]
           s == x.todo[1]
           z == [x EXCEPT !.hdr = Over(s.set, @)]
<1>1. UNCHANGED <<hdr, lines, proformas>> /\ x.pc = "write" /\ Sound(x) /\ x.pc \in Writing
  BY DEF WriteHeader, IInv, Writing
<1>2. /\ Head(x.todo) = s /\ IsStatement(s, x.req) /\ IsRequest(x.req) /\ DOMAIN x = Fields
      /\ x.req.op \in {"status", "issue"} => DOMAIN x.hdr = {}
  BY <1>1, HeadIs
<1>3. /\ s.kind = "header" /\ \A u \in Others(t) : ~HoldsHeader(u)
      /\ IF HdrView(t).status \notin s.from THEN Refuse(t) ELSE Become(t, Pop(z))
  BY <1>2 DEF WriteHeader
<1>4. CASE Refuse(t)
  BY <1>1, <1>4, RefuseStep
<1>5. CASE HdrView(t).status \in s.from /\ Become(t, Pop(z))
  <2>1. /\ DOMAIN z = Fields /\ z.req = x.req /\ z.todo = x.todo /\ z.next = x.next /\ z.copy = x.copy
        /\ z.own = x.own /\ z.hdr = Over(s.set, x.hdr)
    BY <1>2 DEF Fields
  <2>2. /\ DOMAIN z.hdr = DOMAIN s.set \cup DOMAIN x.hdr /\ DOMAIN z.hdr # {}
        /\ \A c \in DOMAIN s.set : z.hdr[c] = s.set[c]
        /\ DOMAIN x.hdr = {} => z.hdr = [c \in DOMAIN s.set |-> s.set[c]]
    <3>1. DOMAIN s.set # {}
      BY <1>2, <1>3 DEF IsStatement
    <3>2. Over(s.set, x.hdr) = [c \in DOMAIN s.set \cup DOMAIN x.hdr |-> Over(s.set, x.hdr)[c]]
      BY DEF Over
    <3>3. /\ DOMAIN Over(s.set, x.hdr) = DOMAIN s.set \cup DOMAIN x.hdr
          /\ \A c \in DOMAIN s.set : Over(s.set, x.hdr)[c] = s.set[c]
      BY DEF Over
    <3> HIDE DEF z
    <3>4. QED
      BY <2>1, <3>1, <3>2, <3>3
  <2>3. Become(t, Pop(z))
    BY <1>5
  <2> HIDE DEF z
  <2>4. Wrote(x, z)
    <3>1. "status" \in DOMAIN s.set => x.req.op \in {"status", "issue"}
      BY <1>2, <1>3 DEF IsStatement
    <3>2. QED
      BY <1>1, <2>1, <2>2, <3>1 DEF Wrote, Sound, HasWritten
  <2>5. ASSUME x.req.op \in {"status", "issue"}
        PROVE  DOMAIN x.hdr = {} /\ HdrView(t) = hdr
    BY <1>2, <2>5, HeaderView
  <2>6. ASSUME x.req.op = "status"
        PROVE  z.hdr.status \in Transitions[hdr.status] /\ z.hdr.status # Converted
    <3>1. PICK from \in DOMAIN Transitions :
            s.from = {from} /\ s.set = [status |-> x.req.to] /\ x.req.to \in Transitions[from]
      BY <1>2, <1>3, <2>6 DEF IsStatement
    <3>2. hdr.status = from
      BY <1>5, <2>5, <2>6, <3>1
    <3>3. "status" \in DOMAIN s.set /\ s.set.status = x.req.to
      BY <3>1
    <3>4. z.hdr.status = x.req.to
      BY <2>2, <3>3
    <3>5. x.req.to # Converted
      BY <1>2, <2>6 DEF IsRequest
    <3>6. QED
      BY <3>1, <3>2, <3>4, <3>5
  <2>7. ASSUME x.req.op = "issue"
        PROVE  z.hdr = [status |-> Converted] /\ hdr.status \in {"PENDING_APPROVAL", "APPROVED"}
    <3>1. s.from = {"PENDING_APPROVAL", "APPROVED"} /\ s.set = [status |-> Converted]
      BY <1>2, <1>3, <2>7 DEF IsStatement
    <3>2. hdr.status \in s.from
      BY <1>5, <2>5, <2>7
    <3>3. [c \in DOMAIN s.set |-> s.set[c]] = s.set
      BY <3>1
    <3>4. QED
      BY <2>2, <2>5, <2>7, <3>1, <3>2, <3>3
  <2> HIDE DEF s
  <2>8. /\ z.req.op = "status" =>
             ("status" \in DOMAIN z.hdr => z.hdr.status \in Transitions[hdr.status] /\ z.hdr.status # Converted)
        /\ z.req.op = "issue" =>
             z.hdr = [status |-> Converted] /\ hdr.status \in {"PENDING_APPROVAL", "APPROVED"}
        /\ Len(z.todo) = 1 /\ z.next = "commit" /\ DOMAIN z.own # {} => DOMAIN z.hdr # {}
    BY <2>1, <2>2, <2>6, <2>7
  <2>9. QED
    BY <1>1, <1>3, <2>3, <2>4, <2>8, PopStep
<1>6. QED
  BY <1>3, <1>4, <1>5

\* A statement on a line is done by a request that writes lines.
LEMMA LinePopStep ==
  ASSUME IInv, NEW t \in Txns, tx[t].pc \in Writing, UNCHANGED <<hdr, lines, proformas>>,
         tx[t].todo[1].kind # "header",
         NEW z, Wrote(tx[t], z), z.hdr = tx[t].hdr, Become(t, Pop(z))
  PROVE  IInv'
<1>1. tx[t].req.op \in LineOps
  BY HeadIs DEF IsStatement
<1>2. z.req.op \notin {"status", "issue"} /\ ~(Len(z.todo) = 1 /\ z.next = "commit")
  BY <1>1, HeadIs DEF Wrote, LineOps
<1>3. DOMAIN z.hdr # {} => \A u \in Others(t) : ~HoldsHeader(u)
  BY HolderIsAlone
<1>4. QED
  BY <1>2, <1>3, PopStep

\* And waits for the index first, if the line has a new number.
LEMMA ToTheIndexStep ==
  ASSUME IInv, NEW t \in Txns, tx[t].pc = "write", UNCHANGED <<hdr, lines, proformas>>,
         tx[t].todo[1].kind # "header",
         NEW z, Wrote(tx[t], z), z.hdr = tx[t].hdr, z.pc = "index", Become(t, z)
  PROVE  IInv'
<1> DEFINE x == tx[t]
<1>1. Sound(x) /\ x.pc \in Writing
  BY DEF IInv, Writing
<1>2. x.req.op \in LineOps /\ IsRequest(x.req)
  BY <1>1, HeadIs DEF IsStatement
<1>3. z.req.op \notin {"status", "issue"}
  BY <1>2 DEF Wrote, LineOps
<1>4. AtItsStep(z)
  BY <1>1, <1>2 DEF Sound, AtItsStep, Wrote, Labels, Writing
<1>5. HasWritten(z)
  BY <1>1 DEF Sound, HasWritten, Wrote, BeforeWriting
<1>6. HasToWrite(z)
  BY <1>1, <1>3 DEF Sound, HasToWrite, Wrote
<1>7. Sound(z) /\ Agrees(z, hdr, lines)
  BY <1>3, <1>4, <1>5, <1>6 DEF Sound, Agrees, Wrote
<1>8. QED
  BY <1>7, HolderIsAlone, OneGoesOn

\* A statement on a line writes nothing but lines of its own transaction.
LEMMA WriteLineStep ==
  ASSUME IInv, NEW t \in Txns, WriteLine(t)
  PROVE  IInv'
<1> DEFINE x   == tx[t]
           s   == x.todo[1]
           row == View(t)[s.id]
           new == CASE s.kind = "delete" -> Gone
                    [] s.kind = "insert" -> s.set
                    [] OTHER             -> Over(s.set, row)
           y   == [x EXCEPT !.own = Over([l \in {s.id} |-> new], @),
                            !.keys = IF row = Gone THEN @ ELSE @ \cup {row.seq}]
           z   == [y EXCEPT !.pc = "index"]
<1>1. UNCHANGED <<hdr, lines, proformas>> /\ x.pc = "write" /\ Sound(x) /\ x.pc \in Writing
  BY DEF WriteLine, IInv, Writing
<1>2. /\ Head(x.todo) = s /\ IsStatement(s, x.req) /\ IsRequest(x.req) /\ DOMAIN x = Fields
  BY <1>1, HeadIs
<1>3. /\ s.kind # "header"
      /\ \/ Refuse(t)
         \/ s.kind = "insert" /\ row = Gone /\ Become(t, z)
         \/ s.kind # "insert" /\ row = Gone /\ Become(t, Pop(x))
         \/ s.kind # "insert" /\ row # Gone /\ (Become(t, z) \/ Become(t, Pop(y)))
  BY <1>2 DEF WriteLine
<1>4. s.id \in Lines /\ x.req.op \in LineOps /\ IsRow(row)
  BY <1>2, <1>3, ViewIs DEF IsStatement
<1>5. IsRow(new)
  <2>1. CASE s.kind = "delete"
    BY <2>1 DEF IsRow, Gone
  <2>2. CASE s.kind = "insert"
    BY <1>2, <2>2 DEF IsStatement
  <2>3. CASE s.kind \in {"line", "must"}
    <3>1. new = Over(s.set, row)
      BY <2>3
    <3>2. "seq" \in DOMAIN s.set => s.set.seq \in Int
      BY <1>2, <2>3 DEF IsStatement
    <3> HIDE DEF new, row, s
    <3>3. QED
      BY <1>4, <3>1, <3>2 DEF IsRow, Over
  <2>4. QED
    BY <1>2, <1>3, <2>1, <2>2, <2>3 DEF IsStatement
<1>6. x.req.op = "reorder" => new # Gone
  <2> SUFFICES ASSUME x.req.op = "reorder" PROVE new # Gone
    OBVIOUS
  <2>1. CASE s.kind = "insert"
    BY <1>2, <2>1 DEF IsStatement
  <2>2. CASE s.kind = "line" /\ "seq" \in DOMAIN s.set /\ s.set.seq # 0
    <3>1. new = Over(s.set, row) /\ Gone.seq = 0
      BY <2>2 DEF Gone
    <3> HIDE DEF new, row, s
    <3>2. new.seq = s.set.seq
      BY <2>2, <3>1 DEF Over
    <3>3. QED
      BY <2>2, <3>1, <3>2
  <2>3. QED
    BY <1>2, <1>3, <2>1, <2>2 DEF IsStatement
<1> HIDE DEF new
<1> DEFINE own == Over([l \in {s.id} |-> new], x.own)
<1>7. /\ DOMAIN own = {s.id} \cup DOMAIN x.own
      /\ own[s.id] = new /\ \A l \in DOMAIN x.own : l # s.id => own[l] = x.own[l]
  <2> DEFINE f == [l \in {s.id} |-> new]
  <2>1. DOMAIN f = {s.id} /\ f[s.id] = new /\ own = Over(f, x.own)
    OBVIOUS
  <2> HIDE DEF f, own
  <2>2. QED
    BY <2>1 DEF Over
<1>8. /\ DOMAIN y = Fields /\ y.req = x.req /\ y.todo = x.todo /\ y.next = x.next /\ y.copy = x.copy
      /\ y.hdr = x.hdr /\ y.own = own
  BY <1>2 DEF Fields
<1>9. /\ DOMAIN z = Fields /\ z.req = x.req /\ z.todo = x.todo /\ z.next = x.next /\ z.copy = x.copy
      /\ z.hdr = x.hdr /\ z.own = own /\ z.pc = "index"
  BY <1>2 DEF Fields
<1>10. CASE Refuse(t)
  BY <1>1, <1>10, RefuseStep
<1> HIDE DEF own
<1>11. CASE Become(t, z)
  <2>1. Become(t, z)
    BY <1>11
  <2> HIDE DEF z
  <2>2. Wrote(x, z)
    BY <1>1, <1>4, <1>5, <1>6, <1>7, <1>9 DEF Wrote, Sound, HasWritten
  <2>3. QED
    BY <1>1, <1>3, <1>9, <2>1, <2>2, ToTheIndexStep
<1>12. CASE Become(t, Pop(x))
  <2>1. Wrote(x, x)
    BY <1>1 DEF Wrote, Sound, HasWritten
  <2>2. QED
    BY <1>1, <1>3, <1>12, <2>1, LinePopStep
<1>13. CASE Become(t, Pop(y))
  <2>1. Become(t, Pop(y))
    BY <1>13
  <2> HIDE DEF y
  <2>2. Wrote(x, y)
    BY <1>1, <1>4, <1>5, <1>6, <1>7, <1>8 DEF Wrote, Sound, HasWritten
  <2>3. QED
    BY <1>1, <1>3, <1>8, <2>1, <2>2, LinePopStep
<1>14. QED
  BY <1>3, <1>10, <1>11, <1>12, <1>13

\* The entry in the unique index changes no row.
LEMMA IndexLineStep ==
  ASSUME IInv, NEW t \in Txns, IndexLine(t)
  PROVE  IInv'
<1> DEFINE x == tx[t]
<1>1. UNCHANGED <<hdr, lines, proformas>> /\ x.pc = "index" /\ Sound(x) /\ x.pc \in Writing
  BY DEF IndexLine, IInv, Writing
<1>2. x.todo[1].kind # "header" /\ DOMAIN x = Fields
  BY <1>1, HeadIs
<1>3. CASE Refuse(t)
  BY <1>1, <1>3, RefuseStep
<1>4. CASE ~Refuse(t)
  <2> DEFINE z == [x EXCEPT !.keys = @ \cup {x.own[Head(x.todo).id].seq}]
  <2>1. Become(t, Pop(z))
    BY <1>4 DEF IndexLine
  <2>2. /\ DOMAIN z = Fields /\ z.req = x.req /\ z.todo = x.todo /\ z.next = x.next /\ z.copy = x.copy
        /\ z.hdr = x.hdr /\ z.own = x.own
    BY <1>2 DEF Fields
  <2> HIDE DEF z
  <2>3. Wrote(x, z)
    BY <1>1, <2>2 DEF Wrote, Sound, HasWritten
  <2>4. QED
    BY <1>1, <1>2, <2>1, <2>2, <2>3, LinePopStep
<1>5. QED
  BY <1>3, <1>4

-----------------------------------------------------------------------------
(* Payment terms and proforma issue.                                       *)

\* Payment terms are neither header nor lines.
LEMMA TermsStep ==
  ASSUME IInv, NEW t \in Txns, ReadTerms(t) \/ DeleteTerms(t) \/ InsertTerms(t)
  PROVE  IInv'
<1> DEFINE x == tx[t]
<1>1. /\ UNCHANGED <<hdr, lines, proformas>> /\ Sound(x)
      /\ x.pc \in {"readTerms", "deleteTerms", "insertTerms"}
  BY DEF ReadTerms, DeleteTerms, InsertTerms, IInv
<1>2. /\ DOMAIN x = Fields /\ x.req.op = "terms" /\ IsRequest(x.req) /\ DOMAIN x.own = {}
      /\ x.pc # "commit" /\ x.pc \in BeforeWriting
  BY <1>1 DEF Sound, AtItsStep, HasWritten, BeforeWriting
<1>3. ASSUME NEW y, Become(t, y), DOMAIN y = Fields,
             y.pc \in {"deleteTerms", "insertTerms", "commit"},
             y.req = x.req, y.hdr = x.hdr, y.own = x.own, y.copy = x.copy
      PROVE  IInv'
  <2>1. AtItsStep(y)
    BY <1>2, <1>3 DEF AtItsStep, Labels, Writing
  <2>2. Agrees(y, hdr, lines)
    BY <1>2, <1>3 DEF Agrees
  <2>3. y.pc \notin Writing
    BY <1>3 DEF Writing
  <2>4. QED
    BY <1>1, <1>2, <1>3, <2>1, <2>2, <2>3, MoveStep
<1>4. CASE Refuse(t)
  BY <1>1, <1>4, RefuseStep
<1>5. CASE ReadTerms(t)
  <2> DEFINE y == [x EXCEPT !.pc = "deleteTerms", !.read = terms]
  <2>1. Become(t, y)
    BY <1>5 DEF ReadTerms
  <2>2. /\ DOMAIN y = Fields /\ y.pc = "deleteTerms" /\ y.req = x.req /\ y.hdr = x.hdr
        /\ y.own = x.own /\ y.copy = x.copy
    BY <1>2 DEF Fields
  <2> HIDE DEF y
  <2>3. QED
    BY <1>3, <2>1, <2>2
<1>6. CASE DeleteTerms(t)
  <2> DEFINE pc == IF x.req.percents = <<>> THEN "commit" ELSE "insertTerms"
             y  == [x EXCEPT !.pc = pc, !.del = x.read \cap terms]
  <2>1. Become(t, y)
    BY <1>6 DEF DeleteTerms
  <2>2. pc \in {"commit", "insertTerms"}
    OBVIOUS
  <2> HIDE DEF pc
  <2>3. /\ DOMAIN y = Fields /\ y.pc = pc /\ y.req = x.req /\ y.hdr = x.hdr
        /\ y.own = x.own /\ y.copy = x.copy
    BY <1>2 DEF Fields
  <2> HIDE DEF y
  <2>4. QED
    BY <1>3, <2>1, <2>2, <2>3
<1>7. CASE InsertTerms(t) /\ ~Refuse(t)
  <2> DEFINE rows == {[seq |-> n, percent |-> x.req.percents[n], by |-> asked, txn |-> t] : n \in DOMAIN x.req.percents}
             y    == [x EXCEPT !.pc = "commit", !.ins = rows]
  <2>1. Become(t, y)
    BY <1>7 DEF InsertTerms
  <2> HIDE DEF rows
  <2>2. /\ DOMAIN y = Fields /\ y.pc = "commit" /\ y.req = x.req /\ y.hdr = x.hdr
        /\ y.own = x.own /\ y.copy = x.copy
    BY <1>2 DEF Fields
  <2> HIDE DEF y
  <2>3. QED
    BY <1>3, <2>1, <2>2
<1>8. QED
  BY <1>4, <1>5, <1>6, <1>7

\* An issue begins with the compare-and-set of the status.
LEMMA IssueClaimStep ==
  ASSUME IInv, NEW t \in Txns, IssueClaim(t)
  PROVE  IInv'
<1> DEFINE x    == tx[t]
           s    == Cas({"PENDING_APPROVAL", "APPROVED"}, [status |-> "CONVERTED_TO_PROFORMA"])
           todo == <<s>>
<1>1. UNCHANGED <<hdr, lines, proformas>> /\ x.pc = "issue" /\ Sound(x) /\ Run(t, x, todo, "guard")
  BY DEF IssueClaim, IInv
<1>2. DOMAIN x = Fields /\ x.req.op = "issue" /\ DOMAIN x.hdr = {} /\ x.pc \notin {"idle", "commit"}
  BY <1>1 DEF Sound, AtItsStep, HasWritten, BeforeWriting
<1>3. IsStatement(s, x.req)
  BY <1>2 DEF Cas, IsStatement, Converted
<1> HIDE DEF s
<1>4. AreStatements(todo, x.req) /\ Len(todo) = 1
  BY <1>3, OneStatement
<1> HIDE DEF todo
<1>5. IsSequence(todo) /\ Len(todo) # 0 /\ \A n \in DOMAIN todo : IsStatement(todo[n], x.req)
  BY <1>4 DEF AreStatements
<1>6. QED
  BY <1>1, <1>2, <1>4, <1>5, RunStep

\* An issue under way changes nothing but the status of what it reads.
LEMMA IssueSees ==
  ASSUME IInv, NEW t \in Txns, tx[t].pc \in {"guard", "copyTerms", "copyLines"}
  PROVE  /\ DOMAIN tx[t] = Fields /\ tx[t].req.op = "issue" /\ IsRequest(tx[t].req)
         /\ DOMAIN tx[t].own = {} /\ tx[t].hdr = [status |-> Converted]
         /\ hdr.status \in {"PENDING_APPROVAL", "APPROVED"}
         /\ tx[t].pc # "guard" => ~Unsigned(hdr)
         /\ View(t) = lines
         /\ \A c \in Columns \ {"status"} : HdrView(t)[c] = hdr[c]
<1> DEFINE x == tx[t]
<1>1. Sound(x) /\ Agrees(x, hdr, lines)
  BY DEF IInv
<1>2. DOMAIN x = Fields /\ x.req.op = "issue" /\ IsRequest(x.req) /\ DOMAIN x.own = {}
  BY <1>1 DEF Sound, AtItsStep, HasWritten, LineOps
<1>3. /\ x.hdr = [status |-> Converted] /\ hdr.status \in {"PENDING_APPROVAL", "APPROVED"}
      /\ x.pc # "guard" => ~Unsigned(hdr)
  BY <1>1, <1>2 DEF Agrees
<1>4. View(t) = lines
  BY <1>2 DEF View, Over, IInv, Stored
<1>5. DOMAIN x.hdr = {"status"}
  BY <1>3
<1>6. \A c \in Columns \ {"status"} : HdrView(t)[c] = hdr[c]
  BY <1>5, HeaderView
<1>7. QED
  BY <1>2, <1>3, <1>4, <1>6

\* Past its guard an issue knows that what is stored needs no signature or has one,
\* and its hold on the header keeps that so.
LEMMA IssueGuardStep ==
  ASSUME IInv, NEW t \in Txns, IssueGuard(t)
  PROVE  IInv'
<1> DEFINE x == tx[t]
           y == [x EXCEPT !.pc = "copyTerms"]
<1>1. UNCHANGED <<hdr, lines, proformas>> /\ x.pc = "guard"
  BY DEF IssueGuard
<1>2. CASE Refuse(t)
  BY <1>1, <1>2, RefuseStep
<1>3. CASE ~IssueRefused(HdrView(t)) /\ Become(t, y)
  <2>1. /\ DOMAIN x = Fields /\ x.req.op = "issue" /\ IsRequest(x.req) /\ DOMAIN x.own = {}
        /\ x.hdr = [status |-> Converted] /\ hdr.status \in {"PENDING_APPROVAL", "APPROVED"}
        /\ \A c \in Columns \ {"status"} : HdrView(t)[c] = hdr[c]
    BY <1>1, IssueSees
  <2>2. HdrView(t).calc = hdr.calc /\ HdrView(t).total = hdr.total /\ HdrView(t).signed = hdr.signed
    BY <2>1 DEF Columns
  <2>3. ~Unsigned(hdr)
    BY <1>3, <2>2 DEF IssueRefused, Unsigned
  <2>4. /\ DOMAIN y = Fields /\ y.pc = "copyTerms" /\ y.req = x.req /\ y.hdr = x.hdr
        /\ y.own = x.own /\ y.copy = x.copy
    BY <2>1 DEF Fields
  <2>5. Become(t, y)
    BY <1>3
  <2> HIDE DEF y
  <2>6. AtItsStep(y)
    BY <2>1, <2>4 DEF AtItsStep, Labels, Writing
  <2>7. Agrees(y, hdr, lines)
    BY <2>1, <2>3, <2>4 DEF Agrees
  <2>8. y.pc \notin Writing /\ y.pc \notin BeforeWriting /\ y.pc # "commit" /\ x.pc # "commit"
    BY <1>1, <2>4 DEF Writing, BeforeWriting
  <2>9. QED
    BY <1>1, <2>4, <2>5, <2>6, <2>7, <2>8, MoveStep
<1>4. QED
  BY <1>2, <1>3 DEF IssueGuard

\* Copying the schedule disturbs nothing else.
LEMMA CopyTermsStep ==
  ASSUME IInv, NEW t \in Txns, CopyTerms(t)
  PROVE  IInv'
<1> DEFINE x == tx[t]
           y == [x EXCEPT !.pc = "copyLines", !.read = TermView(t)]
<1>1. UNCHANGED <<hdr, lines, proformas>> /\ x.pc = "copyTerms" /\ Become(t, y)
  BY DEF CopyTerms
<1>2. /\ DOMAIN x = Fields /\ x.req.op = "issue" /\ IsRequest(x.req) /\ DOMAIN x.own = {}
      /\ x.hdr = [status |-> Converted] /\ hdr.status \in {"PENDING_APPROVAL", "APPROVED"}
      /\ ~Unsigned(hdr)
  BY <1>1, IssueSees
<1>3. /\ DOMAIN y = Fields /\ y.pc = "copyLines" /\ y.req = x.req /\ y.hdr = x.hdr
      /\ y.own = x.own /\ y.copy = x.copy
  BY <1>2 DEF Fields
<1> HIDE DEF y
<1>4. AtItsStep(y)
  BY <1>2, <1>3 DEF AtItsStep, Labels, Writing
<1>5. Agrees(y, hdr, lines)
  BY <1>2, <1>3 DEF Agrees
<1>6. y.pc \notin Writing /\ y.pc \notin BeforeWriting /\ y.pc # "commit" /\ x.pc # "commit"
  BY <1>1, <1>3 DEF Writing, BeforeWriting
<1>7. QED
  BY <1>1, <1>3, <1>4, <1>5, <1>6, MoveStep

\* What is frozen is what is stored.
LEMMA CopyLinesStep ==
  ASSUME IInv, NEW t \in Txns, CopyLines(t)
  PROVE  IInv'
<1> DEFINE x == tx[t]
           h == HdrView(t)
           p == [sub |-> h.total - h.tax, tax |-> h.tax, total |-> h.total,
                 calc |-> h.calc, signed |-> h.signed, terms |-> x.read,
                 prices |-> Column(View(t), InOrder(View(t)), "price")]
           y == [x EXCEPT !.pc = "commit", !.copy = {p}]
<1>1. UNCHANGED <<hdr, lines, proformas>> /\ x.pc = "copyLines" /\ Become(t, y)
  BY DEF CopyLines
<1>2. /\ DOMAIN x = Fields /\ x.req.op = "issue" /\ IsRequest(x.req) /\ DOMAIN x.own = {}
      /\ x.hdr = [status |-> Converted] /\ hdr.status \in {"PENDING_APPROVAL", "APPROVED"}
      /\ ~Unsigned(hdr) /\ View(t) = lines
      /\ \A c \in Columns \ {"status"} : h[c] = hdr[c]
  BY <1>1, IssueSees
<1>3. FrozenFrom(p, hdr, lines)
  <2>1. h.total = hdr.total /\ h.tax = hdr.tax /\ h.calc = hdr.calc /\ h.signed = hdr.signed
    BY <1>2 DEF Columns
  <2> HIDE DEF h
  <2>2. QED
    BY <1>2, <2>1 DEF FrozenFrom
<1> HIDE DEF p
<1>4. /\ DOMAIN y = Fields /\ y.pc = "commit" /\ y.req = x.req /\ y.hdr = x.hdr
      /\ y.own = x.own /\ y.copy = {p}
  BY <1>2 DEF Fields
<1> HIDE DEF y
<1>5. AtItsStep(y)
  BY <1>2, <1>4 DEF AtItsStep, Labels, Writing
<1>6. Agrees(y, hdr, lines)
  BY <1>2, <1>3, <1>4 DEF Agrees
<1>7. y.pc \notin Writing /\ y.pc \notin BeforeWriting /\ x.pc # "commit"
  BY <1>1, <1>4 DEF Writing, BeforeWriting
<1>8. QED
  BY <1>1, <1>2, <1>4, <1>5, <1>6, <1>7, MoveStep

-----------------------------------------------------------------------------
(* Commits.                                                                *)

\* What a commit does to what is stored.
LEMMA CommitIs ==
  ASSUME IInv, NEW t \in Txns, Commit(t)
  PROVE  /\ DOMAIN tx[t].hdr = {} => UNCHANGED <<hdr, lines, proformas>>
         /\ tx[t].req.op = "issue" =>
              \E p : /\ proformas' = proformas \cup {p} /\ FrozenFrom(p, hdr, lines) /\ ~Unsigned(hdr)
                     /\ hdr.status \in {"PENDING_APPROVAL", "APPROVED"} /\ hdr'.status = Converted
         /\ tx[t].req.op # "issue" => proformas' = proformas
         /\ tx[t].req.op = "status" /\ hdr'.status # hdr.status =>
              hdr'.status \in Transitions[hdr.status] /\ hdr'.status # Converted
         /\ tx[t].req.op \notin {"status", "issue"} => hdr'.status = hdr.status
<1> DEFINE x == tx[t]
<1>1. /\ x.pc = "commit" /\ hdr' = HdrView(t) /\ lines' = View(t) /\ proformas' = proformas \cup x.copy
  BY DEF Commit
<1>2. Sound(x) /\ Agrees(x, hdr, lines)
  BY DEF IInv
<1>3. /\ x.req.op = "issue" =>
           /\ x.hdr = [status |-> Converted] /\ ~Unsigned(hdr)
           /\ hdr.status \in {"PENDING_APPROVAL", "APPROVED"}
           /\ \E p \in x.copy : x.copy = {p} /\ FrozenFrom(p, hdr, lines)
      /\ x.req.op # "issue" => x.copy = {}
  BY <1>1, <1>2 DEF Sound, HasWritten, Agrees
<1>4. ASSUME DOMAIN x.hdr = {} PROVE UNCHANGED <<hdr, lines, proformas>>
  <2>1. DOMAIN x.own = {}
    BY <1>1, <1>2, <1>4 DEF Sound, HasWritten
  <2>2. View(t) = lines
    BY <2>1 DEF View, Over, IInv, Stored
  <2>3. HdrView(t) = hdr
    BY <1>4, HeaderView
  <2>4. x.req.op # "issue"
    <3>1. DOMAIN [status |-> Converted] # {}
      OBVIOUS
    <3>2. QED
      BY <1>3, <1>4, <3>1
  <2>5. QED
    BY <1>1, <1>3, <2>2, <2>3, <2>4
<1>5. "status" \in Columns /\ "status" \in DOMAIN hdr
  BY DEF Columns, IInv, Stored
<1>6. /\ "status" \notin DOMAIN x.hdr => hdr'.status = hdr.status
      /\ "status" \in DOMAIN x.hdr => hdr'.status = x.hdr.status
  <2>1. "status" \notin DOMAIN x.hdr => hdr'.status = hdr.status
    BY <1>1, <1>5, HeaderView
  <2>2. "status" \in DOMAIN x.hdr => hdr'.status = x.hdr.status
    BY <1>1 DEF HdrView, Over
  <2>3. QED
    BY <2>1, <2>2
<1>7. ASSUME x.req.op = "issue"
      PROVE  \E p : /\ proformas' = proformas \cup {p} /\ FrozenFrom(p, hdr, lines) /\ ~Unsigned(hdr)
                    /\ hdr.status \in {"PENDING_APPROVAL", "APPROVED"} /\ hdr'.status = Converted
  <2>1. PICK p \in x.copy : x.copy = {p} /\ FrozenFrom(p, hdr, lines)
    BY <1>3, <1>7
  <2>2. "status" \in DOMAIN x.hdr /\ x.hdr.status = Converted
    BY <1>3, <1>7
  <2>3. QED
    BY <1>1, <1>3, <1>6, <1>7, <2>1, <2>2
<1>8. x.req.op # "issue" => proformas' = proformas
  BY <1>1, <1>3
<1>9. x.req.op = "status" /\ hdr'.status # hdr.status =>
        hdr'.status \in Transitions[hdr.status] /\ hdr'.status # Converted
  BY <1>2, <1>6 DEF Agrees
<1>10. x.req.op \notin {"status", "issue"} => hdr'.status = hdr.status
  BY <1>2, <1>6 DEF Sound, HasWritten
<1>11. QED
  BY <1>4, <1>7, <1>8, <1>9, <1>10

\* The connection is free, or the service goes on with the second half of setVat.
LEMMA ContinuedIs ==
  ASSUME NEW x, x.pc = "commit"
  PROVE  /\ Sound(Continued(x)) /\ DOMAIN Continued(x).hdr = {}
         /\ \A h, f : Agrees(Continued(x), h, f)
<1> DEFINE req == [op |-> "price", grand |-> x.seen.total]
           y   == [Idle EXCEPT !.req = req, !.pc = "read"]
<1>1. CASE Continued(x) = Idle
  <2>1. Sound(Idle) /\ DOMAIN Idle.hdr = {}
    BY IdleIsSound
  <2>2. \A h, f : Agrees(Idle, h, f)
    BY DEF Agrees, Idle
  <2>3. QED
    BY <1>1, <2>1, <2>2
<1>2. CASE Continued(x) = y
  <2>1. /\ DOMAIN y = Fields /\ y.pc = "read" /\ y.req = req /\ y.hdr = Idle.hdr
        /\ y.own = Idle.own /\ y.copy = {}
    BY DEF Idle, Fields
  <2>2. DOMAIN y.hdr = {} /\ DOMAIN y.own = {}
    BY <2>1, NoStatements DEF Idle
  <2>3. req.op = "price" /\ IsRequest(req)
    BY DEF IsRequest, LineOps
  <2> HIDE DEF req
  <2> HIDE DEF y
  <2>4. AtItsStep(y)
    BY <2>1, <2>3 DEF AtItsStep, Labels, Writing
  <2>5. HasWritten(y)
    BY <2>1, <2>2, <2>3 DEF HasWritten
  <2>6. HasToWrite(y)
    BY <2>1 DEF HasToWrite, Writing
  <2>7. \A h, f : Agrees(y, h, f)
    BY <2>1, <2>3 DEF Agrees
  <2>8. QED
    BY <1>2, <2>1, <2>2, <2>4, <2>5, <2>6, <2>7 DEF Sound
<1>3. QED
  BY <1>1, <1>2 DEF Continued

\* A commit stores what its transaction saw, and of those under way only the holder
\* of the header decided on what it changes.
LEMMA CommitStep ==
  ASSUME IInv, NEW t \in Txns, Commit(t)
  PROVE  IInv'
<1> DEFINE x == tx[t]
           y == Continued(x)
<1>1. x.pc = "commit" /\ Become(t, y) /\ hdr' = HdrView(t) /\ lines' = View(t)
  BY DEF Commit
<1>2. Sound(y) /\ DOMAIN y.hdr = {} /\ \A h, f : Agrees(y, h, f)
  BY <1>1, ContinuedIs
<1> HIDE DEF y
<1>3. CASE DOMAIN x.hdr = {}
  <2>1. UNCHANGED <<hdr, lines, proformas>>
    BY <1>3, CommitIs
  <2>2. QED
    BY <1>1, <1>2, <2>1, OneGoesOn
<1>4. CASE DOMAIN x.hdr # {}
  <2>1. \A u \in Txns : u # t => DOMAIN tx[u].hdr = {}
    BY <1>4, HolderIsAlone DEF Others, HoldsHeader
  <2>2. /\ tx' = [u \in Txns |-> tx'[u]] /\ tx'[t] = y
        /\ \A u \in Txns : u # t => tx'[u] = tx[u]
    BY <1>1 DEF IInv, Become
  <2>3. ASSUME NEW u \in Txns PROVE Sound(tx'[u]) /\ Agrees(tx'[u], hdr', lines')
    <3>1. CASE u = t
      BY <1>2, <2>2, <3>1
    <3>2. CASE u # t
      <4>1. Sound(tx[u]) /\ Agrees(tx[u], hdr, lines) /\ DOMAIN tx[u].hdr = {} /\ tx'[u] = tx[u]
        BY <2>1, <2>2, <3>2 DEF IInv
      <4>2. "status" \notin DOMAIN tx[u].hdr /\ tx[u].hdr # [status |-> Converted]
        <5>1. DOMAIN [status |-> Converted] # {}
          OBVIOUS
        <5>2. QED
          BY <4>1, <5>1
      <4>3. QED
        BY <4>1, <4>2 DEF Agrees
    <3>3. QED
      BY <3>1, <3>2
  <2>4. OneHoldsTheHeader'
    BY <1>2, <2>1, <2>2 DEF OneHoldsTheHeader, HoldsHeader
  <2>5. Stored'
    <3>1. hdr' = [c \in DOMAIN hdr' |-> hdr'[c]] /\ Columns \subseteq DOMAIN hdr'
      BY <1>1 DEF HdrView, Over, IInv, Stored
    <3>2. hdr'.status \in DOMAIN Transitions
      <4>1. /\ hdr.status \in DOMAIN Transitions
            /\ \A s \in DOMAIN Transitions : Transitions[s] \subseteq DOMAIN Transitions
            /\ Converted \in DOMAIN Transitions
        BY DEF IInv, Stored, Transitions, Converted
      <4>2. QED
        BY <4>1, CommitIs
    <3>3. lines' = [l \in Lines |-> lines'[l]] /\ \A l \in Lines : IsRow(lines'[l])
      BY <1>1, ViewIs
    <3>4. QED
      BY <3>1, <3>2, <3>3 DEF Stored
  <2>6. ConvertedOnce' /\ IssuedDiscountsAreSigned'
    <3>1. (\A p, q \in proformas : p = q) /\ (proformas # {} <=> hdr.status = Converted)
      BY DEF IInv, ConvertedOnce, Converted
    <3>2. \A p \in proformas : ~Unsigned(p)
      BY DEF IInv, IssuedDiscountsAreSigned
    <3>3. CASE x.req.op = "issue"
      <4>1. PICK p : /\ proformas' = proformas \cup {p} /\ FrozenFrom(p, hdr, lines) /\ ~Unsigned(hdr)
                     /\ hdr.status \in {"PENDING_APPROVAL", "APPROVED"} /\ hdr'.status = Converted
        BY <3>3, CommitIs
      <4>2. proformas' = {p}
        BY <3>1, <4>1 DEF Converted
      <4>3. ~Unsigned(p)
        BY <4>1 DEF Unsigned, FrozenFrom
      <4>4. QED
        BY <4>1, <4>2, <4>3 DEF ConvertedOnce, IssuedDiscountsAreSigned, Converted
    <3>4. CASE x.req.op # "issue"
      <4>1. proformas' = proformas
        BY <3>4, CommitIs
      <4>2. hdr'.status = Converted <=> hdr.status = Converted
        <5>1. Transitions[Converted] = {}
          BY DEF Transitions, Converted
        <5>2. QED
          BY <3>4, <5>1, CommitIs
      <4>3. QED
        BY <3>1, <3>2, <4>1, <4>2 DEF ConvertedOnce, IssuedDiscountsAreSigned, Converted
    <3>5. QED
      BY <3>3, <3>4
  <2>7. \A u \in Txns : Sound(tx[u])' /\ Agrees(tx[u], hdr, lines)'
    BY <2>3
  <2>8. QED
    BY <2>2, <2>4, <2>5, <2>6, <2>7 DEF IInv
<1>5. QED
  BY <1>3, <1>4

-----------------------------------------------------------------------------
(* The invariant holds.                                                    *)

\* Every quotation to start from is sound and nobody is at work.
LEMMA InvariantInit ==
  ASSUME StartsAreQuotes, Init
  PROVE  IInv
<1>1. PICK s \in Starts : hdr = s.hdr /\ lines = s.lines
  BY DEF Init
<1>2. proformas = {} /\ tx = [t \in Txns |-> Idle]
  BY DEF Init
<1>3. s.hdr \in Header /\ s.hdr.status # Converted /\ s.lines \in [Lines -> Row]
  BY DEF StartsAreQuotes, Converted
<1>4. Stored
  <2>1. hdr = [c \in DOMAIN hdr |-> hdr[c]] /\ Columns \subseteq DOMAIN hdr /\ hdr.status \in DOMAIN Transitions
    BY <1>1, <1>3 DEF Header, Columns
  <2>2. lines = [l \in Lines |-> lines[l]] /\ \A l \in Lines : IsRow(lines[l])
    BY <1>1, <1>3 DEF Row, IsRow
  <2>3. QED
    BY <2>1, <2>2 DEF Stored
<1>5. \A t \in Txns : tx[t] = Idle
  BY <1>2
<1>6. OneHoldsTheHeader
  BY <1>5, IdleIsSound DEF OneHoldsTheHeader, HoldsHeader
<1>7. ConvertedOnce /\ IssuedDiscountsAreSigned
  BY <1>1, <1>2, <1>3 DEF ConvertedOnce, IssuedDiscountsAreSigned, Converted
<1>8. QED
  BY <1>2, <1>4, <1>5, <1>6, <1>7, IdleIsSound DEF IInv

\* Every step keeps the invariant.
LEMMA InvariantStep ==
  ASSUME Parameters, IInv, [Next]_vars
  PROVE  IInv'
<1>1. CASE UNCHANGED vars
  BY <1>1 DEF vars, IInv, Stored, OneHoldsTheHeader, HoldsHeader, ConvertedOnce,
     IssuedDiscountsAreSigned
<1>2. CASE RotateVat
  BY <1>2 DEF RotateVat, IInv, Stored, OneHoldsTheHeader, HoldsHeader, ConvertedOnce,
     IssuedDiscountsAreSigned
<1>3. ASSUME NEW t \in Txns, Ask(t) \/ Step(t) \/ Crash(t)
      PROVE  IInv'
  <2>1. CASE Ask(t)
    BY <2>1, AskStep
  <2>2. CASE Crash(t) \/ DeadlockAbort(t)
    BY <2>2, RefuseStep DEF Crash, DeadlockAbort
  <2>3. CASE ReadQuote(t) \/ ReadLines(t) \/ Gate(t) \/ LinesRead(t) \/ Resync(t) \/ Respec(t)
    BY <2>3, ReadQuoteStep, ReadLinesStep, GateStep, LinesReadStep, ResyncStep, RespecStep DEF Parameters
  <2>4. CASE WriteHeader(t) \/ WriteLine(t) \/ IndexLine(t)
    BY <2>4, WriteHeaderStep, WriteLineStep, IndexLineStep
  <2>5. CASE ReadTerms(t) \/ DeleteTerms(t) \/ InsertTerms(t)
    BY <2>5, TermsStep
  <2>6. CASE IssueClaim(t) \/ IssueGuard(t) \/ CopyTerms(t) \/ CopyLines(t)
    BY <2>6, IssueClaimStep, IssueGuardStep, CopyTermsStep, CopyLinesStep
  <2>7. CASE Commit(t)
    BY <2>7, CommitStep
  <2>8. QED
    BY <1>3, <2>1, <2>2, <2>3, <2>4, <2>5, <2>6, <2>7 DEF Step
<1>4. QED
  BY <1>1, <1>2, <1>3 DEF Next

\* The invariant behind the theorems: whoever changes the header or a line is alone
\* with the header from its first write to its commit, so what an issue decided on
\* and copied is still what is stored when it commits.
LEMMA InvariantHolds ==
  ASSUME Parameters PROVE Spec => []IInv
<1>1. Init => IInv
  BY InvariantInit DEF Parameters
<1>2. IInv /\ [Next]_vars => IInv'
  BY InvariantStep
<1>3. QED
  BY <1>1, <1>2, PTL DEF Spec

\* "Claim it first": whatever requests race or die, a quotation becomes at most one
\* proforma, exactly when its status says so.
THEOREM QuotationsConvertOnce ==
  ASSUME Parameters PROVE Spec => []ConvertedOnce
<1>1. IInv => ConvertedOnce
  BY DEF IInv
<1>2. QED
  BY <1>1, InvariantHolds, PTL

\* No proforma carries a discount above the threshold that nobody signed, whatever
\* was repriced between submission and issue.
THEOREM DiscountsAreSigned ==
  ASSUME Parameters PROVE Spec => []IssuedDiscountsAreSigned
<1>1. IInv => IssuedDiscountsAreSigned
  BY DEF IInv
<1>2. QED
  BY <1>1, InvariantHolds, PTL

\* Only a commit stores anything.
LEMMA OnlyCommitsStore ==
  ASSUME [Next]_vars, <<hdr, lines, proformas>>' # <<hdr, lines, proformas>>
  PROVE  \E t \in Txns : Commit(t)
<1>1. CASE UNCHANGED vars
  BY <1>1 DEF vars
<1>2. CASE RotateVat
  BY <1>2 DEF RotateVat
<1>3. ASSUME NEW t \in Txns, Ask(t) \/ Step(t) \/ Crash(t) PROVE Commit(t)
  <2>1. CASE Ask(t)
    BY <2>1 DEF Ask
  <2>2. CASE Crash(t)
    BY <2>2 DEF Crash
  <2>3. CASE ReadQuote(t)
    BY <2>3 DEF ReadQuote
  <2>4. CASE ReadLines(t)
    BY <2>4 DEF ReadLines
  <2>5. CASE Gate(t)
    BY <2>5 DEF Gate
  <2>6. CASE LinesRead(t)
    BY <2>6 DEF LinesRead
  <2>7. CASE Resync(t)
    BY <2>7 DEF Resync
  <2>8. CASE Respec(t)
    BY <2>8 DEF Respec
  <2>9. CASE WriteHeader(t)
    BY <2>9 DEF WriteHeader
  <2>10. CASE WriteLine(t)
    <3>1. UNCHANGED <<hdr, lines, terms, proformas, openVat, asked, crashes, deal>>
      BY <2>10, Zenon DEF WriteLine
    <3>2. QED
      BY <3>1
  <2>11. CASE IndexLine(t)
    BY <2>11 DEF IndexLine
  <2>12. CASE ReadTerms(t)
    BY <2>12 DEF ReadTerms
  <2>13. CASE DeleteTerms(t)
    BY <2>13 DEF DeleteTerms
  <2>14. CASE InsertTerms(t)
    BY <2>14 DEF InsertTerms
  <2>15. CASE IssueClaim(t)
    BY <2>15 DEF IssueClaim
  <2>16. CASE IssueGuard(t)
    BY <2>16 DEF IssueGuard
  <2>17. CASE CopyTerms(t)
    BY <2>17 DEF CopyTerms
  <2>18. CASE CopyLines(t)
    BY <2>18 DEF CopyLines
  <2>19. CASE DeadlockAbort(t)
    BY <2>19 DEF DeadlockAbort
  <2>20. QED
    BY <1>3, <2>1, <2>2, <2>3, <2>4, <2>5, <2>6, <2>7, <2>8, <2>9, <2>10, <2>11, <2>12, <2>13, <2>14, <2>15, <2>16, <2>17, <2>18, <2>19 DEF Step
<1>4. QED
  BY <1>1, <1>2, <1>3 DEF Next

\* A proforma freezes the figures and the lines that are stored at the moment it
\* appears, although they are read in several statements while editors pass the gate.
THEOREM ProformasFreezeOneVersion ==
  ASSUME Parameters PROVE Spec => ProformaIsOneVersion
<1> DEFINE Frozen == \A p \in proformas' \ proformas :
                       /\ p.total = hdr.total /\ p.tax = hdr.tax
                       /\ p.prices = Column(lines, InOrder(lines), "price")
<1>1. IInv /\ [Next]_vars => [Frozen]_vars
  <2> SUFFICES ASSUME IInv, [Next]_vars, NEW p \in proformas' \ proformas
               PROVE  /\ p.total = hdr.total /\ p.tax = hdr.tax
                      /\ p.prices = Column(lines, InOrder(lines), "price")
    OBVIOUS
  <2>1. PICK t \in Txns : Commit(t)
    BY OnlyCommitsStore
  <2>2. tx[t].req.op = "issue"
    BY <2>1, CommitIs
  <2>3. PICK q : proformas' = proformas \cup {q} /\ FrozenFrom(q, hdr, lines)
    BY <2>1, <2>2, CommitIs
  <2>4. QED
    BY <2>3 DEF FrozenFrom
<1>2. QED
  BY <1>1, InvariantHolds, PTL DEF Spec, ProformaIsOneVersion

\* Every change of the status is one of the table, or an issue from a status that
\* may be issued, although requests decide on what they have read before.
THEOREM StatusesMoveByTheTable ==
  ASSUME Parameters PROVE Spec => [][StatusMoves]_vars
<1>1. IInv /\ [Next]_vars => [StatusMoves]_vars
  <2> SUFFICES ASSUME IInv, [Next]_vars, hdr'.status # hdr.status
               PROVE  hdr'.status \in Transitions[hdr.status] \cup
                        (IF hdr.status = "PENDING_APPROVAL" THEN {"CONVERTED_TO_PROFORMA"} ELSE {})
    BY DEF StatusMoves
  <2>1. PICK t \in Txns : Commit(t)
    BY OnlyCommitsStore
  <2>2. CASE tx[t].req.op = "issue"
    <3>1. hdr.status \in {"PENDING_APPROVAL", "APPROVED"} /\ hdr'.status = Converted
      BY <2>1, <2>2, CommitIs
    <3>2. QED
      BY <3>1 DEF Transitions, Converted
  <2>3. CASE tx[t].req.op # "issue"
    BY <2>1, <2>3, CommitIs
  <2>4. QED
    BY <2>2, <2>3
<1>2. QED
  BY <1>1, InvariantHolds, PTL DEF Spec

=============================================================================
