-------------------------------- MODULE Sums --------------------------------
(***************************************************************************)
(* What the sums of the models come to.  They are folds of the community   *)
(* modules, which take one element of a set after the other; here is that  *)
(* it does not matter in which order, and what a sum does when a set or an *)
(* amount changes.                                                         *)
(***************************************************************************)
EXTENDS Integers, FiniteSetsExt, FiniteSetTheorems, WellFoundedInduction, TLAPS

\* The sum of the amounts w gives the elements of S.
SumOver(w, S) == MapThenSumSet(LAMBDA x : w[x], S)

-----------------------------------------------------------------------------
(* Induction on finite sets.                                               *)

\* A set of naturals with no least element is empty: induction, for provers that
\* cannot be given a predicate.
LEMMA Least == ASSUME NEW T \in SUBSET Nat, T # {} PROVE \E n \in T : \A m \in T : n <= m
<1> DEFINE R == OpToRel(<, Nat)
<1>1. IsWellFoundedOn(R, Nat)
  BY NatLessThanWellFounded
<1>2. \A x, y \in Nat : y < x => <<y, x>> \in R
  BY DEF OpToRel
<1> HIDE DEF R
<1>3. PICK n \in T : \A m \in T : ~(<<m, n>> \in R)
  BY <1>1, WFMin
<1>4. \A m \in T : m \in Nat /\ n \in Nat /\ ~(m < n)
  BY <1>2, <1>3
<1>5. QED
  BY <1>4

\* A family of subsets that has {}, and a set when it has it with any element less,
\* has them all.
LEMMA SubsetInduction ==
  ASSUME NEW U, IsFiniteSet(U), NEW Good, {} \in Good,
         \A s \in SUBSET U : s # {} /\ (\A x \in s : s \ {x} \in Good) => s \in Good
  PROVE  \A s \in SUBSET U : s \in Good
<1> SUFFICES ASSUME NEW bad \in SUBSET U, bad \notin Good PROVE FALSE
  OBVIOUS
<1> DEFINE Bad == {s \in SUBSET U : s \notin Good}
           Sizes == {Cardinality(s) : s \in Bad}
<1>1. \A s \in Bad : IsFiniteSet(s) /\ Cardinality(s) \in Nat
  BY FS_Subset, FS_CardinalityType
<1>2. Sizes \in SUBSET Nat /\ Sizes # {}
  BY <1>1
<1>3. PICK n \in Sizes : \A m \in Sizes : n <= m
  <2> HIDE DEF Sizes
  <2>1. QED
    BY <1>2, Least
<1>4. PICK s \in Bad : n = Cardinality(s)
  BY <1>3
<1>5. s # {} /\ IsFiniteSet(s) /\ Cardinality(s) \in Nat
  BY <1>1
<1>6. ASSUME NEW x \in s PROVE s \ {x} \in Good
  <2>1. Cardinality(s \ {x}) = Cardinality(s) - 1
    BY <1>5, FS_RemoveElement
  <2>2. s \ {x} \in Bad => n <= Cardinality(s \ {x})
    BY <1>3
  <2>3. s \ {x} \notin Bad
    BY <1>4, <1>5, <2>1, <2>2
  <2>4. QED
    BY <2>3
<1>7. QED
  BY <1>4, <1>5, <1>6

-----------------------------------------------------------------------------
(* Sums exist, and add up.                                                 *)

\* The element a fold takes next.
Pick(s) == CHOOSE x \in s : TRUE

\* What the folds of the community modules compute, one set after the other.
SumsUp(f, w, U) ==
  f = [s \in SUBSET U |-> IF s = {} THEN 0 ELSE w[Pick(s)] + f[s \ {Pick(s)}]]

\* There is such a function on the sets of at most n elements, for every n.
LEMMA SumsExist ==
  ASSUME NEW U, IsFiniteSet(U), NEW w \in [U -> Int]
  PROVE  \E f \in [SUBSET U -> Int] : SumsUp(f, w, U)
<1> DEFINE Up(f, n) == \A s \in SUBSET U : Cardinality(s) <= n =>
                         f[s] = IF s = {} THEN 0 ELSE w[Pick(s)] + f[s \ {Pick(s)}]
           Bad == {n \in Nat : ~\E f \in [SUBSET U -> Int] : Up(f, n)}
<1>1. \A s \in SUBSET U : /\ IsFiniteSet(s) /\ Cardinality(s) \in Nat
                          /\ Cardinality(s) = 0 => s = {}
  BY FS_Subset, FS_CardinalityType, FS_EmptySet
<1>2. \A s \in SUBSET U : s # {} =>
        /\ Pick(s) \in s /\ w[Pick(s)] \in Int /\ s \ {Pick(s)} \in SUBSET U
        /\ Cardinality(s \ {Pick(s)}) = Cardinality(s) - 1
  <2>1. ASSUME NEW s \in SUBSET U, s # {}
        PROVE  /\ Pick(s) \in s /\ w[Pick(s)] \in Int /\ s \ {Pick(s)} \in SUBSET U
               /\ Cardinality(s \ {Pick(s)}) = Cardinality(s) - 1
    <3>1. Pick(s) \in s
      BY <2>1 DEF Pick
    <3>2. Cardinality(s \ {Pick(s)}) = Cardinality(s) - 1
      BY <1>1, <3>1, FS_RemoveElement
    <3>3. QED
      BY <3>1, <3>2
  <2>2. QED
    BY <2>1
<1>3. 0 \notin Bad
  <2> DEFINE f == [s \in SUBSET U |-> 0]
  <2>1. f \in [SUBSET U -> Int]
    OBVIOUS
  <2>2. Up(f, 0)
    BY <1>1
  <2>3. QED
    BY <2>1, <2>2
<1>4. ASSUME NEW n \in Nat, n \notin Bad PROVE n + 1 \notin Bad
  <2>1. PICK f \in [SUBSET U -> Int] : Up(f, n)
    BY <1>4
  <2> DEFINE g == [s \in SUBSET U |->
                     IF Cardinality(s) <= n THEN f[s] ELSE w[Pick(s)] + f[s \ {Pick(s)}]]
  <2>2. \A s \in SUBSET U : ~(Cardinality(s) <= n) => s # {}
    BY <1>1, FS_EmptySet
  <2>3. g \in [SUBSET U -> Int]
    BY <1>1, <1>2, <2>2
  <2>4. ASSUME NEW s \in SUBSET U, Cardinality(s) <= n + 1
        PROVE  g[s] = IF s = {} THEN 0 ELSE w[Pick(s)] + g[s \ {Pick(s)}]
    <3>1. CASE s = {}
      <4>1. Cardinality(s) <= n /\ Cardinality(s) = 0
        BY <3>1, FS_EmptySet
      <4>2. f[s] = 0
        BY <2>1, <3>1, <4>1
      <4>3. QED
        BY <3>1, <4>1, <4>2
    <3>2. CASE s # {}
      <4>1. s \ {Pick(s)} \in SUBSET U /\ Cardinality(s \ {Pick(s)}) <= n
        BY <1>1, <1>2, <2>4, <3>2
      <4>2. g[s \ {Pick(s)}] = f[s \ {Pick(s)}]
        BY <4>1
      <4>3. g[s] = w[Pick(s)] + f[s \ {Pick(s)}]
        BY <2>1, <3>2
      <4>4. QED
        BY <3>2, <4>2, <4>3
    <3>3. QED
      BY <3>1, <3>2
  <2> HIDE DEF g
  <2>5. Up(g, n + 1)
    BY <2>4
  <2>6. QED
    BY <2>3, <2>5
<1>5. Bad = {}
  <2> SUFFICES ASSUME Bad # {} PROVE FALSE
    OBVIOUS
  <2>1. Bad \in SUBSET Nat
    OBVIOUS
  <2> HIDE DEF Bad
  <2>2. PICK n \in Bad : \A m \in Bad : n <= m
    BY <2>1, Least
  <2>3. n - 1 \in Nat /\ (n - 1) + 1 = n
    BY <1>3, <2>1
  <2>4. n - 1 \notin Bad
    BY <2>1, <2>2, <2>3
  <2>5. QED
    BY <1>4, <2>3, <2>4
<1>6. PICK f \in [SUBSET U -> Int] : Up(f, Cardinality(U))
  BY <1>1, <1>5
<1>7. \A s \in SUBSET U : Cardinality(s) <= Cardinality(U)
  BY FS_Subset
<1>8. \A s \in SUBSET U : f[s] = IF s = {} THEN 0 ELSE w[Pick(s)] + f[s \ {Pick(s)}]
  BY <1>6, <1>7
<1>9. SumsUp(f, w, U)
  BY <1>8 DEF SumsUp
<1>10. QED
  BY <1>9

\* f adds the elements one by one, and agrees with every other fold.
OneByOne(f, w, U) ==
  /\ f[{}] = 0
  /\ \A s \in SUBSET U : \A x \in s : f[s] = w[x] + f[s \ {x}]
  /\ \A S \in SUBSET U : \A g : SumsUp(g, w, S) => g[S] = f[S]

\* It does not matter which element is counted first, or among which others.
LEMMA AnyOrder ==
  ASSUME NEW U, IsFiniteSet(U), NEW w \in [U -> Int], NEW f \in [SUBSET U -> Int], SumsUp(f, w, U)
  PROVE  OneByOne(f, w, U)
<1>1. \A s \in SUBSET U : f[s] = IF s = {} THEN 0 ELSE w[Pick(s)] + f[s \ {Pick(s)}]
  BY DEF SumsUp
<1>2. f[{}] = 0
  BY <1>1
<1>3. \A s \in SUBSET U : \A x \in s : f[s] = w[x] + f[s \ {x}]
  <2> DEFINE Good == {s \in SUBSET U : \A x \in s : f[s] = w[x] + f[s \ {x}]}
  <2>1. {} \in Good
    OBVIOUS
  <2>2. ASSUME NEW s \in SUBSET U, s # {}, \A x \in s : s \ {x} \in Good, NEW x \in s
        PROVE  f[s] = w[x] + f[s \ {x}]
    <3> DEFINE p == Pick(s)
    <3>1. p \in s
      BY <2>2 DEF Pick
    <3>2. f[s] = w[p] + f[s \ {p}]
      BY <1>1, <2>2
    <3> HIDE DEF p
    <3>3. CASE x = p
      BY <3>2, <3>3
    <3>4. CASE x # p
      <4>1. x \in s \ {p} /\ p \in s \ {x}
        BY <3>1, <3>4
      <4>2. f[s \ {p}] = w[x] + f[(s \ {p}) \ {x}]
        BY <2>2, <3>1, <4>1
      <4>3. f[s \ {x}] = w[p] + f[(s \ {x}) \ {p}]
        BY <2>2, <4>1
      <4>4. f[(s \ {p}) \ {x}] = f[(s \ {x}) \ {p}]
        <5>1. (s \ {p}) \ {x} = (s \ {x}) \ {p}
          OBVIOUS
        <5>2. QED
          BY <5>1
      <4>5. w[x] \in Int /\ w[p] \in Int /\ f[(s \ {x}) \ {p}] \in Int
        BY <3>1
      <4>6. QED
        <5>1. ASSUME NEW a \in Int, NEW b \in Int, NEW r \in Int PROVE b + (a + r) = a + (b + r)
          OBVIOUS
        <5>2. f[s] = w[p] + (w[x] + f[(s \ {x}) \ {p}])
          BY <3>2, <4>2, <4>4
        <5>3. w[p] + (w[x] + f[(s \ {x}) \ {p}]) = w[x] + (w[p] + f[(s \ {x}) \ {p}])
          BY <4>5, <5>1
        <5>4. QED
          BY <4>3, <5>2, <5>3
    <3>5. QED
      BY <3>3, <3>4
  <2>3. \A s \in SUBSET U : s # {} /\ (\A x \in s : s \ {x} \in Good) => s \in Good
    BY <2>2
  <2> HIDE DEF Good
  <2>4. \A s \in SUBSET U : s \in Good
    BY <2>1, <2>3, SubsetInduction
  <2>5. QED
    BY <2>4 DEF Good
<1>4. ASSUME NEW S \in SUBSET U, NEW g, SumsUp(g, w, S) PROVE g[S] = f[S]
  <2> DEFINE Good == {s \in SUBSET S : g[s] = f[s]}
  <2>1. \A s \in SUBSET S : g[s] = IF s = {} THEN 0 ELSE w[Pick(s)] + g[s \ {Pick(s)}]
    BY <1>4 DEF SumsUp
  <2>2. {} \in Good
    BY <1>2, <2>1
  <2>3. ASSUME NEW s \in SUBSET S, s # {}, \A x \in s : s \ {x} \in Good PROVE s \in Good
    <3>1. Pick(s) \in s
      BY <2>3 DEF Pick
    <3>2. g[s \ {Pick(s)}] = f[s \ {Pick(s)}]
      BY <2>3, <3>1
    <3>3. g[s] = w[Pick(s)] + g[s \ {Pick(s)}]
      BY <2>1, <2>3
    <3>4. f[s] = w[Pick(s)] + f[s \ {Pick(s)}]
      BY <1>1, <2>3
    <3>5. QED
      BY <3>2, <3>3, <3>4
  <2>4. IsFiniteSet(S)
    BY FS_Subset
  <2> HIDE DEF Good
  <2>5. \A s \in SUBSET S : s \in Good
    BY <2>2, <2>3, <2>4, SubsetInduction
  <2>6. QED
    BY <2>5 DEF Good
<1>5. QED
  BY <1>2, <1>3, <1>4 DEF OneByOne

\* What a fold computes is the sum.
LEMMA FoldIsTheSum ==
  ASSUME NEW U, IsFiniteSet(U), NEW w \in [U -> Int], NEW f \in [SUBSET U -> Int], SumsUp(f, w, U),
         NEW S \in SUBSET U
  PROVE  SumOver(w, S) = f[S]
<1> DEFINE Adds(g) == g = [s \in SUBSET S |->
                             IF s = {} THEN 0 ELSE w[CHOOSE x \in s : TRUE]
                                                   + g[s \ {CHOOSE x \in s : TRUE}]]
           h == [s \in SUBSET S |-> f[s]]
<1>1. SumOver(w, S) = (CHOOSE g : Adds(g))[S]
  BY DEF SumOver, MapThenSumSet, MapThenFoldSet
<1>2. \A s \in SUBSET S : s # {} => (CHOOSE x \in s : TRUE) \in s
  OBVIOUS
<1>3. \A s \in SUBSET U : f[s] = IF s = {} THEN 0 ELSE w[Pick(s)] + f[s \ {Pick(s)}]
  BY DEF SumsUp
<1>4. Adds(h)
  <2>1. ASSUME NEW s \in SUBSET S
        PROVE  h[s] = IF s = {} THEN 0 ELSE w[CHOOSE x \in s : TRUE]
                                             + h[s \ {CHOOSE x \in s : TRUE}]
    <3>1. s \in SUBSET U /\ s \ {Pick(s)} \in SUBSET S
      OBVIOUS
    <3>2. h[s] = f[s] /\ h[s \ {Pick(s)}] = f[s \ {Pick(s)}]
      BY <3>1
    <3>3. QED
      BY <1>3, <3>1, <3>2 DEF Pick
  <2>2. QED
    BY <2>1
<1>5. Adds(CHOOSE g : Adds(g))
  BY <1>4, Zenon
<1>6. \A g : Adds(g) => SumsUp(g, w, S)
  BY DEF SumsUp, Pick
<1>7. OneByOne(f, w, U)
  BY AnyOrder
<1> HIDE DEF Adds
<1>8. QED
  BY <1>1, <1>5, <1>6, <1>7 DEF OneByOne

\* The sums of the subsets of U are integers, take any element away with its amount, and
\* are what any fold that agrees on the steps computes.
AddsUp(w, U) ==
  /\ SumOver(w, {}) = 0
  /\ \A S \in SUBSET U : /\ SumOver(w, S) \in Int
                         /\ \A x \in S : SumOver(w, S) = w[x] + SumOver(w, S \ {x})
  /\ \A S \in SUBSET U : \A g : SumsUp(g, w, S) => g[S] = SumOver(w, S)

\* A sum takes an element away with its amount, whichever it is.
LEMMA SumsAdd ==
  ASSUME NEW U, IsFiniteSet(U), NEW w \in [U -> Int]
  PROVE  AddsUp(w, U)
<1>1. PICK f \in [SUBSET U -> Int] : SumsUp(f, w, U)
  BY SumsExist
<1>2. \A S \in SUBSET U : SumOver(w, S) = f[S]
  BY <1>1, FoldIsTheSum
<1>3. OneByOne(f, w, U)
  BY <1>1, AnyOrder
<1>4. QED
  BY <1>2, <1>3 DEF OneByOne, AddsUp

-----------------------------------------------------------------------------
(* Sums that compare.                                                      *)

\* Two sums with equal amounts are equal.
LEMMA SumOfSame ==
  ASSUME NEW U, IsFiniteSet(U), NEW v \in [U -> Int], NEW w \in [U -> Int], NEW S \in SUBSET U,
         \A x \in S : v[x] = w[x]
  PROVE  SumOver(v, S) = SumOver(w, S)
<1> DEFINE Good == {s \in SUBSET S : SumOver(v, s) = SumOver(w, s)}
<1>1. AddsUp(v, U) /\ AddsUp(w, U) /\ IsFiniteSet(S)
  BY SumsAdd, FS_Subset
<1>2. {} \in Good
  BY <1>1 DEF AddsUp
<1>3. ASSUME NEW s \in SUBSET S, s # {}, \A x \in s : s \ {x} \in Good PROVE s \in Good
  <2>1. PICK x \in s : TRUE
    BY <1>3
  <2>2. SumOver(v, s) = v[x] + SumOver(v, s \ {x}) /\ SumOver(w, s) = w[x] + SumOver(w, s \ {x})
    BY <1>1, <2>1 DEF AddsUp
  <2>3. QED
    BY <1>3, <2>1, <2>2
<1> HIDE DEF Good
<1>4. \A s \in SUBSET S : s \in Good
  BY <1>1, <1>2, <1>3, SubsetInduction
<1>5. QED
  BY <1>4 DEF Good

\* The amounts of u are those of v and of w together; of v, those of w turned; and,
\* but for y, of v those of w.
Both(u, v, w, S) == \A x \in S : u[x] = v[x] + w[x]
Turned(v, w, S)  == \A x \in S : v[x] = -w[x]
MoreOf(v, w, S, y, d) == v[y] = w[y] + d /\ \A x \in S \ {y} : v[x] = w[x]

\* Amounts that add up have sums that do.
LEMMA SumOfBoth ==
  ASSUME NEW S, IsFiniteSet(S), NEW u \in [S -> Int], NEW v \in [S -> Int], NEW w \in [S -> Int],
         Both(u, v, w, S)
  PROVE  SumOver(u, S) = SumOver(v, S) + SumOver(w, S)
<1> DEFINE Good == {s \in SUBSET S : SumOver(u, s) = SumOver(v, s) + SumOver(w, s)}
<1>1. AddsUp(u, S) /\ AddsUp(v, S) /\ AddsUp(w, S)
  BY SumsAdd
<1>2. {} \in Good
  BY <1>1 DEF AddsUp
<1>3. ASSUME NEW s \in SUBSET S, s # {}, \A x \in s : s \ {x} \in Good PROVE s \in Good
  <2>1. PICK x \in s : TRUE
    BY <1>3
  <2> DEFINE r == s \ {x}
  <2>2. SumOver(u, s) = u[x] + SumOver(u, r) /\ SumOver(v, s) = v[x] + SumOver(v, r)
        /\ SumOver(w, s) = w[x] + SumOver(w, r)
    BY <1>1, <2>1 DEF AddsUp
  <2>3. SumOver(v, r) \in Int /\ SumOver(w, r) \in Int /\ v[x] \in Int /\ w[x] \in Int
    BY <1>1, <2>1 DEF AddsUp
  <2>4. SumOver(u, r) = SumOver(v, r) + SumOver(w, r)
    BY <1>3, <2>1
  <2>5. u[x] = v[x] + w[x]
    BY <2>1 DEF Both
  <2> HIDE DEF r
  <2>6. SumOver(u, s) = SumOver(v, s) + SumOver(w, s)
    BY <2>2, <2>3, <2>4, <2>5
  <2>7. QED
    BY <2>6
<1> HIDE DEF Good
<1>4. \A s \in SUBSET S : s \in Good
  BY <1>2, <1>3, SubsetInduction
<1>5. QED
  BY <1>4 DEF Good

\* Amounts of nothing make nothing.
LEMMA SumOfNothing ==
  ASSUME NEW U, IsFiniteSet(U), NEW w \in [U -> Int], NEW S \in SUBSET U, \A x \in S : w[x] = 0
  PROVE  SumOver(w, S) = 0
<1> DEFINE Good == {s \in SUBSET S : SumOver(w, s) = 0}
<1>1. AddsUp(w, U) /\ IsFiniteSet(S)
  BY SumsAdd, FS_Subset
<1>2. {} \in Good
  BY <1>1 DEF AddsUp
<1>3. ASSUME NEW s \in SUBSET S, s # {}, \A x \in s : s \ {x} \in Good PROVE s \in Good
  <2>1. PICK x \in s : TRUE
    BY <1>3
  <2>2. SumOver(w, s) = w[x] + SumOver(w, s \ {x})
    BY <1>1, <2>1 DEF AddsUp
  <2>3. QED
    BY <1>3, <2>1, <2>2
<1> HIDE DEF Good
<1>4. \A s \in SUBSET S : s \in Good
  BY <1>1, <1>2, <1>3, SubsetInduction
<1>5. QED
  BY <1>4 DEF Good

\* Amounts with their signs turned have the sum with its sign turned.
LEMMA SumOfTurned ==
  ASSUME NEW S, IsFiniteSet(S), NEW v \in [S -> Int], NEW w \in [S -> Int], Turned(v, w, S)
  PROVE  SumOver(v, S) = -SumOver(w, S)
<1> DEFINE z == [x \in S |-> 0]
<1>1. Both(z, v, w, S)
  <2>1. ASSUME NEW x \in S PROVE z[x] = v[x] + w[x]
    <3>1. v[x] = -w[x] /\ w[x] \in Int /\ z[x] = 0
      BY DEF Turned
    <3> HIDE DEF z
    <3>2. QED
      BY <3>1
  <2>2. QED
    BY <2>1 DEF Both
<1>2. z \in [S -> Int] /\ \A x \in S : z[x] = 0
  OBVIOUS
<1> HIDE DEF z
<1>3. SumOver(z, S) = SumOver(v, S) + SumOver(w, S)
  BY <1>1, <1>2, SumOfBoth
<1>4. SumOver(z, S) = 0
  BY <1>2, SumOfNothing
<1>5. SumOver(v, S) \in Int /\ SumOver(w, S) \in Int
  BY SumsAdd DEF AddsUp
<1>6. QED
  BY <1>3, <1>4, <1>5

\* Where one amount changes, the sum changes by as much.
LEMMA SumOfOneMore ==
  ASSUME NEW S, IsFiniteSet(S), NEW v \in [S -> Int], NEW w \in [S -> Int],
         NEW y \in S, NEW d \in Int, MoreOf(v, w, S, y, d)
  PROVE  SumOver(v, S) = SumOver(w, S) + d
<1>1. AddsUp(v, S) /\ AddsUp(w, S)
  BY SumsAdd
<1>2. SumOver(v, S) = v[y] + SumOver(v, S \ {y}) /\ SumOver(w, S) = w[y] + SumOver(w, S \ {y})
  BY <1>1 DEF AddsUp
<1>3. SumOver(v, S \ {y}) = SumOver(w, S \ {y})
  BY SumOfSame DEF MoreOf
<1>4. SumOver(w, S \ {y}) \in Int /\ w[y] \in Int /\ v[y] = w[y] + d
  BY <1>1 DEF AddsUp, MoreOf
<1>5. QED
  BY <1>2, <1>3, <1>4

\* A sum of amounts none of which is negative is at least each of them.
LEMMA SumAtLeast ==
  ASSUME NEW U, IsFiniteSet(U), NEW w \in [U -> Int], NEW S \in SUBSET U, \A x \in S : w[x] >= 0
  PROVE  SumOver(w, S) >= 0 /\ \A x \in S : w[x] <= SumOver(w, S)
<1> DEFINE Good == {s \in SUBSET S : SumOver(w, s) >= 0}
<1>1. AddsUp(w, U) /\ IsFiniteSet(S)
  BY SumsAdd, FS_Subset
<1>2. {} \in Good
  BY <1>1 DEF AddsUp
<1>3. ASSUME NEW s \in SUBSET S, s # {}, \A x \in s : s \ {x} \in Good PROVE s \in Good
  <2>1. PICK x \in s : TRUE
    BY <1>3
  <2>2. SumOver(w, s) = w[x] + SumOver(w, s \ {x})
    BY <1>1, <2>1 DEF AddsUp
  <2>3. SumOver(w, s \ {x}) \in Int /\ SumOver(w, s \ {x}) >= 0 /\ w[x] \in Int /\ w[x] >= 0
    BY <1>1, <1>3, <2>1 DEF AddsUp
  <2>4. SumOver(w, s) >= 0
    BY <2>2, <2>3
  <2>5. QED
    BY <2>4
<1> HIDE DEF Good
<1>4. \A s \in SUBSET S : s \in Good
  BY <1>1, <1>2, <1>3, SubsetInduction
<1>5. \A s \in SUBSET S : SumOver(w, s) >= 0
  BY <1>4 DEF Good
<1>6. ASSUME NEW x \in S PROVE w[x] <= SumOver(w, S)
  <2>1. SumOver(w, S) = w[x] + SumOver(w, S \ {x}) /\ w[x] \in Int /\ SumOver(w, S \ {x}) \in Int
    BY <1>1 DEF AddsUp
  <2>2. SumOver(w, S \ {x}) >= 0
    BY <1>5
  <2>3. QED
    BY <2>1, <2>2
<1>7. QED
  BY <1>5, <1>6

-----------------------------------------------------------------------------
(* Amounts that cancel.                                                    *)

\* The sum of two sets that share nothing is the sum of their sums.
LEMMA SumOfParts ==
  ASSUME NEW U, IsFiniteSet(U), NEW w \in [U -> Int], NEW S \in SUBSET U, NEW T \in SUBSET U,
         S \cap T = {}
  PROVE  SumOver(w, S \cup T) = SumOver(w, S) + SumOver(w, T)
<1> DEFINE Good == {s \in SUBSET S : SumOver(w, s \cup T) = SumOver(w, s) + SumOver(w, T)}
<1>1. AddsUp(w, U) /\ IsFiniteSet(S)
  BY SumsAdd, FS_Subset
<1>2. {} \in Good
  <2>1. {} \cup T = T
    OBVIOUS
  <2>2. SumOver(w, T) \in Int /\ SumOver(w, {}) = 0
    BY <1>1 DEF AddsUp
  <2>3. QED
    BY <2>1, <2>2
<1>3. ASSUME NEW s \in SUBSET S, s # {}, \A x \in s : s \ {x} \in Good PROVE s \in Good
  <2>1. PICK x \in s : TRUE
    BY <1>3
  <2>2. SumOver(w, s) = w[x] + SumOver(w, s \ {x})
    BY <1>1, <2>1 DEF AddsUp
  <2>3. SumOver(w, s \cup T) = w[x] + SumOver(w, (s \ {x}) \cup T)
    <3>1. (s \cup T) \ {x} = (s \ {x}) \cup T /\ s \cup T \in SUBSET U /\ x \in s \cup T
      BY <2>1
    <3>2. SumOver(w, s \cup T) = w[x] + SumOver(w, (s \cup T) \ {x})
      BY <1>1, <3>1 DEF AddsUp
    <3>3. QED
      BY <3>1, <3>2
  <2>4. SumOver(w, (s \ {x}) \cup T) = SumOver(w, s \ {x}) + SumOver(w, T)
    BY <1>3, <2>1
  <2>5. SumOver(w, s \ {x}) \in Int /\ SumOver(w, T) \in Int /\ w[x] \in Int
    BY <1>1, <2>1 DEF AddsUp
  <2>6. SumOver(w, s \cup T) = SumOver(w, s) + SumOver(w, T)
    BY <2>2, <2>3, <2>4, <2>5
  <2>7. QED
    BY <2>6
<1> HIDE DEF Good
<1>4. \A s \in SUBSET S : s \in Good
  BY <1>1, <1>2, <1>3, SubsetInduction
<1>5. QED
  BY <1>4 DEF Good

\* Where each of some elements cancels another of its own, the sum is that of the rest.
LEMMA PairsCancel ==
  ASSUME NEW U, IsFiniteSet(U), NEW w \in [U -> Int], NEW M \in SUBSET U, NEW of \in [M -> U \ M],
         \A m, n \in M : of[m] = of[n] => m = n,
         \A m \in M : w[of[m]] = -w[m]
  PROVE  SumOver(w, U) = SumOver(w, U \ (M \cup {of[m] : m \in M}))
<1> DEFINE Pairs(s) == s \cup {of[m] : m \in s}
           Good == {s \in SUBSET M : SumOver(w, Pairs(s)) = 0}
<1>1. AddsUp(w, U) /\ IsFiniteSet(M)
  BY SumsAdd, FS_Subset
<1>2. {} \in Good
  <2>1. Pairs({}) = {}
    OBVIOUS
  <2>2. QED
    BY <1>1, <2>1 DEF AddsUp
<1>3. ASSUME NEW s \in SUBSET M, s # {}, \A x \in s : s \ {x} \in Good PROVE s \in Good
  <2>1. PICK x \in s : TRUE
    BY <1>3
  <2>2. /\ Pairs(s) \in SUBSET U /\ x \in Pairs(s) /\ of[x] \in Pairs(s) \ {x}
        /\ of[x] \in U /\ x \in U
    BY <2>1
  <2>3. (Pairs(s) \ {x}) \ {of[x]} = Pairs(s \ {x})
    BY <2>1
  <2> HIDE DEF Pairs
  <2>4. SumOver(w, Pairs(s)) = w[x] + SumOver(w, Pairs(s) \ {x})
    BY <1>1, <2>2 DEF AddsUp
  <2>5. SumOver(w, Pairs(s) \ {x}) = w[of[x]] + SumOver(w, (Pairs(s) \ {x}) \ {of[x]})
    <3>1. Pairs(s) \ {x} \in SUBSET U
      BY <2>2
    <3>2. QED
      BY <1>1, <2>2, <3>1 DEF AddsUp
  <2>6. SumOver(w, Pairs(s \ {x})) = 0
    BY <1>3, <2>1
  <2>7. w[of[x]] = -w[x] /\ w[x] \in Int
    BY <2>1, <2>2
  <2>8. SumOver(w, Pairs(s)) = w[x] + (w[of[x]] + 0)
    BY <2>3, <2>4, <2>5, <2>6
  <2>9. SumOver(w, Pairs(s)) = 0
    BY <2>7, <2>8
  <2>10. QED
    BY <2>9
<1>4. SumOver(w, Pairs(M)) = 0
  <2> HIDE DEF Good
  <2>1. M \in Good
    BY <1>1, <1>2, <1>3, SubsetInduction
  <2>2. QED
    BY <2>1 DEF Good
<1>5. SumOver(w, U) = SumOver(w, U \ Pairs(M)) + SumOver(w, Pairs(M))
  <2>1. U = (U \ Pairs(M)) \cup Pairs(M) /\ (U \ Pairs(M)) \cap Pairs(M) = {}
        /\ U \ Pairs(M) \in SUBSET U /\ Pairs(M) \in SUBSET U
    OBVIOUS
  <2> HIDE DEF Pairs
  <2>2. QED
    BY <2>1, SumOfParts
<1>6. SumOver(w, U \ Pairs(M)) \in Int
  BY <1>1 DEF AddsUp
<1>7. QED
  BY <1>4, <1>5, <1>6
=============================================================================
