------------------------------ MODULE NatLemmas ------------------------------
(***************************************************************************)
(* Facts about numbers, finite sets and sequences that the proofs of       *)
(* several modules need: what Min, Max and InOrder return, how large an    *)
(* image can be, what is iterated.                                         *)
(***************************************************************************)
EXTENDS Integers, Sequences, FiniteSetsExt, Orders, FiniteSetTheorems, WellFoundedInduction, TLAPS

\* Every non-empty set of naturals has a least element: their order is well founded.
LEMMA LeastExists ==
  ASSUME NEW T \in SUBSET Nat, T # {}
  PROVE  \E x \in T : \A y \in T : x <= y
<1> DEFINE R == OpToRel(<, Nat)
<1>1. \A x, y \in Nat : x < y => <<x, y>> \in R
  BY DEF OpToRel
<1>2. IsWellFoundedOn(R, Nat)
  BY NatLessThanWellFounded
<1> HIDE DEF R
<1>3. PICK x \in T : \A y \in T : ~(<<y, x>> \in R)
  BY <1>2, WFMin, Zenon
<1>4. \A y \in T : ~(y < x)
  BY <1>1, <1>3
<1> QED
  BY <1>4

\* Min of a non-empty set of naturals is its least element.
LEMMA MinIsLeast ==
  ASSUME NEW T \in SUBSET Nat, T # {}
  PROVE  Min(T) \in T /\ \A y \in T : Min(T) <= y
BY LeastExists DEF Min

\* A finite non-empty set of naturals has a largest element: a smallest set without one
\* would still lack it after losing an element.
LEMMA GreatestExists ==
  ASSUME NEW T \in SUBSET Nat, IsFiniteSet(T), T # {}
  PROVE  \E x \in T : \A y \in T : x >= y
<1> DEFINE Bad(S) == S # {} /\ IsFiniteSet(S) /\ ~\E x \in S : \A y \in S : x >= y
           N == {n \in Nat : \E S \in SUBSET Nat : Bad(S) /\ Cardinality(S) = n}
<1> SUFFICES ASSUME Bad(T) PROVE FALSE
  OBVIOUS
<1>1. N # {}
  <2>1. Cardinality(T) \in Nat
    BY FS_CardinalityType
  <2> QED BY <2>1
<1>2. PICK n \in N : \A m \in N : n <= m
  <2>1. N \in SUBSET Nat
    OBVIOUS
  <2> HIDE DEF N
  <2> QED BY <1>1, <2>1, LeastExists
<1>3. PICK S \in SUBSET Nat : Bad(S) /\ Cardinality(S) = n
  BY <1>2
<1>4. PICK x \in S : TRUE
  BY <1>3
<1> DEFINE U == S \ {x}
<1>5. U \in SUBSET Nat /\ IsFiniteSet(U) /\ Cardinality(U) = n - 1 /\ n - 1 \in Nat
  <2>1. IsFiniteSet(U) /\ Cardinality(U) = n - 1
    BY <1>3, <1>4, FS_RemoveElement
  <2>2. Cardinality(U) \in Nat
    BY <2>1, FS_CardinalityType
  <2> QED BY <2>1, <2>2
<1>6. ~Bad(U)
  <2> SUFFICES ASSUME Bad(U) PROVE FALSE
    OBVIOUS
  <2>1. n - 1 \in N
    BY <1>5
  <2>2. n - 1 >= n
    BY <1>2, <2>1
  <2> QED BY <1>5, <2>2
<1>7. \E z \in S : \A y \in S : z >= y
  <2>1. CASE U = {}
    BY <1>3, <1>4, <2>1
  <2>2. CASE U # {}
    <3>1. PICK w \in U : \A y \in U : w >= y
      BY <1>5, <1>6, <2>2
    <3>2. w \in S /\ w \in Nat /\ x \in Nat
      BY <1>4, <3>1
    <3>3. CASE w >= x
      BY <3>1, <3>2, <3>3
    <3>4. CASE x >= w
      BY <1>4, <3>1, <3>2, <3>4
    <3> QED BY <3>2, <3>3, <3>4
  <2> QED BY <2>1, <2>2
<1> QED
  BY <1>3, <1>7

\* Max of such a set is its largest element.
LEMMA MaxIsGreatest ==
  ASSUME NEW T \in SUBSET Nat, IsFiniteSet(T), T # {}
  PROVE  Max(T) \in T /\ \A y \in T : y <= Max(T)
<1>1. Max(T) \in T /\ \A y \in T : Max(T) >= y
  BY GreatestExists DEF Max
<1> QED
  BY <1>1

\* The image of a finite set under a function is finite and no larger.
LEMMA ImageNoLarger ==
  ASSUME NEW S, IsFiniteSet(S), NEW f
  PROVE  LET T == {f[x] : x \in S}
         IN  IsFiniteSet(T) /\ Cardinality(T) <= Cardinality(S)
<1> DEFINE T == {f[x] : x \in S}
           g == [x \in S |-> f[x]]
<1>1. g \in Surjection(S, T)
  BY DEF Surjection
<1> HIDE DEF g, T
<1>2. IsFiniteSet(T) /\ Cardinality(T) <= Cardinality(S)
  BY <1>1, FS_Surjection
<1> QED
  BY <1>2 DEF T

\* It is just as large when no two elements have the same image.
LEMMA InjectiveImage ==
  ASSUME NEW S, IsFiniteSet(S), NEW f, \A x, y \in S : f[x] = f[y] => x = y
  PROVE  Cardinality({f[x] : x \in S}) = Cardinality(S)
<1> DEFINE T == {f[x] : x \in S}
           g == [x \in S |-> f[x]]
<1>1. g \in Surjection(S, T)
  BY DEF Surjection
<1>2. g \in [S -> T] /\ DOMAIN g = S /\ \A x, y \in S : g[x] = g[y] => x = y
  OBVIOUS
<1> HIDE DEF g, T
<1>3. g \in Injection(S, T)
  BY <1>2 DEF Injection, IsInjective
<1>4. Cardinality(T) = Cardinality(S)
  BY <1>1, <1>3, FS_Surjection
<1> QED
  BY <1>4 DEF T

\* Induction over the naturals, for a set: what has 0 and with each number the next has
\* all of them.
LEMMA SetInduction ==
  ASSUME NEW T, 0 \in T, \A n \in Nat : n \in T => n + 1 \in T
  PROVE  Nat \subseteq T
<1> DEFINE U == Nat \ T
<1> SUFFICES ASSUME U # {} PROVE FALSE
  OBVIOUS
<1>1. PICK x \in U : \A y \in U : x <= y
  BY LeastExists
<1>2. x # 0 /\ x - 1 \in Nat /\ x - 1 \notin U /\ x - 1 + 1 = x
  BY <1>1
<1> QED
  BY <1>1, <1>2

\* f is the iteration of F, a function of the value before and of the turn, from x on.
Iterates(f, x, F, n) == f[0] = x /\ \A k \in 1 .. n : f[k] = F[<<f[k - 1], k>>]

\* Every function can be iterated any number of times.
LEMMA IterationExists ==
  ASSUME NEW S, NEW x \in S, NEW F \in [S \X Nat -> S], NEW n \in Nat
  PROVE  \E f \in [0 .. n -> S] : Iterates(f, x, F, n)
<1> DEFINE T == {m \in Nat : \E f \in [0 .. m -> S] : Iterates(f, x, F, m)}
<1>1. 0 \in T
  <2>1. [k \in 0 .. 0 |-> x] \in [0 .. 0 -> S] /\ Iterates([k \in 0 .. 0 |-> x], x, F, 0)
    BY DEF Iterates
  <2> QED BY <2>1
<1>2. ASSUME NEW m \in Nat, m \in T PROVE m + 1 \in T
  <2>1. PICK f \in [0 .. m -> S] : Iterates(f, x, F, m)
    BY <1>2
  <2> DEFINE y == F[<<f[m], m + 1>>]
             g == [k \in 0 .. m + 1 |-> IF k = m + 1 THEN y ELSE f[k]]
  <2>2. m \in 0 .. m /\ m + 1 \in Nat
    OBVIOUS
  <2>3. f[m] \in S
    BY <2>1, <2>2
  <2>4. y \in S
    BY <2>2, <2>3
  <2> HIDE DEF y
  <2>5. g \in [0 .. m + 1 -> S]
    <3>1. ASSUME NEW k \in 0 .. m + 1 PROVE g[k] \in S
      <4>1. CASE k = m + 1
        BY <2>4, <4>1
      <4>2. CASE k # m + 1
        <5>1. k \in 0 .. m /\ g[k] = f[k]
          BY <4>2
        <5> HIDE DEF g
        <5> QED BY <2>1, <5>1
      <4> QED BY <4>1, <4>2
    <3>2. g = [k \in 0 .. m + 1 |-> g[k]]
      OBVIOUS
    <3> HIDE DEF g
    <3> QED BY <3>1, <3>2
  <2>6. g[0] = x
    BY <2>1 DEF Iterates
  <2>7. ASSUME NEW k \in 1 .. m + 1 PROVE g[k] = F[<<g[k - 1], k>>]
    <3>1. CASE k = m + 1
      <4>1. g[k] = y /\ g[k - 1] = f[m]
        BY <3>1
      <4> HIDE DEF g
      <4> QED BY <3>1, <4>1 DEF y
    <3>2. CASE k # m + 1
      <4>1. k \in 1 .. m /\ g[k] = f[k] /\ g[k - 1] = f[k - 1]
        BY <3>2
      <4> QED BY <2>1, <4>1 DEF Iterates
    <3> QED BY <3>1, <3>2
  <2>8. Iterates(g, x, F, m + 1)
    BY <2>6, <2>7 DEF Iterates
  <2> QED BY <2>5, <2>8
<1> HIDE DEF T
<1>3. n \in T
  BY <1>1, <1>2, SetInduction
<1> QED
  BY <1>3 DEF T

\* What holds at first and is kept by every turn holds throughout.
LEMMA IterationStays ==
  ASSUME NEW S, NEW n \in Nat, NEW f, f[0] \in S,
         \A k \in 1 .. n : f[k - 1] \in S => f[k] \in S
  PROVE  \A k \in 0 .. n : f[k] \in S
<1> DEFINE T == {k \in Nat : k <= n => f[k] \in S}
<1>1. 0 \in T
  OBVIOUS
<1>2. ASSUME NEW k \in Nat, k \in T PROVE k + 1 \in T
  <2> SUFFICES ASSUME k + 1 <= n PROVE f[k + 1] \in S
    OBVIOUS
  <2>1. k + 1 \in 1 .. n /\ k + 1 - 1 = k /\ f[k] \in S
    BY <1>2
  <2> QED BY <2>1
<1> HIDE DEF T
<1>3. Nat \subseteq T
  BY <1>1, <1>2, SetInduction
<1> QED
  BY <1>3 DEF T

\* A number is in one of the blocks of size numbers each.
LEMMA InOneBlock ==
  ASSUME NEW n \in Nat, NEW size \in Nat \ {0}, NEW i \in 1 .. n * size
  PROVE  \E k \in 1 .. n, j \in 1 .. size : i = (k - 1) * size + j
<1> DEFINE T == {k \in Nat : i <= k * size}
<1>1. n \in T
  OBVIOUS
<1>2. PICK k \in T : \A m \in T : k <= m
  <2>1. T \in SUBSET Nat /\ T # {}
    BY <1>1
  <2> HIDE DEF T
  <2> QED BY <2>1, LeastExists
<1>3. k \in Nat /\ k <= n /\ k # 0
  <2>1. 0 * size = 0
    OBVIOUS
  <2>2. 0 \notin T
    BY <2>1
  <2> QED BY <1>1, <1>2, <2>2
<1>4. (k - 1) * size < i
  <2>1. k - 1 \in Nat /\ ~(k <= k - 1)
    BY <1>3
  <2>2. k - 1 \notin T
    BY <1>2, <2>1
  <2>3. ~(i <= (k - 1) * size)
    BY <2>1, <2>2
  <2>4. (k - 1) * size \in Int
    BY <2>1
  <2> QED BY <2>3, <2>4
<1>5. k * size = (k - 1) * size + size
  BY <1>3
<1> DEFINE m == (k - 1) * size
<1>6. m \in Int /\ k * size = m + size /\ i <= k * size /\ m < i
  BY <1>2, <1>3, <1>4, <1>5
<1>7. i - m \in 1 .. size /\ i = m + (i - m)
  <2> HIDE DEF m
  <2> QED BY <1>6
<1> QED
  BY <1>3, <1>7

\* The blocks come one after the other.
LEMMA LaterBlock ==
  ASSUME NEW k \in Nat, NEW n \in Nat, k <= n, NEW size \in Nat
  PROVE  /\ k * size \in Nat /\ n * size \in Nat /\ k * size <= n * size
         /\ (k + 1) * size = k * size + size
<1>1. PICK m \in Nat : n = k + m
  <2>1. n - k \in Nat /\ n = k + (n - k)
    OBVIOUS
  <2> QED BY <2>1
<1>2. n * size = k * size + m * size
  BY <1>1
<1>3. m * size \in Nat /\ k * size \in Nat
  OBVIOUS
<1> QED
  BY <1>2, <1>3

\* Which block a number is in.
LEMMA BlockNumber ==
  ASSUME NEW k \in Nat, NEW size \in Nat \ {0}, NEW j \in 1 .. size
  PROVE  (k * size + j - 1) \div size = k
OBVIOUS

\* What \div gives, rounded down.
LEMMA DivIs ==
  ASSUME NEW a \in Nat, NEW size \in Nat \ {0}
  PROVE  a \div size \in Nat /\ (a \div size) * size <= a
OBVIOUS

\* Some sequence has the elements of a finite set of numbers in their order.
Ascending(s, S) == s \in [1 .. Cardinality(S) -> S] /\ \A i, j \in 1 .. Cardinality(S) : i < j => s[i] < s[j]

\* It exists: the greatest element comes last.
LEMMA AscendingExists ==
  ASSUME NEW S \in SUBSET Nat, IsFiniteSet(S)
  PROVE  \E s : Ascending(s, S)
<1> DEFINE Sized(n) == {R \in SUBSET Nat : IsFiniteSet(R) /\ Cardinality(R) = n}
           T == {n \in Nat : \A R \in Sized(n) : \E s : Ascending(s, R)}
<1>1. 0 \in T
  <2> SUFFICES ASSUME NEW R \in Sized(0) PROVE \E s : Ascending(s, R)
    OBVIOUS
  <2>1. R = {} /\ Cardinality(R) = 0
    BY FS_EmptySet
  <2>2. [i \in 1 .. 0 |-> 0] \in [1 .. 0 -> R]
    OBVIOUS
  <2>3. Ascending([i \in 1 .. 0 |-> 0], R)
    BY <2>1, <2>2 DEF Ascending
  <2> QED BY <2>3
<1>2. ASSUME NEW n \in Nat, n \in T PROVE n + 1 \in T
  <2> SUFFICES ASSUME NEW R \in Sized(n + 1) PROVE \E s : Ascending(s, R)
    OBVIOUS
  <2>1. R \in SUBSET Nat /\ IsFiniteSet(R) /\ Cardinality(R) = n + 1 /\ R # {}
    BY FS_EmptySet
  <2>2. PICK m \in R : \A p \in R : m >= p
    BY <2>1, GreatestExists
  <2> DEFINE Q == R \ {m}
  <2>3. Q \in SUBSET Nat /\ IsFiniteSet(Q) /\ Cardinality(Q) = n
    <3>1. IsFiniteSet(Q) /\ Cardinality(Q) = IF m \in R THEN Cardinality(R) - 1 ELSE Cardinality(R)
      BY <2>1, FS_RemoveElement
    <3> QED BY <2>1, <2>2, <3>1
  <2>4. PICK s : Ascending(s, Q)
    BY <1>2, <2>3
  <2> DEFINE e == [i \in 1 .. n + 1 |-> IF i = n + 1 THEN m ELSE s[i]]
  <2>5. s \in [1 .. n -> Q] /\ \A i, j \in 1 .. n : i < j => s[i] < s[j]
    BY <2>3, <2>4 DEF Ascending
  <2>6. e \in [1 .. n + 1 -> R]
    BY <2>2, <2>5
  <2>7. ASSUME NEW i \in 1 .. n + 1, NEW j \in 1 .. n + 1, i < j PROVE e[i] < e[j]
    <3>1. i \in 1 .. n /\ e[i] = s[i] /\ s[i] \in Q
      BY <2>5, <2>7
    <3>2. CASE j = n + 1
      <4>1. s[i] # m /\ s[i] \in R /\ m >= s[i] /\ s[i] \in Nat /\ m \in Nat
        BY <2>1, <2>2, <3>1
      <4> QED BY <3>1, <3>2, <4>1
    <3>3. CASE j # n + 1
      BY <2>5, <2>7, <3>1, <3>3
    <3> QED BY <3>2, <3>3
  <2>8. Ascending(e, R)
    <3> HIDE DEF e
    <3> QED BY <2>1, <2>6, <2>7 DEF Ascending
  <2> QED BY <2>8
<1>3. Nat \subseteq T
  <2> HIDE DEF T
  <2> QED BY <1>1, <1>2, SetInduction
<1>4. Cardinality(S) \in Nat /\ S \in Sized(Cardinality(S))
  BY FS_CardinalityType
<1> QED
  BY <1>3, <1>4

\* What InOrder gives: every element of the set, once and in order.
LEMMA InOrderIs ==
  ASSUME NEW S \in SUBSET Nat, IsFiniteSet(S)
  PROVE  /\ InOrder(S) \in [1 .. Cardinality(S) -> S]
         /\ \A i, j \in 1 .. Cardinality(S) : i < j => InOrder(S)[i] < InOrder(S)[j]
         /\ \A p \in S : \E i \in 1 .. Cardinality(S) : InOrder(S)[i] = p
<1> DEFINE n == Cardinality(S)
           s == InOrder(S)
<1>1. n \in Nat
  BY FS_CardinalityType
<1>2. \E e \in [1 .. n -> S] : \A i, j \in DOMAIN e : i < j => e[i] < e[j]
  BY AscendingExists DEF Ascending
<1>3. s \in [1 .. n -> S] /\ \A i, j \in DOMAIN s : i < j => s[i] < s[j]
  BY <1>2 DEF InOrder
<1> HIDE DEF s, n
<1>4. \A i, j \in 1 .. n : s[i] = s[j] => i = j
  <2> SUFFICES ASSUME NEW i \in 1 .. n, NEW j \in 1 .. n, s[i] = s[j], i # j PROVE FALSE
    OBVIOUS
  <2>1. s[i] \in S /\ s[j] \in S /\ i \in Nat /\ j \in Nat
    BY <1>1, <1>3
  <2>2. s[i] \in Nat
    BY <2>1
  <2>3. i < j \/ j < i
    BY <2>1
  <2>4. s[i] < s[j] \/ s[j] < s[i]
    BY <1>3, <2>3
  <2> QED BY <2>2, <2>4
<1> DEFINE D == 1 .. n
           I == {s[i] : i \in D}
<1>5. Cardinality(I) = n
  <2>1. IsFiniteSet(D) /\ Cardinality(D) = n
    BY <1>1, FS_Interval
  <2>2. \A i, j \in D : s[i] = s[j] => i = j
    BY <1>4
  <2> HIDE DEF D
  <2>3. Cardinality(I) = Cardinality(D)
    BY <2>1, <2>2, InjectiveImage, Zenon
  <2> QED BY <2>1, <2>3
<1>6. I \subseteq S
  BY <1>3
<1>7. I = S
  BY <1>5, <1>6, FS_Subset DEF n
<1> QED
  BY <1>3, <1>7 DEF s, n

\* A sequence over a set is one over a larger set.
LEMMA SeqWider ==
  ASSUME NEW S, NEW T, S \subseteq T, NEW s \in Seq(S)
  PROVE  s \in Seq(T)
<1>1. s \in [1 .. Len(s) -> S] /\ Len(s) \in Nat
  OBVIOUS
<1>2. s \in [1 .. Len(s) -> T]
  BY <1>1
<1> QED
  BY ONLY <1>1, <1>2

\* A sequence whose elements are in a set is one over it.
LEMMA SeqByEntries ==
  ASSUME NEW T, NEW S, NEW s \in Seq(T), \A i \in 1 .. Len(s) : s[i] \in S
  PROVE  s \in Seq(S)
<1>1. s \in [1 .. Len(s) -> T] /\ Len(s) \in Nat
  OBVIOUS
<1>2. s \in [1 .. Len(s) -> S]
  BY <1>1
<1> QED
  BY ONLY <1>1, <1>2

\* The smaller of two.
LEMMA MinOfTwo ==
  ASSUME NEW a \in Nat, NEW b \in Nat
  PROVE  Min({a, b}) \in Nat /\ Min({a, b}) <= a /\ Min({a, b}) <= b /\ Min({a, b}) \in {a, b}
<1>1. {a, b} \in SUBSET Nat /\ {a, b} # {}
  OBVIOUS
<1>2. Min({a, b}) \in {a, b} /\ \A y \in {a, b} : Min({a, b}) <= y
  BY <1>1, MinIsLeast
<1> QED
  BY <1>2
=============================================================================
