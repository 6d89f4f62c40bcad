------------------------------ MODULE BestProofs ------------------------------
(***************************************************************************)
(* What holds of any number of runs of infod-best, any nodes, loads and    *)
(* demands: runs that do not overlap keep each other's reservations, and   *)
(* the nodes a run chooses one by one are a good choice together.          *)
(***************************************************************************)
EXTENDS Best, NatLemmas

(***************************************************************************)
(* Sums over finite sets, as MapThenSumSet computes them: one element      *)
(* after the other, in an order of its own.                                *)
(***************************************************************************)
Pick(s) == CHOOSE x \in s : TRUE

\* g follows the recursion of MapThenSumSet over the subsets of S, each element counting
\* what h says.
FollowsSum(g, h, S) ==
  g = [s \in SUBSET S |-> IF s = {} THEN 0 ELSE h[Pick(s)] + g[s \ {Pick(s)}]]

\* The first element picked, and what is left.
LEMMA PickLeaves ==
  ASSUME NEW s, IsFiniteSet(s), s # {}
  PROVE  /\ Pick(s) \in s /\ IsFiniteSet(s \ {Pick(s)})
         /\ Cardinality(s) \in Nat \ {0} /\ Cardinality(s \ {Pick(s)}) = Cardinality(s) - 1
<1>1. Pick(s) \in s
  BY DEF Pick
<1>2. /\ IsFiniteSet(s \ {Pick(s)}) /\ Cardinality(s \ {Pick(s)}) = Cardinality(s) - 1
      /\ Cardinality(s) \in Nat /\ Cardinality(s \ {Pick(s)}) \in Nat
  BY <1>1, FS_RemoveElement, FS_CardinalityType
<1> QED
  BY <1>1, <1>2

\* A finite set less one of its elements.
LEMMA RemoveOne ==
  ASSUME NEW s, IsFiniteSet(s), NEW x \in s
  PROVE  /\ IsFiniteSet(s \ {x}) /\ Cardinality(s) \in Nat
         /\ Cardinality(s \ {x}) = Cardinality(s) - 1
BY FS_RemoveElement, FS_CardinalityType

\* The recursion is well founded: a function that follows it exists, on ever larger subsets.
LEMMA SumExists ==
  ASSUME NEW h, NEW S, IsFiniteSet(S)
  PROVE  \E g : FollowsSum(g, h, S)
<1> DEFINE Turn(g, s) == IF s = {} THEN 0 ELSE h[Pick(s)] + g[s \ {Pick(s)}]
           Small(m) == {s \in SUBSET S : Cardinality(s) <= m}
           Good(m) == \E g : g = [s \in Small(m) |-> Turn(g, s)]
<1>1. \A s \in SUBSET S : /\ IsFiniteSet(s) /\ Cardinality(s) \in Nat
                          /\ Cardinality(s) <= Cardinality(S)
                          /\ s = {} <=> Cardinality(s) = 0
  BY FS_Subset, FS_CardinalityType, FS_EmptySet
<1>2. ASSUME NEW s \in SUBSET S, s # {}
      PROVE  s \ {Pick(s)} \in SUBSET S /\ Cardinality(s \ {Pick(s)}) = Cardinality(s) - 1
  BY <1>1, <1>2, PickLeaves
<1>3. Good(0)
  <2> DEFINE g == [s \in Small(0) |-> 0]
  <2>1. \A s \in Small(0) : s = {}
    BY <1>1
  <2>2. \A s \in Small(0) : Turn(g, s) = 0
    BY <2>1
  <2>3. [s \in Small(0) |-> Turn(g, s)] = [s \in Small(0) |-> 0]
    BY <2>2
  <2> QED BY <2>3
<1>4. ASSUME NEW m \in Nat, Good(m)
      PROVE  Good(m + 1)
  <2>1. PICK f : f = [s \in Small(m) |-> Turn(f, s)]
    BY <1>4
  <2> DEFINE g == [s \in Small(m + 1) |-> IF s \in Small(m) THEN f[s] ELSE Turn(f, s)]
  <2>2. ASSUME NEW s \in Small(m + 1)
        PROVE  g[s] = Turn(g, s)
    <3>1. CASE s = {}
      <4>1. s \in Small(m)
        BY <1>1, <3>1
      <4>2. f[s] = 0
        BY <2>1, <3>1, <4>1
      <4> QED BY <3>1, <4>1, <4>2
    <3>2. CASE s # {}
      <4> DEFINE r == s \ {Pick(s)}
      <4>1. r \in SUBSET S /\ Cardinality(r) = Cardinality(s) - 1 /\ Cardinality(s) \in Nat
        BY <1>1, <1>2, <3>2
      <4>2. r \in Small(m) /\ r \in Small(m + 1)
        BY <4>1
      <4>3. g[r] = f[r]
        BY <4>2
      <4>4. g[s] = Turn(f, s)
        BY <2>1
      <4> QED BY <3>2, <4>3, <4>4
    <3> QED BY <3>1, <3>2
  <2>3. g = [s \in Small(m + 1) |-> g[s]]
    OBVIOUS
  <2> HIDE DEF g, Small, Turn
  <2>4. g = [s \in Small(m + 1) |-> Turn(g, s)]
    BY <2>2, <2>3
  <2> QED BY <2>4
<1> HIDE DEF Good
<1>5. \A m \in Nat : Good(m)
  <2> DEFINE T == {m \in Nat : ~Good(m)}
  <2> SUFFICES ASSUME T # {} PROVE FALSE
    OBVIOUS
  <2>1. PICK x \in T : \A y \in T : x <= y
    BY LeastExists
  <2>2. x \in Nat /\ x # 0 /\ x - 1 \in Nat /\ ~(x <= x - 1)
    BY <1>3, <2>1
  <2>3. Good(x - 1)
    BY <2>1, <2>2
  <2>4. Good(x)
    BY <1>4, <2>2, <2>3
  <2> QED BY <2>1, <2>4
<1>6. Good(Cardinality(S))
  BY <1>5, FS_CardinalityType
<1>7. Small(Cardinality(S)) = SUBSET S
  BY <1>1
<1> QED
  BY <1>6, <1>7 DEF Good, FollowsSum

\* The recursion, read pointwise.
LEMMA SumSteps ==
  ASSUME NEW g, NEW h, NEW S, FollowsSum(g, h, S)
  PROVE  /\ g[{}] = 0
         /\ \A s \in SUBSET S : s # {} => g[s] = h[Pick(s)] + g[s \ {Pick(s)}]
<1>1. {} \in SUBSET S
  OBVIOUS
<1> QED
  BY <1>1, Zenon DEF FollowsSum

\* Sums of naturals are naturals, and it does not matter which element is added last.
LEMMA SumAny ==
  ASSUME NEW g, NEW h, NEW S, IsFiniteSet(S), FollowsSum(g, h, S), \A x \in S : h[x] \in Nat
  PROVE  \A s \in SUBSET S : g[s] \in Nat /\ \A x \in s : g[s] = h[x] + g[s \ {x}]
<1> DEFINE Good(s) == g[s] \in Nat /\ \A x \in s : g[s] = h[x] + g[s \ {x}]
           T == {n \in Nat : \E s \in SUBSET S : Cardinality(s) = n /\ ~Good(s)}
<1>1. \A s \in SUBSET S : IsFiniteSet(s) /\ Cardinality(s) \in Nat
  BY FS_Subset, FS_CardinalityType
<1> SUFFICES ASSUME NEW s \in SUBSET S, ~Good(s) PROVE FALSE
  OBVIOUS
<1>2. T \in SUBSET Nat /\ Cardinality(s) \in T
  BY <1>1
<1> HIDE DEF T
<1>3. PICK n \in T : \A m \in T : n <= m
  BY <1>2, LeastExists
<1>4. PICK z \in SUBSET S : Cardinality(z) = n /\ ~Good(z)
  BY <1>3 DEF T
<1>5. \A y \in SUBSET S : Cardinality(y) < n => Good(y)
  <2> SUFFICES ASSUME NEW y \in SUBSET S, Cardinality(y) < n, ~Good(y) PROVE FALSE
    OBVIOUS
  <2>1. Cardinality(y) \in T
    BY <1>1 DEF T
  <2>2. n \in Nat /\ ~(n <= Cardinality(y))
    BY <1>1, <1>2, <1>3
  <2> QED BY <1>3, <2>1, <2>2
<1> HIDE DEF Good
<1>6. CASE z = {}
  <2>1. Good(z)
    BY <1>6, SumSteps DEF Good
  <2> QED BY <1>4, <2>1
<1>7. CASE z # {}
  <2> DEFINE c == Pick(z)
             r == z \ {c}
  <2>1. /\ c \in z /\ c \in S /\ h[c] \in Nat /\ r \in SUBSET S /\ IsFiniteSet(r)
        /\ Cardinality(r) = n - 1
    BY <1>1, <1>4, <1>7, PickLeaves
  <2>2. g[z] = h[c] + g[r]
    BY <1>7, SumSteps
  <2> HIDE DEF c
  <2>3. g[r] \in Nat /\ \A x \in r : g[r] = h[x] + g[r \ {x}]
    <3>1. n \in Nat
      BY <1>3, <1>2
    <3>2. Cardinality(r) < n
      BY <2>1, <3>1
    <3> HIDE DEF r
    <3> QED BY <1>5, <2>1, <3>2 DEF Good
  <2>4. ASSUME NEW x \in z
        PROVE  g[z] = h[x] + g[z \ {x}]
    <3>1. CASE x = c
      BY <2>2, <3>1
    <3>2. CASE x # c
      <4> DEFINE q == z \ {x}
                 b == r \ {x}
      <4>1. x \in r /\ c \in q /\ q \in SUBSET S /\ b = q \ {c} /\ h[x] \in Nat /\ b \in SUBSET S
        BY <2>1, <3>2
      <4>2. Cardinality(q) < n /\ Cardinality(b) < n
        <5>1. IsFiniteSet(z) /\ Cardinality(z) = n /\ n \in Nat
          BY <1>1, <1>4
        <5>2. Cardinality(q) = n - 1
          BY <5>1, RemoveOne
        <5> HIDE DEF r
        <5>3. Cardinality(b) = Cardinality(r) - 1
          BY <2>1, <4>1, RemoveOne
        <5> QED BY <5>1, <5>2, <5>3, <2>1
      <4> HIDE DEF q, b
      <4>3. g[q] = h[c] + g[b]
        BY <1>5, <4>1, <4>2 DEF Good
      <4>4. g[r] = h[x] + g[b]
        BY <2>3, <4>1 DEF b
      <4>5. g[b] \in Nat
        BY <1>5, <4>1, <4>2 DEF Good
      <4>6. g[z] = h[x] + g[q]
        BY <2>1, <2>2, <4>1, <4>3, <4>4, <4>5
      <4> QED BY <4>6 DEF q
    <3> QED BY <3>1, <3>2
  <2>5. Good(z)
    BY <2>1, <2>2, <2>3, <2>4 DEF Good
  <2> QED BY <1>4, <2>5
<1> QED
  BY <1>6, <1>7

\* Two functions that follow the recursion agree where both are defined.
LEMMA SumUnique ==
  ASSUME NEW g, NEW k, NEW h, NEW S, NEW T, IsFiniteSet(S), T \subseteq S,
         FollowsSum(g, h, S), FollowsSum(k, h, T)
  PROVE  \A s \in SUBSET T : g[s] = k[s]
<1> DEFINE U == {n \in Nat : \E s \in SUBSET T : Cardinality(s) = n /\ g[s] # k[s]}
<1>1. \A s \in SUBSET T : s \in SUBSET S /\ IsFiniteSet(s) /\ Cardinality(s) \in Nat
  BY FS_Subset, FS_CardinalityType
<1> SUFFICES ASSUME NEW s \in SUBSET T, g[s] # k[s] PROVE FALSE
  OBVIOUS
<1>2. U \in SUBSET Nat /\ Cardinality(s) \in U
  BY <1>1
<1> HIDE DEF U
<1>3. PICK n \in U : \A m \in U : n <= m
  BY <1>2, LeastExists
<1>4. PICK z \in SUBSET T : Cardinality(z) = n /\ g[z] # k[z]
  BY <1>3 DEF U
<1>5. CASE z = {}
  BY <1>4, <1>5, SumSteps
<1>6. CASE z # {}
  <2> DEFINE r == z \ {Pick(z)}
  <2>1. r \in SUBSET T /\ Cardinality(r) = n - 1 /\ n \in Nat
    BY <1>1, <1>2, <1>4, <1>6, PickLeaves
  <2>2. Cardinality(r) \in Nat /\ ~(n <= Cardinality(r))
    BY <1>1, <2>1
  <2>3. g[r] = k[r]
    BY <1>3, <2>1, <2>2 DEF U
  <2>4. g[z] = h[Pick(z)] + g[r] /\ k[z] = h[Pick(z)] + k[r]
    BY <1>1, <1>6, SumSteps
  <2> QED BY <1>4, <2>3, <2>4
<1> QED
  BY <1>5, <1>6

\* A subset adds up to no more.
LEMMA SumMonotone ==
  ASSUME NEW g, NEW h, NEW S, IsFiniteSet(S), FollowsSum(g, h, S), \A x \in S : h[x] \in Nat
  PROVE  \A s \in SUBSET S : \A t \in SUBSET s : g[t] <= g[s]
<1> DEFINE Bad(s) == \E t \in SUBSET s : ~(g[t] <= g[s])
           U == {n \in Nat : \E s \in SUBSET S : Cardinality(s) = n /\ Bad(s)}
<1>1. \A s \in SUBSET S : IsFiniteSet(s) /\ Cardinality(s) \in Nat
  BY FS_Subset, FS_CardinalityType
<1>2. \A s \in SUBSET S : g[s] \in Nat /\ \A x \in s : g[s] = h[x] + g[s \ {x}]
  BY SumAny
<1> SUFFICES ASSUME NEW s \in SUBSET S, Bad(s) PROVE FALSE
  OBVIOUS
<1> HIDE DEF Bad
<1>3. U \in SUBSET Nat /\ Cardinality(s) \in U
  BY <1>1
<1> HIDE DEF U
<1>4. PICK n \in U : \A m \in U : n <= m
  BY <1>3, LeastExists
<1>5. PICK z \in SUBSET S : Cardinality(z) = n /\ Bad(z)
  BY <1>4 DEF U
<1>6. PICK t \in SUBSET z : ~(g[t] <= g[z])
  BY <1>5 DEF Bad
<1>7. g[t] \in Nat /\ g[z] \in Nat /\ t # z
  BY <1>2, <1>6
<1>8. PICK x \in z : x \notin t
  BY <1>6, <1>7
<1> DEFINE r == z \ {x}
<1>9. r \in SUBSET S /\ t \in SUBSET r /\ h[x] \in Nat /\ g[r] \in Nat /\ g[z] = h[x] + g[r]
  BY <1>2, <1>6, <1>8
<1>10. Cardinality(r) = n - 1 /\ n \in Nat
  BY <1>1, <1>5, <1>8, RemoveOne
<1> HIDE DEF r
<1>11. Bad(r)
  BY <1>6, <1>7, <1>9 DEF Bad
<1>12. n - 1 \in U
  BY <1>1, <1>9, <1>10, <1>11 DEF U
<1> QED
  BY <1>4, <1>10, <1>12

-----------------------------------------------------------------------------
(***************************************************************************)
(* What a set of constraints announces of a node                           *)
(***************************************************************************)
MemoryOf == [c \in Constraint |-> c.memory]
ProcsOf == [c \in Constraint |-> c.procs]

\* lcMemory adds the memories up.
LEMMA MemoryIsSum ==
  ASSUME NEW lc \in SUBSET Constraint, IsFiniteSet(lc), NEW n
  PROVE  \E g : FollowsSum(g, MemoryOf, Announced(lc, n)) /\ lcMemory(lc, n) = g[Announced(lc, n)]
<1> DEFINE A == Announced(lc, n)
           Turn(g, s) == IF s = {} THEN 0 ELSE Pick(s).memory + g[s \ {Pick(s)}]
           it == CHOOSE g : g = [s \in SUBSET A |-> Turn(g, s)]
<1>1. lcMemory(lc, n) = it[A]
  BY Zenon DEF lcMemory, MapThenSumSet, MapThenFoldSet, Pick
<1>2. A \in SUBSET Constraint /\ IsFiniteSet(A)
  <2>1. A \subseteq lc
    BY DEF Announced
  <2> QED BY <2>1, FS_Subset
<1> HIDE DEF A
<1>3. ASSUME NEW g
      PROVE  g = [s \in SUBSET A |-> Turn(g, s)] <=> FollowsSum(g, MemoryOf, A)
  <2>1. \A s \in SUBSET A : s # {} => MemoryOf[Pick(s)] = Pick(s).memory
    BY <1>2 DEF MemoryOf, Pick
  <2>2. [s \in SUBSET A |-> Turn(g, s)]
          = [s \in SUBSET A |-> IF s = {} THEN 0 ELSE MemoryOf[Pick(s)] + g[s \ {Pick(s)}]]
    BY <2>1
  <2> QED BY <2>2, Zenon DEF FollowsSum
<1>4. \E g : FollowsSum(g, MemoryOf, A)
  BY <1>2, SumExists
<1> HIDE DEF Turn
<1>5. \E g : g = [s \in SUBSET A |-> Turn(g, s)]
  BY <1>3, <1>4
<1>6. it = [s \in SUBSET A |-> Turn(it, s)]
  BY <1>5, Zenon
<1> HIDE DEF it
<1>7. FollowsSum(it, MemoryOf, A)
  BY <1>3, <1>6
<1> QED
  BY <1>1, <1>7, Zenon DEF A

\* So does lcProcesses with the processes.
LEMMA ProcessesAreSum ==
  ASSUME NEW lc \in SUBSET Constraint, IsFiniteSet(lc), NEW n
  PROVE  \E g : FollowsSum(g, ProcsOf, Announced(lc, n)) /\ lcProcesses(lc, n) = g[Announced(lc, n)]
<1> DEFINE A == Announced(lc, n)
           Turn(g, s) == IF s = {} THEN 0 ELSE Pick(s).procs + g[s \ {Pick(s)}]
           it == CHOOSE g : g = [s \in SUBSET A |-> Turn(g, s)]
<1>1. lcProcesses(lc, n) = it[A]
  BY Zenon DEF lcProcesses, MapThenSumSet, MapThenFoldSet, Pick
<1>2. A \in SUBSET Constraint /\ IsFiniteSet(A)
  <2>1. A \subseteq lc
    BY DEF Announced
  <2> QED BY <2>1, FS_Subset
<1> HIDE DEF A
<1>3. ASSUME NEW g
      PROVE  g = [s \in SUBSET A |-> Turn(g, s)] <=> FollowsSum(g, ProcsOf, A)
  <2>1. \A s \in SUBSET A : s # {} => ProcsOf[Pick(s)] = Pick(s).procs
    BY <1>2 DEF ProcsOf, Pick
  <2>2. [s \in SUBSET A |-> Turn(g, s)]
          = [s \in SUBSET A |-> IF s = {} THEN 0 ELSE ProcsOf[Pick(s)] + g[s \ {Pick(s)}]]
    BY <2>1
  <2> QED BY <2>2, Zenon DEF FollowsSum
<1>4. \E g : FollowsSum(g, ProcsOf, A)
  BY <1>2, SumExists
<1> HIDE DEF Turn
<1>5. \E g : g = [s \in SUBSET A |-> Turn(g, s)]
  BY <1>3, <1>4
<1>6. it = [s \in SUBSET A |-> Turn(it, s)]
  BY <1>5, Zenon
<1> HIDE DEF it
<1>7. FollowsSum(it, ProcsOf, A)
  BY <1>3, <1>6
<1> QED
  BY <1>1, <1>7, Zenon DEF A

\* Both are naturals.
LEMMA AnnouncedNat ==
  ASSUME NEW lc \in SUBSET Constraint, IsFiniteSet(lc), NEW n
  PROVE  lcMemory(lc, n) \in Nat /\ lcProcesses(lc, n) \in Nat
<1> DEFINE A == Announced(lc, n)
<1>1. A \in SUBSET lc /\ IsFiniteSet(A)
  <2>1. A \subseteq lc
    BY DEF Announced
  <2> QED BY <2>1, FS_Subset
<1>2. PICK g : FollowsSum(g, MemoryOf, A) /\ lcMemory(lc, n) = g[A]
  BY MemoryIsSum
<1>3. PICK k : FollowsSum(k, ProcsOf, A) /\ lcProcesses(lc, n) = k[A]
  BY ProcessesAreSum
<1>4. \A x \in A : MemoryOf[x] \in Nat /\ ProcsOf[x] \in Nat
  BY <1>1 DEF MemoryOf, ProcsOf, Constraint
<1> HIDE DEF A
<1>5. g[A] \in Nat
  BY <1>1, <1>2, <1>4, SumAny
<1>6. k[A] \in Nat
  BY <1>1, <1>3, <1>4, SumAny
<1> QED
  BY <1>2, <1>3, <1>5, <1>6

\* Fewer constraints announce no more memory.
LEMMA FewerFit ==
  ASSUME NEW lc \in SUBSET Constraint, IsFiniteSet(lc), NEW some \in SUBSET lc, NEW n
  PROVE  lcMemory(some, n) <= lcMemory(lc, n)
<1> DEFINE A == Announced(lc, n)
           B == Announced(some, n)
<1>1. A \in SUBSET lc /\ IsFiniteSet(A) /\ B \subseteq A
  <2>1. A \subseteq lc /\ B \subseteq A
    BY DEF Announced
  <2> QED BY <2>1, FS_Subset
<1>2. PICK g : FollowsSum(g, MemoryOf, A) /\ lcMemory(lc, n) = g[A]
  BY MemoryIsSum
<1>3. some \in SUBSET Constraint /\ IsFiniteSet(some)
  BY FS_Subset
<1>4. PICK k : FollowsSum(k, MemoryOf, B) /\ lcMemory(some, n) = k[B]
  BY <1>3, MemoryIsSum
<1>5. \A x \in A : MemoryOf[x] \in Nat
  BY <1>1 DEF MemoryOf, Constraint
<1> HIDE DEF A, B
<1>6. g[B] = k[B]
  BY <1>1, <1>2, <1>4, SumUnique
<1>7. g[B] <= g[A]
  BY <1>1, <1>2, <1>5, SumMonotone
<1> QED
  BY <1>2, <1>4, <1>6, <1>7

\* One more constraint adds its memory to its node, unless it was there, and nothing to the
\* others.
LEMMA OneMore ==
  ASSUME NEW lc \in SUBSET Constraint, IsFiniteSet(lc), NEW c \in Constraint, NEW n
  PROVE  \/ lcMemory(lc \cup {c}, n) = lcMemory(lc, n)
         \/ c.node = n /\ lcMemory(lc \cup {c}, n) = lcMemory(lc, n) + c.memory
<1> DEFINE all == lc \cup {c}
           A == Announced(all, n)
           B == Announced(lc, n)
<1>1. all \in SUBSET Constraint /\ IsFiniteSet(all)
  BY FS_AddElement
<1>2. CASE A = B
  <2>1. lcMemory(all, n) = lcMemory(lc, n)
    <3> HIDE DEF A, B, all
    <3> QED BY <1>2, Zenon DEF lcMemory, A, B
  <2> QED BY <2>1
<1>3. CASE A # B
  <2>1. c \in A /\ c.node = n /\ B = A \ {c} /\ B \in SUBSET A /\ A \in SUBSET all
    BY <1>3 DEF Announced
  <2>2. IsFiniteSet(A)
    BY <1>1, <2>1, FS_Subset
  <2> HIDE DEF all
  <2>3. PICK g : FollowsSum(g, MemoryOf, A) /\ lcMemory(all, n) = g[A]
    BY <1>1, MemoryIsSum
  <2>4. PICK k : FollowsSum(k, MemoryOf, B) /\ lcMemory(lc, n) = k[B]
    BY MemoryIsSum
  <2>5. \A x \in A : MemoryOf[x] \in Nat
    BY <1>1, <2>1 DEF MemoryOf, Constraint
  <2>6. MemoryOf[c] = c.memory /\ c.memory \in Nat
    BY DEF MemoryOf, Constraint
  <2> HIDE DEF A, B
  <2>7. g[B] = k[B]
    BY <2>1, <2>2, <2>3, <2>4, SumUnique
  <2>8. g[A] = MemoryOf[c] + g[A \ {c}] /\ g[B] \in Nat
    <3>1. \A s \in SUBSET A : g[s] \in Nat /\ \A x \in s : g[s] = MemoryOf[x] + g[s \ {x}]
      BY <2>2, <2>3, <2>5, SumAny
    <3>2. A \in SUBSET A /\ B \in SUBSET A /\ c \in A
      BY <2>1
    <3> QED BY <3>1, <3>2, Zenon
  <2>9. g[A \ {c}] = g[B]
    BY <2>1, Zenon
  <2>10. lcMemory(all, n) = lcMemory(lc, n) + c.memory
    BY <2>3, <2>4, <2>6, <2>7, <2>8, <2>9
  <2> QED BY <2>1, <2>10 DEF all
<1> QED
  BY <1>2, <1>3

-----------------------------------------------------------------------------
(***************************************************************************)
(* The invariant                                                           *)
(***************************************************************************)
\* Free memory and load once the processes of a are assigned, of the constraints lc alone.
FreeAfter(lc, mem, a, n) == MemoryLeft(lc, n) - a[n] * mem
LoadAfter(lc, a, n) == Load[n] + Cost[n] * (lcProcesses(lc, n) + a[n] + 1)

\* What every prefix of the choice keeps: the processes assigned fit, and none of them would
\* be better off on another node with room.
GoodChoice(lc, mem, a) ==
  /\ a \in [Nodes -> Nat]
  /\ \A n \in Nodes : a[n] > 0 =>
       /\ a[n] * mem <= MemoryLeft(lc, n)
       /\ \A m \in Nodes : FreeAfter(lc, mem, a, m) > mem =>
            LoadAfter(lc, a, n) - Cost[n] - LoadAfter(lc, a, m) <= EqualLoadDiff

\* A file as every run leaves it: whole, finite and within the write buffer.
GoodFile(f) ==
  /\ f \in File /\ f.whole /\ IsFiniteSet(f.items) /\ Size(f.items) <= FileRoom
  /\ ~f.there => f.items = {}

Fitting(items) == \A n \in Nodes : lcMemory(items, n) <= FreeMem[n]

\* One run by itself.
GoodRun(m) ==
  /\ m \in Run
  /\ m.at \in Ended => m = NoProcess(m.at)
  /\ IsFiniteSet(m.lc) /\ GoodFile(m.tmp)
  /\ m.at = "chosen" => GoodChoice(m.lc, m.want.memory, m.assigned)

\* A run that nobody overlaps: it knows every announcement in force, and what it will put in
\* the file's place holds them too.
Alone(m, f, live) ==
  /\ m.at = "sized" => m.size = Size(f.items)
  /\ m.at \in {"loaded", "chosen"} => live \subseteq m.lc /\ m.lc \subseteq f.items
  /\ m.at = "written" => live \subseteq m.tmp.items /\ Fitting(m.tmp.items)
  /\ m.at = "renamed" => m.tmp = f

OneRun == \A q, r \in Runs : run[q].at \notin Ended /\ run[r].at \notin Ended => q = r

Undisturbed ==
  /\ OneRun
  /\ Live(granted) \subseteq file.items /\ Fitting(file.items)
  /\ \A r \in Runs : Alone(run[r], file, Live(granted))

IInv ==
  /\ now \in 0 .. MaxTime /\ granted \subseteq Constraint /\ overlapped \in BOOLEAN
  /\ GoodFile(file)
  /\ run \in [Runs -> Run] /\ \A r \in Runs : GoodRun(run[r])
  /\ ~overlapped => Undisturbed

-----------------------------------------------------------------------------
(***************************************************************************)
(* The choice                                                              *)
(***************************************************************************)
\* What a run needs to choose.
Able(m) == m.lc \in SUBSET Constraint /\ IsFiniteSet(m.lc) /\ m.want \in Demands

\* What is left of a node's memory is a natural, and no more than it has.
LEMMA LeftNat ==
  ASSUME NEW lc \in SUBSET Constraint, IsFiniteSet(lc), NEW n \in Nodes
  PROVE  MemoryLeft(lc, n) \in Nat /\ MemoryLeft(lc, n) <= FreeMem[n]
<1>1. lcMemory(lc, n) \in Nat
  BY AnnouncedNat
<1>2. FreeMem[n] \in Nat
  BY BestAssumption
<1> QED
  BY <1>1, <1>2 DEF MemoryLeft

\* Nothing assigned yet.
LEMMA NothingAssigned ==
  ASSUME NEW lc, NEW mem
  PROVE  GoodChoice(lc, mem, [n \in Nodes |-> 0])
BY DEF GoodChoice

\* A process more, on a node chooseBestNode offers, leaves the choice good: the node had room
\* for it, its load without it was as good as any, and the other nodes lost nothing.
LEMMA OneProcessMore ==
  ASSUME NEW r, Able(run[r]), NEW a, GoodChoice(run[r].lc, run[r].want.memory, a),
         NEW n \in chooseBestNode(r, a)
  PROVE  GoodChoice(run[r].lc, run[r].want.memory, updateChosenNodeLoad(a, n))
<1> DEFINE lc == run[r].lc
           mem == run[r].want.memory
           b == updateChosenNodeLoad(a, n)
           left(m) == MemoryLeft(lc, m)
           fore(m) == LoadAfter(lc, a, m)
           then(m) == LoadAfter(lc, b, m)
<1>1. lc \in SUBSET Constraint /\ IsFiniteSet(lc) /\ mem \in Nat
  <2>1. run[r].want \in [procs : Nat \ {0}, memory : Nat]
    BY BestAssumption DEF Able
  <2> QED BY <2>1 DEF Able
<1>2. n \in Nodes
  BY DEF chooseBestNode, Fit
<1>3. a \in [Nodes -> Nat] /\ b \in [Nodes -> Nat] /\ b[n] = a[n] + 1
      /\ \A m \in Nodes : m # n => b[m] = a[m]
  <2>1. a \in [Nodes -> Nat]
    BY DEF GoodChoice
  <2> QED BY <1>2, <2>1 DEF updateChosenNodeLoad
<1>4. /\ left(n) - a[n] * mem > mem
      /\ \A m \in Nodes : left(m) - a[m] * mem > mem => fore(n) - fore(m) <= EqualLoadDiff
  <2>1. \A m \in Nodes : freeMem(r, a, m) = left(m) - a[m] * mem
    BY DEF freeMem
  <2>2. \A m \in Nodes : FutureLoad(r, a, m) = fore(m)
    BY DEF FutureLoad, LoadAfter
  <2>3. \A m \in Nodes : m \in Fit(r, a) <=> freeMem(r, a, m) > mem
    BY DEF Fit
  <2>4. n \in Fit(r, a)
        /\ \A m \in Fit(r, a) : FutureLoad(r, a, n) - FutureLoad(r, a, m) <= EqualLoadDiff
    BY Zenon DEF chooseBestNode
  <2> HIDE DEF lc, mem, left, fore
  <2>5. left(n) - a[n] * mem > mem
    BY <1>2, <2>1, <2>3, <2>4
  <2>6. ASSUME NEW m \in Nodes, left(m) - a[m] * mem > mem
        PROVE  fore(n) - fore(m) <= EqualLoadDiff
    <3>1. m \in Fit(r, a)
      BY <2>1, <2>3, <2>6
    <3> QED BY <1>2, <2>2, <2>4, <3>1
  <2> QED BY <2>5, <2>6
<1>5. \A m \in Nodes : a[m] > 0 =>
        /\ a[m] * mem <= left(m)
        /\ \A k \in Nodes : left(k) - a[k] * mem > mem =>
             fore(m) - Cost[m] - fore(k) <= EqualLoadDiff
  BY DEF GoodChoice, FreeAfter
<1>6. \A m \in Nodes : /\ left(m) \in Nat /\ a[m] \in Nat /\ a[m] * mem \in Nat
                       /\ Cost[m] \in Nat
  <2>1. \A m \in Nodes : left(m) \in Nat
    BY <1>1, LeftNat
  <2>2. \A m \in Nodes : Cost[m] \in Nat
    BY BestAssumption
  <2>3. ASSUME NEW i \in Nat, NEW j \in Nat PROVE i * j \in Nat
    OBVIOUS
  <2> HIDE DEF left, mem
  <2> QED BY <1>1, <1>3, <2>1, <2>2, <2>3
<1>7. \A m \in Nodes : m # n => then(m) = fore(m)
  BY <1>3 DEF LoadAfter
<1>8. \A m \in Nodes : fore(m) \in Nat
  <2> SUFFICES ASSUME NEW m \in Nodes PROVE fore(m) \in Nat
    OBVIOUS
  <2> DEFINE p == lcProcesses(lc, m) + a[m] + 1
  <2>1. lcProcesses(lc, m) \in Nat
    BY <1>1, AnnouncedNat
  <2>2. p \in Nat
    BY <1>3, <2>1
  <2>3. Load[m] \in Nat /\ Cost[m] \in Nat
    BY BestAssumption
  <2>4. fore(m) = Load[m] + Cost[m] * p
    BY DEF LoadAfter
  <2>5. Cost[m] * p \in Nat
    <3> HIDE DEF p
    <3>1. \A i, j \in Nat : i * j \in Nat
      OBVIOUS
    <3> QED BY <2>2, <2>3, <3>1
  <2> QED BY <2>3, <2>4, <2>5
<1>9. then(n) = fore(n) + Cost[n]
  <2> DEFINE p == lcProcesses(lc, n)
  <2>1. p \in Nat
    BY <1>1, AnnouncedNat
  <2>2. Load[n] \in Nat /\ Cost[n] \in Nat /\ a[n] \in Nat
    BY <1>2, <1>3, BestAssumption
  <2>3. fore(n) = Load[n] + Cost[n] * (p + a[n] + 1)
    BY DEF LoadAfter
  <2>4. then(n) = Load[n] + Cost[n] * (p + (a[n] + 1) + 1)
    BY <1>3 DEF LoadAfter
  <2>5. \A c, i, j \in Nat : c * (i + (j + 1) + 1) = c * (i + j + 1) + c
    OBVIOUS
  <2>6. Cost[n] * (p + (a[n] + 1) + 1) = Cost[n] * (p + a[n] + 1) + Cost[n]
    <3> HIDE DEF p
    <3> QED BY <2>1, <2>2, <2>5
  <2>7. Cost[n] * (p + a[n] + 1) \in Int
    <3> HIDE DEF p
    <3>1. \A i \in Nat, j \in Nat : i * j \in Int
      OBVIOUS
    <3>2. p + a[n] + 1 \in Nat
      BY <2>1, <2>2
    <3> QED BY <2>2, <3>1, <3>2
  <2> HIDE DEF p, then, fore
  <2> QED BY <2>2, <2>3, <2>4, <2>6, <2>7
<1>10. (a[n] + 1) * mem = a[n] * mem + mem
  <2>1. \A i, j \in Nat : (i + 1) * j = i * j + j
    OBVIOUS
  <2> HIDE DEF mem
  <2> QED BY <1>1, <1>2, <1>3, <2>1
<1>11. ASSUME NEW m \in Nodes
       PROVE  b[m] * mem \in Nat /\ b[m] * mem >= a[m] * mem
  <2> HIDE DEF mem, b
  <2>1. CASE m = n
    <3>1. b[m] * mem = a[n] * mem + mem
      BY <1>3, <1>10, <2>1
    <3> QED BY <1>1, <1>6, <2>1, <3>1
  <2>2. CASE m # n
    BY <1>3, <1>6, <2>2
  <2> QED BY <2>1, <2>2
<1> HIDE DEF left, fore, then, mem, b, lc
<1>12. ASSUME NEW m \in Nodes, b[m] > 0
       PROVE  b[m] * mem <= left(m)
  <2>1. CASE m = n
    <3>1. b[m] * mem = a[n] * mem + mem
      BY <1>3, <1>10, <2>1
    <3> QED BY <1>1, <1>2, <1>4, <1>6, <2>1, <3>1
  <2>2. CASE m # n
    BY <1>3, <1>5, <1>12, <2>2
  <2> QED BY <2>1, <2>2
<1>13. ASSUME NEW m \in Nodes, b[m] > 0, NEW k \in Nodes, left(k) - b[k] * mem > mem
       PROVE  then(m) - Cost[m] - then(k) <= EqualLoadDiff
  <2>1. left(k) - a[k] * mem > mem
    BY <1>1, <1>6, <1>11, <1>13
  <2>2. then(k) \in Nat /\ fore(k) \in Nat /\ fore(k) <= then(k)
    <3>1. CASE k = n
      BY <1>2, <1>6, <1>8, <1>9, <3>1
    <3>2. CASE k # n
      BY <1>7, <1>8, <3>2
    <3> QED BY <3>1, <3>2
  <2>3. EqualLoadDiff \in Nat
    BY BestAssumption
  <2>4. CASE m = n
    <3>1. fore(n) - fore(k) <= EqualLoadDiff
      BY <1>4, <2>1
    <3> QED BY <1>2, <1>6, <1>8, <1>9, <2>2, <2>3, <2>4, <3>1
  <2>5. CASE m # n
    <3>1. a[m] > 0 /\ then(m) = fore(m) /\ fore(m) \in Nat /\ Cost[m] \in Nat
      BY <1>3, <1>6, <1>7, <1>8, <1>13, <2>5
    <3>2. fore(m) - Cost[m] - fore(k) <= EqualLoadDiff
      BY <1>5, <2>1, <3>1
    <3> QED BY <2>2, <2>3, <3>1, <3>2
  <2> QED BY <2>4, <2>5
<1> QED
  BY <1>3, <1>12, <1>13 DEF GoodChoice, FreeAfter, left, then, mem, lc, b

\* The assignments one choice later.
NodeChoices(r, as) == UNION {{updateChosenNodeLoad(a, n) : n \in chooseBestNode(r, a)} : a \in as}

\* f follows the recursion of Assignments up to k choices.
FollowsChoices(f, r, k) ==
  f = [j \in 0 .. k |-> IF j = 0 THEN {[n \in Nodes |-> 0]} ELSE NodeChoices(r, f[j - 1])]

\* A function that follows it exists.
LEMMA ChoicesExist ==
  ASSUME NEW r
  PROVE  \A k \in Nat : \E f : FollowsChoices(f, r, k)
<1> DEFINE Good(k) == \E f : FollowsChoices(f, r, k)
           zero == {[n \in Nodes |-> 0]}
           T == {k \in Nat : ~Good(k)}
<1>1. Good(0)
  <2> DEFINE f == [j \in 0 .. 0 |-> zero]
  <2>1. \A j \in 0 .. 0 : j = 0
    OBVIOUS
  <2>2. f = [j \in 0 .. 0 |-> IF j = 0 THEN zero ELSE NodeChoices(r, f[j - 1])]
    BY <2>1
  <2> HIDE DEF f
  <2>3. FollowsChoices(f, r, 0)
    BY <2>2 DEF FollowsChoices
  <2> QED BY <2>3
<1>2. ASSUME NEW k \in Nat, Good(k)
      PROVE  Good(k + 1)
  <2>1. PICK g : FollowsChoices(g, r, k)
    BY <1>2
  <2> DEFINE Turn(h, j) == IF j = 0 THEN zero ELSE NodeChoices(r, h[j - 1])
             f == [j \in 0 .. (k + 1) |-> IF j \in 0 .. k THEN g[j] ELSE NodeChoices(r, g[k])]
  <2>2. g = [j \in 0 .. k |-> Turn(g, j)]
    BY <2>1 DEF FollowsChoices
  <2>3. ASSUME NEW j \in 0 .. (k + 1)
        PROVE  f[j] = Turn(f, j)
    <3>1. CASE j = 0
      <4>1. j \in 0 .. k
        BY <3>1
      <4>2. g[j] = zero
        BY <2>2, <3>1, <4>1
      <4> QED BY <3>1, <4>1, <4>2
    <3>2. CASE j \in 0 .. k /\ j # 0
      <4>1. j - 1 \in 0 .. k /\ j - 1 \in 0 .. (k + 1)
        BY <3>2
      <4>2. f[j - 1] = g[j - 1]
        BY <4>1
      <4>3. g[j] = NodeChoices(r, g[j - 1])
        BY <2>2, <3>2
      <4> QED BY <3>2, <4>2, <4>3
    <3>3. CASE j \notin 0 .. k
      <4>1. j = k + 1 /\ j - 1 \in 0 .. k /\ j - 1 \in 0 .. (k + 1) /\ j # 0 /\ j - 1 = k
        BY <3>3
      <4>2. f[j - 1] = g[j - 1]
        BY <4>1
      <4>3. f[j] = NodeChoices(r, g[k])
        BY <3>3
      <4> QED BY <4>1, <4>2, <4>3
    <3> QED BY <3>1, <3>2, <3>3
  <2>4. f = [j \in 0 .. (k + 1) |-> f[j]]
    OBVIOUS
  <2> HIDE DEF f, Turn
  <2>5. f = [j \in 0 .. (k + 1) |-> Turn(f, j)]
    BY <2>3, <2>4
  <2>6. FollowsChoices(f, r, k + 1)
    BY <2>5 DEF FollowsChoices, Turn
  <2> QED BY <2>6
<1> HIDE DEF Good
<1> SUFFICES ASSUME T # {} PROVE FALSE
  BY DEF Good
<1>3. PICK x \in T : \A y \in T : x <= y
  BY LeastExists
<1>4. x \in Nat /\ x # 0 /\ x - 1 \in Nat /\ ~(x <= x - 1)
  BY <1>1, <1>3
<1>5. Good(x - 1)
  BY <1>3, <1>4
<1>6. Good(x)
  BY <1>2, <1>4, <1>5
<1> QED
  BY <1>3, <1>6

\* Whatever nodes are taken one by one, the assignment they lead to is a good choice.
LEMMA AssignmentsGood ==
  ASSUME NEW r, Able(run[r]), NEW k \in Nat, NEW a \in Assignments(r, k)
  PROVE  GoodChoice(run[r].lc, run[r].want.memory, a)
<1> DEFINE f == CHOOSE g : FollowsChoices(g, r, k)
           Good(j) == \A b \in f[j] : GoodChoice(run[r].lc, run[r].want.memory, b)
           T == {j \in Nat : j <= k /\ ~Good(j)}
<1>1. Assignments(r, k) = f[k]
  BY Zenon DEF Assignments, FollowsChoices, NodeChoices
<1>2. FollowsChoices(f, r, k)
  BY ChoicesExist
<1> HIDE DEF f
<1>3. \A j \in 0 .. k : f[j] = IF j = 0 THEN {[n \in Nodes |-> 0]} ELSE NodeChoices(r, f[j - 1])
  BY <1>2, Zenon DEF FollowsChoices
<1>4. Good(0)
  <2>1. 0 \in 0 .. k
    OBVIOUS
  <2>2. f[0] = {[n \in Nodes |-> 0]}
    BY <1>3, <2>1
  <2> QED BY <2>2, NothingAssigned
<1>5. ASSUME NEW j \in 1 .. k, Good(j - 1)
      PROVE  Good(j)
  <2>1. f[j] = NodeChoices(r, f[j - 1])
    BY <1>3
  <2> SUFFICES ASSUME NEW b \in f[j] PROVE GoodChoice(run[r].lc, run[r].want.memory, b)
    OBVIOUS
  <2>2. PICK c \in f[j - 1] : \E n \in chooseBestNode(r, c) : b = updateChosenNodeLoad(c, n)
    BY <2>1, Zenon DEF NodeChoices
  <2>3. GoodChoice(run[r].lc, run[r].want.memory, c)
    BY <1>5
  <2> QED BY <2>2, <2>3, OneProcessMore
<1> HIDE DEF Good
<1> SUFFICES ASSUME ~Good(k) PROVE FALSE
  BY <1>1 DEF Good
<1>6. k \in T /\ T \in SUBSET Nat
  OBVIOUS
<1>7. PICK x \in T : \A y \in T : x <= y
  BY <1>6, LeastExists
<1>8. x \in 1 .. k /\ x - 1 \in Nat /\ x - 1 <= k /\ ~(x <= x - 1)
  BY <1>4, <1>7
<1>9. Good(x - 1)
  BY <1>7, <1>8
<1>10. Good(x)
  BY <1>5, <1>8, <1>9
<1> QED
  BY <1>7, <1>10

\* The new constraints take no more of a node than was left of it.
LEMMA OwnFits ==
  ASSUME NEW r \in Runs, Able(run[r]), NEW a, a = run[r].assigned, now \in Nat,
         GoodChoice(run[r].lc, run[r].want.memory, a)
  PROVE  /\ Own(r) \in SUBSET Constraint /\ IsFiniteSet(Own(r))
         /\ Fitting(run[r].lc) => Fitting(run[r].lc \cup Own(r))
<1> DEFINE lc == run[r].lc
           mem == run[r].want.memory
           own(n) == [by |-> r, node |-> n, procs |-> a[n], memory |-> a[n] * mem,
                      until |-> now + Duration]
<1>1. lc \in SUBSET Constraint /\ IsFiniteSet(lc) /\ mem \in Nat /\ a \in [Nodes -> Nat]
  <2>1. run[r].want \in [procs : Nat \ {0}, memory : Nat]
    BY BestAssumption DEF Able
  <2> QED BY <2>1 DEF Able, GoodChoice
<1>2. Own(r) = {own(n) : n \in {m \in Nodes : a[m] > 0}}
  BY DEF Own
<1>3. \A n \in Nodes : own(n) \in Constraint
  <2>1. \A i, j \in Nat : i * j \in Nat
    OBVIOUS
  <2>2. \A n \in Nodes : a[n] \in Nat /\ a[n] * mem \in Nat
    <3> HIDE DEF mem
    <3> QED BY <1>1, <2>1
  <2>3. now + Duration \in Nat
    BY BestAssumption
  <2> HIDE DEF mem
  <2> QED BY <2>2, <2>3 DEF Constraint
<1>4. IsFiniteSet(Own(r))
  <2> DEFINE N == {m \in Nodes : a[m] > 0}
             g == [n \in Nodes |-> own(n)]
  <2>1. IsFiniteSet(N)
    BY FS_Subset, BestAssumption
  <2>2. IsFiniteSet({g[n] : n \in N})
    <3> HIDE DEF g, N
    <3> QED BY <2>1, ImageNoLarger
  <2>3. Own(r) = {g[n] : n \in N}
    BY <1>2
  <2> QED BY <2>2, <2>3
<1>5. ASSUME NEW n \in Nodes, Fitting(lc)
      PROVE  lcMemory(lc \cup Own(r), n) <= FreeMem[n]
  <2>1. lcMemory(lc, n) <= FreeMem[n] /\ lcMemory(lc, n) \in Nat /\ FreeMem[n] \in Nat
    BY <1>1, <1>5, AnnouncedNat, BestAssumption DEF Fitting
  <2>2. CASE a[n] > 0
    <3> DEFINE all == lc \cup {own(n)}
    <3>1. Announced(lc \cup Own(r), n) = Announced(all, n)
      BY <1>2, <2>2 DEF Announced
    <3>2. lcMemory(lc \cup Own(r), n) = lcMemory(all, n)
      <4> HIDE DEF all, lc
      <4> QED BY <3>1, Zenon DEF lcMemory
    <3>3. own(n) \in Constraint /\ own(n).memory = a[n] * mem
      BY <1>3
    <3>4. a[n] * mem <= MemoryLeft(lc, n) /\ MemoryLeft(lc, n) = FreeMem[n] - lcMemory(lc, n)
      BY <2>1, <2>2 DEF GoodChoice, MemoryLeft
    <3>5. a[n] * mem \in Nat
      <4>1. \A i, j \in Nat : i * j \in Nat
        OBVIOUS
      <4> HIDE DEF mem
      <4> QED BY <1>1, <4>1
    <3> HIDE DEF own, mem, lc
    <3>6. \/ lcMemory(all, n) = lcMemory(lc, n)
          \/ lcMemory(all, n) = lcMemory(lc, n) + own(n).memory
      BY <1>1, <3>3, OneMore
    <3> HIDE DEF all
    <3> QED BY <2>1, <3>2, <3>3, <3>4, <3>5, <3>6
  <2>3. CASE ~(a[n] > 0)
    <3>1. Announced(lc \cup Own(r), n) = Announced(lc, n)
      BY <1>2, <2>3 DEF Announced
    <3>2. lcMemory(lc \cup Own(r), n) = lcMemory(lc, n)
      BY <3>1, Zenon DEF lcMemory
    <3> QED BY <2>1, <3>2
  <2> QED BY <2>2, <2>3
<1>6. Own(r) \in SUBSET Constraint
  BY <1>2, <1>3
<1> QED
  BY <1>4, <1>5, <1>6 DEF Fitting

-----------------------------------------------------------------------------
(***************************************************************************)
(* The steps                                                               *)
(***************************************************************************)
\* The size of a finite set of constraints is a natural.
LEMMA SizeNat ==
  ASSUME NEW items, IsFiniteSet(items)
  PROVE  Size(items) \in Nat
<1> DEFINE f == [c \in items |-> c.node]
<1>1. IsFiniteSet({f[c] : c \in items})
  BY ImageNoLarger
<1>2. {c.node : c \in items} = {f[c] : c \in items}
  OBVIOUS
<1>3. IsFiniteSet({c.node : c \in items})
  BY <1>1, <1>2
<1> DEFINE T == {c.node : c \in items}
<1>4. Cardinality(items) \in Nat /\ Cardinality(T) \in Nat
  <2> HIDE DEF T
  <2>1. IsFiniteSet(T)
    BY <1>3, Zenon DEF T
  <2> QED BY <2>1, FS_CardinalityType
<1>5. Size(items) = Cardinality(items) + Cardinality(T)
  BY Zenon DEF Size
<1> HIDE DEF T
<1> QED
  BY <1>4, <1>5

\* There is no file yet.
LEMMA NoFileGood == GoodFile(NoFile)
<1>1. {c.node : c \in {}} = {}
  OBVIOUS
<1>2. Cardinality({}) = 0 /\ IsFiniteSet({})
  BY FS_EmptySet
<1>3. Size({}) = 0
  BY <1>1, <1>2 DEF Size
<1> QED
  BY <1>2, <1>3, BestAssumption DEF GoodFile, NoFile, File

\* A run that has ended, or has not begun.
LEMMA NoProcessGood ==
  ASSUME NEW at \in Ended
  PROVE  /\ GoodRun(NoProcess(at)) /\ NoProcess(at).at = at /\ NoProcess(at).lc = {}
         /\ NoProcess(at).tmp = NoFile
<1> DEFINE m == NoProcess(at)
           want == CHOOSE d \in Demands : TRUE
<1>1. want \in Demands
  BY BestAssumption
<1>2. NoFile \in File
  BY DEF NoFile, File
<1> HIDE DEF want
<1>3. m = [at |-> at, want |-> want, size |-> 0, lc |-> {},
           assigned |-> [n \in Nodes |-> 0], tmp |-> NoFile]
  BY DEF NoProcess, want
<1>4. at \in Steps
  BY DEF Ended, Steps
<1> HIDE DEF m
<1>5. m \in Run
  BY <1>1, <1>2, <1>3, <1>4 DEF Run
<1>6. m.at = at /\ m.lc = {} /\ m.tmp = NoFile /\ m.at # "chosen"
  BY <1>3 DEF Ended
<1>7. IsFiniteSet(m.lc) /\ GoodFile(m.tmp)
  BY <1>6, NoFileGood, FS_EmptySet
<1>8. GoodRun(m)
  BY <1>5, <1>6, <1>7 DEF GoodRun, m
<1> QED
  BY <1>6, <1>8 DEF m

\* A run on its own is the only one.
LEMMA OthersEnded ==
  ASSUME IInv, ~overlapped, NEW r \in Runs, run[r].at \notin Ended
  PROVE  \A q \in Runs : q # r => run[q].at \in Ended
BY DEF IInv, Undisturbed, OneRun

\* What one run does keeps the invariant if it leaves itself and the file good, and, should
\* no other be about, knows and keeps the announcements in force.
LEMMA OneRunSteps ==
  ASSUME IInv, NEW r \in Runs, NEW m, run' = [run EXCEPT ![r] = m], GoodRun(m), now' = now,
         GoodFile(file'), granted' \in SUBSET Constraint, overlapped' \in BOOLEAN,
         ~overlapped' => /\ \A q \in Runs : q # r => run[q].at \in Ended
                         /\ Live(granted)' \subseteq file'.items /\ Fitting(file'.items)
                         /\ Alone(m, file', Live(granted)')
  PROVE  IInv'
<1>1. run \in [Runs -> Run] /\ \A q \in Runs : GoodRun(run[q])
  BY DEF IInv
<1>2. run'[r] = m /\ \A q \in Runs : q # r => run'[q] = run[q]
  BY <1>1
<1>3. run' \in [Runs -> Run] /\ \A q \in Runs : GoodRun(run'[q])
  <2>1. m \in Run
    BY DEF GoodRun
  <2> QED BY <1>1, <1>2, <2>1
<1>4. ASSUME ~overlapped'
      PROVE  Undisturbed'
  <2>1. \A q \in Runs : q # r => run'[q].at \in Ended
    BY <1>2, <1>4
  <2>2. OneRun'
    BY <2>1 DEF OneRun
  <2>3. ASSUME NEW q \in Runs
        PROVE  Alone(run'[q], file', Live(granted)')
    <3>1. CASE q = r
      BY <1>2, <1>4, <3>1
    <3>2. CASE q # r
      <4>1. run'[q].at \in Ended
        BY <2>1, <3>2
      <4> QED BY <4>1 DEF Alone, Ended
    <3> QED BY <3>1, <3>2
  <2>4. (Live(granted) \subseteq file.items /\ Fitting(file.items))'
    BY <1>4
  <2> QED BY <2>2, <2>3, <2>4 DEF Undisturbed
<1>5. (now \in 0 .. MaxTime /\ granted \subseteq Constraint /\ GoodFile(file))'
  BY DEF IInv
<1> QED
  BY <1>3, <1>4, <1>5 DEF IInv

\* A run may fail or be killed at any time.
LEMMA FailsKeeps ==
  ASSUME IInv, NEW r \in Runs, run[r].at \notin Ended, Fails(r), now' = now,
         overlapped' = overlapped
  PROVE  IInv'
<1> DEFINE m == NoProcess("failed")
<1>1. GoodRun(m) /\ m.at = "failed"
  BY NoProcessGood DEF Ended
<1>2. run' = [run EXCEPT ![r] = m] /\ file' = file /\ granted' = granted
  BY DEF Fails
<1> HIDE DEF m
<1>3. GoodFile(file') /\ granted' \in SUBSET Constraint /\ overlapped' \in BOOLEAN
  BY <1>2 DEF IInv
<1>4. ASSUME ~overlapped'
      PROVE  /\ \A q \in Runs : q # r => run[q].at \in Ended
             /\ Live(granted)' \subseteq file'.items /\ Fitting(file'.items)
             /\ Alone(m, file', Live(granted)')
  <2>1. Undisturbed
    BY <1>4 DEF IInv
  <2>2. Live(granted)' = Live(granted)
    BY <1>2 DEF Live
  <2>3. \A q \in Runs : q # r => run[q].at \in Ended
    BY <1>4, OthersEnded
  <2>4. Alone(m, file', Live(granted)')
    BY <1>1 DEF Alone
  <2> QED BY <1>2, <2>1, <2>2, <2>3, <2>4 DEF Undisturbed
<1> QED
  BY <1>1, <1>2, <1>3, <1>4, OneRunSteps

\* The invariant holds while there is neither a run nor a file.
LEMMA InitGood ==
  ASSUME Init
  PROVE  IInv
<1>1. GoodRun(NoProcess("unborn")) /\ NoProcess("unborn").at = "unborn"
  BY NoProcessGood DEF Ended
<1>2. run \in [Runs -> Run] /\ \A r \in Runs : GoodRun(run[r]) /\ run[r].at = "unborn"
  <2>1. NoProcess("unborn") \in Run
    BY <1>1 DEF GoodRun
  <2> QED BY <1>1, <2>1 DEF Init
<1>3. GoodFile(file) /\ granted = {} /\ file.items = {} /\ overlapped = FALSE
  BY NoFileGood DEF Init, NoFile
<1>4. now \in 0 .. MaxTime
  BY BestAssumption DEF Init
<1>5. Live(granted) \subseteq file.items
  BY <1>3 DEF Live
<1>6. Fitting(file.items)
  <2> SUFFICES ASSUME NEW n \in Nodes PROVE lcMemory({}, n) <= FreeMem[n]
    BY <1>3 DEF Fitting
  <2> DEFINE A == Announced({}, n)
  <2>1. {} \in SUBSET Constraint /\ IsFiniteSet({})
    BY FS_EmptySet
  <2>2. A = {}
    BY DEF Announced
  <2>3. PICK g : FollowsSum(g, MemoryOf, A) /\ lcMemory({}, n) = g[A]
    BY <2>1, MemoryIsSum
  <2> HIDE DEF A
  <2>4. g[{}] = 0
    BY <2>3, SumSteps
  <2>5. g[A] = 0
    BY <2>2, <2>4
  <2> QED BY <2>3, <2>5, BestAssumption
<1>7. OneRun /\ \A r \in Runs : Alone(run[r], file, Live(granted))
  BY <1>2 DEF OneRun, Alone, Ended
<1> QED
  BY <1>2, <1>3, <1>4, <1>5, <1>6, <1>7 DEF IInv, Undisturbed

\* A run begins.
LEMMA LoadKeeps ==
  ASSUME IInv, NEW r \in Runs, loadLC(r)
  PROVE  IInv'
<1>1. /\ run[r].at = "unborn" /\ now' = now /\ file' = file /\ granted' = granted
      /\ overlapped' = (overlapped \/ \E q \in Runs : run[q].at \notin Ended)
  BY DEF loadLC
<1>2. run \in [Runs -> Run] /\ run[r] = NoProcess("unborn") /\ GoodFile(file)
      /\ overlapped \in BOOLEAN
  BY <1>1 DEF IInv, GoodRun, Ended
<1>3. PICK d \in Demands :
        run' = [run EXCEPT ![r].at = IF file.there THEN "sized" ELSE "loaded",
                           ![r].want = d, ![r].size = Size(file.items)]
  BY DEF loadLC
<1> DEFINE at == IF file.there THEN "sized" ELSE "loaded"
           m == [run[r] EXCEPT !.at = at, !.want = d, !.size = Size(file.items)]
<1>4. run' = [run EXCEPT ![r] = m]
  BY <1>2, <1>3
<1>5. run[r].lc = {} /\ run[r].tmp = NoFile /\ run[r] \in Run
  BY <1>2, NoProcessGood DEF Ended
<1>6. Size(file.items) \in Nat
  BY <1>2, SizeNat DEF GoodFile
<1>7. /\ m \in Run /\ m.lc = {} /\ m.tmp = NoFile /\ m.at = at /\ m.size = Size(file.items)
      /\ m.at \in {"sized", "loaded"}
  <2>1. at \in Steps /\ at \in {"sized", "loaded"}
    BY DEF Steps
  <2> HIDE DEF at
  <2> QED BY <1>5, <1>6, <2>1 DEF Run
<1> HIDE DEF m
<1>8. GoodRun(m)
  BY <1>7, NoFileGood, FS_EmptySet DEF GoodRun, Ended
<1>9. GoodFile(file') /\ granted' \in SUBSET Constraint /\ overlapped' \in BOOLEAN
  <2>1. overlapped' \in BOOLEAN
    BY <1>1
  <2> QED BY <1>1, <2>1 DEF IInv
<1>10. ASSUME ~overlapped'
       PROVE  /\ \A q \in Runs : q # r => run[q].at \in Ended
              /\ Live(granted)' \subseteq file'.items /\ Fitting(file'.items)
              /\ Alone(m, file', Live(granted)')
  <2>1. ~overlapped /\ \A q \in Runs : run[q].at \in Ended
    BY <1>1, <1>10
  <2>2. Undisturbed
    BY <2>1 DEF IInv
  <2>3. Live(granted)' = Live(granted)
    BY <1>1 DEF Live
  <2>4. Live(granted) \subseteq file.items /\ Fitting(file.items)
    BY <2>2 DEF Undisturbed
  <2>5. m.at = "loaded" => Live(granted) \subseteq {}
    BY <1>2, <1>7, <2>4 DEF GoodFile
  <2>6. Alone(m, file, Live(granted))
    BY <1>7, <2>5 DEF Alone
  <2> QED BY <1>1, <2>1, <2>3, <2>4, <2>6
<1> QED
  BY <1>1, <1>4, <1>8, <1>9, <1>10, OneRunSteps

\* A run has the constraints in force among the ones it read.
LEMMA LoadsKeeps ==
  ASSUME IInv, NEW r \in Runs, run[r].at = "sized", NEW lc \in SUBSET Constraint,
         IsFiniteSet(lc), Loads(r, lc), ~overlapped => lc = file.items, now' = now,
         overlapped' = overlapped
  PROVE  IInv'
<1> DEFINE m == [run[r] EXCEPT !.at = "loaded", !.lc = lcVerify(lc)]
<1>1. /\ run \in [Runs -> Run] /\ run[r] \in Run /\ GoodFile(file) /\ GoodFile(run[r].tmp)
      /\ file' = file /\ granted' = granted
  BY DEF IInv, GoodRun, Loads
<1>2. run' = [run EXCEPT ![r] = m]
  BY <1>1 DEF Loads
<1>3. lcVerify(lc) \subseteq lc /\ IsFiniteSet(lcVerify(lc))
  <2>1. lcVerify(lc) \subseteq lc
    BY DEF lcVerify
  <2> QED BY <2>1, FS_Subset
<1>4. m \in Run /\ m.at = "loaded" /\ m.lc = lcVerify(lc) /\ m.tmp = run[r].tmp
  <2>1. lcVerify(lc) \in SUBSET Constraint /\ "loaded" \in Steps
    BY <1>3 DEF Steps
  <2> QED BY <1>1, <2>1 DEF Run
<1> HIDE DEF m
<1>5. GoodRun(m)
  BY <1>1, <1>3, <1>4 DEF GoodRun, Ended
<1>6. GoodFile(file') /\ granted' \in SUBSET Constraint /\ overlapped' \in BOOLEAN
  BY <1>1 DEF IInv
<1>7. ASSUME ~overlapped'
      PROVE  /\ \A q \in Runs : q # r => run[q].at \in Ended
             /\ Live(granted)' \subseteq file'.items /\ Fitting(file'.items)
             /\ Alone(m, file', Live(granted)')
  <2>1. Undisturbed
    BY <1>7 DEF IInv
  <2>2. Live(granted)' = Live(granted)
    BY <1>1 DEF Live
  <2>3. Live(granted) \subseteq file.items /\ Fitting(file.items)
    BY <2>1 DEF Undisturbed
  <2>4. \A q \in Runs : q # r => run[q].at \in Ended
    <3>1. run[r].at \notin Ended
      BY DEF Ended
    <3> QED BY <1>7, <3>1, OthersEnded
  <2>5. Live(granted) \subseteq lcVerify(lc) /\ lcVerify(lc) \subseteq file.items
    <3>1. lc = file.items
      BY <1>7
    <3>2. \A c \in Live(granted) : now <= c.until /\ c \in lc
      BY <2>3, <3>1 DEF Live
    <3> QED BY <1>3, <3>1, <3>2 DEF lcVerify, verifyTimeItem
  <2>6. Alone(m, file, Live(granted))
    BY <1>4, <2>5 DEF Alone
  <2> QED BY <1>1, <2>2, <2>3, <2>4, <2>6
<1> QED
  BY <1>2, <1>5, <1>6, <1>7, OneRunSteps

\* A run reads the file: the one it sized, unless another run replaced it.
LEMMA ReadKeeps ==
  ASSUME IInv, NEW r \in Runs, ReadFile(r)
  PROVE  IInv'
<1>1. run[r].at = "sized" /\ run[r].at \notin Ended /\ now' = now /\ overlapped' = overlapped
  BY DEF ReadFile, Ended
<1>2. /\ GoodFile(file) /\ file.items \in SUBSET Constraint /\ IsFiniteSet(file.items)
      /\ file.whole
  BY DEF IInv, GoodFile, File
<1>3. ~overlapped => run[r].size = Size(file.items)
  BY <1>1 DEF IInv, Undisturbed, Alone
<1>4. CASE Fails(r)
  BY <1>1, <1>4, FailsKeeps
<1>5. CASE Loads(r, file.items)
  BY <1>1, <1>2, <1>5, LoadsKeeps
<1>6. ASSUME NEW part \in SUBSET file.items, NEW g \in Garbage(r), overlapped,
             Loads(r, part) \/ Loads(r, part \cup {g})
      PROVE  IInv'
  <2>1. g \in Constraint
    BY <1>6, BestAssumption DEF Garbage, Constraint
  <2>2. part \in SUBSET Constraint /\ part \cup {g} \in SUBSET Constraint
    BY <1>2, <2>1
  <2>3. IsFiniteSet(part)
    BY <1>2, FS_Subset
  <2>4. IsFiniteSet(part \cup {g})
    BY <2>3, FS_AddElement
  <2>5. CASE Loads(r, part)
    BY <1>1, <1>6, <2>2, <2>3, <2>5, LoadsKeeps
  <2>6. CASE Loads(r, part \cup {g})
    BY <1>1, <1>6, <2>2, <2>4, <2>6, LoadsKeeps
  <2> QED BY <1>6, <2>5, <2>6
<1>7. \/ Fails(r) \/ Loads(r, file.items)
      \/ overlapped /\ \E part \in SUBSET file.items, g \in Garbage(r) :
                         Loads(r, part) \/ Loads(r, part \cup {g})
  <2>1. overlapped \in BOOLEAN
    BY DEF IInv
  <2>2. CASE Size(file.items) = run[r].size
    <3>1. ~(Size(file.items) < run[r].size)
      <4>1. Size(file.items) \in Nat
        BY <1>2, SizeNat
      <4> QED BY <2>2, <4>1
    <3> QED BY <1>2, <2>2, <3>1 DEF ReadFile
  <2>3. CASE Size(file.items) # run[r].size
    <3>1. overlapped
      BY <1>3, <2>1, <2>3
    <3> QED BY <2>3, <3>1, Zenon DEF ReadFile
  <2> QED BY <2>2, <2>3
<1> QED
  BY <1>4, <1>5, <1>6, <1>7

\* A run chooses its nodes.
LEMMA ChoiceKeeps ==
  ASSUME IInv, NEW r \in Runs, bestNodesOfAll(r)
  PROVE  IInv'
<1>1. run[r].at = "loaded" /\ run[r].at \notin Ended /\ now' = now /\ overlapped' = overlapped
  BY DEF bestNodesOfAll, Ended
<1>2. run \in [Runs -> Run] /\ run[r] \in Run /\ IsFiniteSet(run[r].lc) /\ GoodFile(run[r].tmp)
  BY DEF IInv, GoodRun
<1>3. CASE Fails(r)
  BY <1>1, <1>3, FailsKeeps
<1>4. ASSUME NEW a \in Assignments(r, run[r].want.procs),
             run' = [run EXCEPT ![r].at = "chosen", ![r].assigned = a],
             UNCHANGED <<file, granted>>
      PROVE  IInv'
  <2> DEFINE m == [run[r] EXCEPT !.at = "chosen", !.assigned = a]
  <2>1. run' = [run EXCEPT ![r] = m] /\ file' = file /\ granted' = granted
    BY <1>2, <1>4
  <2>2. Able(run[r]) /\ run[r].want.procs \in Nat
    <3>1. run[r].want \in Demands /\ run[r].lc \in SUBSET Constraint
      BY <1>2 DEF Run
    <3>2. run[r].want \in [procs : Nat \ {0}, memory : Nat]
      BY <3>1, BestAssumption
    <3> QED BY <1>2, <3>1, <3>2 DEF Able
  <2>3. GoodChoice(run[r].lc, run[r].want.memory, a)
    BY <1>4, <2>2, AssignmentsGood
  <2>4. /\ m \in Run /\ m.at = "chosen" /\ m.lc = run[r].lc /\ m.tmp = run[r].tmp
        /\ m.want = run[r].want /\ m.assigned = a
    <3>1. a \in [Nodes -> Nat] /\ "chosen" \in Steps
      BY <2>3 DEF GoodChoice, Steps
    <3> QED BY <1>2, <3>1 DEF Run
  <2> HIDE DEF m
  <2>5. GoodRun(m)
    BY <1>2, <2>3, <2>4 DEF GoodRun, Ended
  <2>6. GoodFile(file') /\ granted' \in SUBSET Constraint /\ overlapped' \in BOOLEAN
    BY <1>1, <2>1 DEF IInv
  <2>7. ASSUME ~overlapped'
        PROVE  /\ \A q \in Runs : q # r => run[q].at \in Ended
               /\ Live(granted)' \subseteq file'.items /\ Fitting(file'.items)
               /\ Alone(m, file', Live(granted)')
    <3>1. Undisturbed
      BY <1>1, <2>7 DEF IInv
    <3>2. Live(granted)' = Live(granted)
      BY <1>1, <2>1 DEF Live
    <3>3. \A q \in Runs : q # r => run[q].at \in Ended
      BY <1>1, <2>7, OthersEnded
    <3>4. Alone(run[r], file, Live(granted))
      BY <3>1 DEF Undisturbed
    <3>5. Alone(m, file, Live(granted))
      BY <1>1, <2>4, <3>4 DEF Alone
    <3> QED BY <2>1, <3>1, <3>2, <3>3, <3>5 DEF Undisturbed
  <2> QED BY <1>1, <2>1, <2>5, <2>6, <2>7, OneRunSteps
<1>5. \/ Fails(r)
      \/ \E a \in Assignments(r, run[r].want.procs) :
           /\ run' = [run EXCEPT ![r].at = "chosen", ![r].assigned = a]
           /\ UNCHANGED <<file, granted>>
  BY Zenon DEF bestNodesOfAll
<1> QED
  BY <1>3, <1>4, <1>5

\* A run writes its temporary file.
LEMMA WriteKeeps ==
  ASSUME IInv, NEW r \in Runs, WriteTmp(r)
  PROVE  IInv'
<1> DEFINE items == run[r].lc \cup Own(r)
           f == WholeFile(items)
           m == [run[r] EXCEPT !.at = "written", !.tmp = f]
<1>1. run[r].at = "chosen" /\ run[r].at \notin Ended /\ now' = now /\ overlapped' = overlapped
  BY DEF WriteTmp, Ended
<1>2. /\ run \in [Runs -> Run] /\ run[r] \in Run /\ GoodRun(run[r]) /\ IsFiniteSet(run[r].lc)
      /\ now \in Nat
  BY DEF IInv, GoodRun
<1>3. CASE Fails(r)
  BY <1>1, <1>3, FailsKeeps
<1>4. CASE /\ Size(items) <= FileRoom
           /\ run' = [run EXCEPT ![r].at = "written", ![r].tmp = f]
           /\ UNCHANGED <<file, granted>>
  <2>1. run' = [run EXCEPT ![r] = m] /\ file' = file /\ granted' = granted
    BY <1>2, <1>4
  <2>2. Able(run[r]) /\ GoodChoice(run[r].lc, run[r].want.memory, run[r].assigned)
    BY <1>1, <1>2 DEF Able, Run, GoodRun
  <2>3. /\ Own(r) \in SUBSET Constraint /\ IsFiniteSet(Own(r))
        /\ Fitting(run[r].lc) => Fitting(items)
    BY <1>2, <2>2, OwnFits
  <2>4. items \in SUBSET Constraint /\ IsFiniteSet(items) /\ Size(items) <= FileRoom
    <3>1. run[r].lc \in SUBSET Constraint
      BY <1>2 DEF Run
    <3> QED BY <1>2, <1>4, <2>3, <3>1, FS_Union
  <2>5. run[r].lc \subseteq items
    OBVIOUS
  <2> HIDE DEF items
  <2>6. GoodFile(f) /\ f \in File /\ f.items = items
    BY <2>4 DEF GoodFile, WholeFile, File
  <2> HIDE DEF f
  <2>7. m \in Run /\ m.at = "written" /\ m.lc = run[r].lc /\ m.tmp = f
    <3>1. "written" \in Steps
      BY DEF Steps
    <3> QED BY <1>2, <2>6, <3>1 DEF Run
  <2> HIDE DEF m
  <2>8. GoodRun(m)
    BY <1>2, <2>6, <2>7 DEF GoodRun, Ended
  <2>9. GoodFile(file') /\ granted' \in SUBSET Constraint /\ overlapped' \in BOOLEAN
    BY <1>1, <2>1 DEF IInv
  <2>10. ASSUME ~overlapped'
         PROVE  /\ \A q \in Runs : q # r => run[q].at \in Ended
                /\ Live(granted)' \subseteq file'.items /\ Fitting(file'.items)
                /\ Alone(m, file', Live(granted)')
    <3>1. Undisturbed
      BY <1>1, <2>10 DEF IInv
    <3>2. Live(granted)' = Live(granted)
      BY <1>1, <2>1 DEF Live
    <3>3. \A q \in Runs : q # r => run[q].at \in Ended
      BY <1>1, <2>10, OthersEnded
    <3>4. Live(granted) \subseteq run[r].lc /\ run[r].lc \subseteq file.items
      BY <1>1, <3>1 DEF Undisturbed, Alone
    <3>5. Fitting(run[r].lc)
      <4> SUFFICES ASSUME NEW n \in Nodes PROVE lcMemory(run[r].lc, n) <= FreeMem[n]
        BY DEF Fitting
      <4>1. file.items \in SUBSET Constraint /\ IsFiniteSet(file.items)
        BY DEF IInv, GoodFile, File
      <4>2. lcMemory(run[r].lc, n) <= lcMemory(file.items, n)
        BY <3>4, <4>1, FewerFit
      <4>3. lcMemory(file.items, n) <= FreeMem[n] /\ FreeMem[n] \in Nat
        BY <3>1, BestAssumption DEF Undisturbed, Fitting
      <4>4. lcMemory(run[r].lc, n) \in Nat /\ lcMemory(file.items, n) \in Nat
        BY <2>2, <4>1, AnnouncedNat DEF Able
      <4> QED BY <4>2, <4>3, <4>4
    <3>6. Live(granted) \subseteq items /\ Fitting(items)
      BY <2>3, <2>5, <3>4, <3>5
    <3>7. Alone(m, file, Live(granted))
      BY <2>6, <2>7, <3>6 DEF Alone
    <3> QED BY <2>1, <3>1, <3>2, <3>3, <3>7 DEF Undisturbed
  <2> QED BY <1>1, <2>1, <2>8, <2>9, <2>10, OneRunSteps
<1>5. \/ Fails(r)
      \/ /\ Size(items) <= FileRoom
         /\ run' = [run EXCEPT ![r].at = "written", ![r].tmp = f]
         /\ UNCHANGED <<file, granted>>
  BY Zenon DEF WriteTmp, writeLCAsBinary
<1> QED
  BY <1>3, <1>4, <1>5

\* A run puts its file in the place of the old one.
LEMMA RenameKeeps ==
  ASSUME IInv, NEW r \in Runs, Rename(r)
  PROVE  IInv'
<1> DEFINE m == [run[r] EXCEPT !.at = "renamed"]
<1>1. /\ run[r].at = "written" /\ run[r].at \notin Ended /\ now' = now
      /\ overlapped' = overlapped /\ file' = run[r].tmp /\ granted' = granted
  BY DEF Rename, Ended
<1>2. run \in [Runs -> Run] /\ run[r] \in Run /\ IsFiniteSet(run[r].lc) /\ GoodFile(run[r].tmp)
  BY DEF IInv, GoodRun
<1>3. run' = [run EXCEPT ![r] = m]
  BY <1>2 DEF Rename
<1>4. m \in Run /\ m.at = "renamed" /\ m.lc = run[r].lc /\ m.tmp = run[r].tmp
  BY <1>2 DEF Run, Steps
<1> HIDE DEF m
<1>5. GoodRun(m)
  BY <1>2, <1>4 DEF GoodRun, Ended
<1>6. GoodFile(file') /\ granted' \in SUBSET Constraint /\ overlapped' \in BOOLEAN
  BY <1>1, <1>2 DEF IInv
<1>7. ASSUME ~overlapped'
      PROVE  /\ \A q \in Runs : q # r => run[q].at \in Ended
             /\ Live(granted)' \subseteq file'.items /\ Fitting(file'.items)
             /\ Alone(m, file', Live(granted)')
  <2>1. Undisturbed
    BY <1>1, <1>7 DEF IInv
  <2>2. Live(granted)' = Live(granted)
    BY <1>1 DEF Live
  <2>3. \A q \in Runs : q # r => run[q].at \in Ended
    BY <1>1, <1>7, OthersEnded
  <2>4. Live(granted) \subseteq run[r].tmp.items /\ Fitting(run[r].tmp.items)
    BY <1>1, <2>1 DEF Undisturbed, Alone
  <2>5. Alone(m, file', Live(granted))
    BY <1>1, <1>4 DEF Alone
  <2> QED BY <1>1, <2>2, <2>3, <2>4, <2>5
<1> QED
  BY <1>1, <1>3, <1>5, <1>6, <1>7, OneRunSteps

\* A run prints its nodes: from here on its announcement counts.
LEMMA PrintKeeps ==
  ASSUME IInv, NEW r \in Runs, printResults(r)
  PROVE  IInv'
<1> DEFINE m == NoProcess("printed")
<1>1. /\ run[r].at = "renamed" /\ run[r].at \notin Ended /\ now' = now
      /\ overlapped' = overlapped /\ file' = file /\ run' = [run EXCEPT ![r] = m]
      /\ granted' = granted \cup {c \in run[r].tmp.items : c.by = r}
  BY DEF printResults, Ended
<1>2. run[r] \in Run /\ GoodFile(run[r].tmp) /\ run[r].tmp.items \subseteq Constraint
  BY DEF IInv, GoodRun, GoodFile, File
<1>3. GoodRun(m) /\ m.at = "printed"
  BY NoProcessGood DEF Ended
<1> HIDE DEF m
<1>4. GoodFile(file') /\ granted' \in SUBSET Constraint /\ overlapped' \in BOOLEAN
  BY <1>1, <1>2 DEF IInv
<1>5. ASSUME ~overlapped'
      PROVE  /\ \A q \in Runs : q # r => run[q].at \in Ended
             /\ Live(granted)' \subseteq file'.items /\ Fitting(file'.items)
             /\ Alone(m, file', Live(granted)')
  <2>1. Undisturbed
    BY <1>1, <1>5 DEF IInv
  <2>2. \A q \in Runs : q # r => run[q].at \in Ended
    BY <1>1, <1>5, OthersEnded
  <2>3. run[r].tmp = file /\ Live(granted) \subseteq file.items /\ Fitting(file.items)
    BY <1>1, <2>1 DEF Undisturbed, Alone
  <2>4. Live(granted)' \subseteq file'.items
    BY <1>1, <2>3 DEF Live
  <2>5. Alone(m, file', Live(granted)')
    BY <1>3 DEF Alone
  <2> QED BY <1>1, <2>2, <2>3, <2>4, <2>5
<1> QED
  BY <1>1, <1>3, <1>4, <1>5, OneRunSteps

\* Announcements expire, none comes into force.
LEMMA TickKeeps ==
  ASSUME IInv, Tick
  PROVE  IInv'
<1>1. /\ now \in 0 .. MaxTime /\ now' \in 0 .. MaxTime /\ now <= now' /\ file' = file
      /\ run' = run /\ granted' = granted /\ overlapped' = overlapped
  BY BestAssumption DEF IInv, Tick
<1>2. Live(granted)' \subseteq Live(granted)
  <2> SUFFICES ASSUME NEW c \in granted, now' <= c.until PROVE now <= c.until
    BY <1>1 DEF Live
  <2>1. c.until \in Nat
    BY DEF IInv, Constraint
  <2> QED BY <1>1, <2>1
<1>3. ASSUME Undisturbed
      PROVE  Undisturbed'
  <2>1. OneRun' /\ Fitting(file'.items)
    BY <1>1, <1>3 DEF Undisturbed, OneRun
  <2>2. Live(granted)' \subseteq file'.items
    BY <1>1, <1>2, <1>3 DEF Undisturbed
  <2>3. ASSUME NEW r \in Runs
        PROVE  Alone(run'[r], file', Live(granted)')
    <3>1. Alone(run[r], file, Live(granted))
      BY <1>3 DEF Undisturbed
    <3> QED BY <1>1, <1>2, <3>1 DEF Alone
  <2> QED BY <2>1, <2>2, <2>3 DEF Undisturbed
<1> QED
  BY <1>1, <1>3 DEF IInv

\* Every step keeps it.
LEMMA NextKeeps ==
  ASSUME IInv, [Next]_vars
  PROVE  IInv'
<1>1. ASSUME NEW r \in Runs, Kill(r)
      PROVE  IInv'
  BY <1>1, FailsKeeps DEF Kill
<1>2. CASE UNCHANGED vars
  BY <1>2 DEF vars, IInv, Undisturbed, OneRun, Live
<1> QED
  BY <1>1, <1>2, LoadKeeps, ReadKeeps, ChoiceKeeps, WriteKeeps, RenameKeeps, PrintKeeps,
     TickKeeps DEF Next

\* So it always holds.
LEMMA Invariance == Spec => []IInv
<1>1. Init => IInv
  BY InitGood
<1>2. IInv /\ [Next]_vars => IInv'
  BY NextKeeps
<1> QED
  BY <1>1, <1>2, PTL DEF Spec

-----------------------------------------------------------------------------
(***************************************************************************)
(* The theorems                                                            *)
(***************************************************************************)
\* Every run, every constraint and the file have their types, and the file never holds more
\* than the write buffer did.
THEOREM BestTypeCorrect == Spec => []TypeOK
<1>1. IInv => TypeOK
  BY DEF IInv, TypeOK, GoodFile
<1> QED
  BY <1>1, Invariance, PTL

\* However many runs share the file, whatever they are asked for, wherever they are killed and
\* whatever the disk refuses: the file is whole, and while runs do not overlap, each
\* announcement stands in it as long as it holds, and together they take no more of a node
\* than its free memory.
THEOREM ReservationsAlwaysKept == Spec => []ReservationsKept
<1>1. ASSUME IInv PROVE ReservationsKept
  <2>1. file.whole
    BY <1>1 DEF IInv, GoodFile
  <2>2. ASSUME ~overlapped, NEW n \in Nodes
        PROVE  lcMemory(Live(granted), n) <= FreeMem[n]
    <3>1. Live(granted) \subseteq file.items /\ lcMemory(file.items, n) <= FreeMem[n]
      BY <1>1, <2>2 DEF IInv, Undisturbed, Fitting
    <3>2. file.items \in SUBSET Constraint /\ IsFiniteSet(file.items)
      BY <1>1 DEF IInv, GoodFile, File
    <3>3. IsFiniteSet(Live(granted)) /\ Live(granted) \in SUBSET Constraint
      BY <3>1, <3>2, FS_Subset
    <3> DEFINE live == Live(granted)
    <3>4. lcMemory(live, n) <= lcMemory(file.items, n)
      <4> HIDE DEF live
      <4> QED BY <3>1, <3>2, FewerFit DEF live
    <3>5. lcMemory(live, n) \in Nat /\ lcMemory(file.items, n) \in Nat
      BY <3>2, <3>3, AnnouncedNat
    <3>6. FreeMem[n] \in Nat
      BY BestAssumption
    <3> HIDE DEF live
    <3>7. lcMemory(live, n) <= FreeMem[n]
      BY <3>1, <3>4, <3>5, <3>6
    <3> QED BY <3>7 DEF live
  <2>3. ~overlapped => Live(granted) \subseteq file.items
    BY <1>1 DEF IInv, Undisturbed
  <2> QED BY <2>1, <2>2, <2>3 DEF ReservationsKept
<1>2. IInv => ReservationsKept
  BY <1>1
<1> QED
  BY <1>2, Invariance, PTL

\* However many nodes and processes there are: of the nodes a run has chosen, none could give
\* a process to another that has room for it and would leave it better off by more than
\* EqualLoadDiff.
THEOREM NeverABetterMove == Spec => []NoBetterMove
<1>1. ASSUME IInv, NEW r \in Runs, run[r].at = "chosen", NEW n \in Nodes,
             NEW m \in Fit(r, run[r].assigned), run[r].assigned[n] > 0
      PROVE  FutureLoad(r, run[r].assigned, n) - Cost[n] - FutureLoad(r, run[r].assigned, m)
               <= EqualLoadDiff
  <2> DEFINE a == run[r].assigned
             lc == run[r].lc
             mem == run[r].want.memory
  <2>1. GoodChoice(lc, mem, a)
    BY <1>1 DEF IInv, GoodRun
  <2>2. m \in Nodes /\ freeMem(r, a, m) > mem
    BY <1>1 DEF Fit
  <2>3. FreeAfter(lc, mem, a, m) > mem
    BY <2>2 DEF FreeAfter, freeMem
  <2>4. LoadAfter(lc, a, n) - Cost[n] - LoadAfter(lc, a, m) <= EqualLoadDiff
    BY <1>1, <2>1, <2>2, <2>3, Zenon DEF GoodChoice
  <2> QED BY <2>4 DEF LoadAfter, FutureLoad
<1>2. IInv => NoBetterMove
  BY <1>1 DEF NoBetterMove
<1> QED
  BY <1>2, Invariance, PTL
=============================================================================
