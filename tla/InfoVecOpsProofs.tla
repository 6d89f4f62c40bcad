--------------------------- MODULE InfoVecOpsProofs ---------------------------
(***************************************************************************)
(* Lemmas on the functions of infoVec.c, for every size of the map, window *)
(* policy and age limit: what each call does to the window, the entries    *)
(* and the count of live nodes.                                            *)
(***************************************************************************)
EXTENDS InfoVecOps, NatLemmas, SequenceTheorems

(***************************************************************************)
(* The window functions of infoVec.c.                                      *)
(***************************************************************************)

\* The window has at least one slot, whatever its policy.
LEMMA WinSizePositive == WinSize \in Nat \ {0} /\ Slots \subseteq Nat /\ Empty \notin Idx
BY VecAssumption DEF WinSize, Slots, Empty, Idx

\* TargetSlot is a slot; no slot before it is free or holds the node, and unless it is
\* the last slot it is free or holds the node itself (ivec_update_win's search loop).
LEMMA TargetSlotFirst ==
  ASSUME NEW v \in Vector, NEW i \in Idx
  PROVE  LET k == TargetSlot(v, i)
         IN  /\ k \in Slots
             /\ \A j \in 1 .. k - 1 : v.win[j].index \notin {i, Empty}
             /\ v.win[k].index \in {i, Empty} \/ k = WinSize
<1> DEFINE T == {k \in Slots : v.win[k].index \in {i, Empty}} \cup {WinSize}
<1>1. T \in SUBSET Nat /\ T # {} /\ T \subseteq Slots
  BY WinSizePositive DEF Slots
<1>2. Min(T) \in T /\ \A y \in T : Min(T) <= y
  BY <1>1, MinIsLeast
<1>3. TargetSlot(v, i) = Min(T)
  BY DEF TargetSlot
<1>4. ASSUME NEW j \in 1 .. Min(T) - 1
      PROVE  v.win[j].index \notin {i, Empty}
  <2>1. j \in Slots /\ ~(Min(T) <= j)
    BY <1>1, <1>2, WinSizePositive DEF Slots
  <2> QED BY <1>2, <2>1
<1> QED
  BY <1>1, <1>2, <1>3, <1>4

\* Landing stays at or before the slot the entry was stored in.
LEMMA LandingInRange ==
  ASSUME NEW v, NEW k \in Slots, NEW e
  PROVE  Landing(v, k, e) \in 1 .. k
<1> DEFINE T == {j \in 1 .. k : \A m \in j .. k - 1 : ivec_win_cmp(v, v.win[m], e) = 1}
<1>1. k \in 1 .. k /\ k .. k - 1 = {}
  BY WinSizePositive DEF Slots
<1>2. T \in SUBSET Nat /\ T # {}
  BY <1>1
<1>3. Min(T) \in T
  BY <1>2, MinIsLeast
<1> QED
  BY <1>3 DEF Landing

\* FloatUp, slot by slot: e lands, what it passed moves down one, the rest stays.
LEMMA FloatUpSlots ==
  ASSUME NEW v \in Vector, NEW k \in Slots, NEW e \in WinEntry
  PROVE  \E l \in 1 .. k :
           /\ FloatUp(v, k, e) \in [Slots -> WinEntry]
           /\ FloatUp(v, k, e)[l] = e
           /\ \A m \in Slots : m < l \/ m > k => FloatUp(v, k, e)[m] = v.win[m]
           /\ \A m \in Slots : m > l /\ m <= k => m - 1 \in Slots /\ FloatUp(v, k, e)[m] = v.win[m - 1]
<1> DEFINE l == Landing(v, k, e)
<1>1. l \in 1 .. k
  BY LandingInRange
<1>2. v.win \in [Slots -> WinEntry]
  BY DEF Vector
<1>3. \A m \in Slots : m \in Nat /\ m >= 1
  BY WinSizePositive DEF Slots
<1>4. \A m \in Slots : m \in l + 1 .. k => m - 1 \in Slots
  BY <1>1, <1>3, WinSizePositive DEF Slots
<1>5. l \in Slots
  BY <1>1, WinSizePositive DEF Slots
<1> HIDE DEF l
<1>6. FloatUp(v, k, e) = [m \in Slots |-> IF m = l THEN e
                                          ELSE IF m \in l + 1 .. k THEN v.win[m - 1]
                                          ELSE v.win[m]]
  BY DEF FloatUp, l
<1>7. FloatUp(v, k, e) \in [Slots -> WinEntry]
  BY <1>2, <1>4, <1>6
<1>8. FloatUp(v, k, e)[l] = e
  BY <1>5, <1>6
<1>9. \A m \in Slots : m < l \/ m > k => FloatUp(v, k, e)[m] = v.win[m]
  BY <1>1, <1>3, <1>6
<1>10. \A m \in Slots : m > l /\ m <= k => m - 1 \in Slots /\ FloatUp(v, k, e)[m] = v.win[m - 1]
  BY <1>1, <1>3, <1>4, <1>6
<1> QED
  BY <1>1, <1>7, <1>8, <1>9, <1>10

\* The same read backwards: every slot but e's own holds what an old slot other than the
\* target held, and the old slots keep their order.
LEMMA FloatUpSources ==
  ASSUME NEW v \in Vector, NEW k \in Slots, NEW e \in WinEntry
  PROVE  \E l \in 1 .. k :
           /\ l \in Slots /\ FloatUp(v, k, e)[l] = e
           /\ \A m \in Slots : m # l =>
                \E s \in Slots : /\ FloatUp(v, k, e)[m] = v.win[s] /\ s # k
                                 /\ (m < l => s = m) /\ (m > k => s = m)
                                 /\ (m > l /\ m <= k => s = m - 1)
           /\ \A s \in Slots : s # k => \E m \in Slots : FloatUp(v, k, e)[m] = v.win[s]
<1> DEFINE f == FloatUp(v, k, e)
<1>1. \A m \in Slots : m \in Nat /\ m >= 1 /\ m <= WinSize
  BY WinSizePositive DEF Slots
<1>2. PICK l \in 1 .. k :
        /\ f[l] = e
        /\ \A m \in Slots : m < l \/ m > k => f[m] = v.win[m]
        /\ \A m \in Slots : m > l /\ m <= k => m - 1 \in Slots /\ f[m] = v.win[m - 1]
  BY FloatUpSlots
<1> HIDE DEF f
<1>3. l \in Slots
  BY <1>1, WinSizePositive DEF Slots
<1>4. ASSUME NEW m \in Slots, m # l
      PROVE  \E s \in Slots : /\ f[m] = v.win[s] /\ s # k
                              /\ (m < l => s = m) /\ (m > k => s = m)
                              /\ (m > l /\ m <= k => s = m - 1)
  <2>1. CASE m < l \/ m > k
    BY <1>1, <1>2, <2>1
  <2>2. CASE m > l /\ m <= k
    BY <1>1, <1>2, <2>2
  <2> QED BY <1>1, <1>2, <1>4, <2>1, <2>2
<1>5. ASSUME NEW s \in Slots, s # k
      PROVE  \E m \in Slots : f[m] = v.win[s]
  <2>1. CASE s < l \/ s > k
    BY <1>1, <1>2, <2>1
  <2>2. CASE s >= l /\ s < k
    <3>1. s + 1 \in Slots /\ s + 1 > l /\ s + 1 <= k /\ (s + 1) - 1 = s
      BY <1>1, <2>2, WinSizePositive DEF Slots
    <3> QED BY <1>2, <3>1
  <2> QED BY <1>1, <1>2, <1>5, <2>1, <2>2
<1> QED
  BY <1>2, <1>3, <1>4, <1>5 DEF f

\* ivec_update_win touches nothing of the vector but its window, and keeps it a window.
LEMMA UpdateWinEffect ==
  ASSUME NEW v \in Vector, NEW i \in Idx, NEW prio \in Nat
  PROVE  LET w == ivec_update_win(v, i, prio)
         IN  /\ w \in Vector
             /\ w.localIndex = v.localIndex /\ w.entry = v.entry
             /\ w.numAlive = v.numAlive /\ w.localPrio = v.localPrio
             /\ w.prevTime = v.prevTime /\ w.deathLog = v.deathLog
<1> DEFINE k == TargetSlot(v, i)
           e == [index |-> i, prio |-> DecayedPrio(v, k, i, prio)]
           f == FloatUp(v, k, e)
<1>1. k \in Slots
  BY TargetSlotFirst
<1>2. v.win \in [Slots -> WinEntry]
  BY DEF Vector
<1>3. e \in WinEntry
  BY <1>1, <1>2 DEF WinEntry, DecayedPrio
<1>4. f \in [Slots -> WinEntry]
  <2> HIDE DEF k, e
  <2> QED BY <1>1, <1>3, FloatUpSlots
<1>5. ivec_update_win(v, i, prio) \in {v, [v EXCEPT !.win = f]}
  BY DEF ivec_update_win
<1> HIDE DEF f
<1> QED
  BY <1>4, <1>5 DEF Vector

-----------------------------------------------------------------------------
(***************************************************************************)
(* The shape of the window.                                                *)
(***************************************************************************)

WinOK(v) ==
  /\ \A k, m \in Slots : k < m /\ v.win[k].index = Empty => v.win[m].index = Empty
  /\ \A k, m \in Slots : v.win[k].index = v.win[m].index /\ k # m => v.win[k].index = Empty
  /\ ~InWindow(v, v.localIndex)

\* Storing a node in its target slot and floating it up keeps occupied slots first and
\* every node in one slot, and never lets the local node in.
LEMMA UpdateWinKeepsShape ==
  ASSUME NEW v \in Vector, NEW i \in Idx, NEW prio \in Nat, WinOK(v)
  PROVE  WinOK(ivec_update_win(v, i, prio))
<1> DEFINE k == TargetSlot(v, i)
           e == [index |-> i, prio |-> DecayedPrio(v, k, i, prio)]
           f == FloatUp(v, k, e)
           w == ivec_update_win(v, i, prio)
<1>1. /\ k \in Slots
      /\ \A j \in 1 .. k - 1 : v.win[j].index \notin {i, Empty}
      /\ v.win[k].index \in {i, Empty} \/ k = WinSize
  BY TargetSlotFirst
<1>2. v.win \in [Slots -> WinEntry]
  BY DEF Vector
<1>3. e \in WinEntry /\ e.index = i
  BY <1>1, <1>2 DEF WinEntry, DecayedPrio
<1>4. CASE w = v
  BY <1>4
<1>5. CASE w # v
  <2>1. w = [v EXCEPT !.win = f] /\ i # v.localIndex
    BY <1>5 DEF ivec_update_win, Rejected
  <2>2. w.win = f /\ w.localIndex = v.localIndex
    BY <2>1 DEF Vector
  <2> HIDE DEF k, e, w
  <2>3. PICK l \in 1 .. k :
          /\ l \in Slots /\ f[l] = e
          /\ \A m \in Slots : m # l =>
               \E s \in Slots : /\ f[m] = v.win[s] /\ s # k
                                /\ (m < l => s = m) /\ (m > k => s = m)
                                /\ (m > l /\ m <= k => s = m - 1)
    BY <1>1, <1>3, FloatUpSources
  <2> HIDE DEF f
  <2>4. \A m \in Slots : m \in Nat /\ m >= 1 /\ m <= WinSize
    BY WinSizePositive DEF Slots
  \* The node was in no slot but its target.
  <2>5. \A j \in Slots : j # k => v.win[j].index # i
    <3> SUFFICES ASSUME NEW j \in Slots, j # k, v.win[j].index = i PROVE FALSE
      OBVIOUS
    <3>1. j > k
      BY <1>1, <2>4
    <3>2. v.win[k].index \in {i, Empty}
      BY <1>1, <2>4, <3>1
    <3>3. CASE v.win[k].index = i
      BY <1>1, <3>3, WinSizePositive DEF WinOK
    <3>4. CASE v.win[k].index = Empty
      BY <1>1, <3>1, <3>4, WinSizePositive DEF WinOK
    <3> QED BY <3>2, <3>3, <3>4
  <2>7. \A m \in Slots : m # l => f[m].index # i
    BY <2>3, <2>5
  <2>8. \A m, n \in Slots : f[m].index = f[n].index /\ m # n => f[m].index = Empty
    <3> SUFFICES ASSUME NEW m \in Slots, NEW n \in Slots, f[m].index = f[n].index, m # n
                 PROVE  f[m].index = Empty
      OBVIOUS
    <3>1. CASE m = l \/ n = l
      BY <1>3, <2>3, <2>7, <3>1
    <3>2. CASE m # l /\ n # l
      <4>1. PICK s \in Slots : f[m] = v.win[s] /\ (m < l => s = m) /\ (m > k => s = m)
                               /\ (m > l /\ m <= k => s = m - 1)
        BY <2>3, <3>2
      <4>2. PICK t \in Slots : f[n] = v.win[t] /\ (n < l => t = n) /\ (n > k => t = n)
                               /\ (n > l /\ n <= k => t = n - 1)
        BY <2>3, <3>2
      <4>3. s # t
        BY SMTT(30), <1>1, <2>3, <2>4, <3>2, <4>1, <4>2
      <4> QED BY <4>1, <4>2, <4>3 DEF WinOK
    <3> QED BY <3>1, <3>2
  <2>9. \A m, n \in Slots : m < n /\ f[m].index = Empty => f[n].index = Empty
    <3> SUFFICES ASSUME NEW m \in Slots, NEW n \in Slots, m < n, f[m].index = Empty
                 PROVE  f[n].index = Empty
      OBVIOUS
    <3>1. m # l
      BY <1>3, <2>3, WinSizePositive
    <3>2. m > k
      <4> SUFFICES ASSUME m <= k PROVE FALSE
        BY <1>1, <2>4
      <4>1. PICK s \in Slots : f[m] = v.win[s] /\ (m < l => s = m)
                               /\ (m > l /\ m <= k => s = m - 1)
        BY <2>3, <3>1
      <4>2. s \in 1 .. k - 1
        BY <1>1, <2>3, <2>4, <3>1, <4>1
      <4> QED BY <1>1, <4>1, <4>2
    <3>3. n > k /\ m # l /\ n # l
      BY <1>1, <2>4, <3>2
    <3>4. f[m] = v.win[m] /\ f[n] = v.win[n]
      BY <2>3, <3>2, <3>3
    <3> QED BY <3>4 DEF WinOK
  <2>10. \A m \in Slots : f[m].index # v.localIndex
    <3> SUFFICES ASSUME NEW m \in Slots PROVE f[m].index # v.localIndex
      OBVIOUS
    <3>1. CASE m = l
      BY <1>3, <2>1, <2>3, <3>1
    <3>2. CASE m # l
      BY <2>3, <3>2 DEF WinOK, InWindow
    <3> QED BY <3>1, <3>2
  <2>11. WinOK(w)
    BY <2>2, <2>8, <2>9, <2>10 DEF WinOK, InWindow
  <2> QED
    BY <2>11 DEF w
<1> QED
  BY <1>4, <1>5

-----------------------------------------------------------------------------
(***************************************************************************)
(* What is left of that shape after a reset, which names node 0 in every   *)
(* slot: the occupied slots come first, and of the slots that name one     *)
(* node only the first may have a priority.                                *)
(***************************************************************************)

FirstsOnly(v) ==
  /\ \A k, m \in Slots : k < m /\ v.win[k].index = Empty => v.win[m].index = Empty
  /\ \A k, m \in Slots : k < m /\ v.win[k].index = v.win[m].index /\ v.win[k].index # Empty
                           => v.win[m].prio = 0

\* The priority of a node that has a positive one is not raised from v to w.
Decays(v, w) ==
  \A k, m \in Slots : (/\ v.win[k].index # Empty
                       /\ w.win[m].index = v.win[k].index
                       /\ v.win[k].prio > 0) => w.win[m].prio <= v.win[k].prio

\* An update of the window keeps that shape, and keeps the priority of the node it moves.
LEMMA UpdateWinDecays ==
  ASSUME NEW v \in Vector, NEW i \in Idx, NEW prio \in Nat, FirstsOnly(v)
  PROVE  FirstsOnly(ivec_update_win(v, i, prio)) /\ Decays(v, ivec_update_win(v, i, prio))
<1> DEFINE k == TargetSlot(v, i)
           e == [index |-> i, prio |-> DecayedPrio(v, k, i, prio)]
           f == FloatUp(v, k, e)
           w == ivec_update_win(v, i, prio)
<1>1. /\ k \in Slots
      /\ \A j \in 1 .. k - 1 : v.win[j].index \notin {i, Empty}
      /\ v.win[k].index \in {i, Empty} \/ k = WinSize
  BY TargetSlotFirst
<1>2. v.win \in [Slots -> WinEntry]
  BY DEF Vector
<1>3. e \in WinEntry /\ e.index = i
      /\ (v.win[k].index = i /\ v.win[k].prio > 0 => e.prio = v.win[k].prio)
  BY <1>1, <1>2 DEF WinEntry, DecayedPrio
<1>4. \A m \in Slots : m \in Nat /\ m >= 1 /\ m <= WinSize /\ v.win[m].prio \in Nat
  BY <1>2, WinSizePositive DEF Slots, WinEntry
<1>5. i # Empty
  BY WinSizePositive
<1> HIDE DEF k, e
<1>6. CASE w = v
  <2>1. Decays(v, v)
    <3> SUFFICES ASSUME NEW a \in Slots, NEW b \in Slots, v.win[a].index # Empty,
                        v.win[b].index = v.win[a].index, v.win[a].prio > 0
                 PROVE  v.win[b].prio <= v.win[a].prio
      BY DEF Decays
    <3>1. CASE a < b
      BY <1>4, <3>1 DEF FirstsOnly
    <3>2. CASE b < a
      BY <1>4, <3>2 DEF FirstsOnly
    <3>3. CASE a = b
      BY <1>4, <3>3
    <3> QED BY <1>4, <3>1, <3>2, <3>3
  <2> QED BY <1>6, <2>1
<1>7. CASE w # v
  <2>1. w = [v EXCEPT !.win = f]
    BY <1>7 DEF ivec_update_win, k, e
  <2>2. w.win = f
    BY <2>1 DEF Vector
  <2>3. PICK l \in 1 .. k :
          /\ l \in Slots /\ f[l] = e
          /\ \A m \in Slots : m # l =>
               \E s \in Slots : /\ f[m] = v.win[s] /\ s # k
                                /\ (m < l => s = m) /\ (m > k => s = m)
                                /\ (m > l /\ m <= k => s = m - 1)
    BY <1>1, <1>3, FloatUpSources
  <2> HIDE DEF f, w
  \* Before its target slot the node has none; behind it only slots without priority, and
  \* none if the target was free.
  <2>4. ASSUME NEW s \in Slots, v.win[s].index = i, s # k
        PROVE  s > k /\ v.win[k].index = i /\ v.win[s].prio = 0
    <3>1. s > k
      BY <1>1, <1>4, <2>4
    <3>2. v.win[k].index \in {i, Empty}
      BY <1>1, <1>4, <3>1
    <3>3. v.win[k].index # Empty
      BY <1>1, <1>5, <2>4, <3>1 DEF FirstsOnly
    <3> QED BY <1>1, <1>5, <2>4, <3>1, <3>2, <3>3 DEF FirstsOnly
  <2>5. \A m, n \in Slots : m < n /\ f[m].index = Empty => f[n].index = Empty
    <3> SUFFICES ASSUME NEW m \in Slots, NEW n \in Slots, m < n, f[m].index = Empty
                 PROVE  f[n].index = Empty
      OBVIOUS
    <3>1. m # l
      BY <1>3, <1>5, <2>3
    <3>2. m > k
      <4> SUFFICES ASSUME m <= k PROVE FALSE
        BY <1>1, <1>4
      <4>1. PICK s \in Slots : f[m] = v.win[s] /\ (m < l => s = m)
                               /\ (m > l /\ m <= k => s = m - 1)
        BY <2>3, <3>1
      <4>2. s \in 1 .. k - 1
        BY <1>1, <1>4, <3>1, <4>1
      <4> QED BY <1>1, <4>1, <4>2
    <3>3. n > k /\ n # l
      BY <1>1, <1>4, <3>2
    <3>4. f[m] = v.win[m] /\ f[n] = v.win[n]
      BY <2>3, <3>1, <3>2, <3>3
    <3> QED BY <3>4 DEF FirstsOnly
  <2>6. ASSUME NEW m \in Slots, NEW n \in Slots, m < n, f[m].index = f[n].index,
               f[m].index # Empty
        PROVE  f[n].prio = 0
    <3>1. CASE m = l
      <4>1. PICK t \in Slots : f[n] = v.win[t] /\ t # k
        BY <1>4, <2>3, <2>6, <3>1
      <4>2. v.win[t].index = i
        BY <1>3, <2>3, <2>6, <3>1, <4>1
      <4> QED BY <2>4, <4>1, <4>2
    <3>2. CASE n = l
      <4>1. PICK s \in Slots : f[m] = v.win[s] /\ s # k /\ (m < l => s = m)
        BY <1>4, <2>3, <2>6, <3>2
      <4>2. v.win[s].index = i /\ s = m
        BY <1>3, <2>3, <2>6, <3>2, <4>1
      <4>3. m < k
        BY <1>1, <1>4, <2>6, <3>2
      <4> QED BY <1>1, <1>4, <2>4, <4>1, <4>2, <4>3
    <3>3. CASE m # l /\ n # l
      <4>1. PICK s \in Slots : f[m] = v.win[s] /\ s # k /\ (m < l => s = m) /\ (m > k => s = m)
                               /\ (m > l /\ m <= k => s = m - 1)
        BY <2>3, <3>3
      <4>2. PICK t \in Slots : f[n] = v.win[t] /\ t # k /\ (n < l => t = n) /\ (n > k => t = n)
                               /\ (n > l /\ n <= k => t = n - 1)
        BY <2>3, <3>3
      <4>3. s < t
        BY <1>1, <1>4, <2>6, <3>3, <4>1, <4>2
      <4> QED BY <2>6, <4>1, <4>2, <4>3 DEF FirstsOnly
    <3> QED BY <3>1, <3>2, <3>3
  <2>7. ASSUME NEW a \in Slots, NEW m \in Slots, v.win[a].index # Empty,
               f[m].index = v.win[a].index, v.win[a].prio > 0
        PROVE  f[m].prio <= v.win[a].prio
    <3>1. CASE m = l
      <4>1. v.win[a].index = i
        BY <1>3, <2>3, <2>7, <3>1
      <4>2. a = k
        BY <1>4, <2>4, <2>7, <4>1
      <4>3. f[m].prio = v.win[a].prio
        BY <1>3, <2>3, <2>7, <3>1, <4>1, <4>2
      <4> QED BY <1>4, <4>3
    <3>2. CASE m # l
      <4>1. PICK s \in Slots : f[m] = v.win[s]
        BY <2>3, <3>2
      <4>2. CASE a < s
        BY <1>4, <2>7, <4>1, <4>2 DEF FirstsOnly
      <4>3. CASE s < a
        BY <1>4, <2>7, <4>1, <4>3 DEF FirstsOnly
      <4>4. CASE s = a
        BY <1>4, <4>1, <4>4
      <4> QED BY <1>4, <4>2, <4>3, <4>4
    <3> QED BY <3>1, <3>2
  <2>8. FirstsOnly(w) /\ Decays(v, w)
    BY <2>2, <2>5, <2>6, <2>7 DEF FirstsOnly, Decays
  <2> QED
    BY <2>8 DEF w
<1> QED
  BY <1>6, <1>7

\* No priority in the window exceeds p.
PrioWithin(v, p) == \A k \in Slots : v.win[k].prio <= p

\* An update of the window by a priority within p keeps it so.
LEMMA UpdateWinPrio ==
  ASSUME NEW v \in Vector, NEW i \in Idx, NEW prio \in Nat, NEW p \in Nat,
         prio <= p, PrioWithin(v, p)
  PROVE  PrioWithin(ivec_update_win(v, i, prio), p)
<1> DEFINE k == TargetSlot(v, i)
           e == [index |-> i, prio |-> DecayedPrio(v, k, i, prio)]
           f == FloatUp(v, k, e)
<1>1. k \in Slots
  BY TargetSlotFirst
<1>2. v.win \in [Slots -> WinEntry]
  BY DEF Vector
<1>3. e \in WinEntry /\ e.prio <= p
  BY <1>1, <1>2 DEF WinEntry, DecayedPrio, PrioWithin
<1>4. ivec_update_win(v, i, prio) \in {v, [v EXCEPT !.win = f]}
  BY DEF ivec_update_win
<1> HIDE DEF e, k
<1>5. \A m \in Slots : f[m] = e \/ \E s \in Slots : f[m] = v.win[s]
  BY <1>1, <1>3, FloatUpSources
<1> HIDE DEF f
<1>6. \A m \in Slots : f[m].prio <= p
  BY <1>3, <1>5 DEF PrioWithin
<1>7. [v EXCEPT !.win = f].win = f
  BY DEF Vector
<1> QED
  BY <1>4, <1>6, <1>7 DEF PrioWithin

\* In an up-to-age window of the shape of WinOK there is always a free slot: at most every
\* node but the local one has a slot.
LEMMA RoomInWindow ==
  ASSUME NEW v \in Vector, WinOK(v), WinType = "uptoage"
  PROVE  \E k \in Slots : v.win[k].index = Empty
<1> SUFFICES ASSUME \A k \in Slots : v.win[k].index # Empty PROVE FALSE
  OBVIOUS
<1> DEFINE T == Idx \ {v.localIndex}
           f == [k \in Slots |-> v.win[k].index]
<1>1. v.win \in [Slots -> WinEntry] /\ v.localIndex \in Idx
  BY DEF Vector
<1>2. f \in [Slots -> T]
  BY <1>1 DEF WinEntry, WinOK, InWindow
<1>3. VSize \in Nat /\ VSize >= 1 /\ Slots = 1 .. VSize /\ Idx = 0 .. VSize - 1
  BY VecAssumption DEF Slots, WinSize, Idx
<1>4. /\ IsFiniteSet(Slots) /\ Cardinality(Slots) = VSize
      /\ IsFiniteSet(Idx) /\ Cardinality(Idx) = VSize
  BY <1>3, FS_Interval
<1>5. IsFiniteSet(T) /\ Cardinality(T) = VSize - 1
  BY <1>1, <1>4, FS_RemoveElement
<1> HIDE DEF T, f
<1>6. PICK x, y \in Slots : x # y /\ f[x] = f[y]
  BY <1>2, <1>3, <1>4, <1>5, FS_PigeonHole
<1> QED
  BY <1>6 DEF f, WinOK

\* So an update takes no node out of such a window, and puts its own node in.
LEMMA UpdateWinKeepsNodes ==
  ASSUME NEW v \in Vector, NEW i \in Idx, NEW prio \in Nat, WinOK(v), WinType = "uptoage"
  PROVE  LET w == ivec_update_win(v, i, prio)
         IN  /\ \A j \in Idx : InWindow(v, j) => InWindow(w, j)
             /\ i # v.localIndex => InWindow(w, i)
<1> DEFINE k == TargetSlot(v, i)
           e == [index |-> i, prio |-> DecayedPrio(v, k, i, prio)]
           f == FloatUp(v, k, e)
           w == ivec_update_win(v, i, prio)
<1>1. /\ k \in Slots
      /\ \A j \in 1 .. k - 1 : v.win[j].index \notin {i, Empty}
      /\ v.win[k].index \in {i, Empty} \/ k = WinSize
  BY TargetSlotFirst
<1>2. v.win \in [Slots -> WinEntry]
  BY DEF Vector
<1>3. e \in WinEntry /\ e.index = i
  BY <1>1, <1>2 DEF WinEntry, DecayedPrio
<1>4. v.win[k].index \in {i, Empty}
  <2>1. PICK r \in Slots : v.win[r].index = Empty
    BY RoomInWindow
  <2>2. r >= k /\ r <= WinSize
    BY <1>1, <2>1, WinSizePositive DEF Slots
  <2> QED BY <1>1, <2>1, <2>2, WinSizePositive DEF Slots
<1>5. CASE w = v
  <2>1. Rejected(v, k, [index |-> i, prio |-> prio]) => i = v.localIndex \/ InWindow(v, i)
    BY <1>1, <1>4 DEF Rejected, InWindow
  <2>2. ASSUME ~Rejected(v, k, [index |-> i, prio |-> prio]) PROVE InWindow(v, i)
    <3>1. w = [v EXCEPT !.win = f]
      BY <2>2 DEF ivec_update_win
    <3>2. v.win = f
      BY <1>5, <3>1 DEF Vector
    <3> HIDE DEF k, e
    <3>3. \E l \in Slots : f[l] = e
      BY <1>1, <1>3, FloatUpSources
    <3> QED BY <1>3, <3>2, <3>3 DEF InWindow
  <2> QED BY <1>5, <2>1, <2>2
<1>6. CASE w # v
  <2>1. w = [v EXCEPT !.win = f]
    BY <1>6 DEF ivec_update_win
  <2>2. w.win = f
    BY <2>1 DEF Vector
  <2> HIDE DEF k, e, w
  <2>3. /\ \E l \in Slots : f[l] = e
        /\ \A s \in Slots : s # k => \E m \in Slots : f[m] = v.win[s]
    BY <1>1, <1>3, FloatUpSources
  <2> HIDE DEF f
  <2>4. InWindow(w, i)
    BY <1>3, <2>2, <2>3 DEF InWindow
  <2>5. ASSUME NEW j \in Idx, InWindow(v, j) PROVE InWindow(w, j)
    <3>1. PICK s \in Slots : v.win[s].index = j
      BY <2>5 DEF InWindow
    <3>2. CASE s = k
      BY <1>4, <2>4, <3>1, <3>2, WinSizePositive
    <3>3. CASE s # k
      BY <2>2, <2>3, <3>1, <3>3 DEF InWindow
    <3> QED BY <3>2, <3>3
  <2> QED BY <2>4, <2>5 DEF w
<1> QED
  BY <1>5, <1>6

\* Whatever the shape, a node that no occupied slot beats is in the window afterwards.
LEMMA UpdateWinAdmits ==
  ASSUME NEW v \in Vector, NEW i \in Idx, NEW prio \in Nat, i # v.localIndex,
         \A k \in Slots : ivec_win_cmp(v, v.win[k], [index |-> i, prio |-> prio]) = 1
                          \/ v.win[k].index = Empty
  PROVE  InWindow(ivec_update_win(v, i, prio), i)
<1> DEFINE k == TargetSlot(v, i)
           e == [index |-> i, prio |-> DecayedPrio(v, k, i, prio)]
           f == FloatUp(v, k, e)
           w == ivec_update_win(v, i, prio)
<1>1. k \in Slots
  BY TargetSlotFirst
<1>2. v.win \in [Slots -> WinEntry]
  BY DEF Vector
<1>3. e \in WinEntry /\ e.index = i
  BY <1>1, <1>2 DEF WinEntry, DecayedPrio
<1>4. ~Rejected(v, k, [index |-> i, prio |-> prio])
  BY <1>1 DEF Rejected
<1>5. w = [v EXCEPT !.win = f]
  BY <1>4 DEF ivec_update_win
<1>6. w.win = f
  BY <1>5 DEF Vector
<1> HIDE DEF k, e, w
<1>7. \E l \in Slots : f[l] = e
  BY <1>1, <1>3, FloatUpSources
<1> QED
  BY <1>3, <1>6, <1>7 DEF InWindow, w

-----------------------------------------------------------------------------
(***************************************************************************)
(* What each call leaves in the entries.                                   *)
(***************************************************************************)

\* The death log stays a list of nodes when it is shifted.
LEMMA LogDeathType ==
  ASSUME NEW log \in Seq(Idx), NEW i \in Idx
  PROVE  LogDeath(log, i) \in Seq(Idx)
<1>1. CASE Len(log) < LogSize
  BY <1>1 DEF LogDeath
<1>2. CASE ~(Len(log) < LogSize)
  <2>1. LogSize \in Nat /\ LogSize >= 1 /\ Len(log) >= LogSize
    BY <1>2, VecAssumption
  <2>2. \A k \in 1 .. LogSize - 1 : log[k] \in Idx /\ log[1] \in Idx
    BY <2>1
  <2>3. \A k \in 1 .. LogSize - 1 : (IF k = 1 \/ ForwardCopy THEN log[1] ELSE log[k - 1]) \in Idx
    <3> SUFFICES ASSUME NEW k \in 1 .. LogSize - 1, k # 1
                 PROVE  log[k - 1] \in Idx
      BY <2>2
    <3>1. k - 1 \in 1 .. LogSize - 1
      BY <2>1
    <3> QED BY <2>2, <3>1
  <2>4. ShiftedLog(log) \in [1 .. LogSize - 1 -> Idx]
    BY <2>3 DEF ShiftedLog
  <2>5. LogSize - 1 \in Nat
    BY <2>1
  <2>6. ShiftedLog(log) \in Seq(Idx)
    BY <2>4, <2>5, SeqDef
  <2> QED BY <1>2, <2>6 DEF LogDeath
<1> QED
  BY <1>1, <1>2

\* The statuses of the dead are not that of the living, and all are statuses.
LEMMA StatusFacts == DeadCauses \subseteq Status /\ Alive \in Status /\ Alive \notin DeadCauses
                     /\ \A s \in Status : s # Alive => s \in DeadCauses
BY DEF Status, DeadCauses, Alive, DeadInit, DeadAge, DeadConnect, DeadProvider, DeadReset

\* w is v with entry i replaced: the count and the log may differ, and the window too
\* as long as its shape is kept.
OnlyEntry(v, w, i) ==
  /\ w \in Vector
  /\ w.localIndex = v.localIndex /\ w.prevTime = v.prevTime
  /\ \A j \in Idx \ {i} : w.entry[j] = v.entry[j]
  /\ WinOK(v) => WinOK(w)

\* The shape of the window depends on the window and the local index alone.
LEMMA SameWindow ==
  ASSUME NEW v, NEW w, w.win = v.win, w.localIndex = v.localIndex
  PROVE  WinOK(v) <=> WinOK(w)
BY DEF WinOK, InWindow

\* The fields of an entry and the type of the entries, once and for all.
LEMMA VectorFields ==
  ASSUME NEW v \in Vector, NEW i \in Idx
  PROVE  /\ v.entry \in [Idx -> Entry] /\ v.entry[i] \in Entry /\ v.numAlive \in Int
         /\ v.localPrio \in Nat /\ v.deathLog \in Seq(Idx) /\ v.localIndex \in Idx
         /\ v.prevTime \in Nat /\ v.win \in [Slots -> WinEntry]
<1>1. v.entry \in [Idx -> Entry]
  BY DEF Vector
<1> QED
  BY <1>1 DEF Vector

\* Replacing one entry by another changes nothing else of the vector.
LEMMA WithEntry ==
  ASSUME NEW v \in Vector, NEW i \in Idx, NEW x \in Entry
  PROVE  LET w == [v EXCEPT !.entry = [v.entry EXCEPT ![i] = x]]
         IN  /\ OnlyEntry(v, w, i) /\ w.entry[i] = x
             /\ w.numAlive = v.numAlive /\ w.win = v.win
<1> DEFINE f == [v.entry EXCEPT ![i] = x]
           w == [v EXCEPT !.entry = f]
<1>1. f \in [Idx -> Entry] /\ f[i] = x /\ \A j \in Idx \ {i} : f[j] = v.entry[j]
  BY VectorFields
<1> HIDE DEF f
<1>2. w \in Vector /\ w.localIndex = v.localIndex /\ w.prevTime = v.prevTime
      /\ w.entry = f /\ w.numAlive = v.numAlive /\ w.win = v.win
  BY <1>1 DEF Vector
<1> QED
  BY <1>1, <1>2, SameWindow DEF OnlyEntry, f

\* ivec_kill_entry marks the entry dead, takes one off the count and logs the death.
LEMMA KillEffect ==
  ASSUME NEW v \in Vector, NEW i \in Idx
  PROVE  LET w == ivec_kill_entry(v, i)
         IN  /\ OnlyEntry(v, w, i)
             /\ w.entry[i].dead /\ w.entry[i].time = v.entry[i].time
             /\ w.entry[i].status = v.entry[i].status /\ w.entry[i].data = v.entry[i].data
             /\ w.numAlive = v.numAlive - 1 /\ w.win = v.win
<1> DEFINE w == ivec_kill_entry(v, i)
           x == [v.entry[i] EXCEPT !.dead = TRUE]
           f == [v.entry EXCEPT ![i] = x]
           n == v.numAlive - 1
           g == LogDeath(v.deathLog, i)
<1>1. w = [v EXCEPT !.numAlive = n, !.entry = f, !.deathLog = g]
  BY Zenon DEF ivec_kill_entry
<1>2. /\ x \in Entry /\ x.dead /\ x.time = v.entry[i].time
      /\ x.status = v.entry[i].status /\ x.data = v.entry[i].data
  BY VectorFields DEF Entry
<1>3. g \in Seq(Idx) /\ n \in Int
  BY LogDeathType, VectorFields
<1> HIDE DEF w, x, n, g
<1>4. f \in [Idx -> Entry] /\ f[i] = x /\ \A j \in Idx \ {i} : f[j] = v.entry[j]
  BY <1>2, VectorFields
<1> HIDE DEF f
<1>5. /\ w \in Vector
      /\ w.localIndex = v.localIndex /\ w.prevTime = v.prevTime /\ w.win = v.win
      /\ w.entry = f /\ w.numAlive = n
  BY <1>1, <1>3, <1>4 DEF Vector
<1> QED
  BY <1>2, <1>4, <1>5, SameWindow DEF OnlyEntry, w, n

\* The window of w is that of v after ivec_update_win, called when the entries were those of w.
EntersWindow(v, w, i, prio) ==
  \E x \in Vector : /\ x.win = v.win /\ x.localIndex = v.localIndex /\ x.entry = w.entry
                    /\ w.win = ivec_update_win(x, i, prio).win

\* infoVecPunish: a dead node only changes its label, a live one becomes an empty death
\* record dated now, and the count of live nodes loses one.
LEMMA PunishEffect ==
  ASSUME NEW v \in Vector, NEW i \in Idx, NEW cause \in DeadCauses, NEW t \in Nat
  PROVE  LET w == infoVecPunish(v, i, cause, t)
             e == v.entry[i]
         IN  /\ OnlyEntry(v, w, i)
             /\ w.entry[i].dead /\ w.entry[i].status \in DeadCauses \cup {e.status}
             /\ e.dead => /\ w.entry[i].time = e.time /\ w.entry[i].data = e.data
                          /\ w.numAlive = v.numAlive /\ w.win = v.win
             /\ ~e.dead => /\ w.entry[i].time = t /\ w.entry[i].data = NoData
                           /\ w.entry[i].status = cause
                           /\ w.numAlive = v.numAlive - 1
                           /\ EntersWindow(v, w, i, DeadStartPrio)
<1> DEFINE w == infoVecPunish(v, i, cause, t)
           e == v.entry[i]
<1>1. e \in Entry /\ i # Unknown /\ cause \in Status
  BY VectorFields, StatusFacts, VecAssumption DEF Idx, Unknown
<1>2. CASE e.dead
  <2> DEFINE s == IF cause # DeadAge THEN cause ELSE v.entry[i].status
             x == [v.entry[i] EXCEPT !.status = s]
  <2>1. w = [v EXCEPT !.entry = [v.entry EXCEPT ![i] = x]]
    BY <1>1, <1>2, Zenon DEF infoVecPunish
  <2>2. s \in DeadCauses \cup {e.status} /\ s \in Status
    BY <1>1 DEF Entry
  <2> HIDE DEF s
  <2>3. x \in Entry /\ x.time = e.time /\ x.data = e.data /\ x.status = s /\ x.dead = e.dead
    BY <1>1, <2>2 DEF Entry
  <2> HIDE DEF x, w
  <2>4. OnlyEntry(v, w, i) /\ w.entry[i] = x /\ w.numAlive = v.numAlive /\ w.win = v.win
    BY <2>1, <2>3, WithEntry
  <2> QED BY <1>2, <2>2, <2>3, <2>4 DEF w
<1>3. CASE ~e.dead
  <2> DEFINE x == [v.entry[i] EXCEPT !.time = t, !.status = cause, !.data = NoData]
             u == [v EXCEPT !.entry = [v.entry EXCEPT ![i] = x]]
             k == ivec_kill_entry(u, i)
  <2>1. w = ivec_update_win(k, i, DeadStartPrio)
    BY <1>1, <1>3, Zenon DEF infoVecPunish
  <2>2. x \in Entry /\ x.time = t /\ x.status = cause /\ x.data = NoData
    BY <1>1 DEF Entry
  <2> HIDE DEF x, w
  <2>3. OnlyEntry(v, u, i) /\ u.entry[i] = x /\ u.numAlive = v.numAlive /\ u.win = v.win
    BY <2>2, WithEntry
  <2> HIDE DEF u
  <2>4. /\ OnlyEntry(u, k, i) /\ k.entry[i].dead /\ k.entry[i].time = t
        /\ k.entry[i].status = cause /\ k.entry[i].data = NoData
        /\ k.numAlive = u.numAlive - 1 /\ k.win = u.win
    BY <2>2, <2>3, KillEffect DEF OnlyEntry
  <2> HIDE DEF k
  <2>5. /\ w \in Vector
        /\ w.localIndex = k.localIndex /\ w.prevTime = k.prevTime
        /\ w.entry = k.entry /\ w.numAlive = k.numAlive
        /\ WinOK(k) => WinOK(w)
    BY <2>1, <2>4, UpdateWinEffect, UpdateWinKeepsShape, VecAssumption DEF OnlyEntry
  <2>6. OnlyEntry(v, w, i)
    BY <2>3, <2>4, <2>5 DEF OnlyEntry
  <2>7. EntersWindow(v, w, i, DeadStartPrio)
    <3>1. k \in Vector /\ k.win = v.win /\ k.localIndex = v.localIndex
      BY <2>3, <2>4 DEF OnlyEntry
    <3> QED BY <2>1, <2>5, <3>1 DEF EntersWindow
  <2> QED BY <1>3, <2>3, <2>4, <2>5, <2>6, <2>7 DEF w
<1> QED
  BY <1>2, <1>3 DEF w, e

\* StoreRecord: the entry takes the record's time, status and payload, isdead follows
\* the status when the two differ, and the count of live nodes follows isdead.
LEMMA StoreEffect ==
  ASSUME NEW v \in Vector, NEW u \in Record, u.index # Unknown
  PROVE  LET w == StoreRecord(v, u)
             i == u.index
             d == v.entry[i].dead
         IN  /\ OnlyEntry(v, w, i)
             /\ w.entry[i].time = u.time /\ w.entry[i].status = u.status
             /\ w.entry[i].data = u.data
             /\ w.entry[i].dead <=> u.status # Alive
             /\ d /\ u.status = Alive => w.numAlive = v.numAlive + 1
             /\ ~d /\ u.status # Alive => w.numAlive = v.numAlive - 1
             /\ (d <=> u.status # Alive) => w.numAlive = v.numAlive
             /\ EntersWindow(v, w, i, u.prio)
<1> DEFINE i == u.index
           d == v.entry[i].dead
           y == [v.entry[i] EXCEPT !.time = u.time, !.status = u.status, !.data = u.data]
           f == [v.entry EXCEPT ![i] = y]
           p == IF i = v.localIndex /\ u.prio > 0 THEN u.prio ELSE v.localPrio
           c == CopyFields(v, u)
           b == BringToLife(c, i)
           k == ivec_kill_entry(c, i)
           w == StoreRecord(v, u)
<1>1. /\ i \in Idx /\ u.prio \in Nat /\ u.time \in Nat /\ u.status \in Status
      /\ u.data \in Readings \cup {NoData}
  BY DEF Record
<1>2. v.entry[i] \in Entry /\ p \in Nat
  BY <1>1, VectorFields
<1>3. y \in Entry /\ y.time = u.time /\ y.status = u.status /\ y.data = u.data /\ y.dead = d
  BY <1>1, <1>2 DEF Entry
<1>4. c = [v EXCEPT !.entry = f, !.localPrio = p]
  BY Zenon DEF CopyFields
<1> HIDE DEF y
<1>5. f \in [Idx -> Entry] /\ f[i] = y /\ \A j \in Idx \ {i} : f[j] = v.entry[j]
  BY <1>1, <1>3, VectorFields
<1> HIDE DEF f, p, c
<1>6. /\ c \in Vector /\ c.localIndex = v.localIndex /\ c.prevTime = v.prevTime
      /\ c.entry = f /\ c.numAlive = v.numAlive /\ c.win = v.win
  BY <1>2, <1>4, <1>5 DEF Vector
<1>7. OnlyEntry(v, c, i) /\ c.entry[i] = y
  BY <1>5, <1>6, SameWindow DEF OnlyEntry
<1>8. /\ OnlyEntry(c, b, i) /\ ~b.entry[i].dead /\ b.entry[i].time = y.time
      /\ b.entry[i].status = y.status /\ b.entry[i].data = y.data
      /\ b.numAlive = c.numAlive + 1 /\ b.win = c.win
  <2> DEFINE x == [c.entry[i] EXCEPT !.dead = FALSE]
             g == [c.entry EXCEPT ![i] = x]
             n == c.numAlive + 1
  <2>1. b = [c EXCEPT !.entry = g, !.numAlive = n]
    BY Zenon DEF BringToLife
  <2>2. /\ x \in Entry /\ ~x.dead /\ x.time = y.time
        /\ x.status = y.status /\ x.data = y.data
    BY <1>3, <1>7 DEF Entry
  <2> HIDE DEF x
  <2>3. g \in [Idx -> Entry] /\ g[i] = x /\ \A j \in Idx \ {i} : g[j] = c.entry[j]
    BY <1>1, <1>6, <2>2, VectorFields
  <2>4. n \in Int
    BY <1>1, <1>6, VectorFields
  <2> HIDE DEF g, b, n
  <2>5. /\ b \in Vector /\ b.localIndex = c.localIndex /\ b.prevTime = c.prevTime
        /\ b.entry = g /\ b.numAlive = n /\ b.win = c.win
    BY <1>6, <2>1, <2>3, <2>4 DEF Vector
  <2> QED BY <2>2, <2>3, <2>5, SameWindow DEF OnlyEntry, n
<1>9. /\ OnlyEntry(c, k, i) /\ k.entry[i].dead /\ k.entry[i].time = y.time
      /\ k.entry[i].status = y.status /\ k.entry[i].data = y.data
      /\ k.numAlive = c.numAlive - 1 /\ k.win = c.win
  BY <1>1, <1>6, <1>7, KillEffect
<1> HIDE DEF b, k
<1>10. \E x \in {b, k, c} :
         /\ w = ivec_update_win(x, i, u.prio)
         /\ d /\ u.status = Alive => x = b
         /\ ~d /\ u.status # Alive => x = k
         /\ (d <=> u.status # Alive) => x = c
  BY Zenon DEF StoreRecord, b, k, c
<1>11. PICK x \in {b, k, c} :
         /\ w = ivec_update_win(x, i, u.prio)
         /\ d /\ u.status = Alive => x = b
         /\ ~d /\ u.status # Alive => x = k
         /\ (d <=> u.status # Alive) => x = c
  BY <1>10
<1> HIDE DEF w
<1>12. OnlyEntry(v, x, i) /\ x.entry[i].time = u.time
       /\ x.entry[i].status = u.status /\ x.entry[i].data = u.data
  BY <1>3, <1>7, <1>8, <1>9 DEF OnlyEntry
<1>13. d \in BOOLEAN
  BY <1>2 DEF Entry
<1>14. x.entry[i].dead <=> u.status # Alive
  BY <1>3, <1>7, <1>8, <1>9, <1>11, <1>13
<1>15. /\ w \in Vector
       /\ w.localIndex = x.localIndex /\ w.prevTime = x.prevTime
       /\ w.entry = x.entry /\ w.numAlive = x.numAlive
       /\ WinOK(x) => WinOK(w)
  BY <1>1, <1>11, <1>12, UpdateWinEffect, UpdateWinKeepsShape DEF OnlyEntry
<1>16. OnlyEntry(v, w, i)
  BY <1>12, <1>15 DEF OnlyEntry
<1>17. EntersWindow(v, w, i, u.prio)
  <2>1. x \in Vector /\ x.win = v.win /\ x.localIndex = v.localIndex
    BY <1>6, <1>8, <1>9, <1>12 DEF OnlyEntry
  <2> QED BY <1>11, <1>15, <2>1 DEF EntersWindow
<1> QED
  BY <1>6, <1>8, <1>9, <1>11, <1>12, <1>14, <1>15, <1>16, <1>17 DEF w

\* What infoVecUpdate does, in the three ways it can end: the clock went back and the
\* vector is reset, the record is turned away, or it is stored.
WasReset(v, w, t) ==
  /\ t < v.prevTime
  /\ \A i \in Idx : w.entry[i] = ivec_reset_entry(t)
  /\ \A k \in Slots : w.win[k] = [index |-> 0, prio |-> 0]
  /\ w.numAlive = 0

TurnedAway(v, w, t) ==
  /\ t >= v.prevTime
  /\ w.entry = v.entry /\ w.numAlive = v.numAlive /\ w.win = v.win

Stored(v, w, u, t) ==
  LET i == u.index
      d == v.entry[i].dead
  IN  /\ t >= v.prevTime
      /\ i \in Idx /\ u.time <= t /\ v.entry[i].time < u.time
      /\ \A j \in Idx \ {i} : w.entry[j] = v.entry[j]
      /\ w.entry[i].time = u.time /\ w.entry[i].status = u.status /\ w.entry[i].data = u.data
      /\ w.entry[i].dead <=> u.status # Alive
      /\ d /\ u.status = Alive => w.numAlive = v.numAlive + 1
      /\ ~d /\ u.status # Alive => w.numAlive = v.numAlive - 1
      /\ (d <=> u.status # Alive) => w.numAlive = v.numAlive
      /\ WinOK(v) => WinOK(w)
      /\ EntersWindow(v, w, i, u.prio)

\* infoVecUpdate returns a vector that remembers the time of the call, and ends in one
\* of the three ways.
LEMMA UpdateEffect ==
  ASSUME NEW v \in Vector, NEW u \in Record, NEW t \in Nat
  PROVE  LET w == infoVecUpdate(v, u, t)
         IN  /\ w \in Vector /\ w.localIndex = v.localIndex /\ w.prevTime = t
             /\ WasReset(v, w, t) \/ TurnedAway(v, w, t) \/ Stored(v, w, u, t)
<1> DEFINE x == [v EXCEPT !.prevTime = t]
           r == ivec_reset(x, t)
           s == StoreRecord(x, u)
           w == infoVecUpdate(v, u, t)
<1>1. /\ x \in Vector /\ x.localIndex = v.localIndex /\ x.prevTime = t /\ x.win = v.win
      /\ x.entry = v.entry /\ x.numAlive = v.numAlive
  BY DEF Vector
<1>2. v.prevTime \in Nat
  BY DEF Vector
<1>3. w = IF t < v.prevTime THEN r
          ELSE IF Acceptable(u, t) /\ IsNewer(v.entry[u.index], u) THEN s ELSE x
  BY Zenon DEF infoVecUpdate
<1> HIDE DEF x, w
<1>4. CASE t < v.prevTime
  <2> DEFINE f == [i \in Idx |-> ivec_reset_entry(t)]
             z == [k \in Slots |-> [index |-> 0, prio |-> 0]]
             n == 0
  <2>1. r = [x EXCEPT !.entry = f, !.numAlive = n, !.win = z]
    BY Zenon DEF ivec_reset
  <2>2. ivec_reset_entry(t) \in Entry
    BY StatusFacts DEF ivec_reset_entry, Entry, Status, DeadCauses
  <2>3. f \in [Idx -> Entry] /\ \A i \in Idx : f[i] = ivec_reset_entry(t)
    BY <2>2
  <2>4. 0 \in Idx
    BY VecAssumption DEF Idx
  <2>5. z \in [Slots -> WinEntry]
    BY <2>4 DEF WinEntry
  <2>6. n \in Int
    OBVIOUS
  <2> HIDE DEF f, z, r, n
  <2>7. /\ r \in Vector /\ r.localIndex = v.localIndex /\ r.prevTime = t
        /\ r.entry = f /\ r.numAlive = n /\ r.win = z
    BY <1>1, <2>1, <2>3, <2>5, <2>6 DEF Vector
  <2>8. \A k \in Slots : z[k] = [index |-> 0, prio |-> 0]
    BY DEF z
  <2> QED BY <1>3, <1>4, <2>3, <2>7, <2>8 DEF WasReset, w, n
<1>5. CASE ~(t < v.prevTime) /\ Acceptable(u, t) /\ IsNewer(v.entry[u.index], u)
  <2>1. u.index # Unknown /\ u.time <= t /\ u.index \in Idx /\ v.entry[u.index].time < u.time
    BY <1>5 DEF Acceptable, IsNewer, Record
  <2> HIDE DEF s
  <2>2. /\ OnlyEntry(x, s, u.index)
        /\ s.entry[u.index].time = u.time /\ s.entry[u.index].status = u.status
        /\ s.entry[u.index].data = u.data
        /\ s.entry[u.index].dead <=> u.status # Alive
        /\ v.entry[u.index].dead /\ u.status = Alive => s.numAlive = v.numAlive + 1
        /\ ~v.entry[u.index].dead /\ u.status # Alive => s.numAlive = v.numAlive - 1
        /\ (v.entry[u.index].dead <=> u.status # Alive) => s.numAlive = v.numAlive
        /\ EntersWindow(x, s, u.index, u.prio)
    BY <1>1, <2>1, StoreEffect DEF s
  <2>3. WinOK(v) => WinOK(s)
    BY <1>1, <2>2, SameWindow DEF OnlyEntry
  <2>4. w = s
    BY <1>3, <1>5
  <2>5. EntersWindow(v, s, u.index, u.prio)
    BY <1>1, <2>2 DEF EntersWindow
  <2> QED BY <1>1, <1>2, <1>5, <2>1, <2>2, <2>3, <2>4, <2>5 DEF Stored, OnlyEntry, w
<1>6. CASE ~(t < v.prevTime) /\ ~(Acceptable(u, t) /\ IsNewer(v.entry[u.index], u))
  BY <1>1, <1>2, <1>3, <1>6 DEF TurnedAway, w
<1> QED
  BY <1>4, <1>5, <1>6

\* Every slot keeps its node, and may lose some of its priority.
SlotsFade(v, w) ==
  \A k \in Slots : w.win[k].index = v.win[k].index /\ w.win[k].prio <= v.win[k].prio

\* So the shape of the window, and who is in it, stay.
LEMMA FadingKeepsShape ==
  ASSUME NEW v, NEW w, SlotsFade(v, w), w.localIndex = v.localIndex
  PROVE  /\ WinOK(v) => WinOK(w)
         /\ \A i \in Idx : InWindow(v, i) <=> InWindow(w, i)
BY DEF SlotsFade, WinOK, InWindow

\* infoVecGetWindow and the clearing of the death log change no entry, no count and no
\* slot's node.
LEMMA GetWindowEffect ==
  ASSUME NEW v \in Vector, NEW t
  PROVE  LET w == infoVecGetWindow(v, t)
         IN  /\ w \in Vector /\ w.localIndex = v.localIndex /\ w.prevTime = v.prevTime
             /\ w.entry = v.entry /\ w.numAlive = v.numAlive
             /\ SlotsFade(v, w)
<1> DEFINE p == LowerPrio(v.localPrio)
           z == [k \in Slots |-> IF k \in SentSlots(v, t)
                                 THEN [v.win[k] EXCEPT !.prio = LowerPrio(v.win[k].prio)]
                                 ELSE v.win[k]]
           w == infoVecGetWindow(v, t)
<1>1. w = [v EXCEPT !.localPrio = p, !.win = z]
  BY Zenon DEF infoVecGetWindow
<1>2. \A q \in Nat : LowerPrio(q) \in Nat /\ LowerPrio(q) <= q
  BY DEF LowerPrio
<1>3. p \in Nat
  BY <1>2 DEF Vector
<1>4. ASSUME NEW k \in Slots
      PROVE  z[k] \in WinEntry /\ z[k].index = v.win[k].index /\ z[k].prio <= v.win[k].prio
  <2>1. v.win[k] \in WinEntry
    BY DEF Vector
  <2> DEFINE q == LowerPrio(v.win[k].prio)
  <2>2. q \in Nat /\ v.win[k].prio \in Nat /\ q <= v.win[k].prio
    BY <1>2, <2>1 DEF WinEntry
  <2> HIDE DEF q
  <2>3. /\ [v.win[k] EXCEPT !.prio = q] \in WinEntry
        /\ [v.win[k] EXCEPT !.prio = q].index = v.win[k].index
        /\ [v.win[k] EXCEPT !.prio = q].prio = q
    BY <2>1, <2>2 DEF WinEntry
  <2> QED BY <2>1, <2>2, <2>3 DEF q
<1>5. z \in [Slots -> WinEntry]
  <2>1. \A k \in Slots : z[k] \in WinEntry
    BY <1>4
  <2>2. z = [k \in Slots |-> z[k]]
    OBVIOUS
  <2> HIDE DEF z
  <2> QED BY <2>1, <2>2
<1>6. \A k \in Slots : z[k].index = v.win[k].index /\ z[k].prio <= v.win[k].prio
  BY <1>4
<1> HIDE DEF w, z, p
<1>7. /\ w \in Vector /\ w.localIndex = v.localIndex /\ w.prevTime = v.prevTime
      /\ w.entry = v.entry /\ w.numAlive = v.numAlive /\ w.win = z
  BY <1>1, <1>3, <1>5 DEF Vector
<1>8. SlotsFade(v, w)
  BY <1>6, <1>7 DEF SlotsFade
<1> QED
  BY <1>7, <1>8 DEF w

\* infoVecClearDeathLog changes the log alone.
LEMMA ClearDeathLogEffect ==
  ASSUME NEW v \in Vector
  PROVE  LET w == infoVecClearDeathLog(v)
         IN  /\ w \in Vector /\ w.localIndex = v.localIndex /\ w.prevTime = v.prevTime
             /\ w.entry = v.entry /\ w.numAlive = v.numAlive
             /\ SlotsFade(v, w)
<1> DEFINE w == infoVecClearDeathLog(v)
           g == << >>
<1>1. w = [v EXCEPT !.deathLog = g]
  BY DEF infoVecClearDeathLog
<1>2. g \in Seq(Idx)
  OBVIOUS
<1> HIDE DEF w, g
<1>3. /\ w \in Vector /\ w.localIndex = v.localIndex /\ w.prevTime = v.prevTime
      /\ w.entry = v.entry /\ w.numAlive = v.numAlive /\ w.win = v.win
  BY <1>1, <1>2 DEF Vector
<1>4. \A k \in Slots : v.win[k].prio <= v.win[k].prio
  BY DEF Vector, WinEntry
<1> QED
  BY <1>3, <1>4 DEF w, SlotsFade

\* infoVecInit: every node dead and never heard of, the window free.
LEMMA InitVector ==
  ASSUME NEW local \in Idx, NEW t \in Nat
  PROVE  LET v == infoVecInit(local, t)
         IN  /\ v \in Vector /\ v.localIndex = local /\ v.numAlive = 0 /\ v.prevTime = t
             /\ \A k \in Slots : v.win[k].index = Empty /\ v.win[k].prio = 0
             /\ \A i \in Idx : /\ v.entry[i].dead /\ v.entry[i].status \in DeadCauses
                               /\ v.entry[i].data = NoData /\ v.entry[i].time = t
<1> DEFINE v == infoVecInit(local, t)
           f == [i \in Idx |-> ivec_init_entry(t)]
           z == [k \in Slots |-> FreeSlot]
           e == ivec_init_entry(t)
<1>1. /\ e \in Entry /\ e.dead /\ e.status \in DeadCauses /\ e.data = NoData /\ e.time = t
  BY StatusFacts DEF ivec_init_entry, Entry, Status, DeadCauses
<1> HIDE DEF e
<1>2. f \in [Idx -> Entry] /\ \A i \in Idx : f[i] = e
  BY <1>1 DEF e
<1>3. FreeSlot \in WinEntry /\ FreeSlot.index = Empty /\ FreeSlot.prio = 0
  BY DEF FreeSlot, WinEntry
<1>4. z \in [Slots -> WinEntry] /\ \A k \in Slots : z[k] = FreeSlot
  BY <1>3
<1>5. << >> \in Seq(Idx)
  OBVIOUS
<1>6. v = [localIndex |-> local, entry |-> f, win |-> z, numAlive |-> 0, localPrio |-> 0,
           prevTime |-> t, deathLog |-> << >>]
  BY DEF infoVecInit
<1> HIDE DEF v, f, z
<1>7. /\ v \in Vector /\ v.localIndex = local /\ v.entry = f /\ v.win = z
      /\ v.numAlive = 0 /\ v.prevTime = t
  BY <1>2, <1>4, <1>5, <1>6 DEF Vector
<1> QED
  BY <1>1, <1>2, <1>3, <1>4, <1>7 DEF v

-----------------------------------------------------------------------------
(***************************************************************************)
(* Whole messages: infoVecGetWindow writes one, infoVecUseRemoteWindow     *)
(* works through one record after record.                                  *)
(***************************************************************************)

\* The slots sent are the first ones, and all of them are occupied.
LEMMA SentSlotsFirst ==
  ASSUME NEW v \in Vector, NEW t
  PROVE  /\ Cardinality(SentSlots(v, t)) \in Nat
         /\ \A k \in 1 .. Cardinality(SentSlots(v, t)) :
              k \in Slots /\ v.win[k].index \in Idx /\ v.win[k].prio \in Nat
<1> DEFINE S == SentSlots(v, t)
<1>1. S \subseteq Slots /\ \A k \in S : v.win[k].index # Empty
  <2>1. \A k \in S : k \in 1 .. k
    BY WinSizePositive DEF SentSlots, Slots
  <2> QED BY <2>1 DEF SentSlots, Sendable
<1>0. \A k \in Nat : k \in Slots <=> k >= 1 /\ k <= WinSize
  BY WinSizePositive DEF Slots
<1>2. \A k \in S : \A j \in 1 .. k : j \in S
  <2> SUFFICES ASSUME NEW k \in S, NEW j \in 1 .. k PROVE j \in S
    OBVIOUS
  <2>1. k \in Slots /\ k <= MsgRoom /\ \A i \in 1 .. k : Sendable(v, i, t)
    BY DEF SentSlots
  <2>2. k \in Nat /\ k <= WinSize /\ j \in Nat /\ j >= 1 /\ j <= k
    BY <1>0, <2>1, WinSizePositive
  <2>3. j \in Slots /\ j <= MsgRoom
    BY <1>0, <2>1, <2>2, WinSizePositive, VecAssumption
  <2>4. \A i \in 1 .. j : i \in 1 .. k
    BY <2>2
  <2> QED BY <2>1, <2>3, <2>4 DEF SentSlots
<1> HIDE DEF S
<1>3. IsFiniteSet(S) /\ S \in SUBSET Nat
  <2>1. IsFiniteSet(Slots)
    BY WinSizePositive, FS_Interval DEF Slots
  <2> QED BY <1>1, <2>1, FS_Subset, WinSizePositive
<1>4. \A k \in 1 .. Cardinality(S) : k \in S
  <2>1. CASE S = {}
    BY <2>1, FS_EmptySet
  <2>2. CASE S # {}
    <3>1. Max(S) \in S /\ \A k \in S : k <= Max(S)
      BY <1>3, <2>2, MaxIsGreatest
    <3>2. Max(S) \in Nat /\ \A k \in S : k \in Nat /\ k >= 1
      BY <1>0, <1>1, <1>3, <3>1
    <3> DEFINE M == Max(S)
    <3> HIDE DEF M
    <3>3. \A k : k \in S <=> k \in 1 .. M
      BY <1>2, <3>1, <3>2 DEF M
    <3>4. Cardinality(1 .. M) = M
      BY <3>2, FS_Interval DEF M
    <3>5. S = 1 .. M
      BY <3>3
    <3> QED BY <3>4, <3>5
  <2> QED BY <2>1, <2>2
<1>5. Cardinality(S) \in Nat
  BY <1>3, FS_CardinalityType
<1>6. \A k \in S : v.win[k].index \in Idx /\ v.win[k].prio \in Nat
  BY <1>1 DEF Vector, WinEntry
<1> QED
  BY <1>1, <1>4, <1>5, <1>6 DEF S

\* Every record of a message describes an entry of the sender's vector.
LEMMA MessageRecords ==
  ASSUME NEW v \in Vector, NEW t \in Nat
  PROVE  /\ WindowMessage(v, t) \in Seq(WireRecord)
         /\ \A r \in ToSet(WindowMessage(v, t)) :
              \E i \in Idx, prio \in Nat : r = SentRecord(v, i, prio, t)
<1> DEFINE c == Cardinality(SentSlots(v, t))
           head == SentRecord(v, v.localIndex, v.localPrio, t)
           tail == [k \in 1 .. c |-> SentRecord(v, v.win[k].index, v.win[k].prio, t)]
           msg == WindowMessage(v, t)
           Good(r) == r \in WireRecord /\ \E i \in Idx, prio \in Nat : r = SentRecord(v, i, prio, t)
<1>1. ASSUME NEW i \in Idx, NEW prio \in Nat
      PROVE  Good(SentRecord(v, i, prio, t))
  <2>1. v.entry[i] \in Entry
    BY VectorFields
  <2>2. compute_age(v.entry[i].time, t) \in Nat
    BY <2>1, VecAssumption DEF compute_age, Entry
  <2>3. SentRecord(v, i, prio, t) \in WireRecord
    BY <2>1, <2>2 DEF SentRecord, WireRecord, Entry
  <2> QED BY <2>3
<1>2. Good(head)
  BY <1>1, VectorFields, VecAssumption DEF Vector
<1>3. c \in Nat /\ \A k \in 1 .. c : Good(tail[k])
  BY <1>1, SentSlotsFirst
<1>4. msg = <<head>> \o tail
  BY DEF WindowMessage
<1> HIDE DEF c, head, tail, msg, Good
<1>5. tail = [k \in 1 .. c |-> tail[k]]
  BY DEF tail
<1>6. tail \in Seq(WireRecord) /\ Len(tail) = c
  BY <1>3, <1>5 DEF Good
<1>7. <<head>> \in Seq(WireRecord) /\ Len(<<head>>) = 1 /\ <<head>>[1] = head
  BY <1>2 DEF Good
<1>8. msg \in Seq(WireRecord) /\ Len(msg) = c + 1
  BY <1>4, <1>6, <1>7
<1>9. \A k \in 1 .. c + 1 : msg[k] = IF k = 1 THEN head ELSE tail[k - 1]
  BY <1>3, <1>4, <1>6, <1>7
<1>10. \A k \in DOMAIN msg : Good(msg[k])
  BY <1>2, <1>3, <1>8, <1>9
<1> QED
  BY <1>8, <1>10 DEF ToSet, msg, Good

\* g follows the recursion FoldLeft stands for, over the sets of positions in D.
FollowsFold(g, v, msg, t, D) ==
  g = [s \in SUBSET D |-> IF s = {} THEN v ELSE UseRecord(g[s \ {Max(s)}], msg[Max(s)], t)]

\* This recursion is well founded: a function that follows it exists, on ever larger sets of
\* positions.
LEMMA FoldExists ==
  ASSUME NEW v, NEW msg, NEW t, NEW D \in SUBSET Nat, IsFiniteSet(D)
  PROVE  \E g : FollowsFold(g, v, msg, t, D)
<1> DEFINE Turn(g, s) == IF s = {} THEN v ELSE UseRecord(g[s \ {Max(s)}], msg[Max(s)], t)
           Small(m) == {s \in SUBSET D : Cardinality(s) <= m}
           Good(m) == \E g : g = [s \in Small(m) |-> Turn(g, s)]
<1>1. \A s \in SUBSET D : /\ IsFiniteSet(s) /\ Cardinality(s) \in Nat
                          /\ Cardinality(s) <= Cardinality(D)
                          /\ s = {} <=> Cardinality(s) = 0
  BY FS_Subset, FS_CardinalityType, FS_EmptySet
<1>2. ASSUME NEW s \in SUBSET D, s # {}
      PROVE  s \ {Max(s)} \in SUBSET D /\ Cardinality(s \ {Max(s)}) = Cardinality(s) - 1
  <2>1. Max(s) \in s
    BY <1>1, <1>2, MaxIsGreatest
  <2> QED BY <1>1, <2>1, FS_RemoveElement
<1>3. Good(0)
  <2> DEFINE g == [s \in Small(0) |-> v]
  <2>1. \A s \in Small(0) : s = {}
    BY <1>1
  <2>2. \A s \in Small(0) : Turn(g, s) = v
    BY <2>1
  <2>3. [s \in Small(0) |-> Turn(g, s)] = [s \in Small(0) |-> v]
    BY <2>2
  <2> QED BY <2>3
<1>4. ASSUME NEW m \in Nat, Good(m)
      PROVE  Good(m + 1)
  <2>1. PICK f : f = [s \in Small(m) |-> Turn(f, s)]
    BY <1>4
  <2> DEFINE g == [s \in Small(m + 1) |-> IF s \in Small(m) THEN f[s] ELSE Turn(f, s)]
  <2>2. ASSUME NEW s \in Small(m + 1)
        PROVE  g[s] = Turn(g, s)
    <3>1. CASE s = {}
      <4>1. s \in Small(m)
        BY <1>1, <3>1
      <4>2. f[s] = v
        BY <2>1, <3>1, <4>1
      <4> QED BY <3>1, <4>1, <4>2
    <3>2. CASE s # {}
      <4> DEFINE r == s \ {Max(s)}
      <4>1. r \in SUBSET D /\ Cardinality(r) = Cardinality(s) - 1 /\ Cardinality(s) \in Nat
        BY <1>1, <1>2, <3>2
      <4>2. r \in Small(m) /\ r \in Small(m + 1)
        BY <4>1
      <4>3. g[r] = f[r]
        BY <4>2
      <4>4. g[s] = Turn(f, s)
        BY <2>1
      <4> QED BY <3>2, <4>3, <4>4
    <3> QED BY <3>1, <3>2
  <2>3. g = [s \in Small(m + 1) |-> g[s]]
    OBVIOUS
  <2> HIDE DEF g, Small, Turn
  <2>4. g = [s \in Small(m + 1) |-> Turn(g, s)]
    BY <2>2, <2>3
  <2> QED BY <2>4
<1> HIDE DEF Good
<1>5. \A m \in Nat : Good(m)
  <2> DEFINE T == {m \in Nat : ~Good(m)}
  <2> SUFFICES ASSUME T # {} PROVE FALSE
    OBVIOUS
  <2>1. PICK x \in T : \A y \in T : x <= y
    BY LeastExists
  <2>2. x \in Nat /\ x # 0 /\ x - 1 \in Nat /\ ~(x <= x - 1)
    BY <1>3, <2>1
  <2>3. Good(x - 1)
    BY <2>1, <2>2
  <2>4. Good(x)
    BY <1>4, <2>2, <2>3
  <2> QED BY <2>1, <2>4
<1>6. Good(Cardinality(D))
  BY <1>5, FS_CardinalityType
<1>7. Small(Cardinality(D)) = SUBSET D
  BY <1>1
<1> QED
  BY <1>6, <1>7 DEF Good, FollowsFold

\* e became f because of record r of a message read at time t: f has what r says, and is
\* newer than e.
Learnt(e, f, r, t) ==
  /\ f.time = t - r.age /\ f.status = r.status /\ f.data = r.data
  /\ f.dead <=> f.status # Alive
  /\ e.time < f.time

\* One turn of the loop of infoVecUseRemoteWindow changes at most the entry the record is
\* about, and never the local one, unless the clock went back since the last update.
LEMMA UseRecordEffect ==
  ASSUME NEW v \in Vector, NEW t \in Nat, NEW r \in WireRecord, v.prevTime <= t, r.age <= t
  PROVE  LET w == UseRecord(v, r, t)
         IN  /\ w \in Vector /\ w.localIndex = v.localIndex /\ w.prevTime <= t
             /\ \A i \in Idx : \/ w.entry[i] = v.entry[i]
                               \/ /\ i = r.index /\ i # v.localIndex
                                  /\ Learnt(v.entry[i], w.entry[i], r, t)
<1> DEFINE u == AsRecord(r, t)
           w == infoVecUpdate(v, u, t)
<1>1. CASE r.index = v.localIndex
  BY <1>1 DEF UseRecord
<1>2. CASE r.index # v.localIndex
  <2>1. t - r.age \in Nat
    BY DEF WireRecord
  <2>2. u \in Record /\ u.index = r.index /\ u.time = t - r.age /\ u.status = r.status
        /\ u.data = r.data
    BY <2>1 DEF AsRecord, WireRecord, Record
  <2>3. UseRecord(v, r, t) = w
    BY <1>2 DEF UseRecord
  <2> HIDE DEF u
  <2>4. /\ w \in Vector /\ w.localIndex = v.localIndex /\ w.prevTime = t
        /\ WasReset(v, w, t) \/ TurnedAway(v, w, t) \/ Stored(v, w, u, t)
    BY <2>2, UpdateEffect
  <2> HIDE DEF w
  <2>5. v.prevTime \in Nat
    BY DEF Vector
  <2>6. CASE WasReset(v, w, t)
    BY <2>5, <2>6 DEF WasReset
  <2>7. CASE TurnedAway(v, w, t)
    BY <2>3, <2>4, <2>7 DEF TurnedAway
  <2>8. CASE Stored(v, w, u, t)
    <3>1. /\ u.index \in Idx /\ v.entry[u.index].time < u.time
          /\ \A j \in Idx \ {u.index} : w.entry[j] = v.entry[j]
          /\ w.entry[u.index].time = u.time /\ w.entry[u.index].status = u.status
          /\ w.entry[u.index].data = u.data
          /\ w.entry[u.index].dead <=> u.status # Alive
      BY <2>8 DEF Stored
    <3> QED BY <1>2, <2>2, <2>3, <2>4, <3>1 DEF Learnt
  <2> QED BY <2>4, <2>6, <2>7, <2>8
<1> QED
  BY <1>1, <1>2

\* w is v after a window msg arrived at t: every entry that changed was learnt from a record
\* of the message about that node, and the local entry did not change.
WindowUsed(v, msg, t, w) ==
  /\ w \in Vector /\ w.localIndex = v.localIndex /\ w.prevTime <= t
  /\ \A i \in Idx : \/ w.entry[i] = v.entry[i]
                    \/ /\ i # v.localIndex
                       /\ \E r \in ToSet(msg) : r.index = i /\ Learnt(v.entry[i], w.entry[i], r, t)

\* That is what a window received does, if it is no older than the clock.
\* (infoVecUseRemoteWindow, infoVec.c)
LEMMA UseWindowEffect ==
  ASSUME NEW v \in Vector, NEW t \in Nat, NEW msg \in Seq(WireRecord), v.prevTime <= t,
         \A r \in ToSet(msg) : r.age <= t
  PROVE  WindowUsed(v, msg, t, infoVecUseRemoteWindow(v, msg, t))
<1> DEFINE n == Len(msg)
           D == DOMAIN msg
           it == CHOOSE g : FollowsFold(g, v, msg, t, D)
           at(k) == it[1 .. k]
           Changed(w, i) == \/ w.entry[i] = v.entry[i]
                            \/ /\ i # v.localIndex
                               /\ \E r \in ToSet(msg) :
                                    r.index = i /\ Learnt(v.entry[i], w.entry[i], r, t)
           Good(w) == /\ w \in Vector /\ w.localIndex = v.localIndex /\ w.prevTime <= t
                      /\ \A i \in Idx : Changed(w, i)
<1>1. n \in Nat /\ D = 1 .. n /\ \A k \in D : msg[k] \in WireRecord /\ msg[k] \in ToSet(msg)
  BY DEF ToSet
<1>2. infoVecUseRemoteWindow(v, msg, t) = it[D]
  BY Zenon DEF infoVecUseRemoteWindow, FoldLeft, MapThenFoldSet, FollowsFold
<1>3. it = [s \in SUBSET D |->
              IF s = {} THEN v ELSE UseRecord(it[s \ {Max(s)}], msg[Max(s)], t)]
  <2>1. D \in SUBSET Nat /\ IsFiniteSet(D)
    BY <1>1, FS_Interval
  <2>2. \E g : FollowsFold(g, v, msg, t, D)
    <3> HIDE DEF D
    <3> QED BY <2>1, FoldExists
  <2> QED BY <2>2, Zenon DEF FollowsFold
<1> HIDE DEF it
<1>4. at(0) = v
  <2>1. 1 .. 0 = {} /\ {} \in SUBSET D
    OBVIOUS
  <2> QED BY <1>3, <2>1, Zenon
<1>5. ASSUME NEW k \in 1 .. n
      PROVE  at(k) = UseRecord(at(k - 1), msg[k], t)
  <2> DEFINE s == 1 .. k
  <2>0. k \in Nat /\ k >= 1
    BY <1>1
  <2>1. s \in SUBSET Nat /\ IsFiniteSet(s) /\ s # {} /\ k \in s
    <3>1. IsFiniteSet(s)
      BY <2>0, FS_Interval
    <3>2. k \in s
      BY <2>0
    <3>3. s \in SUBSET Nat
      OBVIOUS
    <3> QED BY <3>1, <3>2, <3>3
  <2>2. \A y \in s : y <= k
    OBVIOUS
  <2>3. Max(s) \in s /\ k <= Max(s)
    BY <2>1, MaxIsGreatest
  <2>4. Max(s) = k
    BY <2>1, <2>2, <2>3
  <2>5. s \ {k} = 1 .. k - 1
    BY <2>1
  <2>6. s \in SUBSET D
    BY <1>1
  <2>7. it[s] = UseRecord(it[s \ {Max(s)}], msg[Max(s)], t)
    <3> HIDE DEF s
    <3> QED BY <1>3, <2>1, <2>6, Zenon
  <2> QED BY <2>4, <2>5, <2>7
<1> HIDE DEF at, Good
<1>6. Good(at(0))
  <2>1. Good(v)
    BY DEF Good
  <2> QED BY <1>4, <2>1
<1>7. ASSUME NEW k \in 1 .. n, Good(at(k - 1))
      PROVE  Good(at(k))
  <2> DEFINE x == at(k - 1)
             r == msg[k]
             w == UseRecord(x, r, t)
  <2>1. r \in WireRecord /\ r \in ToSet(msg) /\ r.age <= t
    BY <1>1
  <2>2. x \in Vector /\ x.localIndex = v.localIndex /\ x.prevTime <= t
        /\ \A i \in Idx : Changed(x, i)
    BY <1>7 DEF Good
  <2> HIDE DEF x, r, Changed
  <2>3. /\ w \in Vector /\ w.localIndex = x.localIndex /\ w.prevTime <= t
        /\ \A i \in Idx : \/ w.entry[i] = x.entry[i]
                          \/ /\ i = r.index /\ i # x.localIndex
                             /\ Learnt(x.entry[i], w.entry[i], r, t)
    BY <2>1, <2>2, UseRecordEffect
  <2> HIDE DEF w
  <2>4. ASSUME NEW i \in Idx
        PROVE  Changed(w, i)
    <3>1. CASE w.entry[i] = x.entry[i]
      BY <2>2, <3>1 DEF Changed
    <3>2. CASE i = r.index /\ i # x.localIndex /\ Learnt(x.entry[i], w.entry[i], r, t)
      <4>1. v.entry[i].time <= x.entry[i].time
        <5>1. v.entry[i].time \in Nat
          BY VectorFields DEF Entry
        <5>2. CASE x.entry[i] = v.entry[i]
          BY <5>1, <5>2
        <5>3. CASE v.entry[i].time < x.entry[i].time
          <6>1. x.entry[i].time \in Nat
            BY <2>2, VectorFields DEF Entry
          <6> QED BY <5>1, <5>3, <6>1
        <5>4. x.entry[i] = v.entry[i] \/ v.entry[i].time < x.entry[i].time
          BY <2>2 DEF Changed, Learnt
        <5> QED BY <5>2, <5>3, <5>4
      <4>2. v.entry[i].time \in Nat /\ x.entry[i].time \in Nat /\ w.entry[i].time \in Nat
        BY <2>2, <2>3, VectorFields DEF Entry
      <4>3. Learnt(v.entry[i], w.entry[i], r, t)
        BY <3>2, <4>1, <4>2 DEF Learnt
      <4> QED BY <2>1, <2>2, <3>2, <4>3 DEF Changed
    <3> QED BY <2>3, <3>1, <3>2
  <2>5. Good(w)
    BY <2>2, <2>3, <2>4 DEF Good
  <2>6. at(k) = w
    BY <1>5 DEF w, x, r
  <2> QED BY <2>5, <2>6
<1>8. Good(at(n))
  <2> DEFINE T == {k \in 0 .. n : ~Good(at(k))}
  <2> SUFFICES ASSUME T # {} PROVE FALSE
    BY <1>1
  <2>1. T \in SUBSET Nat
    BY <1>1
  <2>2. PICK x \in T : \A y \in T : x <= y
    BY <2>1, LeastExists
  <2>3. x \in 1 .. n /\ x - 1 \in 0 .. n /\ ~(x <= x - 1)
    BY <1>1, <1>6, <2>2
  <2>4. Good(at(x - 1))
    BY <2>2, <2>3
  <2> QED BY <1>7, <2>2, <2>3, <2>4
<1> QED
  BY <1>1, <1>2, <1>8 DEF at, Good, WindowUsed

\* A reading made at the time of the call is always stored: afterwards the entry is as new
\* as it is.
LEMMA FreshStored ==
  ASSUME NEW v \in Vector, NEW u \in Record, NEW t \in Nat, u.index # Unknown, u.time = t,
         v.prevTime <= t, v.entry[u.index].time < t
  PROVE  infoVecUpdate(v, u, t).entry[u.index].time = t
<1> DEFINE x == [v EXCEPT !.prevTime = t]
<1>1. x \in Vector
  BY DEF Vector
<1>2. v.prevTime \in Nat
  BY DEF Vector
<1>3. ~(t < v.prevTime) /\ Acceptable(u, t) /\ IsNewer(v.entry[u.index], u)
  <2>1. MaxAge * Milli \in Nat
    BY VecAssumption
  <2> QED BY <1>2, <2>1 DEF Acceptable, IsNewer
<1>4. infoVecUpdate(v, u, t) = StoreRecord(x, u)
  BY <1>3 DEF infoVecUpdate
<1> HIDE DEF x
<1>5. StoreRecord(x, u).entry[u.index].time = u.time
  BY <1>1, StoreEffect
<1> QED
  BY <1>4, <1>5

=============================================================================
