------------------------------- MODULE PrioHeap -------------------------------
(***************************************************************************)
(* The heap that messages to the provider wait in (src/infod/prioHeap.c).  *)
(* A heap is the sequence of its entries, each a priority and the data;    *)
(* the entry at i is not behind those at 2i and 2i + 1, and the lowest     *)
(* priority is first.  One place of those allocated is never used.         *)
(***************************************************************************)
EXTENDS Naturals, FiniteSets, SequencesExt

Prio(h, i) == h[i].prio
Parent(i) == i \div 2

Swapped(h, i, j) == [h EXCEPT ![i] = h[j], ![j] = h[i]]

\* The entry at i, or the lower of those under it that is lower than it.
largest(h, i) ==
  LET left  == 2 * i
      right == 2 * i + 1
      lower == IF left <= Len(h) /\ Prio(h, left) < Prio(h, i) THEN left ELSE i
  IN  IF right <= Len(h) /\ Prio(h, right) < Prio(h, lower) THEN right ELSE lower

\* One turn of the loop of heapify: the entry sinks below a lower one, or is in place.
Sink(s) ==
  LET j == largest(s.heap, s.i)
  IN  IF j = s.i THEN s ELSE [heap |-> Swapped(s.heap, s.i, j), i |-> j]

\* No entry can sink more often than there are entries.
heapify(h, i) ==
  LET sunk[k \in 0 .. Len(h)] == IF k = 0 THEN [heap |-> h, i |-> i] ELSE Sink(sunk[k - 1])
  IN  sunk[Len(h)].heap

build_heap(h) ==
  LET built[k \in 0 .. Len(h) \div 2] == IF k = 0 THEN h ELSE heapify(built[k - 1], Len(h) \div 2 + 1 - k)
  IN  built[Len(h) \div 2]

\* One turn of the loop of heap_insert: the entry rises, the one above it comes down.
Rise(s) ==
  IF s.i > 1 /\ Prio(s.heap, Parent(s.i)) > Prio(s.heap, s.i)
  THEN [heap |-> Swapped(s.heap, s.i, Parent(s.i)), i |-> Parent(s.i)]
  ELSE s

\* Refused one place before heap_is_full would hold.
HeapFull(h, length) == Len(h) = length - 1
heap_is_full(h, length) == Len(h) = length

heap_insert_Above(h, e, length) ==   \* mutant: compared with its parent only
  IF HeapFull(h, length) THEN h
  ELSE LET n == Len(h) + 1
           g == Append(h, e)
       IN  IF n > 1 /\ Prio(g, Parent(n)) > e.prio
           THEN [g EXCEPT ![n] = g[Parent(n)], ![Parent(n)] = e] ELSE g

heap_insert(h, e, length) ==
  LET risen[k \in 0 .. Len(h)] ==
        IF k = 0 THEN [heap |-> Append(h, e), i |-> Len(h) + 1] ELSE Rise(risen[k - 1])
  IN  IF HeapFull(h, length) THEN h ELSE risen[Len(h)].heap

\* The last entry takes the place of the one that goes, and sinks.
WithLastAt(h, i) == SubSeq([h EXCEPT ![i] = h[Len(h)]], 1, Len(h) - 1)

heap_extract_max(h) == IF h = <<>> THEN h ELSE heapify(WithLastAt(h, 1), 1)

heap_delete(h, i) == IF i \in DOMAIN h THEN heapify(WithLastAt(h, i), i) ELSE h

-----------------------------------------------------------------------------
(***************************************************************************)
(* What a heap is for                                                      *)
(***************************************************************************)
Ordered(h) == \A i \in 2 .. Len(h) : Prio(h, Parent(i)) <= Prio(h, i)

\* How often x is in h.
Copies(h, x) == Cardinality({i \in DOMAIN h : h[i] = x})

\* h has what g has, and e.
HasMore(h, g, e) ==
  \A x \in ToSet(h) \cup ToSet(g) \cup {e} :
    Copies(h, x) = Copies(g, x) + IF x = e THEN 1 ELSE 0

\* What a step may make of an ordered heap.  Deleting is not in order where the entry
\* that takes the place belongs above it.
StepRight(h, prios, length) ==
  /\ \A k \in prios :
       LET e == [prio |-> k, data |-> "new"]
           g == heap_insert(h, e, length)
       IN  Ordered(g) /\ IF Len(h) = length - 1 THEN g = h ELSE HasMore(g, h, e)
  /\ h # <<>> =>
       LET g == heap_extract_max(h)
       IN  Ordered(g) /\ HasMore(h, g, h[1]) /\ \A i \in DOMAIN h : Prio(h, 1) <= Prio(h, i)
  /\ \A i \in DOMAIN h :
       LET g == heap_delete(h, i)
       IN  /\ HasMore(h, g, h[i])
           /\ i = 1 \/ Prio(h, Len(h)) >= Prio(h, Parent(i)) => Ordered(g)

Heaps(n, prios) == [1 .. n -> [prio : prios, data : {"a", "b"}]]

\* Every heap of at most length entries is kept in order, and none is lost.
HeapRight(length, prios) ==
  \A n \in 0 .. length - 1 : \A h \in Heaps(n, prios) :
    LET built == build_heap(h)
    IN  /\ Ordered(built) /\ \A x \in ToSet(h) : HasMore(Append(h, x), built, x)
        /\ Ordered(h) => StepRight(h, prios, length)

===============================================================================
