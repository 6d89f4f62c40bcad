-------------------------------- MODULE Mapper --------------------------------
(***************************************************************************)
(* The cluster map of the daemon: the lines "number address count" of a    *)
(* map file (src/libutil/UserViewMapBuilder.c), checked and sorted by      *)
(* src/libutil/MapperBuilder.c, asked and walked over by                   *)
(* src/libutil/Mapper.c, and the list of nodes that                        *)
(* infoVecInitEntries (src/infod/infoVec.c) makes of it.                   *)
(*                                                                         *)
(* A map is the sequence of its ranges, all in one cluster, number 0.  The *)
(* widths of addresses and of node numbers are constants.                  *)
(***************************************************************************)
EXTENDS Integers, Sequences, FiniteSets

CONSTANTS
  AddrBits, NodeBits, ClusterBits,   \* widths: in_addr_t, NODE_ID_SIZE, CLUSTER_ID_SIZE
  Numbers, Addresses, Counts,        \* what the lines of a map file may say
  MaxLines                           \* bound on the lines of a map file

ASSUME MapperAssumption ==
  /\ AddrBits \in Nat /\ NodeBits \in Nat /\ ClusterBits \in Nat /\ MaxLines \in Nat
  /\ Numbers \subseteq Nat /\ Counts \subseteq Nat
  /\ Addresses \subseteq 0 .. 2 ^ AddrBits - 1

Line == [base : Numbers, addr : Addresses, count : Counts]

Wrapped(a) == a % 2 ^ AddrBits
PE_CLUSTER_ID(pe) == (pe \div 2 ^ NodeBits) % 2 ^ ClusterBits
PE_NODE_ID(pe) == pe % 2 ^ NodeBits

Nothing == -1

-----------------------------------------------------------------------------
(***************************************************************************)
(* Building a map                                                          *)
(***************************************************************************)
\* A line is refused if its first number is not one of cluster 0, or if the
\* addresses run into the end of the address space.
mapper_addClusterHostRange(l) ==
  PE_CLUSTER_ID(l.base) = 0 /\ Wrapped(l.addr + l.count) >= l.addr

Intersect(x, m, y, n) == (x <= y /\ x + m > y) \/ (y <= x /\ y + n > x)

ranges_ip_intersect(r, s) == Intersect(r.addr, r.count, s.addr, s.count)

ranges_nodeId_intersect_Bases(r, s) == r.base = s.base   \* mutant: only first numbers are compared

ranges_nodeId_intersect(r, s) == Intersect(r.base, r.count, s.base, s.count)

isMapValid(m) ==
  /\ m # <<>>
  /\ \A i, j \in DOMAIN m :
       i < j => ~ranges_ip_intersect(m[i], m[j]) /\ ~ranges_nodeId_intersect(m[i], m[j])

\* Pass i moves the greatest of the first i ranges to place i; the passes
\* grow, so a range that is out of place may stay so.
Swap(m, j) ==
  IF m[j].base > m[j + 1].base THEN [m EXCEPT ![j] = m[j + 1], ![j + 1] = m[j]] ELSE m

Pass(m, i) ==
  LET after[j \in 0 .. i - 1] == IF j = 0 THEN m ELSE Swap(after[j - 1], j)
  IN  after[i - 1]

sort_cluster_ranges(m) ==
  LET after[i \in 0 .. Len(m)] == IF i = 0 THEN m ELSE Pass(after[i - 1], i)
  IN  after[Len(m)]

BuildUserViewMap(lines) ==
  IF (\A i \in DOMAIN lines : mapper_addClusterHostRange(lines[i])) /\ isMapValid(lines)
  THEN sort_cluster_ranges(lines) ELSE <<>>

mapperTotalNodeNum(m) ==
  LET total[i \in 0 .. Len(m)] == IF i = 0 THEN 0 ELSE total[i - 1] + m[i].count
  IN  total[Len(m)]

-----------------------------------------------------------------------------
(***************************************************************************)
(* Asking a map                                                            *)
(***************************************************************************)
HasAddress(r, a) == a >= r.addr /\ a < r.addr + r.count
HasNumber(r, n) == n >= r.base /\ n < r.base + r.count

\* The place where a search from the front ends.
First(S) == CHOOSE i \in S : \A j \in S : i <= j

\* The map is finalised, and with it sorted, a second time.
mapperSetMyIP(m, a) ==
  IF \E i \in DOMAIN m : HasAddress(m[i], a) THEN sort_cluster_ranges(m) ELSE <<>>

mapper_addr2node(m, a) ==
  LET found == {i \in DOMAIN m : HasAddress(m[i], a)}
      r == m[First(found)]
  IN  IF found = {} THEN Nothing ELSE PE_NODE_ID(r.base + a - r.addr)

mapper_node2addr(m, pe) ==
  LET found == {i \in DOMAIN m : HasNumber(m[i], PE_NODE_ID(pe))}
      r == m[First(found)]
  IN  IF found = {} THEN Nothing ELSE Wrapped(r.addr + PE_NODE_ID(pe) - r.base)

-----------------------------------------------------------------------------
(***************************************************************************)
(* Walking over a map                                                      *)
(***************************************************************************)
\* The nodes one range contributes to a walk that has made the steps seen:
\* number 0 ends the walk, and entering a range that is empty repeats the
\* node before it, or whatever the caller's structure held.
Visit(seen, r, first, junk) ==
  IF r.count = 0 /\ ~first
  THEN Append(seen, IF seen = <<>> THEN junk ELSE seen[Len(seen)])
  ELSE seen \o [k \in 1 .. r.count |-> r.addr + k - 1]

\* mapperIter and mapperNext until it returns 0.
mapperWalk(m, junk) ==
  LET stops == {i \in DOMAIN m : m[i].base = 0}
      walked == IF stops = {} THEN Len(m) ELSE First(stops) - 1
      seen[i \in 0 .. walked] == IF i = 0 THEN <<>> ELSE Visit(seen[i - 1], m[i], i = 1, junk)
  IN  seen[walked]

\* No vector is made of a walk that is too short.
infoVecInitEntries(m, junk) ==
  LET walk == mapperWalk(m, junk)
      size == mapperTotalNodeNum(m)
  IN  IF Len(walk) < size THEN <<>> ELSE SubSeq(walk, 1, size)

-----------------------------------------------------------------------------
(***************************************************************************)
(* What a map is taken for elsewhere: the set of the addresses it lists.   *)
(***************************************************************************)
Nodes(l) == l.addr .. l.addr + l.count - 1
NumbersOf(l) == l.base .. l.base + l.count - 1
ListedBy(t) == UNION {Nodes(t[i]) : i \in DOMAIN t}

\* Lines that number at least one node, from 1 up to what a number can hold.
\* The code accepts others: an empty range in the middle doubles the node
\* before it, number 0 makes a map without a vector, a greater number wraps.
Plain(l) == l.count > 0 /\ l.base > 0 /\ l.base + l.count <= 2 ^ NodeBits

Texts(nodes) ==
  UNION {[1 .. n -> {l \in Line : Plain(l) /\ Nodes(l) \subseteq nodes}] : n \in 0 .. MaxLines}

Unambiguous(t) ==
  \A i, j \in DOMAIN t :
    i # j => Nodes(t[i]) \cap Nodes(t[j]) = {} /\ NumbersOf(t[i]) \cap NumbersOf(t[j]) = {}

\* A text is a map if it names neither an address nor a number twice.
AcceptedRight(t) == BuildUserViewMap(t) # <<>> <=> t # <<>> /\ Unambiguous(t)

\* The host is found if it is listed; the vector is given every address once,
\* and the number of an address leads back to it.
ReadsAs(m, nodes, ip) ==
  LET mine == mapperSetMyIP(m, ip)
      entries == infoVecInitEntries(mine, 0)
  IN  IF ip \notin nodes THEN mine = <<>>
      ELSE /\ {entries[i] : i \in DOMAIN entries} = nodes /\ Len(entries) = Cardinality(nodes)
           /\ \A a \in nodes : mapper_node2addr(mine, mapper_addr2node(mine, a)) = a
           /\ \A a \in Addresses \ nodes : mapper_addr2node(mine, a) = Nothing

\* For every text that lists the nodes and nothing else.
IsItsSet(nodes, ip) ==
  \A t \in Texts(nodes) :
    /\ AcceptedRight(t)
    /\ ListedBy(t) = nodes /\ Unambiguous(t) => ReadsAs(BuildUserViewMap(t), nodes, ip)

=============================================================================
