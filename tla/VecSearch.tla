------------------------------- MODULE VecSearch -------------------------------
(***************************************************************************)
(* How the information vector finds a node by its address                  *)
(* (src/infod/infoVec.c): the entries are sorted by address, runs of       *)
(* consecutive addresses are recorded once, and a lookup first tries the   *)
(* entry after the one found last, in this vector or in an earlier one.    *)
(* The other modules name a node by its index; this one checks the way     *)
(* there.                                                                  *)
(*                                                                         *)
(* An address is a number of two halves of HalfBits bits; turning host     *)
(* order into network order swaps them.  Indices start at 1.               *)
(***************************************************************************)
EXTENDS Integers, Sequences, FiniteSets

LOCAL INSTANCE SequencesExt
LOCAL INSTANCE FiniteSetsExt

CONSTANT HalfBits   \* the width of half an address

ASSUME VecSearchAssumption == HalfBits \in Nat \ {0}

Half == 2 ^ HalfBits
Space == Half * Half
Address == 0 .. Space - 1

\* htonl and ntohl where they are not the identity.
Swapped(a) == (a % Half) * Half + a \div Half

Missing == 0   \* the index -1 of the code

-----------------------------------------------------------------------------
\* The difference of two unsigned addresses, read as a signed number, is not
\* positive: of two addresses half the space apart the greater comes first.
compare_ips(a, b) == LET d == (a - b) % Space IN d = 0 \/ d >= Space \div 2

\* What qsort may make of the nodes of a map: neighbours are in order, which
\* settles nothing else where the comparison is not transitive.
Arrangements(nodes) ==
  {v \in SetToSeqs(nodes) : \A i \in 2 .. Len(v) : compare_ips(v[i - 1], v[i])}

\* Where a run of consecutive addresses starts, and how long it is.
Starts(v) == {i \in DOMAIN v : i = 1 \/ (v[i] - v[i - 1]) % Space > 1}

RunSize(v, i) == Min({j \in Starts(v) \cup {Len(v) + 1} : j > i}) - i

InRun_PastEnd(v, i, a) == a >= v[i] /\ a <= (v[i] + RunSize(v, i)) % Space   \* mutant: one past the run

InRun(v, i, a) == a >= v[i] /\ a <= (v[i] + RunSize(v, i) - 1) % Space

\* The address asked for is compared, in host order, with an entry's in
\* network order.
FastPath(v, last, a) == last < Len(v) /\ a = Swapped(v[last + 1])

infoVecFindByIP(v, last, a) ==
  LET runs == {i \in Starts(v) : InRun(v, i, a)}
  IN  IF FastPath(v, last, a) THEN last + 1
      ELSE IF runs = {} THEN Missing
      ELSE Min(runs) + a - v[Min(runs)]

-----------------------------------------------------------------------------
\* What a lookup has to return: the entry of the address, if there is one.
IsEntryOf(v, i, a) ==
  IF \E j \in DOMAIN v : v[j] = a THEN i \in DOMAIN v /\ v[i] = a ELSE i = Missing

\* The entry after the last one found is taken for the mirror image of its
\* address.
Mistaken(v, last, a) == FastPath(v, last, a) /\ Swapped(a) # a

\* In every vector of n nodes, after any earlier lookup, in this vector or in
\* a longer one.  No range of a map reaches the last address.
ExactWith(n) ==
  \A nodes \in kSubset(n, Address \ {Space - 1}) : \A v \in Arrangements(nodes) :
    \A last \in 1 .. n + 1, a \in Address :
      Mistaken(v, last, a) \/ IsEntryOf(v, infoVecFindByIP(v, last, a), a)

==============================================================================
