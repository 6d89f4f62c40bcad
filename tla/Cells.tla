-------------------------------- MODULE Cells --------------------------------
(***************************************************************************)
(* The raw data of a display of the monitor (mmon/infoMethods.c): one      *)
(* block per node, allocated with the first answer of infod and kept from  *)
(* then on.  Every refresh writes the blocks over in the order of the      *)
(* answer, which is that of the addresses, and then sorts them by the      *)
(* numbers of the nodes, so that a block holds another node's old data     *)
(* when the next answer is written into it.  A live node writes all its    *)
(* cells, a dead one only its number and its status.  Strings live outside *)
(* the block, behind a pointer that moves with it, in memory that is used  *)
(* again for whatever node comes next.  One string stands here for those   *)
(* of a block, the one that is only kept while a user is marked by it.     *)
(* The letters of the clusters come from a table of strings the module     *)
(* keeps from answer to answer (clsid, GeneralMD.c:3332): every answer     *)
(* frees them all, but forgets only those in the first bytes of the table. *)
(* Every entry carries a cluster: for one without, the code compares and   *)
(* copies a null pointer.                                                  *)
(***************************************************************************)
EXTENDS Integers, SequencesExt, Orders

CONSTANTS
  Nodes,      \* how many addresses answer; an address is a position in the answer
  Number,     \* the number of each node
  ClusterOf,  \* the cluster each node belongs to
  Size,       \* Size[n][t]: bytes of the string node n sends at time t, 0: it sends none
  Room,       \* the bytes a string gets at first (512)
  Letters,    \* the entries of the table of letters (28)
  Cleared,    \* those bzero clears: 28 bytes are three pointers of 8 bytes and part of a fourth
  Lost,       \* the nodes one of which may be dead or missing in an answer
  Filter      \* the nodes the display was asked for, all of them when it was not

Node == 1..Nodes
Clusters == {ClusterOf[n] : n \in Node}
Stamp == {0, 1}          \* tells the last answer from the one before
NoUser == "nobody"
Users == {NoUser, "user"}
NULL == [cap |-> 0]

ASSUME CellsAssumption ==
  /\ Nodes \in Nat \ {0} /\ Room \in Nat \ {0} /\ Filter \subseteq Node /\ Lost \subseteq Node
  /\ Number \in [Node -> Nat] /\ \A m, n \in Node : m # n => Number[m] # Number[n]
  /\ Letters \in Nat \ {0} /\ Cleared \in 0..Letters /\ DOMAIN ClusterOf = Node
  /\ \A n \in Node, t \in Stamp : Size[n][t] \in Nat

VARIABLES
  raw,      \* the blocks, <<>> before the first answer
  count,    \* nodes_count: how many of them are in use
  alive,    \* alive_arr
  user,     \* the user whose use the load column marks
  fetched,  \* the entries of the last answer, its time and the user of then
  clsid     \* the table of letters: how many the last answer with a live node named, whether
            \* strings it freed are still there, and whether such a one, or the memory behind
            \* the table, was ever used (that one is remembered here only)

cvars == <<raw, count, alive, user, fetched, clsid>>

Max2(a, b) == IF a >= b THEN a ELSE b

-----------------------------------------------------------------------------
(* Strings.                                                                *)
Text(n, t) == [size |-> Size[n][t], of |-> <<n, t>>]

\* a copy in the memory there is: the first is made for Room bytes, a long text gets its own size
save_vlen_data(text, p) ==
  [cap |-> IF p = NULL THEN Max2(text.size, Room) + 1
           ELSE IF text.size > Room THEN text.size + 1 ELSE p.cap,
   size |-> text.size, of |-> text.of]

\* a node that sends no such string leaves no old one in its place (the memory is lost)
getVlenItem(text, p) == IF text.size = 0 THEN NULL ELSE save_vlen_data(text, p)

-----------------------------------------------------------------------------
(* One entry of an answer, written into one block.                         *)
Block == [num |-> 0, status |-> "none", data |-> <<>>, users |-> NULL, letter |-> 0]

\* the clusters of the live entries up to i, the table of letters when entry i is reached
Seen(w, i) == {ClusterOf[w[j].node] : j \in {k \in 1..i : w[k].alive}}

\* mutant: every node starts the table of letters again
cluster_id_new_item_Again(w, i) == 1
\* the letter of a live entry: its cluster's place in the table, if it starts empty
\* with the answer, which takes each cluster when it is first met
cluster_id_new_item(w, i) ==
  LET first == CHOOSE j \in 1..i : /\ w[j].alive /\ ClusterOf[w[j].node] = ClusterOf[w[i].node]
                                   /\ ClusterOf[w[i].node] \notin Seen(w, j - 1)
  IN  Cardinality(Seen(w, first))

\* how many entries of the table serve an answer: those bzero cleared, if the strings of more
\* were freed, or were before
Serving == IF clsid.spoiled \/ clsid.freed \/ clsid.named > Cleared THEN Cleared ELSE Letters

\* the letters of the entries; of a cluster further down the table nothing is known
Lettering(w) ==
  LET Place(i) == cluster_id_new_item(w, i)
      unknown == {i \in DOMAIN w : w[i].alive /\ Place(i) > Serving}
  IN  {[i \in DOMAIN w |-> IF ~w[i].alive THEN 0 ELSE IF i \in unknown THEN any[i] ELSE Place(i)] :
         any \in [unknown -> 1..Letters + 1]}

\* the table after the answer: the first live entry frees every string of the one before
Table(w) ==
  LET named == Cardinality(Seen(w, Len(w)))
  IN  IF named = 0 THEN clsid
      ELSE [named |-> named, freed |-> clsid.named > Cleared,
            spoiled |-> clsid.spoiled \/ clsid.freed \/ named > Serving]

\* mutant: a dead node is written like a live one was: nothing of its status
set_raw_data_item_DeadKept(b, e, t, letter, u) ==
  IF e.alive
  THEN [num |-> Number[e.node], status |-> "alive", data |-> <<e.node, t>>,
        users |-> IF u = NoUser THEN NULL ELSE getVlenItem(Text(e.node, t), b.users),
        letter |-> letter]
  ELSE [b EXCEPT !.num = Number[e.node]]
set_raw_data_item(b, e, t, letter, u) ==
  IF e.alive
  THEN [num |-> Number[e.node], status |-> "alive", data |-> <<e.node, t>>,
        users |-> IF u = NoUser THEN NULL ELSE getVlenItem(Text(e.node, t), b.users),
        letter |-> letter]
  ELSE [b EXCEPT !.num = Number[e.node], !.status = "dead"]

\* the answer without the nodes the display was not asked for
Wanted(entries) ==
  LET kept == {i \in DOMAIN entries : entries[i].node \in Filter}
  IN  [k \in 1..Cardinality(kept) |-> entries[InOrder(kept)[k]]]

\* the blocks after the entries were written over them from the first on
Written(blocks, w, letters, t, u) ==
  [i \in 1..Len(blocks) |->
     IF i > Len(w) THEN blocks[i]
     ELSE set_raw_data_item(blocks[i], w[i], t, letters[i], u)]

\* qsort by the number, over the blocks in use
Ordering(blocks, n) ==
  CHOOSE p \in [1..n -> 1..n] : \A i, j \in 1..n : i < j => blocks[p[i]].num < blocks[p[j]].num
Sorted(blocks, n) ==
  LET p == Ordering(blocks, n)
  IN  [i \in 1..Len(blocks) |-> blocks[IF i <= n THEN p[i] ELSE i]]

-----------------------------------------------------------------------------
CellsInit == /\ raw = <<>> /\ count = 0 /\ alive = <<>> /\ user = NoUser
             /\ fetched = [entries |-> <<>>, time |-> 0, user |-> NoUser]
             /\ clsid = [named |-> 0, freed |-> FALSE, spoiled |-> FALSE]

\* the answers of infod: the nodes it knows, in the order of their addresses, dead or
\* alive; at most one of Lost is dead or missing
Answers ==
  {w \in UNION {[1..n -> [node : Node, alive : BOOLEAN]] : n \in Nodes - 1..Nodes} :
     /\ \A i, j \in DOMAIN w : i < j => w[i].node < w[j].node
     /\ \E lost \in Lost : \A n \in Node \ {lost} : \E i \in DOMAIN w : w[i] = [node |-> n, alive |-> TRUE]}

\* an answer arrives; one of more nodes than the first had is left out
get_nodes_to_display(entries) ==
  LET t == 1 - fetched.time
      blocks == IF raw = <<>> THEN [i \in 1..Len(entries) |-> Block] ELSE raw
      w == Wanted(entries)
      n == Len(w)
  IN  /\ Len(entries) <= Len(blocks)
      /\ \E letters \in Lettering(w) : raw' = Sorted(Written(blocks, w, letters, t, user), n)
      /\ clsid' = Table(w) /\ count' = n
      /\ alive' = [i \in 1..n |-> raw'[i].status = "alive"]
      /\ fetched' = [entries |-> w, time |-> t, user |-> user]
      /\ UNCHANGED user

\* the display is given up or changes to another cluster
displayFreeData ==
  /\ raw # <<>>
  /\ raw' = <<>> /\ count' = 0 /\ alive' = <<>>
  /\ fetched' = [fetched EXCEPT !.entries = <<>>]
  /\ UNCHANGED <<user, clsid>>

\* another user to mark
new_user == /\ \E u \in Users \ {user} : user' = u
            /\ UNCHANGED <<raw, count, alive, fetched, clsid>>

CellsNext == \/ \E entries \in Answers : get_nodes_to_display(entries)
             \/ displayFreeData
             \/ new_user

CellsSpec == CellsInit /\ [][CellsNext]_cvars

-----------------------------------------------------------------------------
Pointers == {NULL} \union [cap : Nat, size : Nat, of : Node \X Stamp]

\* blocks of the right shape, as many as the first answer had
CellsTypeOK ==
  /\ \A i \in 1..Len(raw) : raw[i].users \in Pointers
  /\ count \in 0..Len(raw) /\ Len(alive) = count /\ user \in Users

\* No string is longer than the memory behind its pointer, whatever nodes
\* used the block before and however short or long their strings were.
Fits == \A i \in 1..Len(raw) : raw[i].users # NULL => raw[i].users.size + 1 <= raw[i].users.cap

\* Two live nodes carry the same letter exactly when they belong to the same
\* cluster (a dead node keeps the letter of whoever had its block).
LettersSayCluster ==
  \A i, j \in 1..count : alive[i] /\ alive[j] =>
    ((raw[i].letter = raw[j].letter) <=> (ClusterOf[raw[i].data[1]] = ClusterOf[raw[j].data[1]]))

\* What is shown under a number is what the last answer said of the node
\* with that number: its status, and if it lives its data and its strings,
\* none of them left in the block by the node that had it before, and the
\* letter of its cluster; and the strings fit where they were put.  All this
\* as long as the table of letters was not used where it holds no string: with
\* no more clusters than bzero clears it never is, with more an answer later.
ShownIsFetched == IF clsid.spoiled THEN Cardinality(Clusters) > Cleared ELSE
  /\ Fits
  /\ count = Len(fetched.entries)
  /\ \A i \in 1..count : \E k \in 1..count :
       LET e == fetched.entries[k]
           sent == Text(e.node, fetched.time)
       IN  /\ raw[i].num = Number[e.node] /\ alive[i] = e.alive
           /\ e.alive => /\ raw[i].data = <<e.node, fetched.time>>
                         /\ IF sent.size = 0 \/ fetched.user = NoUser THEN raw[i].users = NULL
                            ELSE raw[i].users.of = sent.of /\ raw[i].users.size = sent.size
  /\ \A i \in 1..(count - 1) : raw[i].num < raw[i + 1].num
  /\ LettersSayCluster
=============================================================================
