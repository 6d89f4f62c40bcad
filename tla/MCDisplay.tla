------------------------------ MODULE MCDisplay ------------------------------
(***************************************************************************)
(* The raw data of a display and the bars drawn from it, checked together  *)
(* with the table of the display modules, for words of eight bytes and, in *)
(* Narrow, of four.                                                        *)
(***************************************************************************)
EXTENDS Graph, Items

\* the order of the addresses is not that of the numbers
MCNumber == <<3, 1, 2>>
MCClusterOf == <<"a", "b", "a">>
MCPlugins == <<16, 8>>

\* strings within the first memory, beyond it, growing, shrinking and missing
MCSize == <<[t \in Stamp |-> IF t = 0 THEN 1 ELSE 4], [t \in Stamp |-> IF t = 0 THEN 0 ELSE 3],
            [t \in Stamp |-> 1]>>

\* a load that rises and falls with the second node, and a memory that stays
At2(total, part) == [total |-> total, part |-> part]
MCValue == [load |-> <<[t \in Stamp |-> At2(1, 1)], [t \in Stamp |-> IF t = 0 THEN At2(3, 3) ELSE At2(0, 0)],
                       [t \in Stamp |-> At2(1, 1)]>>,
            mem |-> <<[t \in Stamp |-> At2(4, 4)], [t \in Stamp |-> At2(2, 1)], [t \in Stamp |-> At2(3, t)]>>]

Narrow == INSTANCE Items WITH Word <- 4, Plugins <- <<8>>

EveryItemRight == /\ ItemsReadRight /\ CellsKeepApart
                  /\ Narrow!ItemsReadRight /\ Narrow!CellsKeepApart

\* What a column shows once something was fetched is what infod measured under
\* that name, no column reads another's bytes, and the cells of a block keep
\* apart from each other, on machines of either word size.
ItemsRight == raw # <<>> => EveryItemRight
=============================================================================
