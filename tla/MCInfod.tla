------------------------------- MODULE MCInfod -------------------------------
(***************************************************************************)
(* Infod with two addresses for the host and two usable maps, composed     *)
(* with Partners and VecSearch, which justify that the modules of Infod    *)
(* take the partners for their names, and a vector for the nodes it can    *)
(* find.                                                                   *)
(***************************************************************************)
EXTENDS InfodMap, Partners, MemCache, VecSearch

CONSTANTS home, away   \* the addresses of the host

MCIps == {home, away}
MCMaps == {{home}, {2, 3, 7, 13}}

MCPartnerLines ==
  [good : {TRUE}, addr : {2, 3, 14}, count : {0, 1, 7}, info : {"near"}]
    \cup {[good |-> FALSE, addr |-> 0, count |-> 0, info |-> "near"]}
MCPartnerInfos == {"lab", "bad"}

PartnersRight ==
  /\ \A dir \in Directories(<<"here", "there">>) : DirectoryRight(dir)
  /\ \A rows \in Rows : MosixMapRight(rows)
  /\ CacheRight(2, 2, 5)
SearchTable == [n \in {Cardinality(nodes) : nodes \in Maps} |-> ExactWith(n)]

\* In a vector of the size the worker has, whatever the addresses, the order
\* qsort left them in and the lookups before, a lookup finds the entry asked
\* for or nothing (infoVec.c:584-621), but for the mirror images of Mistaken.
\* A directory of partners is refused exactly when it gives a node twice or its
\* first partner none, finds every address with the partner that has it, and
\* survives being copied, or written down and read again (PartnersMapBuilder.c).
LookupsRight ==
  /\ PartnersRight
  /\ w.vec # None => SearchTable[Cardinality(w.vec)]
==============================================================================
