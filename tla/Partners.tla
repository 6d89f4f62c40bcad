------------------------------- MODULE Partners -------------------------------
(***************************************************************************)
(* Maps of several clusters.  Each partner has a file of the partners'     *)
(* directory, in text or in binary form, that src/libutil/                 *)
(* PartnersMapBuilder.c reads and writes; MosixMapBuilder.c builds a map   *)
(* of one cluster from lines without numbers.  Mapper.c and                *)
(* MapperBuilder.c copy such a map and answer which cluster an address is  *)
(* in.                                                                     *)
(*                                                                         *)
(* A directory is the sequence of its entries in the order readdir gives   *)
(* them; a map the sequence of its clusters, in the order of their ids.    *)
(***************************************************************************)
EXTENDS Mapper

LOCAL INSTANCE SequencesExt
LOCAL INSTANCE Functions

CONSTANTS
  PartnerLines,  \* what a line of it may say
  PartnerInfos,  \* what it may say of the partner; BadInfo if it cannot be read
  BadInfo,
  MaxClusters,   \* MAPPER_MAX_CLUSTERS
  MaxRanges      \* bound on the lines of a file

ASSUME PartnersAssumption ==
  /\ MaxClusters \in Nat \ {0} /\ MaxRanges \in Nat /\ BadInfo \in PartnerInfos
  /\ \A l \in PartnerLines : l.good => l.addr \in Addresses /\ l.count \in Nat

Failed == <<>>
NoName == "none"

-----------------------------------------------------------------------------
(***************************************************************************)
(* The clusters of a map                                                   *)
(***************************************************************************)
get_cluster_entry_by_name(map, name) == SelectInSeq(map, LAMBDA ce : ce.name = name)

\* A cluster whose name is taken, or for which there is no room, is not added.
mapper_addCluster(map, name, info) ==
  IF Len(map) >= MaxClusters \/ get_cluster_entry_by_name(map, name) # 0 THEN map
  ELSE Append(map, [id |-> Len(map) + 1, name |-> name, info |-> info, ranges |-> <<>>])

AddRange(map, i, r) == [map EXCEPT ![i].ranges = Append(@, r)]

clusters_ips_intersect(ce1, ce2) ==
  \E i \in DOMAIN ce1.ranges, j \in DOMAIN ce2.ranges :
    ranges_ip_intersect(ce1.ranges[i], ce2.ranges[j])

is_cluster_ranges_valid(ce) == ce.ranges = <<>> \/ isMapValid(ce.ranges)

\* Only the first cluster has to have a range.
ArePartnersValid(map) ==
  /\ map # <<>> /\ map[1].ranges # <<>>
  /\ \A i, j \in DOMAIN map : i < j => ~clusters_ips_intersect(map[i], map[j])
  /\ \A i \in DOMAIN map : is_cluster_ranges_valid(map[i])

mapperFinalizeBuild(map) ==
  [i \in DOMAIN map |-> [map[i] EXCEPT !.ranges = sort_cluster_ranges(@)]]

mapper_addr2cluster(map, a) ==
  LET i == SelectInSeq(map, LAMBDA ce : \E j \in DOMAIN ce.ranges : HasAddress(ce.ranges[j], a))
  IN  IF i = 0 THEN Nothing ELSE map[i].name

PE_SET(cluster, node) == cluster * 2 ^ NodeBits + node

\* mapper_addr2node and mapper_node2addr where there are several clusters.
NodeOf(map, a) ==
  LET i == get_cluster_entry_by_name(map, mapper_addr2cluster(map, a))
  IN  PE_SET(map[i].id, mapper_addr2node(map[i].ranges, a))

AddressOf(map, pe) ==
  LET i == SelectInSeq(map, LAMBDA ce : ce.id = PE_CLUSTER_ID(pe))
  IN  IF i = 0 THEN Nothing ELSE mapper_node2addr(map[i].ranges, pe)

mapperCopy(map) ==
  LET range(r) == [base |-> r.base, addr |-> r.addr, count |-> r.count, info |-> r.info]
      kept(rs) == SelectSeq(rs, LAMBDA r : Wrapped(r.addr + r.count) >= r.addr)
      copy(new, ce) ==
        LET with == mapper_addCluster(new, ce.name, ce.info)
            i == get_cluster_entry_by_name(with, ce.name)
        IN  [with EXCEPT ![i].id = ce.id,
                         ![i].ranges = [j \in DOMAIN kept(ce.ranges) |-> range(kept(ce.ranges)[j])]]
  IN  FoldLeft(copy, <<>>, map)

mapper_setClusterInfo(map, name, info) ==
  LET i == get_cluster_entry_by_name(map, name)
  IN  IF i = 0 THEN map ELSE [map EXCEPT ![i].info = info]

-----------------------------------------------------------------------------
(***************************************************************************)
(* Reading partners                                                        *)
(***************************************************************************)
\* What cannot be looked at, and what is no file, is passed over.
getAllDirFiles(dir) ==
  LET files == SelectSeq(dir, LAMBDA e : e.regular)
  IN  SubSeq(files, 1, IF Len(files) < MaxClusters THEN Len(files) ELSE MaxClusters)

mapper_addClusterAddrRange(r) == Wrapped(r.addr + r.count) >= r.addr

\* The address of a line is a host's name, that of a record is not.
IsAllowed(form, r) ==
  IF form = "text" THEN mapper_addClusterHostRange(r) ELSE mapper_addClusterAddrRange(r)

\* A file is read as a whole or not at all.
getMapSourceBuff(f) == f.readable

\* The ranges of one file are numbered from 1.  The first one that is refused
\* ends the file; what was read before it stays.
AddRanges(map, i, rows, form) ==
  LET add(s, row) ==
        LET r == [base |-> s.base, addr |-> row.addr, count |-> row.count, info |-> row.info]
        IN  IF ~s.going \/ ~row.good \/ ~IsAllowed(form, r) THEN [s EXCEPT !.going = FALSE]
            ELSE [s EXCEPT !.map = AddRange(@, i, r), !.base = @ + row.count]
  IN  FoldLeft(add, [map |-> map, base |-> 1, going |-> TRUE], rows)

Added(map, f, rows, form) ==
  LET with == mapper_addCluster(map, f.name, f.info)
  IN  IF with = map THEN map ELSE AddRanges(with, Len(with), rows, form).map

addTextPartner(map, f) ==
  IF ~getMapSourceBuff(f) \/ f.info = BadInfo THEN map
  ELSE Added(map, f, f.rows, "text")

\* The cluster is what the first record says; a file without records is refused.
addBinPartner(map, f) ==
  IF ~getMapSourceBuff(f) \/ f.rows = <<>> THEN map
  ELSE Added(map, [f EXCEPT !.info = f.rows[1].cluster], f.rows, "bin")

BuildPartnersMap(dir, type) ==
  LET files == getAllDirFiles(dir)
      add(m, f) == IF type = "text" THEN addTextPartner(m, f) ELSE addBinPartner(m, f)
      map == FoldLeft(add, <<>>, files)
  IN  IF ArePartnersValid(map) THEN mapperFinalizeBuild(map) ELSE Failed

\* One cluster, whose name is not set; a line that is refused refuses the map.
BuildMosixMap(rows) ==
  LET cluster == [id |-> 0, name |-> NoName, info |-> BadInfo, ranges |-> <<>>]
      end == AddRanges(<<cluster>>, 1, rows, "text")
  IN  IF end.going /\ ArePartnersValid(end.map) THEN mapperFinalizeBuild(end.map) ELSE Failed

-----------------------------------------------------------------------------
(***************************************************************************)
(* Writing partners                                                        *)
(***************************************************************************)
\* A range that is written and read back keeps its address and length; of its
\* attributes and the cluster's the binary form has a part only.
generateTextPartner(ce) ==
  [j \in DOMAIN ce.ranges |->
     [good |-> TRUE, addr |-> ce.ranges[j].addr, count |-> ce.ranges[j].count, info |-> ce.ranges[j].info]]

\* There is a record for every range, but each is written over the first; the
\* others are what the buffer held.
generateBinPartner(ce, junk) ==
  LET rs == ce.ranges
      last == rs[Len(rs)]
  IN  [j \in DOMAIN rs |->
         IF j > 1 THEN junk
         ELSE [good |-> TRUE, addr |-> last.addr, count |-> last.count, info |-> last.info,
               cluster |-> ce.info]]

WritePartnerMap(map, type, junk) ==
  [i \in DOMAIN map |->
     [name |-> map[i].name, regular |-> TRUE, readable |-> TRUE, info |-> map[i].info,
      rows |-> IF type = "text" THEN generateTextPartner(map[i])
                                ELSE generateBinPartner(map[i], junk)]]

-----------------------------------------------------------------------------
(***************************************************************************)
(* What the partners' directory says: which partner has which addresses.   *)
(***************************************************************************)
Rows == UNION {[1 .. n -> PartnerLines] : n \in 0 .. MaxRanges}

PartnerFiles(name) ==
  {[name |-> name, regular |-> TRUE, readable |-> TRUE, info |-> i, rows |-> r] :
     i \in PartnerInfos \ {BadInfo}, r \in Rows}
  \cup {[name |-> name, regular |-> TRUE, readable |-> FALSE, info |-> BadInfo, rows |-> <<>>],
        [name |-> name, regular |-> TRUE, readable |-> TRUE, info |-> BadInfo, rows |-> <<>>],
        [name |-> name, regular |-> FALSE, readable |-> TRUE, info |-> BadInfo, rows |-> <<>>]}

\* One file of each name, in this order.
Directories(names) == {d \in [DOMAIN names -> UNION {PartnerFiles(names[i]) : i \in DOMAIN names}] :
                         \A i \in DOMAIN names : d[i].name = names[i]}

IsPartner(e) == e.regular /\ e.readable /\ e.info # BadInfo

\* The lines of a file that count: those before the first that is bad, wraps
\* around the address space, or whose first number is of another cluster.
Counted(e) ==
  LET sum(k) == FoldLeft(LAMBDA n, row : n + row.count, 1, SubSeq(e.rows, 1, k))
      fine(k) == e.rows[k].good /\ e.rows[k].addr + e.rows[k].count < 2 ^ AddrBits
                 /\ sum(k - 1) < 2 ^ NodeBits
  IN  {k \in DOMAIN e.rows : IsPartner(e) /\ \A l \in 1 .. k : fine(l)}

Having(dir, a) ==
  {<<i, k>> \in (DOMAIN dir) \X (1 .. MaxRanges) : k \in Counted(dir[i]) /\ a \in Nodes(dir[i].rows[k])}

\* Nothing is told of lines that number no node.
Sound(dir) == \A i \in DOMAIN dir : \A k \in Counted(dir[i]) : dir[i].rows[k].count > 0

FirstPartner(dir) == SelectInSeq(dir, IsPartner)

\* A map is made of a directory if its first partner has a node and none has
\* a node twice or another's.
MayBeMap(dir) ==
  /\ FirstPartner(dir) # 0 /\ Counted(dir[FirstPartner(dir)]) # {}
  /\ \A a \in 0 .. 2 ^ AddrBits - 1 : Cardinality(Having(dir, a)) <= 1

ClustersRight(dir, map) ==
  \A a \in 0 .. 2 ^ AddrBits - 1 :
    LET has == Having(dir, a)
        name == mapper_addr2cluster(map, a)
    IN  IF has = {} THEN name = Nothing
        ELSE /\ \E x \in has : name = dir[x[1]].name
             /\ NodeOf(map, a) < 2 ^ (NodeBits + ClusterBits) =>
                  LET i == get_cluster_entry_by_name(map, name)
                  IN  mapperTotalNodeNum(map[i].ranges) < 2 ^ NodeBits => AddressOf(map, NodeOf(map, a)) = a

\* Written in binary form and read back, a partner of one range is as before,
\* but for what that form has no room for; junk is read where there are more.
SameInBinary(map, junk) ==
  LET again == BuildPartnersMap(WritePartnerMap(map, "bin", junk), "bin")
  IN  (\A i \in DOMAIN map : Len(map[i].ranges) = 1) =>
        \A a \in 0 .. 2 ^ AddrBits - 1 : mapper_addr2cluster(again, a) = mapper_addr2cluster(map, a)

\* A directory is a map or not, a map finds every address in the partner whose
\* file has it, and copied, or written as text and read again, is the same.
DirectoryRight(dir) ==
  LET map == BuildPartnersMap(dir, "text")
      junk == [good |-> TRUE, addr |-> 0, count |-> 1, info |-> "junk", cluster |-> BadInfo]
  IN  Sound(dir) =>
        /\ map # Failed <=> MayBeMap(dir)
        /\ map # Failed => /\ ClustersRight(dir, map)
                           /\ mapperCopy(map) = map
                           /\ BuildPartnersMap(WritePartnerMap(map, "text", junk), "text") = map
                           /\ SameInBinary(map, junk)

\* Of the lines of one file a map of one cluster is made, unless one is bad.
MosixMapRight(rows) ==
  LET map == BuildMosixMap(rows)
      text == [name |-> NoName, regular |-> TRUE, readable |-> TRUE, info |-> "one", rows |-> rows]
  IN  Sound(<<text>>) =>
        /\ map # Failed <=> MayBeMap(<<text>>) /\ Counted(text) = DOMAIN rows
        /\ map # Failed => \A a \in 0 .. 2 ^ AddrBits - 1 :
             mapper_addr2node(map[1].ranges, a) # Nothing <=> Having(<<text>>, a) # {}

===============================================================================
