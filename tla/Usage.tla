-------------------------------- MODULE Usage --------------------------------
(***************************************************************************)
(* Who uses a host: the processes are read from the process directory      *)
(* (src/libutil/readproc.c), the users of those that count are gathered by *)
(* cluster (LocalUsageRetriever.c), written as an item of the entry and    *)
(* read back by whoever got it (UsedByInfo.c).                             *)
(*                                                                         *)
(* A process directory is a sequence of processes in the order of their    *)
(* numbers, which are their indices.  The user of a MOSIX process is that  *)
(* of the process it traces.  A text is the sequence of its tags           *)
(* (parse_helper.c).                                                       *)
(***************************************************************************)
EXTENDS Integers, Sequences, FiniteSets

LOCAL INSTANCE SequencesExt
LOCAL INSTANCE FiniteSetsExt
LOCAL INSTANCE Functions

CONSTANTS
  Here,        \* where a process that did not come from elsewhere came from
  Away,        \* where a process is that runs elsewhere
  Addresses,   \* where guests come from
  NoPartner,   \* those of them no partner has
  Nobody       \* the user the daemons are counted under

ASSUME UsageAssumption == NoPartner \subseteq Addresses /\ Here \notin Addresses /\ Nobody \in Nat

\* Of a process that was not read, or of a MOSIX process that traces none.
Junk == -1

None == "none"
Local == "local-use"
Unknown == "unknown"
Partner == "partner"
Guests == "guests"
All == "all"

-----------------------------------------------------------------------------
(***************************************************************************)
(* readproc.c                                                              *)
(***************************************************************************)
is_mosix_process_non_deputy(e) == e.from = Here /\ e.where = Here
is_mosix_process_guest(e) == e.from # Here /\ e.where = Here

\* getMosixProcessEntry: whether a MOSIX process is one of those asked for.
Wanted(q, type) == type = Guests => q.from # Here

updateTracerProcess_First(arr, q) ==   \* mutant: whoever was found first is the tracer
  IF arr = <<>> THEN arr ELSE [arr EXCEPT ![1].uid = q.uid]

\* The process that traces q, found before it, gets its user.
updateTracerProcess(arr, q) ==
  [i \in DOMAIN arr |-> IF arr[i].pid = q.tracer THEN [arr[i] EXCEPT !.uid = q.uid] ELSE arr[i]]

\* What is read of a process that counts: its user comes from its status file, if at all.
read_process_stat(pid, q, uid) ==
  [pid |-> pid, from |-> q.from, where |-> q.where, daemon |-> q.daemon, uid |-> uid]

read_process_status(s, q) == [s EXCEPT !.uid = q.uid]

\* One entry of the directory; s.uid is what the last status that was read left behind.
\* A process that ends before it is read ends the search.
ReadEntry(s, pid, q, type) ==
  IF q.gone THEN [s EXCEPT !.ok = FALSE]
  ELSE IF ~q.mosix THEN [read_process_status(s, q) EXCEPT !.arr = updateTracerProcess(@, q)]
  ELSE IF Wanted(q, type) THEN [s EXCEPT !.arr = Append(@, read_process_stat(pid, q, s.uid))]
  ELSE s

\* A table that is full is a failure, also when nothing was left to read.
get_mosix_processes(table, type, num) ==
  LET step(s, pid) == IF s.ok /\ Len(s.arr) < num THEN ReadEntry(s, pid, table[pid], type) ELSE s
      end == FoldLeft(step, [ok |-> TRUE, arr |-> <<>>, uid |-> Junk], [i \in DOMAIN table |-> i])
  IN  [ok |-> end.ok /\ Len(end.arr) < num, arr |-> end.arr]

-----------------------------------------------------------------------------
(***************************************************************************)
(* LocalUsageRetriever.c; room is for how many clusters, and users of one, *)
(* there is room                                                           *)
(***************************************************************************)
updateUsingClusterEntry(uce, uid, room) ==
  IF uid \in Range(uce.uid) \/ Len(uce.uid) >= room.uids THEN uce
  ELSE [uce EXCEPT !.uid = Append(@, uid)]

updateUsingCluster(clusters, name, uid, room) ==
  IF \E i \in DOMAIN clusters : clusters[i].name = name
  THEN [i \in DOMAIN clusters |-> IF clusters[i].name = name
          THEN updateUsingClusterEntry(clusters[i], uid, room) ELSE clusters[i]]
  ELSE IF Len(clusters) < room.clusters
  THEN Append(clusters, updateUsingClusterEntry([name |-> name, uid |-> <<>>], uid, room))
  ELSE clusters

\* mapper_addr2cluster.
ClusterOf(address) == IF address \in NoPartner THEN Unknown ELSE Partner

findGridUsedByInfo(table, room) ==
  LET procs == get_mosix_processes(table, Guests, room.procs)
      add(clusters, e) == updateUsingCluster(clusters, ClusterOf(e.from), e.uid, room)
  IN  [ok |-> procs.ok, clusters |-> FoldLeft(add, <<>>, procs.arr)]

\* The daemons count as used by nobody.
findLocalUsedByInfo(table, room) ==
  LET procs == get_mosix_processes(table, All, room.procs)
      counts(e) == is_mosix_process_non_deputy(e) \/ is_mosix_process_guest(e)
      user(e) == IF e.daemon THEN Nobody ELSE e.uid
      add(clusters, e) == updateUsingCluster(clusters, Local, user(e), room)
  IN  [ok |-> procs.ok, clusters |-> FoldLeft(add, <<>>, SelectSeq(procs.arr, counts))]

Failed == [stat |-> "ERROR", clusters |-> <<>>]

\* lur_getLocalUsage and what usedby_pim_update makes of a failure.  The priority says who
\* may use the host, or cannot be read; guests are not looked for without the partners.
lur_getLocalUsage(prio, table, partners, room) ==
  LET found == CASE prio = "local" -> findLocalUsedByInfo(table, room)
                 [] prio = "grid" /\ partners -> findGridUsedByInfo(table, room)
                 [] prio = "free" -> [ok |-> TRUE, clusters |-> <<>>]
                 [] OTHER -> [ok |-> FALSE, clusters |-> <<>>]
      stat == [local |-> "LOCAL", grid |-> "GRID", free |-> "FREE", none |-> "ERROR"]
  IN  IF found.ok THEN [stat |-> stat[prio], clusters |-> found.clusters] ELSE Failed

-----------------------------------------------------------------------------
(***************************************************************************)
(* UsedByInfo.c                                                            *)
(***************************************************************************)
Open(name, attr) == [tag |-> name, kind |-> "open", attr |-> attr]
Close(name) == [tag |-> name, kind |-> "close", attr |-> None]
Short(name, attr) == [tag |-> name, kind |-> "short", attr |-> attr]

writeUsageInfo(u) ==
  LET users(c) == [j \in DOMAIN c.uid |-> Short("u", c.uid[j])]
      cluster(c) == <<Open(c.name, None)>> \o users(c) \o <<Close(c.name)>>
  IN  IF u.stat \notin {"LOCAL", "GRID"} THEN <<Short("usedby", u.stat)>>
      ELSE <<Open("usedby", u.stat)>>
           \o FlattenSeq([i \in DOMAIN u.clusters |-> cluster(u.clusters[i])])
           \o <<Close("usedby")>>

\* A reader that gives up leaves the caller's size alone and returns INIT.
Refused(size) == [stat |-> "INIT", size |-> size]

Is(text, tag, kinds) == text # <<>> /\ Head(text).tag = tag /\ Head(text).kind \in kinds

\* get_using_user, again and again: the users up to the closing tag, or until there is no room.
get_using_user(text, room) ==
  LET good(i) == i <= room.uids /\ i <= Len(text) /\ Is(<<text[i]>>, "u", {"short"})
                 /\ text[i].attr >= 0
      n == CHOOSE k \in 0 .. Len(text) : ~good(k + 1) /\ \A i \in 1 .. k : good(i)
  IN  [uid |-> [i \in 1 .. n |-> text[i].attr], rest |-> SubSeq(text, n + 1, Len(text))]

get_using_cluster(text, room) ==
  LET u == get_using_user(Tail(text), room)
  IN  IF Head(text).kind = "open" /\ Is(u.rest, Head(text).tag, {"close"})
      THEN [ok |-> TRUE, ent |-> [name |-> Head(text).tag, uid |-> u.uid], rest |-> Tail(u.rest)]
      ELSE [ok |-> FALSE, rest |-> <<>>]

\* At most size clusters; then the end of the item has to come.
RECURSIVE Clusters(_, _, _)
Clusters(text, size, room) ==
  IF text = <<>> THEN [ok |-> FALSE, arr |-> <<>>]
  ELSE IF size = 0 \/ Head(text).kind = "close"
  THEN [ok |-> Is(text, "usedby", {"close"}), arr |-> <<>>]
  ELSE LET c == get_using_cluster(text, room)
           more == Clusters(c.rest, size - 1, room)
       IN  IF c.ok THEN [ok |-> more.ok, arr |-> <<c.ent>> \o more.arr]
           ELSE [ok |-> FALSE, arr |-> <<>>]

getUsageInfo(text, size, room) ==
  LET c == Clusters(Tail(text), size, room)
  IN  IF ~Is(text, "usedby", {"open", "short"}) THEN Refused(size)
      ELSE IF Head(text).kind = "short" THEN [stat |-> Head(text).attr, size |-> 0, arr |-> <<>>]
      ELSE IF c.ok THEN [stat |-> Head(text).attr, size |-> Len(c.arr), arr |-> c.arr]
      ELSE Refused(size)

=============================================================================
