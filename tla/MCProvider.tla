----------------------------- MODULE MCProvider -----------------------------
(***************************************************************************)
(* The provider with its modules, and over all small process directories   *)
(* what the module "usedby" tells of them, and the other items it tells.   *)
(***************************************************************************)
EXTENDS Provider, ItemTexts, Vlen, SequencesExt

\* Processes: some that trace or run here or elsewhere, a guest of each address, the traced.
MosixProcs ==
  {[mosix |-> TRUE, from |-> f, where |-> w, daemon |-> d, gone |-> FALSE, tracer |-> 0, uid |-> 0] :
     f \in Addresses \cup {Here}, w \in {Here, Away}, d \in BOOLEAN}
SomeMosix == {q \in MosixProcs : (q.from # Here => q.where = Here /\ ~q.daemon)
                                 /\ (q.daemon => q.where = Here)}
PlainProcs(n) ==
  {[mosix |-> FALSE, from |-> Here, where |-> Here, daemon |-> FALSE, gone |-> g, tracer |-> t, uid |-> u] :
     g \in BOOLEAN, t \in 0 .. n, u \in {7, 8}}
SomePlain(n) == {q \in PlainProcs(n) : q.gone => q.tracer = 0 /\ q.uid = 7}

Tables(n) == [1 .. n -> SomeMosix \cup SomePlain(n)]

\* Who uses the host: the processes that count, and of each the user of what it traces.
Counts(table, prio) ==
  {i \in DOMAIN table : table[i].mosix /\ table[i].where = Here /\ (prio = "grid" => table[i].from # Here)}
Traced(table, i) == {j \in DOMAIN table : ~table[j].mosix /\ table[j].tracer = i}
User(table, prio, i) ==
  IF prio = "local" /\ table[i].daemon THEN Nobody
  ELSE LET last == CHOOSE j \in Traced(table, i) : \A k \in Traced(table, i) : k <= j
       IN  table[last].uid
ClusterName(table, prio, i) == IF prio = "local" THEN Local ELSE ClusterOf(table[i].from)

Users(table, prio) ==
  {<<ClusterName(table, prio, i), User(table, prio, i)>> : i \in Counts(table, prio)}
Told(arr) == UNION {{<<arr[i].name, arr[i].uid[j]>> : j \in DOMAIN arr[i].uid} : i \in DOMAIN arr}

\* All the processes that count trace one that was started after them.
Plausible(table) ==
  \A i \in DOMAIN table : table[i].mosix =>
     Traced(table, i) # {} /\ \A j \in Traced(table, i) : j > i

Readable(table, prio, room) ==
  /\ \A i \in DOMAIN table : ~table[i].gone
  /\ Cardinality({i \in DOMAIN table : table[i].mosix /\ (prio = "grid" => table[i].from # Here)}) < room.procs

Rooms == {[procs |-> 5, clusters |-> 2, uids |-> 1], [procs |-> 5, clusters |-> 1, uids |-> 2],
          [procs |-> 2, clusters |-> 2, uids |-> 2]}

\* Whoever reads the item knows exactly which users of which clusters use the host: those of
\* the processes traced by a MOSIX process that counts, however the processes are listed; no
\* more of them than there is room for, and of the right ones; that it is free; or that it
\* could not be told.  A reader with less room than the writer gets nothing.
\* (get_mosix_processes, lur_getLocalUsage, writeUsageInfo, getUsageInfo)
UsageOf(table, prio, partners, room, size) ==
  LET u == lur_getLocalUsage(prio, table, partners, room)
      got == getUsageInfo(writeUsageInfo(u), size, room)
      users == Users(table, prio)
      names == {x[1] : x \in users}
  IN  IF prio = "free" THEN got.stat = "FREE" /\ got.size = 0
      ELSE IF prio = "none" \/ (prio = "grid" /\ ~partners) \/ ~Readable(table, prio, room)
      THEN got.stat = "ERROR" /\ got.size = 0
      ELSE IF Len(u.clusters) > size THEN got = Refused(size)
      ELSE /\ got.stat = IF prio = "grid" THEN "GRID" ELSE "LOCAL"
           /\ Told(got.arr) \subseteq users
           /\ Cardinality(names) <= room.clusters
              /\ (\A c \in names : Cardinality({x \in users : x[1] = c}) <= room.uids)
              => Told(got.arr) = users

Asked == {<<"local", TRUE>>, <<"grid", TRUE>>, <<"grid", FALSE>>, <<"free", TRUE>>, <<"none", TRUE>>}
UsersTold ==
  \A table \in Tables(4) : Plausible(table) =>
    \A a \in Asked, room \in Rooms, size \in 1 .. 2 : UsageOf(table, a[1], a[2], room, size)

-----------------------------------------------------------------------------
Entries == [name : {"infod", "a/b"}, pid : {0, 5}, stat : {"no info", "ok", "no proc"}]
ProcFiles == [kind : {"absent", "closed", "empty", "words"}, pid : {0}] \cup [kind : {"pid"}, pid : {5, 6, 7}]

\* A watched process is told to be there if its file names one there is, and whoever has
\* room for the list gets all of it, unless a name has a character that ends the tag, or
\* none of it.
WatchTold ==
  \A n \in 0 .. 2 : \A arr \in [1 .. n -> Entries], files \in [1 .. n -> ProcFiles], size \in 1 .. 2 :
    LET now == procwatch_pim_update(arr, files, {5, 7}, {7})
        got == getProcWatchInfo(writeProcWatchInfo(now), size)
    IN  /\ \A i \in DOMAIN now : now[i].stat = "ok" <=> files[i].pid = 5
        /\ got.ok <=> n \in 1 .. size /\ \A i \in DOMAIN now : now[i].name \notin Cut
        /\ got.ok => got.arr = now

\* The sizes of the freezing directories are read as they were written, unless they need
\* the last bit of the word; infod's children and age are.
FreezeTold ==
  /\ \A fi, had \in [stat : {"init", "error", "ok"}, total : {0, 7, 9}, free : {0, 3, 9}] :
       LET got == getFreezeInfo(writeFreezeInfo(fi), had)
       IN  got.ok /\ got.fi = [stat |-> fi.stat,
                               total |-> IF fi.total < Word THEN fi.total ELSE had.total,
                               free |-> IF fi.free < Word THEN fi.free ELSE had.free]
  /\ \A idbg, had \in [children : {0, 4}, uptime : {0, 60}] :
       getInfodDebugInfo(writeInfodDebugInfo(idbg), had) = [ok |-> TRUE, idbg |-> idbg]

Elements == [name : {"min-price", "curr-price"}, value : {2, Bad}]
            \cup [name : {"status"}, value : {"on", "home", Bad}]
            \cup [name : {"user", "error", "comment"}, value : {"u"}]

\* A host whose economy daemon reports an error, or no status, is not told to be on; and
\* it does not matter in what order the daemon writes, unless it says a thing twice or
\* reports an error.
EconomyTold ==
  \A n \in 0 .. 3 : \A doc \in [1 .. n -> Elements] :
    LET got == parseEconomyInfo(doc)
        names == {doc[i].name : i \in DOMAIN doc}
    IN  /\ got.ok /\ got.info["status"] # "error" => "error" \notin names /\ "status" \in names
        /\ "error" \notin names =>
             /\ got.ok <=> \A i \in DOMAIN doc : doc[i].value # Bad
             /\ got.ok /\ Cardinality(names) = n => parseEconomyInfo(Reverse(doc)) = got

Fields == [name : {"id", "home"}, value : {"x"}] \cup [name : {"mem"}, value : {256, Bad}]
Vms == [name : {"vm"}, fields : UNION {[1 .. k -> Fields] : k \in 0 .. 2}]
       \cup {[name |-> "note", fields |-> <<>>]}

\* A list of machines that is accepted is the one that was written, each with what was
\* said of it, and as long as it was announced to be or shorter; none if none were.
MachinesTold ==
  \A n \in 0 .. 2 : \A vms \in [1 .. n -> Vms], num \in {0 - 1, 0, 1, 2} :
    LET got == fillJMigrateInfo("host", <<[name |-> "machines", num |-> num, vms |-> vms]>>)
        real == SelectSeq(vms, LAMBDA v : v.name = "vm")
        said(f, m) == {f[i].value : i \in {j \in DOMAIN f : f[j].name = m}}
    IN  /\ got.ok => num >= 0 /\ Len(got.arr) <= num /\ (num > 0 => Len(got.arr) = Len(real))
        /\ got.ok => \A i \in DOMAIN got.arr, m \in VmFields :
             IF said(real[i].fields, m) = {} THEN got.arr[i][m] = Unset
                                             ELSE got.arr[i][m] \in said(real[i].fields, m) \ {Bad}
        /\ ~got.ok => got.stat = "error"

Pieces == {[name |-> 101, nameLen |-> 1, size |-> 1, data |-> 201],
           [name |-> 101, nameLen |-> 1, size |-> 2, data |-> 202],
           [name |-> 102, nameLen |-> 2, size |-> 1, data |-> 101],
           [name |-> 102, nameLen |-> 2, size |-> 0, data |-> 203]}
PieceLists == UNION {[1 .. k -> Pieces] : k \in 0 .. 3}

\* Every item is found under its name in a buffer that held others before, also where the
\* data of one reads like the name of another.
ItemsFound == \A before, items \in PieceLists : FoundAsAdded(before, items, 19)

EveryItemTold == ItemsFound /\ UsersTold /\ WatchTold /\ FreezeTold /\ EconomyTold /\ MachinesTold

\* What the items told say is what was there.  (UsedByInfo.c, ProcessWatchInfo.c, FreezeInfo.c,
\* InfodDebugInfo.c, EcoInfo.c, JMigrateInfo.c, info_reader.c)
ItemsTold == told # Nothing => EveryItemTold

=============================================================================
