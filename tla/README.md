# Verification of the gossimon information daemon

gossimon keeps every node of a cluster informed of the load of the others. Each
node runs `infod`, which holds an *information vector* with one entry per node
and, every time step, pushes a short *window* of it to a partner or pulls one
from it. `infod` is told of its own node by a *provider*; a monitor (`mmon`), a
tool that chooses nodes for jobs (`infod-best`) and other clients ask it
questions. This directory holds TLA+ models of these programs, the TLC runs that
check them on small instances, and proofs, for every instance, of what matters
most in the vector, the cluster, the transport, the daemon's life, the provider
and `infod-best`.

## 1. Inventory

| component | state | operations | interacts with |
|---|---|---|---|
| information vector, `src/infod/infoVec.c` | entries (creation time, isdead, status, payload), window (index, priority), numAlive, localPrio, prev_time, death log | update, punish (declare dead), reset, build and use a window, queries by age and address, partner search, statistics | called by everything in infod |
| gossip algorithms, `src/infod/gossipAlgo.c` | pull_cycle, rand() | reg, mindead, pushpull: whom to talk to, push or pull | reads the vector, answers doGossipStep |
| main loop, `src/infod/infod.c` | map, stat_mapOk, quiet mode, flags set by signals | select loop, doTimeStep, handlers of gossip messages, client requests and control actions, map reload | vector, transport, control channel, provider, parent |
| message transport, `src/libutil/comm.c` | three tables of sockets (being sent, received, closed), timeouts | start, continue and finish sends and receives, close idle connections | other infods and clients |
| parent process, `src/infod/infodParent.c` | pid of the worker, number of crashes | fork, wait, respawn after SIGSEGV/SIGABRT, forward signals | main loop (its child) |
| control channel, `src/infod/ctl.c`, `src/libinfodctl` | one current client, its state | accept, read a request, reply, reset | main loop |
| command line and start-up, `infodCommandLine.c`, `infodMisc.c` | own address, pid file, start-up times of the map | resolve the address, write and check the pid file, parse options | parent, main loop |
| kernel communication, `src/infod/provider.c` | the connection to a provider outside, a buffer, a queue of messages | read, hand on what was read, send, queue, reset | main loop, priority heap |
| local provider, `src/infod/linuxMosixProvider.c` | last reading, times of the updates, external file | slow and fast update, external file, description | doTimeStep, plugins |
| information plugins, `infoModuleManager.c`, `InfoModules/`, `src/plugins` | loaded modules, time of the last run, what each last read | init, update, pack, remove | local provider |
| priority heap, memory cache, `prioHeap.c`, `mem_cache.c` | a heap, a list of free blocks | insert, extract, allocate, free | kernel communication, maps |
| cluster maps, `Mapper.c` and the four builders | ranges of addresses and numbers | parse a map, address to node and back, walk over the nodes | main loop, vector |
| client library, `src/libinfo` | a socket, decoded answers, the description of an entry | one request, one answer; items of variable length | infod, as clients use it |
| infod-best and load constraints, `src/infod-best`, `LoadConstraints.c` | a file of announced loads shared by all runs | load, choose nodes, announce, replace the file | client library |
| monitor, `src/mmon` | blocks of raw data, the view on them, legends, graphs | fetch, keys, redraw | client library |
| other tools (`infod-client`, `infod-ctl`, `mosix_*`) | none | send one request, print the answer | infod |
| gossip calculator, `src/libgossip/gossip-calc.c` | none | formulas for the window size | a program of its own |
| utilities (`mconf.c`, `host_list.c`, `easy_args.c`, `msx_debug`, `ModuleLogger.c`) | none | parsing, options, logs | all |

`PROJECT.json` lists these parts with what is modelled of each, and under
`hazards` what is hard to test in them, with its line and the properties about
it.

What is hard here, and what makes each part correct:

* **Vector.** Single threaded, but a long-lived value changed by a handful of
  calls in any order, by a clock that an administrator may set back, and by what
  other nodes say. Correct means: the three marks of death agree, the live count
  never drifts, time stamps are never in the future, an entry never goes back to
  older information, the window keeps its shape, a death reaches the window, and
  urgency wears off.
* **Cluster.** Windows take time, overtake each other, are lost or reported lost
  although they arrive; nodes crash and come back empty; clocks disagree.
  Correct means: information is dated correctly on every clock, nobody speaks
  for another, news only moves forward, and everyone ends up knowing who runs.
* **Transport.** Tables at their limits, descriptors closed twice or leaked,
  timeouts that nobody is told of. Correct means: a socket has one owner, select
  sees every one of them, and no connection stays for good.
* **Daemon's life.** Signals in the seconds between two workers, a map that
  changes while it is read, crashes at any point of the start-up. Correct means:
  the vector is that of the map, a bad map heals, no worker outlives its parent,
  and a crash is recovered from as long as the limit allows.
* **Maps.** Arithmetic of ranges at the edge of their width, lines in any order.
  Correct means: a map is the set of addresses it lists, and each is found.
* **Provider.** Partial sends and a queue of limited length, two periods and a clock
  that is set back, an external file written while it is read, modules that read
  their configuration now and then. Correct means: the provider outside is sent whole
  messages and none is forgotten, and what infod is told is no older than the periods
  allow. What comes in from a provider outside is not told apart into messages: the
  only parser the program has (`mosix_sf_parse_msg`) is commented out and does
  nothing, and so is most of what it would hand them to.
* **infod-best.** Runs that overlap, die half way or meet a full disk and share
  one file. Correct means: no memory is promised twice, no announcement is lost,
  and the nodes chosen one by one are a good choice together.
* **Monitor.** Data, marks and view freed and rebuilt by keys in any order, while
  answers differ in length and content. Correct means: no order crashes it, it
  shows what was fetched under the name it has, and it goes on refreshing.

## 2. Plan

Order of work, most important behaviour first. Done:

1. `InfoVecOps`, `InfoVec`: the vector and its calls.
2. `Gossip`, one vector per node with the algorithms, an unreliable network and
   crashes; convergence; `Hearsay`, the abstract specification it implements.
3. `Comm`: the transport.
4. `Infod`: parent, worker, control channel, pid file and map file; `Mapper`,
   `Partners`, `MemCache`, `VecSearch`: the maps and searches below it.
5. `Kcomm` with `PrioHeap`; `Provider` with `Pims`, `Usage`, `ItemTexts`, `Vlen`.
6. `Best`; `Monitor` with `Client`; `Layout`, `Items`, `Cells`, `Graph`.
7. Proofs on the vector, the cluster with its refinement, the transport, the
   life of the daemon, its map and its channel to a provider with the heap, the local
   provider, infod-best, the monitor, and the display's blocks and bars.

Left: the remaining parts of section 6, the control client's library first.

A run asks one question of one component. Its bounds are the smallest at which
every action and fault occurs and at which the mutated forms of the code listed
in `PROJECT.json` are caught.
## 3. The modules

| module | models | composed in |
|---|---|---|
| `InfoVecOps` | infoVec.c as operators from a vector to the vector a call leaves | `InfoVec`, `Gossip` |
| `InfoVec` | one vector, a clock, and every call infod makes into it | |
| `Gossip` | a cluster of vectors, messages, crashes, the gossip algorithms | `MCGossip` |
| `Hearsay` | what gossip promises, without windows, ages and priorities | refined by `Gossip` |
| `Comm` | comm.c as the main loop of one infod drives it | |
| `Infod` | parent, worker, control channel, pid file, map file of one host | `MCInfod` |
| `Mapper` | the daemon's map from its lines to the walk over its nodes | `InfodMap` |
| `InfodMap` | `Infod` with what a map file is taken for | `MCInfod` |
| `Partners` | the maps of the partners and of MOSIX, from their lines or directory to their lookups | `MCInfod` |
| `MemCache`, `VecSearch` | the store of a map's ranges; the search of the vector by address | `MCInfod` |
| `Kcomm`, `PrioHeap` | the connection with an external provider; its queue | |
| `Provider`, `Pims` | the local provider's turn; the table of modules | `MCProvider` |
| `Usage`, `ItemTexts`, `Vlen` | items of an entry: written, carried, read back | `MCProvider` |
| `Best` | runs of infod-best that share a file | `MCBest` |
| `Monitor`, `Client` | a screen of mmon; a question to infod and the way back of the answer | `MCMonitor` |
| `Layout`, `Items` | infod's structure and its description; the display modules' table | `MCDisplay` |
| `Cells`, `Graph` | the blocks of raw data behind a display; its bars | `MCDisplay` |
| `Orders` | the order of the elements of a set, in which `Monitor` and `Cells` go over nodes | |
| `NatLemmas`, `InfoVecOpsProofs`, `InfoVecDisplayProofs`, `GossipProofs`, `CommMonitorProofs`, `InfodProofs`, `ProviderProofs`, `BestProofs` | section 5 | |

Every module states its `TypeOK` or types its variables in the proofs; a run
checks it only where no proof covers it and no other property implies it.

**InfoVecOps.** A vector is a record: `entry[i]` is `vec->vec[i]`, `win[k]` is
`vec->win.data[k-1]` with index `Empty` (-1) in a free slot. Operators keep the
names of the C functions: `ivec_update_win` finds the slot (`TargetSlot`), may
reject the entry (`Rejected`), keeps a decayed priority (`DecayedPrio`) and
floats it to its place (`FloatUp`: the C loop of exchanges ends where `Landing`
says). `infoVecUpdate` is the test of prev_time with the reset, the tests of age
(`Acceptable`), the comparison of creation times (`IsNewer`) and the copy
(`StoreRecord`). `infoVecGetWindow` lowers the priorities of the slots sent;
`WindowMessage` is the buffer it returns, built from the values before they are
lowered, with times turned into ages. `infoVecUseRemoteWindow` folds `UseRecord`
over a received buffer.

*Abstractions.* Time is counted in ticks. A payload is a value without
structure. Left out because no decision reads them: names, sizes and versions
of entries, hdr.cause, the measurements and the propagation times of the death
log. Allocation does not fail. One call reads the clock once, except the queries,
which are one step per entry: a query samples the clock when it begins and a
verdict takes a later one. A message of several entries is one `RemoteUpdate` per
entry in `InfoVec` (a superset of what one message can do) and one fold in
`Gossip`. An age is unsigned (`AgeWrap` stands for 2^64). `memcpy` over
overlapping ranges is undefined; `ForwardCopy` chooses between the two results a
library gives.

**InfoVec.** `LocalUpdate` and `ProviderFails` are the two branches of
`doTimeStep`; `RemoteUpdate` is an entry of a received window, with any time and
priority, about any node but this one, or about a node the map does not know;
`ConnectFails` is the verdict of `doGossipStep` and `send_inpr_info`;
`BeginGetAll`, `BeginGetByAge`, `VisitEntry` and `GetEntryByIP` are the queries
(the one by age does not judge entries younger than asked); `GetWindow` is what a
push or an answer to a pull does to the vector; `ClearDeathLog` is a control
action. `Tick` and `SetClockBack` are the host's clock.

**Gossip.** `TimeStep(n, p)` is the whole of `doTimeStep` at node n: its own
reading or its absence, the choice of the algorithm (the set `AlgoStep` of what
`rand()` may pick), the window taken and its priorities lowered, and then a send
that starts or a partner declared dead at once. `Receive` is `handle_info` and
`handle_info_pull`; `SendFails` is a failure `send_inpr_info` learns of;
`SendStalls` is the full socket buffer that `comm_finish_send` reports as a
failure while it keeps the message; `Lose` is a connection that dies or times
out without a word; `Crash` and `Restart` are the death of a worker by SIGSEGV
and its respawn. The parent sleeps ten seconds before it forks again, so
`Restart` waits until the connections of the dead worker are gone. Messages are
a set, so they are delivered in any order. `Skew` is the distance of each host's
clock from the common time, which no host can see. The payload of a reading is
the tick at which it was made, so that properties can compare what a node
believes with what happened.

**Hearsay** keeps only who runs, what each node believes of each other (a
reading, a verdict or nothing), and what is being told. Its actions are
`Measure`, `Hear`, `Forget`, `Pass`, `Stop` and `Start`. `Gossip!IsHearsay`
instantiates it with the entries of the vectors and the live entries the messages
carry, so ages, priorities and windows disappear.

**Comm.** A table is a set of entries, since the code takes any ready one; the
kernel hands out the lowest free socket number, so that a number closed twice may
belong to a new connection by then. A handler is an operator from the tables to
the set of tables it may leave, one call handing its result to the next, as the
code hands the same static tables from function to function. A turn of the main
loop is `Loop`: the handlers of all that select reported ready, then
`comm_admin`.

**Infod.** `w` is the worker: where it is in its start-up or loop, its map, its
vector (the set of its addresses), its flags and its control client; `img` is
what a fork copies of the parent. `file`, `addr`, `pidFile` and `sock` are what
the host keeps: the map file, the address of its name, the pid file and the
control socket. `old` says that a worker outlived its parent. Signals
may arrive at every point, a SIGHUP between fork and `signal_setup` included.

**Mapper, Partners, MemCache, VecSearch** are pure: the lines of a map (or the
files of a partners' directory) to ranges, the test of validity, the sort, the
walk that fills the vector, the lookups both ways and the writing of a partner's
file; the cache of equal blocks in which ranges are kept; the ranges of
consecutive addresses by which `infoVecFindByIP` searches, with its static index
and its 32-bit comparison. `MapIsItsSet` compares the first with sets, `LookupsRight`
the others.

**Kcomm, PrioHeap.** A message on the wire is two units, so that it can be cut.
`kcomm_recv` hands on what one `recv` gave (`handed`), whatever it is:
`mosix_sf_parse_msg` finds nothing missing and nothing left over. What goes out is
sent at once or goes into the heap, and `kcomm_finish_send` comes back to it.
`kcomm_send` is reached by the changes of speed and cost only (`provider.c:1277`,
`1304`); the provider's own call of it is commented out. Not modelled, since no input
reaches them with that parser: the answer -1, a message larger than the caller's
buffer (of 4096 bytes, while 1024 are read), and a buffer kept from one call to the
next. `PrioHeap` is the array heap with its sift operations; loops are functions of
the number of turns, of which there are at most as many as entries.

**Best.** A run is `unborn`, `sized` (the size of the file asked for), `loaded`,
`chosen`, `written`, `renamed`, `printed` or `failed`, one step per access to the
shared file. `Assignments` gives process after process to a node of least future
load among those with room, as `bestNodesOfAll` does. `granted` remembers every
announcement made, `overlapped` whether two runs were ever under way together;
both are history that no action reads.

**Provider, Pims.** A turn of the daemon as the local provider sees it: the periodic
administration with the slow update and the external file (opened, read, asked for its
time: three steps, between which the file may be written in place, replaced or
removed; one that cannot be opened or read is as one that is not there), the fast
update with the modules that are due, and what `doTimeStep` is told. The arithmetic of
`milli_time_diff`, with its unsigned difference, is modelled as it is. `Pims` is the
table of modules: the names enabled, those that load, those that start; each runs at
its period and reads its configuration again every so many of its runs. `rt`, `work`,
`steady`, `setBack` and `since` are history: the real time, what processes really
used, by how much the clock was set back, how often modules ran since their files
changed.

**Usage, ItemTexts, Vlen.** A text is the sequence of its tags, a document that
of its elements. For each item there is the function that writes it and the one
that reads it, with its refusals: the users of a host (from a directory of
processes that end while it is read), watched processes, freezing directories,
infod's own sizes, economy and migration items. `Vlen` is the way items of
variable length are put behind an entry and found again, in memory that is used
again without being cleared.

**Monitor, Client.** `d` is a display: its marks of the living, its view and the
modes the keys change; `mmon_redraw` fetches, recounts and rebuilds as the code's
flags say. A pointer that leads nowhere sets `crashed`. `Client` is a question and its
answer in pieces of any size, with signals that interrupt the reading; `Monitor`
takes the answer as a whole or none, which is what `FetchedExactly` shows.

**Layout, Items, Cells, Graph.** `Layout` computes where infod puts the fields of
its structure and what the description tells clients, for words of 8 and 4 bytes;
`Items` is the table of display modules: what each reads by name and where it puts
it in its node's block. `Cells` keeps one block per node, written over in the order
of the answer and then sorted by number; `Graph` draws bars from them, with the
legend edited key by key and a scale that outlives its data.

## 4. What TLC checks

| run | question | properties |
|---|---|---|
| `InfoVecUptoAge` | window by age, one slot per node, forward clock | `WindowSound`, `LiveInWindow`, `PriorityDecays`, `FreshnessMonotone` |
| `InfoVecClockBack` | window of one slot; the clock set back between any two calls, and within a query | `NumAliveExact`, `DeadMarksAgree`, `LiveNotAhead`, `DeathEntersWindow` |
| `GossipPair` | two push-pull nodes, every fault | `OnlySelfSpeaks` |
| `GossipRelay` | three nodes, windows delayed and relayed | `InfoDated` |
| `GossipLive` | three nodes of "mindead", one may crash and return, fairness | `NewsOnlyMovesForward`, `Converges`, `IsHearsay` |
| `Comm` | tables of one entry, partial messages, failures, timeouts | `SocketsOwned`, `MaxFdCovers`, `ConnectionsSettle` |
| `Infod` | one host with two addresses, a map that changes, kills at any point; maps written in any way | `VectorFollowsMap`, `MapIsItsSet`, `LookupsRight`, `MapSettles`, `OrphanDies`, `Recovers` |
| `Kcomm` | two connections of an external provider, partial sends, a full queue | `SentWhole`, `HeapSorts`, `Drains` |
| `Best` | three runs that overlap, die and meet a full disk | `ReservationsKept`, `NoBetterMove` |
| `Monitor` | four columns over three nodes that come and go, every key, answers in pieces | `Survives`, `ViewContiguous`, `FetchedExactly`, `Refreshes` |
| `Provider` | two periods, a clock set back, an external file and configurations that change, processes that come and go; all items | `ToldCurrent`, `PackedTrue`, `ItemsTold`, `TopExact` |
| `Display` | blocks through answers in which a node lives, is dead or missing; bars; the display modules' table | `ShownIsFetched`, `ItemsRight`, `BarsFit`, `ScaleComesBack` |

What the less obvious ones say:

* `ToldCurrent`: the reading infod is told was gathered within the fast period,
  what modules add within theirs, each widened by how far the clock was set back;
  an external file left alone is told as it is, with its age.
* `PackedTrue`: the built-in modules tell what their files say once they ran as
  often as their count of runs between two readings demands. `TopExact`: from the
  third scan on the processes told of as busy are exactly those that were.
* `ItemsTold`: every item, written and read back, says what was there.
* `ReservationsKept`: the file is whole; while runs do not overlap, every
  announcement in force is in it, and together they fit every node's memory.
  `NoBetterMove`: of the nodes chosen none would leave a process better off on
  another node with room.
* `FetchedExactly`: the client gets everything or nothing, each node once.
* `ShownIsFetched`: what is shown under a number is what the last answer said of that
  node, until the table of letters is used where it holds no string (below).
  `ItemsRight`: a column shows what infod measured under its name, and no module
  writes into its neighbour's cell.
* `BarsFit`: bars end inside the graph and a part never passes its total;
  `ScaleComesBack`: the axis shows the true maximum again and again.
* `MapSettles`, `OrphanDies`, `Recovers`: a map file that stops changing is
  followed, unless the change escaped its time stamp; no worker stays behind its
  parent; after a crash a worker is in its loop again, unless the parent is gone; at a
  crash the parent goes only at the limit or when it is signalled itself, and a worker it
  started for a crash does not give up on its way to the loop. So nothing but a signal
  from outside or one crash too many ends the daemon meanwhile.
* `Converges`: once crashes stop, every running node knows exactly who runs.

Where the code falls short of what one might expect, the property names the
exception, which is then part of the model:

* The window is not sorted after a send, which lowers priorities in place, and a
  node found dead keeps a lower priority its slot already had. A reset clears the
  window with `bzero`, so each slot names entry 0 until pushed out; therefore
  `WindowSound` and `LiveInWindow` are claimed for a forward clock.
* The time a window spends under way is added to the apparent creation time of
  what it carries, so with two windows of a node that overtake each other the older
  reading replaces the newer. `NewsOnlyMovesForward` is claimed without delay,
  crashes and restarts included.
* A full table of receives when a pull goes out closes a socket that is then
  queued to be closed again (`comm.c:617`, `doubled`); a send that times out is
  closed without a word to infod (`comm.c:908`).
* A map that changes between its reading and the worker's first look at its time
  of change is missed (`w.missed`).
* A partial write to the provider that looks at an old errno miscounts what was sent
  (`garbled`).
* From four clusters on the display's table of letters holds strings that were freed
  (below); `ShownIsFetched` and its proof claim nothing from the moment on at which an
  answer uses one (`clsid.spoiled`). With no more clusters than are cleared that never
  happens, which is part of the claim.
* infod-best runs that overlap replace each other's announcements.
* mmon stops refreshing for good after one fetch that failed (`mmon.c:1406`), and
  follows NULL pointers when infod is silent as the cluster is switched, or nothing
  is on view (`excused`).
* The plugin that finds busy processes skips numbers that begin with 9
  (`TopFinder.cpp:106`), and a number taken again gives a share beyond bounds.
* Ranges of a map that are empty, number 0 and numbers at the edge of their width
  lose or repeat nodes in the walk; `MapIsItsSet` says for which maps all is well. A
  directory of partners with a bad line keeps what came before it.
* A watched process whose name holds `/` or `>` makes its item unreadable (`Cut`);
  sizes of freezing directories of 2^31 and more are ignored; the user told for a
  MOSIX process that traces no later one is left from an earlier one (`Plausible`).
* The scalar of the number of processors is read as four bytes from a cell of one
  (`GeneralMD.c:2223`; `ItemsRight` leaves that module out of the claim that cells
  keep apart), and a dead node keeps the letter of the block's last owner
  (`display.c:686`).

### Where the code and its comments disagree

Neither is the subject of a run; both are in the models as the code has them.

* `mosix_sf_parse_msg` is described as telling how many bytes "are
  missing for a valid message" (`linuxMosixProvider.c:1040`), and `kcomm_recv` as
  marking that "not all the message was received" (`provider.c:893`). The parser always
  returns 0, so a message that comes in two reads is handed on as two, and messages that
  come in one read as one.
* The table of letters is an "array for every letter A-Z"
  (`GeneralMD.c:3332`). Between two answers all its strings are freed, but `bzero(clsid,
  28)` (line 3361) clears 28 bytes of its 28 pointers: three and a half of eight bytes,
  seven of four. What lies behind these is compared with and freed again. `Serving` is
  how many places an answer can rely on, and a cluster beyond gets any letter; a crash,
  which is as likely, would end the behaviour.

### Bounds

*Vector.* Three nodes, two to three ticks, priorities from 0 to 2: enough for a
full window and a node that must push another out, for a reset in the middle of a
query, and for ages above and below the maximal one.

*Cluster.* Two nodes where every fault is on (three ticks, two messages under way,
delay of one tick) and three where relays matter: three ticks for a reading that
is late twice on its way through another node, two ticks of gossip after the
start for the crash and return of one node in the liveness run. Two messages
under way are the least that can overtake, three nodes the least that can relay.
`MaxMsgs` bounds the messages under way, `Mortal` names the nodes that may crash;
faults stop before the last tick (`MayFail`), and in the last tick the timers fire
again and again, which stands for the time after the last fault.

*Transport.* Three socket numbers and tables of one entry, so that each is full
while another connection wants it and a closed number is given out again; messages
of two pieces; any sockets ready at each turn. A write refused although select
reported the socket ready happens once per connection. The time limits are 2 and 1
seconds, so that one expires before the other.

*Daemon.* Two addresses of the host, one of which only the larger map lists; one
respawn. Maps have addresses of four bits, numbers of three and up to three lines,
so that every range can touch, overlap or wrap; partners' directories two files of
up to two lines; the cache two entries and five calls; the search every vector of
the two sizes the worker's has. The limit of 350 ranges is not reached.

*External provider.* Two connections, two messages in and five out each, reads of up to
a message and a half, room for three in the queue; a send that finishes nothing
happens once per connection. `HeapSorts` goes over all heaps of up to four entries
and three priorities. The provider connects a bounded number of times, so the
system may stop: deadlock is not checked.

*Local provider.* Ticks of half a second, six of them, and two events on the host.
Periods are 1 and 2 seconds where the code has 1 to 5 and 5 to 10. Modules read their
files again after 1, 2 and 4 of their runs, where the code has 30, 36 and 60: the second
count is above the first, and the third more than one above the second, as there. No
assumption relates them, and `since` counts as far as any module needs. The clock is
set back at most once, between turns. One process is scanned and one of a number
that is skipped; the files of `/proc` are read and not modelled, as what they
say. Items: all directories of four processes, two addresses, rooms of one or two;
texts of up to two watched processes, documents of up to three elements or two
machines of two fields; two rounds of up to three items in one buffer. Lengths stay
below what a `short` holds, since the buffers they come from hold 16 KB.

*infod-best.* Three runs of one or two processes on two unequal nodes, constraints in
force for one second of three, a file whose write buffer holds five units. Runs are
interchangeable, and nothing tells them apart in the properties, so they are
symmetric. Runs end: deadlock is not checked.

*Monitor.* Three nodes, four columns, numbers of two places, three modes of width; a
client's header of two units and entries of one or three, one signal. Display: three
nodes whose order by address differs from that by number, strings shorter and longer
than the room of two bytes they get first (512 in the code), the second node dead or
missing in an answer, a scale that comes down after one drawing (three in the code),
five rows, legends of up to two kinds; two clusters, exactly as many as the
table of letters is cleared for. No answer is longer than the first: the code
allocates for that one.

### Fairness

`GossipLive` (`Gossip!FairSpec`): the periodic administration of the main loop runs
the timer step after every select, which returns at least once per time step, and
`rand()` gives every node a positive chance at each step with any live list: so a
partner that can be chosen again and again is chosen again and again (strong
fairness towards each pair). Messages are handled, fail or are lost, and time
passes (weak fairness). The conditions are written out rather than left to ENABLED,
which TLC evaluates slowly on these actions. Nothing is assumed about crashed
nodes: they may stay down. Convergence is claimed for infods whose host still
refuses connections when they die; a host that hangs is timed out without a word.

`Comm`: the loop turns and time passes. `ConnectionsSettle` has the premise that
select fails no more, because a turn in which it fails calls no handler.

`Infod`: the worker goes on with its start-up and its loop, takes a pending SIGTERM
or SIGHUP, and has a full turn when its timer is due (`WorkerFairness`); the parent
goes on with its fork, wait and sleep, and init buries orphans' children
(`ParentFairness`). These are processes the kernel schedules; nothing is assumed
about signals, files or addresses.

`Kcomm`: select reports a readable or writable socket until it is served. `Monitor`:
the wait for a key ends after at most a second, and the redraw that follows is
done. `Display`: the display is redrawn.

## 5. What is proved

The theorems hold for every value of the constants that satisfies the modules'
assumptions; hypotheses beyond those are in the table.

| module | theorem | statement |
|---|---|---|
| `InfoVecDisplayProofs` | `TypeCorrect` | `Spec => []TypeOK` |
| | `CountExact`, `MarksAlwaysAgree`, `LiveNeverAhead` | `[]NumAliveExact`, `[]DeadMarksAgree`, `[]LiveNotAhead`, for any clock |
| | `WindowAlwaysSound`, `NoFutureEntry`, `FreshnessAlways` | with a forward clock, `[]WindowSound`, `[]NothingFromFuture`, `FreshnessMonotone` |
| | `LiveAlwaysInWindow` | with a forward clock, `[]LiveInWindow` |
| | `PriorityAlwaysDecays` | `PriorityDecays`, for any clock |
| | `DeathAlwaysEnters` | if `MaxPrio <= DeadStartPrio`, `DeathEntersWindow`, for any clock |
| | `DisplayTypeCorrect`, `ShownAlwaysFetched`, `BarsAlwaysFit` | `[]CellsTypeOK`, `[]ShownIsFetched`, `BarsFit`, of the display |
| `GossipProofs` | `GossipTypeCorrect`, `InfoAlwaysDated`, `OnlySelfEverSpeaks` | `[]TypeOK`, `[]InfoDated`, `OnlySelfSpeaks`, for any delays, clocks and faults |
| | `NewsAlwaysForward` | if `MaxDelay = 0`, `NewsOnlyMovesForward` |
| | `GossipIsHearsay` | `Spec` implements `Hearsay!Spec` |
| `CommMonitorProofs` | `CommTypeCorrect`, `MaxFdAlwaysCovers`, `SocketsAlwaysOwned` | `[]TypeOK`, `[]MaxFdCovers`, `[]SocketsOwned` |
| | `MonitorTypeCorrect`, `MonitorSurvives`, `ViewAlwaysContiguous` | `[]MonitorTypeOK`, `[]Survives`, `[]ViewContiguous` |
| `InfodProofs` | `InfodTypeCorrect`, `VectorAlwaysFollowsMap` | `[]TypeOK`, `[]VectorFollowsMap` |
| | `MapAlwaysItsSet` | `[]MapIsItsSet`, whatever the lines say and in any order of theirs |
| | `KcommTypeCorrect`, `SentAlwaysWhole` | `[]KcommTypeOK`, `[]SentWhole` |
| | `HeapIsRight`, `HeapAlwaysSorts` | `HeapRight(length, prios)` for every length and all integer priorities; `[]HeapSorts` |
| `ProviderProofs` | `ProviderTypeCorrect`, `TopAlwaysExact` | `[]TypeOK`, `TopExact` |
| | `ToldAlwaysCurrent`, `PackedAlwaysTrue` | if `FastIsShort`, `[]ToldCurrent`, `[]PackedTrue` |
| `BestProofs` | `BestTypeCorrect`, `ReservationsAlwaysKept`, `NeverABetterMove` | `[]TypeOK`, `[]ReservationsKept`, `[]NoBetterMove` |

`InfoVecOpsProofs` holds the lemmas on the functions of infoVec.c that the vector's
and the cluster's proofs share, `NatLemmas` what is needed of numbers, finite sets and
iteration: `IterationExists` gives a function `[k \in 0..n |-> ...]` its values, by
induction over a set of numbers, and `IterationStays` carries a property from turn to turn;
`AscendingExists` puts any finite set of numbers in order, and `InOrderIs` says that
`InOrder` does (both for the columns of the monitor and the blocks of the display).

**Vector.** Each operator gets a lemma that says what it changes and keeps
(`UpdateWinEffect`, `KillEffect`, `PunishEffect`, `StoreEffect`, `UpdateEffect`,
`GetWindowEffect`, `ClearDeathLogEffect`). `NextIsCall` then shows, with one step
per action, that what a step does to the vector is a `Call` of one of three kinds:
`infoVecUpdate` of some record, `infoVecPunish` of some node, or something
`Harmless` that leaves entries, count and prev_time alone. Each property is then
proved inductive over `Call`. The count, the marks and the distance to prev_time
are inductive together with the type invariant; the count needs the cardinality
of a set that gains or loses one element (`CountFollows`). The window needs
`ForwardInv`: type, `localIndex = Local`, `prevTime <= now` (so that the reset,
which breaks the window, cannot happen) and its shape. That the shape survives an
insertion (`UpdateWinKeepsShape`) rests on where the target slot lies, on the
landing slot and on what floating does to each slot (`FloatUpSlots`).
`LiveAlwaysInWindow` adds that a window by age has room for all
(`RoomInWindow`, by the pigeonhole principle), `PriorityAlwaysDecays` that a node's
first slot decides (`FirstsOnly`, which even a reset keeps).
The hypothesis of `DeathAlwaysEnters` says that arriving records have priorities
no higher than a death starts with: the size of the common map decides that number
for all infods of a cluster.

**Cluster.** `IInv` dates everything by the common time: an entry lies between the
start of its holder's clock and now and no earlier than the reading it holds
(`VecOK`), and a record under way is as old as it says (`NetOK`, `MsgOK`, `RecordOK`).
A received message is a fold of updates; that an invariant of one update is one of the
fold is proved by the least prefix that breaks it (`FoldExists`, `UseWindowEffect`),
since induction over data is out of reach. `NewsAlwaysForward` needs `MaxDelay = 0`:
with delay it is false (section 4). For the refinement, `TimeStep` maps to `Measure`,
`Receive`, `SendFails` and `SendStalls` to `Hear`, `Lose` to `Forget`, `Tick` to
`Pass`, `Crash` and `Restart` to `Stop` and `Start`. The clock's bound is below
`AgeWrap`, 2^64 microseconds.

**Transport.** The handlers pass the tables on as one record, so the invariant,
`Sound(c, loose)`, is a predicate of such a record; `loose` are the sockets a handler
has in its hands, and each handler starts and ends with none. Counting, the covering
of maxfd and the absence of leaks hold even after a double close; ownership holds
until one.

**Daemon.** `Good(w)`: a worker in its loop with an approved map has the vector of
its map with its address in it. It is inductive only together with the same of
what the parent keeps for its children (`Approved(img)`), since a respawned worker
starts from that.

**Map.** `TextsRead` is about any text of plain lines, of any number of them, any widths
and any numbers (`MapIsItsSet` does not depend on the state but for which map and which
address of the host there are, so the type invariant does the rest). Two ranges
`Intersect` exactly if they have something in common, so the pairs
`isMapValid` compares are those `Unambiguous` speaks of (`ValidIs`). The bubble sort
does not always sort; what is needed of it is only that each exchange leaves the same
lines, no two of which name the same (`Reordered`, `SwapKeeps`, `PassKeeps`, `SortKeeps`).
`WalkLists` goes over the walk line by line: what it has given so far are the
addresses of the lines passed, each once (`Lists`), and a next line adds none of
these; so its length is the number of addresses, and what `mapperTotalNodeNum` adds up to.
`NumberLeadsBack` needs that no number and no sum computed on the way leaves its
width (`LineIs`, `NotWrapped`). `InfodMapAssumption` says that addresses fit their width and
that no node has the last one, as `mapper_addClusterHostRange` refuses a line that reaches it.

**Heap.** A loop is the iteration of one turn (`Sink`, `Rise`). A turn keeps the
entries, counted as bijections between positions (`Copies`), and an order with one
gap: `OrderedBut` says that the part from `lo` on is in order apart from the entry at
i, and that those around it are in order among themselves; for a rising entry,
the same with those above it. Each turn moves the gap to a child or to the
parent, so after as many turns as there are entries it is gone (`HeapifyOrders`,
`InsertOrders`). `build_heap` closes one gap after another from the middle down. The
first entry is lowest because a least position that refutes it would have a parent
that does too. `heap_delete` never sifts up: that the order holds only where the last
entry is not lower than the parent of the place it takes is the hypothesis of
`StepRight`; nothing calls it in the code.

**Channel to a provider.** Coming in there is nothing to prove but types: what was
read is no more than what was sent, and what is handed on was read (`InInv`). Going
out, `OutFlow`: what was sent and what is pending spell messages whole (`Spelled`),
and each accepted message is once in these or in the heap (`Shares`), until an amount
is miscounted. A message cut anywhere keeps this since the rest of it is pending;
`FinishWhole`, which empties the heap as far as the socket takes it, by induction over
the heaps it leaves (`FinishRuns`, `SentSoFar`). TLC checked the invariants on the
instance of the run before they were proved.

**Local provider.** `IInv == HostOK /\ LoopOK /\ ExternalOK /\ ModulesOK /\ ReloadOK
/\ TopOK /\ ToldOK` relates each time the provider remembers to the real time at
which it was taken, before or after the clock was set back (`Gathered`). The
arithmetic of `milli_time_diff` says that an update not due is younger than its
period (`NotDueAt`); two periods then add up to no more than the module's if
`FastIsShort`, that is `Fast <= 2 /\ Fast <= TopPeriod`. Nothing is assumed of the
numbers of runs after which modules read their files again, so that the program's own 30,
36 and 60 are among those proved for. In the code the fast period
is one second (`MOSIX_UPDATE_INFO_FAST`, `linuxMosixProvider.h:30`) and modules run
every 5 or 10.

**infod-best.** `IInv` says the file is good (`GoodFile`), every run is (`GoodRun`:
what it holds between two steps agrees with what it read), and that nothing was
lost while runs did not overlap (`Undisturbed`: announcements in force are in the
file, the file fits every node, a run under way holds what the file holds).
Memory is a sum over a set of constraints (`MapThenSumSet`), a recursion in an order
of its own: `SumExists`, `SumUnique`, `SumAny` and `SumMonotone` show, by least
counterexamples, that the order does not matter and that fewer constraints take
less. `AssignmentsGood` carries `GoodChoice` from one process to the next
(`OneProcessMore`); one lemma per action then keeps `IInv`.

**Monitor.** `Good(x)`, of a display: what is on view is in memory, and the columns are
those of some sequence of nodes, a legend's size of them for each (`InBlocks`), which
is a run of the nodes shown (`IsRun`: in order, none left out between two) unless the
view is to be rebuilt. `move_left` and `move_right` do not know the nodes: they copy
columns and add an offset to those at the end. `ShiftRight` and `ShiftLeft` show that
this shifts the sequence by one node, `RunRight` and `RunLeft` that it stays a run when
the node taken in is the nearest shown. A rebuilt view is the first of the nodes
shown (`FirstAreRun`, `SpreadIs`). `MonitorInv` adds what makes a crash impossible: as
long as nothing excuses it, memory and a view that is not to be rebuilt are there
whenever a key is awaited, and memory with a view or a mark to rebuild it before each
redraw but the first. A handler that frees both (`PressCluster`, `new_host`) meets this
only because it sets the mark, and `PressType`, which moves the view before
it is rebuilt, only because moving keeps what it finds.

**Display.** `CellsInv` says of every block in use that it is what some entry of the last
answer makes of a block (`FromEntries`, `Holds`), whichever node had it before: the
entries are written over old blocks in the order of addresses, and the sort then moves
each block, with the pointer to its strings, to its number's place. It is inductive only
with what the strings leave behind: every string fits its memory, and memory that was
taken for a short string has room for any short one (`StringFits`), since a
shorter string is written into it without asking again. Letters are given by a table
that grows with the entries: that two live entries have one letter exactly if they
are of one cluster (`LettersAre`) holds because the table is larger by one at each entry
that brings a new cluster (`FirstIs`, `LaterLetter`), and as long as the table is not spoiled
the letters written are these (`LetteringIs`): for any size of the table and any part of
it that is cleared. `TableOK` says that it is not spoiled while there are no more clusters
than are cleared. The sort is any order by numbers:
`OrderingExists` shows there is one, as no two nodes have one number, and `SortedIs` what
it leaves. `GraphInv` adds the legend and the scale. `ScaleCovers`: after
`displayManageMax` the scale of the axis is at least the maximum measured, whether it was
set now or kept, and the maximum covers every living column of its kind (`GetMaxIs`);
`RowsAre` is the arithmetic of the rows. TLC checked `CellsInv` on the
instance of the run before they were proved.

*Only model-checked.* The liveness properties (`Converges`, `ConnectionsSettle`,
`MapSettles`, `OrphanDies`, `Recovers`, `Drains`, `Refreshes`, `ScaleComesBack`):
liveness under fairness and ENABLED are beyond the prover. `ItemsTold`: its module
uses recursive operators, for which tlapm has no backend. `LookupsRight`,
`FetchedExactly`, `ItemsRight`: statements about what folds compute for every input,
which needs induction over data, or about tables TLC evaluates in full.

## 6. What is not modelled

* `mapper.c` and `distance_graph.c`, which the build no longer compiles
  (`src/libutil/CMakeLists.txt` lists their successors); the gossip calculator
  `gossip-calc.c`, floating point; the averages of `infoVecStats`.
* What the local provider computes of the numbers of `/proc`; messages of the MOSIX
  kernel, most of whose handling is commented out; modules that copy a file.
* The packing of answers that have no other effect, the control client's library, the
  XML of the client's, the text format of load constraints.
* Entries without a cluster: every entry of `Cells` has one. For one without, the code
  passes a null pointer to `strcmp` and `strdup` (`GeneralMD.c:3367`, `3371`).
* Parsers of messages from a provider other than the one in the program, for which
  `provider.h:193` leaves room.
* Split screens, dialogs and the drawing of characters in the monitor.
* Option and configuration parsing, logs, and the tools that print one answer.

Met on the way and outside the models: `infoVecStats` divides by the number of live
nodes (`infoVec.c:1750`); `4*num*MILLI` overflows from 537 nodes on (`infod.c:883`);
a worker without its control channel goes on, as `infodctl_init` returns 0 where
`infod.c:587` tests for -1; the iterator's `idata_iter_fast_forward` runs past the
last entry and nobody calls it; `get_infod_description` leaves a pointer to freed
memory after a reload that failed (`infoMethods.c:43`).
