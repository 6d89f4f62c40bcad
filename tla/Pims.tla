-------------------------------- MODULE Pims --------------------------------
(***************************************************************************)
(* The information modules of infod: how they are started, run at their    *)
(* periods and asked for their item (src/infod/infoModuleManager.c), and   *)
(* the five that are built in (src/infod/InfoModules).                     *)
(*                                                                         *)
(* Three of them read configuration files, and read them again only every  *)
(* so many runs.  The files are one value here, conf: since when they are  *)
(* as they are, and whether they can be read; what a module made of them   *)
(* is that time, or Unread.                                                *)
(***************************************************************************)
EXTENDS Integers

CONSTANTS
  PimPeriod,   \* the period of the built-in modules, seconds
  TopPeriod,   \* that of the module "top"
  FrzReload,   \* runs from one reading of the freezing directories to the next
  MapReload,   \* ... of the partners: REBUILD_MAP_CYCLE
  CrcReload,   \* ... of the cluster's map: CMAPPER_REFRESH_ITER
  Enabled,     \* the external modules named in the configuration, or with a file in its directory
  Loadable,    \* those whose library has all it takes
  Unstartable, \* the modules whose own start fails
  Unread       \* what is made of files that cannot be read

ASSUME PimsAssumption ==
  {PimPeriod, TopPeriod, FrzReload, MapReload, CrcReload} \subseteq Nat \ {0}

pim_arr == {"freeze-info", "usedby", "proc-watch", "cid-crc", "infod-debug"}

\* A library that cannot be loaded takes no place.
load_external_modules == Enabled \cap Loadable

\* Nor does a module that does not start.
init_pim_entry(m) == m \notin Unstartable
Modules == {m \in pim_arr \cup load_external_modules : init_pim_entry(m)}
period(m) == IF m = "top" THEN TopPeriod ELSE PimPeriod

Read(conf) == IF conf.good THEN conf.at ELSE Unread

\* What the built-in modules know.
frzinfo_pim_init == [status |-> "init", cycle |-> -1, dirs |-> Unread]
usedby_pim_init(conf) == [status |-> "init", cycle |-> 0, map |-> Read(conf)]
cidcrc_pim_init == [counter |-> 0, crc |-> Unread]
procwatch_pim_init == [size |-> 0]

\* A directory that is gone counts as no space; only a configuration that cannot be read is
\* an error, and only until the next run.
frzinfo_pim_update(s, conf) ==
  LET cycle == IF s.cycle + 1 >= FrzReload THEN 0 ELSE s.cycle + 1
  IN  IF cycle = 0 /\ ~conf.good THEN [status |-> "error", cycle |-> 0, dirs |-> Unread]
      ELSE [status |-> "ok", cycle |-> cycle, dirs |-> IF cycle = 0 THEN conf.at ELSE s.dirs]

usedby_pim_update(s, conf) ==
  LET reload == s.cycle >= MapReload
  IN  [status |-> "ok", cycle |-> (IF reload THEN 0 ELSE s.cycle) + 1,
       map |-> IF reload THEN Read(conf) ELSE s.map]

cidcrc_pim_update_OneMore(s, conf) ==   \* mutant: the map is read again one run later
  [counter |-> s.counter + 1, crc |-> IF s.counter % (CrcReload + 1) = 0 THEN Read(conf) ELSE s.crc]

cidcrc_pim_update(s, conf) ==
  [counter |-> s.counter + 1, crc |-> IF s.counter % CrcReload = 0 THEN Read(conf) ELSE s.crc]

\* The seconds since infod started.
idbg_pim_update(seconds) == seconds

\* pim_init: all of them start, and none has run.
pim_init(conf) ==
  [last   |-> [m \in Modules |-> 0],
   freeze |-> frzinfo_pim_init,
   usedby |-> usedby_pim_init(conf),
   watch  |-> procwatch_pim_init,
   crc    |-> cidcrc_pim_init,
   debug  |-> 0]

\* pim_update for the modules whose period is over; "top" keeps what it knows elsewhere.
pim_update(s, due, now, seconds, conf) ==
  [s EXCEPT !.last   = [m \in Modules |-> IF m \in due THEN now ELSE @[m]],
            !.freeze = IF "freeze-info" \in due THEN frzinfo_pim_update(@, conf) ELSE @,
            !.usedby = IF "usedby" \in due THEN usedby_pim_update(@, conf) ELSE @,
            !.crc    = IF "cid-crc" \in due THEN cidcrc_pim_update(@, conf) ELSE @,
            !.debug  = IF "infod-debug" \in due THEN idbg_pim_update(seconds) ELSE @]

\* What each gives when asked; the space of the directories, the users and the texts of the
\* items are of no account here.
frzinfo_pim_get(s) == [status |-> s.freeze.status, dirs |-> s.freeze.dirs]
usedby_pim_get(s) == [status |-> s.usedby.status, map |-> s.usedby.map]
cidcrc_pim_get(s) == s.crc.crc
idbg_pim_get(s) == s.debug

\* The items that go into the entry: "proc-watch" has nothing to watch and gives none.
pim_packInfo(s) ==
  [freeze |-> frzinfo_pim_get(s), usedby |-> usedby_pim_get(s),
   crc |-> cidcrc_pim_get(s), debug |-> idbg_pim_get(s)]

=============================================================================
