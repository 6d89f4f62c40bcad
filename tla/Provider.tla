------------------------------ MODULE Provider ------------------------------
(***************************************************************************)
(* The local provider: what infod knows of its own host                    *)
(* (src/infod/linuxMosixProvider.c without a kernel that pushes), how the  *)
(* information modules are run (infoModuleManager.c) and the one that      *)
(* finds the processes that use the processor (src/plugins/top).           *)
(*                                                                         *)
(* A turn of the main loop is the periodic administration, slow part and   *)
(* fast part, and then perhaps a time step, which asks for the reading.    *)
(* Between any two of these the host goes on.  What is gathered is named   *)
(* by the real time it was gathered at, which no code can see; Sub ticks   *)
(* are a second.                                                           *)
(***************************************************************************)
EXTENDS Pims

CONSTANTS
  Sub,         \* ticks in a second
  Fast,        \* MOSIX_UPDATE_INFO_FAST, seconds
  Slow,        \* MOSIX_UPDATE_INFO_SLOW, seconds
  MinCpu,      \* _min_cpu_percent
  Pids,        \* process numbers
  Nines,       \* those whose first digit is a nine
  Wrap,        \* what an unsigned number counts to
  Epoch,       \* seconds on the clock at the start
  Nothing,     \* no file open, no reading told
  MaxTime,     \* bound on the ticks
  MaxEvents    \* bound on what happens on the host

ASSUME ProviderAssumption ==
  /\ {Sub, Fast, Slow, MinCpu, Epoch, Wrap} \subseteq Nat \ {0}
  /\ {MaxTime, MaxEvents} \subseteq Nat
  /\ Nines \subseteq Pids
  /\ Modules = pim_arr \cup {"top"}
  /\ Epoch > Slow /\ Epoch > TopPeriod /\ Epoch > PimPeriod /\ Epoch > 2
  /\ Wrap > Sub * (Epoch + MaxTime + Fast + Slow + TopPeriod + PimPeriod)

VARIABLES
  rt,        \* real time, in ticks since the start
  clock,     \* the host's clock, in ticks
  setBack,   \* history: by how much the clock was set back
  events,    \* what happened on the host so far, counted
  file,      \* the file of external information
  opened,    \* the file the provider has open: what it read of it, and when it was changed
  conf,      \* the configuration files of the information modules
  sysOk,     \* whether the file of the system's own load can be read and is new enough
  proc,      \* the processes
  work,      \* history: what each process used since the last scan
  steady,    \* history: the processes that run since the last scan
  p,         \* the provider
  pims,      \* the built-in modules
  top,       \* the module "top"
  since,     \* history: the runs of the modules since their configuration changed
  turn,      \* where the turn of the loop is
  told       \* what the time step got

host == <<rt, clock, setBack, events, file, opened, conf, sysOk, proc, work, steady>>
vars == <<host, p, pims, top, since, turn, told>>

Absent == "absent"   \* not there, or cannot be opened or read: the fstat after that does not fail
Empty == "empty"
Text == "text"

\* EXTERNAL_STAT_...
NO_INFO == -2
EMPTY == -3
ERROR == -4

Secs(t) == t \div Sub
Frac(t) == t % Sub
Unsigned(x) == IF x < 0 THEN x + Wrap ELSE x

NotThere == [utime |-> -1, time |-> 0]
Times == 0 .. Sub * Epoch + MaxTime

File == [kind : {Absent, Empty, Text}, at : 0 .. MaxTime, mtime : Int]
External == [status : {"no info", "error", "empty", "ok"}, at : 0 .. MaxTime, mtime : Int]

TypeOK ==
  /\ rt \in 0 .. MaxTime /\ clock \in Times /\ setBack \in Nat
  /\ events \in 0 .. MaxEvents
  /\ file \in File /\ opened \in File \cup {Nothing} /\ sysOk \in BOOLEAN
  /\ proc \in [Pids -> [run : BOOLEAN, utime : Nat]]
  /\ work \in [Pids -> Nat] /\ steady \subseteq Pids
  /\ p \in [status : BOOLEAN, reading : 0 .. MaxTime, ext : External,
            lastSlow : Times, lastFast : Times]
  /\ top \in [hash : [Pids -> [utime : -1 .. MaxTime, time : Times]], count : Nat,
              list : SUBSET Pids, scanned : 0 .. MaxTime]
  /\ conf \in [at : 0 .. MaxTime, good : BOOLEAN] /\ since \in Nat
  /\ pims.last \in [Modules -> Times]
  /\ turn \in {"admin", "stat", "fast", "step", "told"}

-----------------------------------------------------------------------------
(***************************************************************************)
(* Time                                                                    *)
(***************************************************************************)

\* In ticks.  From one second to another it counts a second too many; a clock that was
\* set back makes it huge, or nothing at all.
milli_time_diff(start, end) ==
  LET seconds == Sub * (Secs(end) - Secs(start))
  IN  Unsigned(IF seconds = 0 THEN Frac(end) - Frac(start)
               ELSE seconds + Frac(end) + (Sub - Frac(start)))

Due(last, seconds) == milli_time_diff(last, clock) >= Sub * seconds

-----------------------------------------------------------------------------
(***************************************************************************)
(* The module "top"                                                        *)
(***************************************************************************)
Init_top == [hash |-> [i \in Pids |-> NotThere], count |-> 0, list |-> {}, scanned |-> 0]

\* Entries of the process directory that are read; a process may end before it is.
Seen == {i \in Pids \ Nines : proc[i].run}
Known == {i \in Pids : top.hash[i] # NotThere}

\* mergeProcessStatus: the share used since the last scan exceeds the minimum.  Division
\* by no time at all is infinite, or no number when nothing was used.
Busy(i) ==
  LET used == Unsigned(proc[i].utime - top.hash[i].utime)
      time == clock - top.hash[i].time
  IN  top.count > 1 /\ used > 0 /\ time >= 0 /\ 100 * used > MinCpu * time

TopFinder_update_KeepsGone ==   \* mutant: processes that are gone stay as they were
  /\ top' = [hash |-> [i \in Pids |-> IF i \in Seen THEN [utime |-> proc[i].utime, time |-> clock]
                                      ELSE top.hash[i]],
             count |-> top.count + 1,
             list |-> {i \in Seen \cap Known : Busy(i)} \cup (top.list \ Seen),
             scanned |-> rt]
  /\ work' = [i \in Pids |-> 0]
  /\ steady' = {i \in Pids : proc[i].run}

\* update, updateProcessStatus, removeOldProcesses, updateTopProcessesList.
TopFinder_update ==
  /\ top' = [hash |-> [i \in Pids |-> IF i \in Seen THEN [utime |-> proc[i].utime, time |-> clock]
                                      ELSE NotThere],
             count |-> top.count + 1,
             list |-> {i \in Seen \cap Known : Busy(i)},
             scanned |-> rt]
  /\ work' = [i \in Pids |-> 0]
  /\ steady' = {i \in Pids : proc[i].run}

-----------------------------------------------------------------------------
(***************************************************************************)
(* The provider                                                            *)
(***************************************************************************)
Init ==
  /\ rt = 0 /\ clock = Sub * Epoch /\ setBack = 0 /\ events = 0
  /\ file \in [kind : {Absent, Empty, Text}, at : {0}, mtime : {Epoch}] /\ opened = Nothing
  /\ sysOk = TRUE
  /\ proc = [i \in Pids |-> [run |-> TRUE, utime |-> 0]]
  /\ work = [i \in Pids |-> 0] /\ steady = {}
  /\ p = [status |-> FALSE, reading |-> 0,
          ext |-> [status |-> "no info", at |-> 0, mtime |-> 0],
          lastSlow |-> 0, lastFast |-> 0]
  /\ conf = [at |-> 0, good |-> TRUE]
  /\ pims = pim_init(conf) /\ top = Init_top /\ since = 0
  /\ turn = "admin" /\ told = Nothing

\* lp_periodic_admin, the slow part: update_external_file opens and reads the file ...
lp_slow_update_info ==
  /\ turn = "admin"
  /\ p' = IF Due(p.lastSlow, Slow)
          THEN [p EXCEPT !.lastSlow = clock, !.ext.status = "error"] ELSE p
  /\ IF Due(p.lastSlow, Slow) /\ file.kind # Absent
     THEN turn' = "stat" /\ opened' = file
     ELSE turn' = "fast" /\ UNCHANGED opened
  /\ UNCHANGED <<rt, clock, setBack, events, file, conf, sysOk, proc, work, steady, pims, top, since, told>>

update_external_file_SameTime ==   \* mutant: a file changed at the same second is no news
  /\ turn = "stat"
  /\ p' = [p EXCEPT !.ext = [status |-> IF opened.kind = Text THEN "ok" ELSE "empty",
                             at |-> IF opened.mtime = @.mtime THEN @.at ELSE opened.at,
                             mtime |-> opened.mtime]]
  /\ opened' = Nothing /\ turn' = "fast"
  /\ UNCHANGED <<rt, clock, setBack, events, file, conf, sysOk, proc, work, steady, pims, top, since, told>>

\* ... and then asks when it was changed.
update_external_file ==
  /\ turn = "stat"
  /\ p' = [p EXCEPT !.ext = [status |-> IF opened.kind = Text THEN "ok" ELSE "empty",
                             at |-> opened.at, mtime |-> opened.mtime]]
  /\ opened' = Nothing /\ turn' = "fast"
  /\ UNCHANGED <<rt, clock, setBack, events, file, conf, sysOk, proc, work, steady, pims, top, since, told>>

\* pim_update: a module runs when its own period is over.
DueModules == {m \in Modules : Due(pims.last[m], period(m))}

\* The runs are counted until the last of the modules has read its files again.
Counting == \E n \in {FrzReload, MapReload + 1, CrcReload} : since < n

\* The fast part, lp_mosix_fast_update_info: a reading, and then pim_update.
lp_fast_update_info ==
  /\ turn = "fast"
  /\ turn' = "step"
  /\ LET gathers == Due(p.lastFast, Fast) /\ sysOk
         due == IF gathers THEN DueModules ELSE {}
     IN  /\ p' = IF ~Due(p.lastFast, Fast) THEN p
                 ELSE [p EXCEPT !.lastFast = clock, !.status = sysOk,
                                !.reading = IF gathers THEN rt ELSE @]
         /\ pims' = pim_update(pims, due, clock, Secs(clock) - Epoch, conf)
         /\ IF "top" \in due THEN TopFinder_update ELSE UNCHANGED <<top, work, steady>>
         /\ since' = IF pim_arr \cap due # {} /\ Counting THEN since + 1 ELSE since
  /\ UNCHANGED <<rt, clock, setBack, events, file, opened, conf, sysOk, proc, told>>

\* mosix_sf_get_info, called by doTimeStep: the reading gets the time of the clock, and the
\* external information its age.
mosix_sf_get_info ==
  /\ turn = "step"
  /\ told' = IF ~p.status THEN Nothing
             ELSE [reading |-> p.reading, scanned |-> top.scanned, content |-> p.ext.at,
                   items |-> pim_packInfo(pims),
                   external |-> CASE p.ext.status = "ok" -> Secs(clock) - p.ext.mtime
                                  [] p.ext.status = "empty" -> EMPTY
                                  [] p.ext.status = "error" -> ERROR
                                  [] p.ext.status = "no info" -> NO_INFO]
  /\ turn' = "told"
  /\ UNCHANGED <<host, p, pims, top, since>>

EndTurn ==
  /\ turn = "told"
  /\ turn' = "admin" /\ told' = Nothing
  /\ UNCHANGED <<host, p, pims, top, since>>

-----------------------------------------------------------------------------
(***************************************************************************)
(* The host.  Between turns anything happens, and within one the file      *)
(* changes while it is open; what happens at other moments of a turn comes *)
(* to the same as before or after it.                                      *)
(***************************************************************************)
loop == <<p, pims, top, turn, told>>

Event == events < MaxEvents /\ events' = events + 1
Idle == turn = "admin"

\* Time passes; a running process uses the processor or not (those never read do not matter).
Tick ==
  /\ Idle /\ rt < MaxTime
  /\ rt' = rt + 1 /\ clock' = clock + 1
  /\ \E S \in SUBSET Seen :
       /\ proc' = [i \in Pids |-> IF i \in S THEN [proc[i] EXCEPT !.utime = @ + 1] ELSE proc[i]]
       /\ work' = [i \in Pids |-> IF i \in S THEN work[i] + 1 ELSE work[i]]
  /\ UNCHANGED <<setBack, events, file, opened, conf, sysOk, steady, since, loop>>

SetClockBack(t) ==
  /\ Event /\ Idle /\ setBack = 0
  /\ clock' = clock - t /\ setBack' = t
  /\ UNCHANGED <<rt, file, opened, conf, sysOk, proc, work, steady, since, loop>>

\* The file is written in place, the open one with it, or replaced or removed.
ChangeFile(kind, inPlace) ==
  /\ Event /\ turn \in {"admin", "stat"}
  /\ inPlace => opened # Nothing /\ kind # Absent /\ file = opened
  /\ file' = [kind |-> kind, at |-> rt, mtime |-> Secs(clock)]
  /\ opened' = IF inPlace THEN [opened EXCEPT !.mtime = Secs(clock)] ELSE opened
  /\ UNCHANGED <<rt, clock, setBack, conf, sysOk, proc, work, steady, since, loop>>

SystemChanges ==
  /\ Event /\ Idle /\ sysOk' = ~sysOk
  /\ UNCHANGED <<rt, clock, setBack, file, opened, conf, proc, work, steady, since, loop>>

\* The configuration of the modules is written anew, well or badly.
ConfChanges ==
  /\ Event /\ Idle
  /\ conf' = [at |-> rt, good |-> ~conf.good] /\ since' = 0
  /\ UNCHANGED <<rt, clock, setBack, file, opened, sysOk, proc, work, steady, loop>>

\* A process ends, or one starts with a number that is free.
ProcessChanges(i) ==
  /\ Event /\ Idle
  /\ proc' = [proc EXCEPT ![i] = [run |-> ~@.run, utime |-> 0]]
  /\ work' = [work EXCEPT ![i] = 0] /\ steady' = steady \ {i}
  /\ UNCHANGED <<rt, clock, setBack, file, opened, conf, sysOk, since, loop>>

Next ==
  \/ lp_slow_update_info \/ update_external_file \/ lp_fast_update_info
  \/ mosix_sf_get_info \/ EndTurn
  \/ Tick \/ SystemChanges \/ ConfChanges
  \/ \E t \in 1 .. Sub + 1 : SetClockBack(t)
  \/ \E kind \in {Absent, Empty, Text}, inPlace \in BOOLEAN : ChangeFile(kind, inPlace)
  \/ \E i \in Pids \ Nines : ProcessChanges(i)

Spec == Init /\ [][Next]_vars

-----------------------------------------------------------------------------
TrueExternal ==
  CASE file.kind = Text -> Secs(clock) - file.mtime
    [] file.kind = Empty -> EMPTY
    [] file.kind = Absent -> ERROR

\* What infod is told of its host is current, however long the loop was busy: the reading
\* was gathered within the fast period and the modules ran within their own, later by no more
\* than the clock was set back; and an external file that nobody touched for the slow period
\* is told as it is, with its age, whatever was read of it before, while it was being
\* replaced or was not there.  (milli_time_diff, lp_periodic_admin,
\* update_external_file, pim_update, mosix_sf_get_info)
ToldCurrent ==
  turn = "told" /\ told # Nothing =>
    /\ rt - told.reading <= Sub * Fast + setBack
    /\ rt - told.scanned <= Sub * TopPeriod + setBack
    /\ rt - file.at > Sub * Slow + setBack =>
         /\ told.external = TrueExternal
         /\ file.kind = Text => told.content = file.at

\* From the third scan on, the processes told of are those that ran since the last
\* scan and used more of the time since than the minimum, those apart whose number begins
\* with a nine; unless meanwhile the clock was set back or a number was taken again
\* (update, mergeProcessStatus, removeOldProcesses).
Reused == {i \in Pids : proc[i].run /\ i \notin steady /\ top.hash[i] # NotThere}
TopExact ==
  [][top'.count > top.count /\ top.count > 1 /\ Reused = {} /\ clock - pims.last["top"] = rt - top.scanned =>
       top'.list = {i \in steady \ Nines :
                      proc[i].run /\ 100 * work[i] > MinCpu * (rt - top.scanned)}]_vars

\* What the built-in modules tell is the state of the files they read as soon as they ran as
\* often as each waits to read them again (the partners, read at the start too, once more),
\* however the files changed before and whether or not they could be read; and infod's own
\* uptime lags by no more than the modules' period.
\* (pim_update, frzinfo_pim_update, usedby_pim_update, cidcrc_pim_update, idbg_pim_update,
\* pim_packInfo)
PackedTrue ==
  turn = "told" /\ told # Nothing =>
    /\ since >= FrzReload => told.items.freeze.dirs = Read(conf)
    /\ since > MapReload => told.items.usedby.map = Read(conf)
    /\ since >= CrcReload => told.items.crc = Read(conf)
    /\ told.items.freeze.status = "error" => told.items.freeze.dirs = Unread
    /\ Secs(clock) - Epoch - told.items.debug \in -setBack .. PimPeriod

=============================================================================
