-------------------------------- MODULE Infod --------------------------------
(***************************************************************************)
(* The life of the daemon on one host: the parent that guards a worker and *)
(* starts it again after a crash (src/infod/infodParent.c), the worker's   *)
(* start-up, main loop, signals and periodic administration                *)
(* (src/infod/infod.c), its control channel (src/infod/ctl.c), the pid     *)
(* file (src/infod/infodMisc.c) and the map file, which may change, break  *)
(* or vanish at any time, as may the address of the host.                  *)
(*                                                                         *)
(* A map is the set of addresses it lists; no map, and no vector, is the   *)
(* empty set.  Messages and what the vector says are modelled elsewhere.   *)
(* A name that does not resolve is not noticed, inet_aton being tested     *)
(* against -1: whatever the memory held is taken for the address.          *)
(***************************************************************************)
EXTENDS Integers

CONSTANTS
  Ips,         \* the addresses the host may have, or may be taken to have
  Maps,        \* what the map file may list
  MaxCrash,    \* crashes the parent survives, INFOD_MAX_CRASH_NUM
  AllowNoMap   \* opt_allowNoMap

None == {}
NoAddr == -1          \* resolve_my_ip failed

ASSUME InfodAssumption ==
  /\ NoAddr \notin Ips /\ {} \notin Maps
  /\ MaxCrash \in Nat /\ AllowNoMap \in BOOLEAN

VARIABLES
  file,     \* the map file: is it there, and what it lists, {} if unusable
  addr,     \* the address the name of the host resolves to
  pidFile,  \* INFOD_DEF_PID_FILE exists
  sock,     \* MSX_INFOD_CTL_SOCK_NAME: "none", bound by this worker ("new") or not ("old")
  parent,   \* the guardian process
  img,      \* what start-up left in the memory of the parent, for its children
  crashes,  \* counter, of handle_child_exit
  w,        \* the worker: where it is, and its memory
  old       \* an earlier worker that outlived its parent still runs

vars == <<file, addr, pidFile, sock, parent, img, crashes, w, old>>

Files == [there : {TRUE}, nodes : Maps \cup {None}] \cup [there : {FALSE}, nodes : {None}]
Alive == {"born", "reborn", "stuck", "setup", "bind", "loop"}
Dead == {"exited", "crashed", "hupped", "killed"}
Image == [map : Maps \cup {None}, ok : BOOLEAN, ip : Ips]
Worker ==
  [at : Alive \cup Dead \cup {"none"},
   map : Maps \cup {None},  \* glob_msxmap
   vec : Maps \cup {None},  \* the nodes of glob_vec
   ok : BOOLEAN,            \* stat_mapOk
   ip : Ips,                \* opt_myIP
   quiet : BOOLEAN,         \* glob_quiet_mode
   hup : BOOLEAN,           \* glob_got_sighup
   term : BOOLEAN,          \* glob_infodExit
   seen : {"never", "current", "older"},  \* prevMTime, against the file's
   guarded : BOOLEAN,       \* glob_parent_pid is the pid of the guardian
   ctl : {"off", "new", "req"},  \* ctl_status between turns
   missed : BOOLEAN]        \* history: the file changed and prevMTime cannot tell

TypeOK ==
  /\ file \in Files /\ addr \in Ips /\ pidFile \in BOOLEAN
  /\ sock \in {"none", "new", "old"}
  /\ parent \in {"none", "fork", "watch", "sleep"}
  /\ img \in Image /\ crashes \in 0 .. MaxCrash
  /\ w \in Worker /\ old \in BOOLEAN

Child(at, image) ==
  [at |-> at, map |-> image.map, vec |-> None, ok |-> image.ok, ip |-> image.ip,
   quiet |-> FALSE, hup |-> FALSE, term |-> FALSE, seen |-> "never",
   guarded |-> FALSE, ctl |-> "off", missed |-> image.map # file.nodes]

Unstarted(ip) == [map |-> None, ok |-> FALSE, ip |-> ip]

\* A process that is gone has no memory.
NoImage == Unstarted(CHOOSE ip \in Ips : TRUE)
Gone == [Child("none", NoImage) EXCEPT !.missed = FALSE]

-----------------------------------------------------------------------------
(***************************************************************************)
(* The map and the vector                                                  *)
(***************************************************************************)
\* A file that cannot be parsed leaves the old map but not its approval; one
\* without this host is taken and not approved.
map_setup(x) ==
  IF file.nodes = None THEN [x EXCEPT !.ok = FALSE]
  ELSE [x EXCEPT !.map = file.nodes, !.ok = x.ip \in file.nodes, !.missed = FALSE]

Crash(x) == [x EXCEPT !.at = "crashed"]
infod_critical_error(x) == [x EXCEPT !.at = "exited"]

\* info_stop and info_setup: the vector is built anew from the map.
info_restart(x) ==
  IF x.map = None THEN infod_critical_error([x EXCEPT !.vec = None])
  ELSE [x EXCEPT !.vec = x.map]

remap_MapOnly(x) == map_setup(x)   \* mutant: the vector is not rebuilt

remap(x) == LET n == map_setup(x) IN IF n.ok THEN info_restart(n) ELSE n

-----------------------------------------------------------------------------
(***************************************************************************)
(* The worker's periodic work                                              *)
(***************************************************************************)
\* Without a usable map nothing is done; gossiping reads the vector.
doTimeStep(x) == IF x.ok /\ ~x.quiet /\ x.vec = None THEN Crash(x) ELSE x

\* here is the address the host is found to have.
CheckAddress(x, here) ==
  IF here = NoAddr THEN [x EXCEPT !.ok = FALSE]
  ELSE IF here # x.ip THEN remap([x EXCEPT !.ip = here])
  ELSE x

CheckMap(x) == IF x.ok THEN x ELSE remap(x)

admin_NoParent(x, here) == CheckMap(CheckAddress(x, here))   \* mutant: the parent is not looked for

admin(x, here) ==
  IF x.guarded /\ parent = "none" THEN infod_critical_error(x)
  ELSE CheckMap(CheckAddress(x, here))

reload_Silent(x) == [x EXCEPT !.seen = "current"]   \* mutant: the change is only recorded

\* The first time stamp is only recorded; a later one that differs counts as
\* a SIGHUP.
reload(x) ==
  IF file.there
  THEN [x EXCEPT !.hup = @ \/ x.seen = "older", !.seen = "current"] ELSE x

\* Later stages run only if the earlier ones let the worker live.
infod_periodic_admin(x, due, here) ==
  LET Next(stage, y, z) == IF stage \in due /\ y.at = "loop" THEN z ELSE y
      s == IF due # {} /\ x.at = "loop" THEN doTimeStep(x) ELSE x
      a == Next("admin", s, admin(s, here))
  IN  Next("reload", a, reload(a))

-----------------------------------------------------------------------------
(***************************************************************************)
(* Control commands.  "probe" stands for those that read the vector        *)
(* unasked (the death log and the measurements), "other" for those that    *)
(* touch nothing of this module, "broken" for a request that is not one.   *)
(***************************************************************************)
Commands == {"quiet", "noquiet", "stop", "wintype", "probe", "other", "broken"}

\* The map goes without its approval being taken back.
ctl_setpe_stop(x) == [x EXCEPT !.map = None, !.vec = None, !.missed = TRUE]

\* A window of another kind, in a new vector.
ctl_win_type(x) == IF x.ok THEN info_restart(x) ELSE x

\* The measurements that are kept in the vector are started and stopped there.
ctl_measurment(x) == IF x.vec = None THEN Crash(x) ELSE x

do_ctl_action(x, c) ==
  CASE c = "quiet" -> [x EXCEPT !.quiet = TRUE]
    [] c = "noquiet" -> [x EXCEPT !.quiet = FALSE]
    [] c = "stop" -> ctl_setpe_stop(x)
    [] c = "wintype" -> ctl_win_type(x)
    [] c = "probe" -> ctl_measurment(x)
    [] OTHER -> x

infodctl_reset(x) == [x EXCEPT !.ctl = "new"]

-----------------------------------------------------------------------------
(***************************************************************************)
(* The worker                                                              *)
(***************************************************************************)
\* Leaving closes the control channel and removes its file, whoever made it.
Becomes(x) ==
  /\ w' = x
  /\ sock' = IF x.at = "exited" THEN "none" ELSE sock

Calm == UNCHANGED <<file, addr, pidFile, parent, img, crashes, old>>

\* getppid after the fork, and signal_setup.
signal_setup ==
  /\ w.at \in {"born", "reborn"}
  /\ Becomes([w EXCEPT !.at = "setup", !.guarded = parent # "none"])
  /\ Calm

\* A file in the way leaves the worker without a control channel.
infodctl_init ==
  /\ w.at = "setup"
  /\ w' = [w EXCEPT !.at = "bind", !.ctl = IF sock = "none" THEN "new" ELSE "off"]
  /\ sock' = IF sock = "none" THEN "new" ELSE sock
  /\ Calm

\* The rest of the start-up, once the ports are free.
EnterLoop ==
  /\ w.at = "bind" /\ ~old
  /\ LET x == [w EXCEPT !.at = "loop"]
     IN  Becomes(IF w.ok THEN info_restart(x) ELSE x)
  /\ Calm

GiveUpBinding ==
  /\ w.at = "bind" /\ old
  /\ Becomes(infod_critical_error(w))
  /\ Calm

Working == w.at = "loop" /\ ~w.term /\ ~w.hup

LoopExit ==
  /\ w.at = "loop" /\ w.term
  /\ Becomes([w EXCEPT !.at = "exited"])
  /\ Calm

handle_sighup ==
  /\ w.at = "loop" /\ ~w.term /\ w.hup
  /\ Becomes(remap([w EXCEPT !.hup = FALSE]))
  /\ Calm

Dues == {{}, {"step"}, {"step", "admin"}, {"step", "reload"}, {"step", "admin", "reload"}}

\* A turn without a control event.
Turn(due, here) ==
  /\ Working /\ due # {}
  /\ Becomes(infod_periodic_admin(w, due, here))
  /\ Calm

infodctl_setup_connection(due, here) ==
  /\ Working /\ w.ctl = "new" /\ sock = "new"
  /\ Becomes(infod_periodic_admin([w EXCEPT !.ctl = "req"], due, here))
  /\ Calm

\* The client sends a request or hangs up.
infodctl_recv(c, due, here) ==
  /\ Working /\ w.ctl = "req"
  /\ LET done == IF c = "broken" THEN w ELSE do_ctl_action(w, c)
     IN  Becomes(infod_periodic_admin(infodctl_reset(done), due, here))
  /\ Calm

\* What resolve_my_ip may find, when it is called at all.
Found(due) == IF "admin" \in due THEN Ips \cup {NoAddr} ELSE {addr}

TurnAny == \E due \in Dues : \E here \in Found(due) : Turn(due, here)
AcceptControl == \E due \in Dues : \E here \in Found(due) : infodctl_setup_connection(due, here)
ServeControl ==
  \E c \in Commands, due \in Dues : \E here \in Found(due) : infodctl_recv(c, due, here)

-----------------------------------------------------------------------------
(***************************************************************************)
(* The parent                                                              *)
(***************************************************************************)
\* A start is refused while there is a pid file, and without a usable map
\* unless that is allowed.
Start ==
  LET x == map_setup(Child("born", Unstarted(addr)))
  IN  /\ ~pidFile /\ parent = "none" /\ w.at \notin Dead
      /\ w.at \in Alive => ~old
      /\ x.ok \/ AllowNoMap
      /\ parent' = "fork" /\ pidFile' = TRUE /\ crashes' = 0
      /\ img' = [map |-> x.map, ok |-> x.ok, ip |-> x.ip]
      /\ w' = x
      /\ old' = (old \/ w.at \in Alive)
      /\ sock' = IF sock = "none" THEN "none" ELSE "old"
      /\ UNCHANGED <<file, addr>>

infod_parent_signals ==
  /\ parent = "fork" /\ parent' = "watch"
  /\ UNCHANGED <<file, addr, pidFile, sock, img, crashes, w, old>>

ParentEnds == parent' = "none" /\ img' = NoImage /\ crashes' = 0
ParentExits == ParentEnds /\ pidFile' = FALSE

handle_child_exit_OneTooFew ==   \* mutant: the crash that reaches the limit already ends it
  /\ parent = "watch" /\ w.at \in Dead
  /\ w' = Gone
  /\ IF w.at = "crashed" /\ crashes + 1 < MaxCrash
     THEN /\ parent' = "sleep" /\ crashes' = crashes + 1 /\ sock' = "none"
          /\ UNCHANGED <<pidFile, img>>
     ELSE /\ IF w.at = "killed" THEN ParentEnds /\ UNCHANGED pidFile ELSE ParentExits
          /\ UNCHANGED sock
  /\ UNCHANGED <<file, addr, old>>

\* Only a crash is answered with a new worker.  A worker killed by another
\* signal takes the parent with it: by SIGKILL for good, by SIGHUP because
\* there is no child left to wait for.
handle_child_exit ==
  /\ parent = "watch" /\ w.at \in Dead
  /\ w' = Gone
  /\ IF w.at = "crashed" /\ crashes < MaxCrash
     THEN /\ parent' = "sleep" /\ crashes' = crashes + 1 /\ sock' = "none"
          /\ UNCHANGED <<pidFile, img>>
     ELSE /\ IF w.at = "killed" THEN ParentEnds /\ UNCHANGED pidFile ELSE ParentExits
          /\ UNCHANGED sock
  /\ UNCHANGED <<file, addr, old>>

infod_parent ==
  /\ parent = "sleep"
  /\ parent' = "watch" /\ w' = Child("reborn", img)
  /\ UNCHANGED <<file, addr, pidFile, sock, img, crashes, old>>

-----------------------------------------------------------------------------
(***************************************************************************)
(* Signals                                                                 *)
(***************************************************************************)
\* Before signal_setup a first child dies of a signal; a later one has the
\* handlers of its parent, with pid 0 for the worker: it signals its own group.
Terminated(x) ==
  CASE x.at \in {"born", "reborn", "stuck"} -> Gone
    [] x.at \in {"setup", "bind", "loop"} -> [x EXCEPT !.term = TRUE]
    [] OTHER -> x

HungUp(x) ==
  CASE x.at = "born" -> [x EXCEPT !.at = "hupped"]
    [] x.at = "reborn" -> [x EXCEPT !.at = "stuck"]
    [] x.at \in {"setup", "bind", "loop"} -> [x EXCEPT !.hup = TRUE]
    [] OTHER -> x

SigTerm ==
  /\ parent \in {"watch", "sleep"} /\ ParentExits
  /\ w' = Terminated(w)
  /\ UNCHANGED <<file, addr, sock, old>>

SigHup ==
  /\ parent = "watch" /\ w.at \in Alive
  /\ w' = HungUp(w)
  /\ UNCHANGED <<file, addr, pidFile, sock, parent, img, crashes, old>>

\* SIGKILL at any time, or any of them before the parent's handlers are set.
KillParent ==
  /\ parent # "none" /\ ParentEnds
  /\ UNCHANGED <<file, addr, pidFile, sock, w, old>>

KillWorker ==
  /\ w.at \in Alive
  /\ Becomes([w EXCEPT !.at = "killed"])
  /\ Calm

\* A fault anywhere else in the worker: SIGSEGV or SIGABRT.
Fault ==
  /\ w.at = "loop"
  /\ Becomes(Crash(w))
  /\ Calm

\* A dead worker without a parent leaves no trace but its socket file.
Bury ==
  /\ parent = "none" /\ w.at \in Dead
  /\ w' = Gone
  /\ UNCHANGED <<file, addr, pidFile, sock, parent, img, crashes, old>>

OldExits ==
  /\ old /\ old' = FALSE /\ sock' = "none"
  /\ UNCHANGED <<file, addr, pidFile, parent, img, crashes, w>>

-----------------------------------------------------------------------------
(***************************************************************************)
(* The world                                                               *)
(***************************************************************************)
\* The time stamp has a resolution of a second: a second change may keep it.
FileChange ==
  /\ file' \in Files \ {file}
  /\ w' \in IF w.at \notin Alive THEN {w}
            ELSE CASE w.seen = "never" -> {[w EXCEPT !.missed = TRUE]}
                   [] w.seen = "current" -> {[w EXCEPT !.missed = TRUE],
                                             [w EXCEPT !.seen = "older", !.missed = FALSE]}
                   [] w.seen = "older" -> {w}
  /\ UNCHANGED <<addr, pidFile, sock, parent, img, crashes, old>>

AddrChange ==
  /\ addr' \in Ips \ {addr}
  /\ UNCHANGED <<file, pidFile, sock, parent, img, crashes, w, old>>

RemovePidFile ==
  /\ pidFile /\ parent = "none" /\ pidFile' = FALSE
  /\ UNCHANGED <<file, addr, sock, parent, img, crashes, w, old>>

-----------------------------------------------------------------------------
Init ==
  /\ file \in [there : {TRUE}, nodes : Maps] /\ addr \in Ips
  /\ pidFile = FALSE /\ sock = "none" /\ parent = "none" /\ crashes = 0
  /\ img = NoImage /\ w = Gone /\ old = FALSE

WorkerNext ==
  \/ signal_setup \/ infodctl_init \/ EnterLoop \/ GiveUpBinding
  \/ LoopExit \/ handle_sighup \/ TurnAny \/ AcceptControl \/ ServeControl

ParentNext == Start \/ infod_parent_signals \/ handle_child_exit \/ infod_parent

SignalNext == SigTerm \/ SigHup \/ KillParent \/ KillWorker \/ Fault \/ Bury \/ OldExits

WorldNext == FileChange \/ AddrChange \/ RemovePidFile

Next == WorkerNext \/ ParentNext \/ SignalNext \/ WorldNext

Spec == Init /\ [][Next]_vars

-----------------------------------------------------------------------------
(***************************************************************************)
(* Fairness: every process of the daemon keeps running, SIGHUPs leave it   *)
(* time for a turn now and then, the minute between two looks at the map   *)
(* file passes and the name of the host resolves again.                    *)
(***************************************************************************)
AllDue == {"step", "admin", "reload"}
FullTurn == Turn(AllDue, addr)
TurnDue == Working /\ infod_periodic_admin(w, AllDue, addr) # w

WorkerFairness ==
  /\ []<>(w.at \notin {"born", "reborn"}) \/ []<><<signal_setup>>_vars
  /\ []<>(w.at # "setup") \/ []<><<infodctl_init>>_vars
  /\ []<>(w.at # "bind") \/ []<><<EnterLoop \/ GiveUpBinding>>_vars
  /\ []<>~(w.at = "loop" /\ w.term) \/ []<><<LoopExit>>_vars
  /\ []<>~(w.at = "loop" /\ ~w.term /\ w.hup) \/ []<><<handle_sighup>>_vars
  /\ []<>TurnDue => []<><<FullTurn>>_vars

ParentFairness ==
  /\ []<>(parent # "fork") \/ []<><<infod_parent_signals>>_vars
  /\ []<>~(parent = "watch" /\ w.at \in Dead) \/ []<><<handle_child_exit>>_vars
  /\ []<>(parent # "sleep") \/ []<><<infod_parent>>_vars
  /\ []<>~(parent = "none" /\ w.at \in Dead) \/ []<><<Bury>>_vars

FairSpec == Spec /\ WorkerFairness /\ ParentFairness

-----------------------------------------------------------------------------
\* While the map is approved, the vector lists exactly the nodes of the map,
\* this host among them: every path that installs a map (SIGHUP, a new
\* address, the retry, the window command, a respawn) also rebuilds the
\* vector, and the command that drops the map drops both.
VectorFollowsMap ==
  w.at = "loop" /\ w.ok => w.vec = w.map /\ (w.map # None => w.ip \in w.map)

\* Once the map file stops changing and the worker keeps running, the vector
\* ends up listing the nodes of the file, unless the change escaped the time
\* stamp (it was made before the worker's first look or within the second
\* of the last one) or a control command dropped the map; and a map that was
\* refused, or an address that could not be found, does not keep it idle: with
\* a file that lists this host the map is approved again and again.
MapSettles ==
  /\ <>[](w.at = "loop") /\ <>[][file' = file]_file
       => <>[](file.nodes # None /\ w.ok => w.vec = file.nodes \/ w.missed)
  /\ <>[](w.at = "loop" /\ addr \in file.nodes) => []<>w.ok

\* A worker whose parent is gone, whatever killed it, does not stay behind.
OrphanDies == (parent = "none" /\ w.guarded) ~> ~w.guarded

\* A crash does not end the service before the limit.  It is answered by a
\* worker that reaches its main loop, unless a SIGHUP hits that worker before
\* it has its own handlers or the parent is gone; the parent goes at a crash
\* only at the limit or when it is itself signalled, and a worker it started
\* for a crash never gives up on its way to the loop, so that nothing but a
\* signal from outside or one crash too many ends the daemon meanwhile.
\* (handle_child_exit, infod_parent)
Recovers ==
  /\ w.at = "crashed" ~> (w.at \in {"loop", "stuck"} \/ parent = "none")
  /\ [][w.at = "crashed" /\ parent # "none" /\ parent' = "none"
           => crashes = MaxCrash \/ SigTerm \/ KillParent]_vars
  /\ [][crashes > 0 /\ w.at \in {"none", "reborn", "setup", "bind"}
           => w'.at # "exited" /\ (parent' = "none" => SigTerm \/ KillParent)]_vars
==============================================================================
