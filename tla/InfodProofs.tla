------------------------------ MODULE InfodProofs ------------------------------
(***************************************************************************)
(* Proofs about the daemon: the life of its process (Infod), for every set *)
(* of addresses, every choice of maps and every limit on crashes; its      *)
(* channel to an external provider (Kcomm), for every number of messages   *)
(* and connections, every buffer and every length of the heap; and its map *)
(* (Mapper), for every width of addresses and numbers and whatever the     *)
(* lines of a map file may say.                                            *)
(***************************************************************************)
EXTENDS InfodMap, Kcomm, NatLemmas, SequenceTheorems

\* A map that is approved lists the host; in the main loop the vector lists the same nodes.
Approved(x) == x.ok /\ x.map # None => x.ip \in x.map
Good(x) == x \in Worker /\ Approved(x) /\ (x.at = "loop" /\ x.ok => x.vec = x.map)

\* Approval is wanted of the image start-up left in the parent too: it is what the next
\* worker starts from.
IInv == TypeOK /\ Good(w) /\ Approved(img)

-----------------------------------------------------------------------------
(***************************************************************************)
(* What the parts of a turn make of the worker.                            *)
(***************************************************************************)

\* A worker that has only moved to another place of its life outside the main loop is as good.
LEMMA MovedGood ==
  ASSUME NEW x, Good(x), NEW at \in Alive \cup Dead, at # "loop"
  PROVE  Good([x EXCEPT !.at = at])
BY DEF Good, Worker, Approved

\* map_setup leaves a map that is approved only if it lists the host.
LEMMA MapSetup ==
  ASSUME NEW x \in Worker, TypeOK
  PROVE  LET y == map_setup(x)
         IN  /\ y \in Worker /\ y.at = x.at /\ y.ip = x.ip /\ Approved(y)
             /\ y.ok => y.map = file.nodes /\ y.ip \in y.map
<1>1. file.nodes \in Maps \cup {None} /\ x.ip \in Ips
  BY DEF TypeOK, Files, Worker
<1>2. CASE file.nodes = None
  BY <1>2 DEF map_setup, Worker, Approved
<1>3. CASE file.nodes # None
  <2> DEFINE b == x.ip \in file.nodes
             m == file.nodes
             y == [x EXCEPT !.map = m, !.ok = b, !.missed = FALSE]
  <2>1. map_setup(x) = y
    BY <1>3 DEF map_setup
  <2>2. b \in BOOLEAN /\ (b => x.ip \in m) /\ m \in Maps \cup {None}
    BY <1>1
  <2> HIDE DEF b, m
  <2>3. /\ y \in Worker /\ y.at = x.at /\ y.ip = x.ip /\ y.map = m /\ (y.ok <=> b)
    BY <2>2 DEF Worker
  <2> HIDE DEF y
  <2> QED BY <2>1, <2>2, <2>3 DEF Approved, m
<1> QED
  BY <1>2, <1>3

\* info_restart rebuilds the vector from the map, or ends the worker.
LEMMA RestartGood ==
  ASSUME NEW x \in Worker, Approved(x)
  PROVE  Good(info_restart(x))
<1>1. CASE x.map = None
  BY <1>1 DEF info_restart, infod_critical_error, Good, Worker, Approved, Dead
<1>2. CASE x.map # None
  BY <1>2 DEF info_restart, Good, Worker, Approved
<1> QED
  BY <1>1, <1>2

\* So whatever came before, a worker is good once it has read the map file.
LEMMA RemapGood ==
  ASSUME NEW x \in Worker, TypeOK
  PROVE  Good(remap(x))
<1> DEFINE n == map_setup(x)
<1>1. n \in Worker /\ Approved(n)
  BY MapSetup
<1> HIDE DEF n
<1>2. CASE n.ok
  BY <1>1, <1>2, RestartGood DEF remap, n
<1>3. CASE ~n.ok
  BY <1>1, <1>3 DEF remap, n, Good
<1> QED
  BY <1>2, <1>3

\* The periodic work, whatever is due and wherever the host is found to be.
LEMMA AdminGood ==
  ASSUME NEW x, Good(x), TypeOK, NEW due, NEW here \in Ips \cup {NoAddr}
  PROVE  Good(infod_periodic_admin(x, due, here))
<1>1. ASSUME NEW y, Good(y) PROVE Good(doTimeStep(y))
  BY <1>1 DEF doTimeStep, Crash, Good, Worker, Approved, Dead
<1>2. ASSUME NEW y, Good(y) PROVE Good(admin(y, here))
  <2>1. Good(infod_critical_error(y))
    BY <1>2, MovedGood DEF infod_critical_error, Dead
  <2>2. Good(CheckAddress(y, here))
    <3>1. Good([y EXCEPT !.ok = FALSE])
      BY <1>2 DEF Good, Worker, Approved
    <3>2. here \in Ips => [y EXCEPT !.ip = here] \in Worker
      BY <1>2 DEF Good, Worker
    <3>3. here \in Ips => Good(remap([y EXCEPT !.ip = here]))
      BY <3>2, RemapGood
    <3> QED BY <1>2, <3>1, <3>3 DEF CheckAddress
  <2>3. Good(CheckMap(CheckAddress(y, here)))
    BY <2>2, RemapGood DEF CheckMap, Good
  <2> QED BY <2>1, <2>3 DEF admin
<1>3. ASSUME NEW y, Good(y) PROVE Good(reload(y))
  <2>1. CASE ~file.there
    BY <1>3, <2>1 DEF reload
  <2>2. CASE file.there
    <3> DEFINE b == y.hup \/ y.seen = "older"
    <3>1. b \in BOOLEAN
      BY <1>3 DEF Good, Worker
    <3>2. reload(y) = [y EXCEPT !.hup = b, !.seen = "current"]
      BY <2>2, Zenon DEF reload
    <3> HIDE DEF b
    <3>3. reload(y) \in Worker
      BY <1>3, <3>1, <3>2 DEF Good, Worker
    <3> QED BY <1>3, <3>2, <3>3 DEF Good, Approved
  <2> QED BY <2>1, <2>2
<1> DEFINE s == IF due # {} /\ x.at = "loop" THEN doTimeStep(x) ELSE x
           a == IF "admin" \in due /\ s.at = "loop" THEN admin(s, here) ELSE s
<1>4. Good(s)
  BY <1>1
<1> HIDE DEF s
<1>5. Good(a)
  BY <1>2, <1>4
<1> HIDE DEF a
<1>6. infod_periodic_admin(x, due, here)
        = IF "reload" \in due /\ a.at = "loop" THEN reload(a) ELSE a
  BY Zenon DEF infod_periodic_admin, s, a
<1> QED
  BY <1>3, <1>5, <1>6

\* The control commands.  The one that drops the map leaves it approved, but with it goes
\* the vector.
LEMMA CommandGood ==
  ASSUME NEW x, Good(x), NEW c \in Commands
  PROVE  Good(do_ctl_action(x, c))
<1>1. Good([x EXCEPT !.quiet = TRUE]) /\ Good([x EXCEPT !.quiet = FALSE])
  BY DEF Good, Worker, Approved
<1>2. Good(ctl_setpe_stop(x))
  BY DEF ctl_setpe_stop, Good, Worker, Approved
<1>3. Good(ctl_win_type(x))
  BY RestartGood DEF ctl_win_type, Good
<1>4. Good(ctl_measurment(x))
  BY MovedGood DEF ctl_measurment, Crash, Dead
<1> QED
  BY <1>1, <1>2, <1>3, <1>4 DEF do_ctl_action, Commands

\* A worker just forked has the map of the image it starts from.
LEMMA ChildGood ==
  ASSUME NEW image \in Image, NEW at \in {"born", "reborn", "none"}
  PROVE  LET x == Child(at, image)
         IN  /\ x \in Worker /\ x.at = at /\ x.map = image.map /\ x.vec = None
             /\ x.ok = image.ok /\ x.ip = image.ip
             /\ Approved(image) => Good(x)
<1> DEFINE b == image.map # file.nodes
           x == Child(at, image)
<1>1. b \in BOOLEAN
  OBVIOUS
<1>2. x = [at |-> at, map |-> image.map, vec |-> None, ok |-> image.ok, ip |-> image.ip,
           quiet |-> FALSE, hup |-> FALSE, term |-> FALSE, seen |-> "never",
           guarded |-> FALSE, ctl |-> "off", missed |-> b]
  BY Zenon DEF Child
<1> HIDE DEF b, x
<1>3. /\ x.at = at /\ x.map = image.map /\ x.vec = None
      /\ x.ok = image.ok /\ x.ip = image.ip
  BY <1>2
<1>4. x \in Worker
  BY <1>1, <1>2 DEF Worker, Image, Alive
<1> QED
  BY <1>3, <1>4 DEF Good, Approved, x

\* A process that is gone has nothing.
LEMMA NothingGood ==
  ASSUME Ips # {}
  PROVE  NoImage \in Image /\ Approved(NoImage) /\ Good(Gone) /\ Gone.at = "none"
<1>1. PICK ip \in Ips : ip = CHOOSE z \in Ips : TRUE
  OBVIOUS
<1>2. NoImage = [map |-> None, ok |-> FALSE, ip |-> ip]
  BY <1>1 DEF NoImage, Unstarted
<1>3. NoImage \in Image /\ Approved(NoImage)
  BY <1>1, <1>2 DEF Image, Approved
<1> DEFINE x == Child("none", NoImage)
<1>4. x \in Worker /\ x.at = "none" /\ Good(x)
  BY <1>3, ChildGood
<1>5. Gone = [x EXCEPT !.missed = FALSE]
  BY DEF Gone
<1> HIDE DEF x
<1>6. Gone \in Worker /\ Gone.at = "none" /\ Good(Gone)
  BY <1>4, <1>5 DEF Good, Worker, Approved
<1> QED
  BY <1>3, <1>6

-----------------------------------------------------------------------------
(***************************************************************************)
(* The theorems.                                                           *)
(***************************************************************************)

\* A host without a daemon, with a usable map file.
LEMMA InitGood == Init => IInv
<1> SUFFICES ASSUME Init PROVE IInv
  OBVIOUS
<1>1. NoImage \in Image /\ Approved(NoImage) /\ Good(Gone)
  BY NothingGood DEF Init
<1>2. file \in Files
  BY DEF Init, Files
<1>3. crashes \in 0 .. MaxCrash
  BY InfodAssumption DEF Init
<1>4. img \in Image /\ Approved(img) /\ Good(w)
  BY <1>1, Zenon DEF Init
<1>5. w \in Worker
  BY <1>4 DEF Good
<1> QED
  BY <1>2, <1>3, <1>4, <1>5 DEF Init, IInv, TypeOK

\* What a step of the worker leaves of the rest.
LEMMA WorkerStep ==
  ASSUME IInv, NEW x, Good(x), Becomes(x), Calm
  PROVE  IInv'
<1>1. x \in Worker /\ w' = x
  BY DEF Good, Becomes
<1>2. Good(w')
  BY <1>1, Zenon
<1>3. sock' \in {"none", "new", "old"}
  BY DEF Becomes, IInv, TypeOK
<1> QED
  BY <1>1, <1>2, <1>3 DEF IInv, TypeOK, Calm, Good, Approved

\* The worker's own steps.
LEMMA WorkerGood == IInv /\ WorkerNext => IInv'
<1> SUFFICES ASSUME IInv, WorkerNext PROVE IInv'
  OBVIOUS
<1>0. Good(w) /\ w \in Worker /\ TypeOK
  BY DEF IInv, TypeOK
<1>1. CASE signal_setup
  <2> DEFINE b == parent # "none"
             x == [w EXCEPT !.at = "setup", !.guarded = b]
  <2>1. Becomes(x) /\ Calm
    BY <1>1 DEF signal_setup
  <2>2. b \in BOOLEAN
    OBVIOUS
  <2> HIDE DEF b
  <2>3. Good(x)
    BY <1>0, <2>2 DEF Good, Worker, Approved, Alive
  <2> QED BY <2>1, <2>3, WorkerStep
<1>2. CASE infodctl_init
  <2> DEFINE t == IF sock = "none" THEN "new" ELSE "off"
             x == [w EXCEPT !.at = "bind", !.ctl = t]
  <2>1. w' = x /\ sock' \in {sock, "new"}
    BY <1>2 DEF infodctl_init
  <2>2. t \in {"off", "new", "req"}
    OBVIOUS
  <2> HIDE DEF t
  <2>3. Good(x)
    BY <1>0, <2>2 DEF Good, Worker, Approved, Alive
  <2>4. x \in Worker /\ Good(w') /\ w' \in Worker
    BY <2>1, <2>3, Zenon DEF Good
  <2>5. sock' \in {"none", "new", "old"}
    BY <1>0, <2>1 DEF TypeOK
  <2>6. Calm
    BY <1>2 DEF infodctl_init
  <2> QED BY <2>4, <2>5, <2>6 DEF IInv, TypeOK, Calm, Approved
<1>3. CASE EnterLoop
  <2> DEFINE x == [w EXCEPT !.at = "loop"]
  <2>1. Becomes(IF w.ok THEN info_restart(x) ELSE x) /\ Calm
    BY <1>3 DEF EnterLoop
  <2>2. x \in Worker /\ Approved(x) /\ x.ok = w.ok
    BY <1>0 DEF Good, Worker, Approved, Alive
  <2> HIDE DEF x
  <2>3. w.ok => Good(info_restart(x))
    BY <2>2, RestartGood
  <2>4. ~w.ok => Good(x)
    BY <2>2 DEF Good
  <2> QED BY <2>1, <2>3, <2>4, WorkerStep
<1>4. CASE GiveUpBinding \/ LoopExit
  <2>1. Becomes([w EXCEPT !.at = "exited"]) /\ Calm
    BY <1>4 DEF GiveUpBinding, LoopExit, infod_critical_error
  <2>2. Good([w EXCEPT !.at = "exited"])
    BY <1>0, MovedGood DEF Dead
  <2> QED BY <2>1, <2>2, WorkerStep
<1>5. CASE handle_sighup
  <2>1. [w EXCEPT !.hup = FALSE] \in Worker
    BY <1>0 DEF Worker
  <2>2. Good(remap([w EXCEPT !.hup = FALSE]))
    BY <1>0, <2>1, RemapGood
  <2> QED BY <1>5, <2>2, WorkerStep DEF handle_sighup
<1>6. \A due : Found(due) \subseteq Ips \cup {NoAddr}
  BY <1>0 DEF Found, TypeOK
<1>7. ASSUME NEW due \in Dues, NEW here \in Found(due), Turn(due, here) PROVE IInv'
  <2>1. Good(infod_periodic_admin(w, due, here))
    BY <1>0, <1>6, AdminGood
  <2> QED BY <1>7, <2>1, WorkerStep DEF Turn
<1>8. ASSUME NEW due \in Dues, NEW here \in Found(due), infodctl_setup_connection(due, here)
      PROVE  IInv'
  <2>1. Good([w EXCEPT !.ctl = "req"])
    BY <1>0 DEF Good, Worker, Approved
  <2>2. Good(infod_periodic_admin([w EXCEPT !.ctl = "req"], due, here))
    BY <1>0, <1>6, <2>1, AdminGood
  <2> QED BY <1>8, <2>2, WorkerStep DEF infodctl_setup_connection
<1>9. ASSUME NEW c \in Commands, NEW due \in Dues, NEW here \in Found(due),
             infodctl_recv(c, due, here)
      PROVE  IInv'
  <2> DEFINE done == IF c = "broken" THEN w ELSE do_ctl_action(w, c)
  <2>1. Good(done)
    BY <1>0, CommandGood
  <2>2. Becomes(infod_periodic_admin(infodctl_reset(done), due, here)) /\ Calm
    BY <1>9, Zenon DEF infodctl_recv
  <2> HIDE DEF done
  <2>3. Good(infodctl_reset(done))
    BY <2>1 DEF infodctl_reset, Good, Worker, Approved
  <2>4. Good(infod_periodic_admin(infodctl_reset(done), due, here))
    BY <1>0, <1>6, <2>3, AdminGood
  <2> QED BY <2>2, <2>4, WorkerStep
<1> QED
  BY <1>1, <1>2, <1>3, <1>4, <1>5, <1>7, <1>8, <1>9
     DEF WorkerNext, TurnAny, AcceptControl, ServeControl

\* The steps of the parent: a worker it starts has an approved map or none.
LEMMA ParentGood == IInv /\ ParentNext => IInv'
<1> SUFFICES ASSUME IInv, ParentNext PROVE IInv'
  OBVIOUS
<1>0. /\ Good(w) /\ Approved(img) /\ img \in Image /\ TypeOK
      /\ MaxCrash \in Nat /\ 0 \in 0 .. MaxCrash /\ crashes \in 0 .. MaxCrash
      /\ Ips # {} /\ NoImage \in Image /\ Approved(NoImage) /\ Good(Gone) /\ Gone \in Worker
  BY NothingGood, InfodAssumption DEF IInv, TypeOK, Good
<1>1. CASE Start
  <2> DEFINE x == map_setup(Child("born", Unstarted(addr)))
             i == [map |-> x.map, ok |-> x.ok, ip |-> x.ip]
  <2>1. Unstarted(addr) \in Image
    BY <1>0 DEF TypeOK, Unstarted, Image
  <2>2. Child("born", Unstarted(addr)) \in Worker /\ Child("born", Unstarted(addr)).at = "born"
    BY <2>1, ChildGood
  <2>3. x \in Worker /\ x.at = "born" /\ Approved(x)
    BY <1>0, <2>2, MapSetup
  <2>4. w' = x /\ img' = i
    BY <1>1, Zenon DEF Start
  <2> HIDE DEF x
  <2>5. i \in Image /\ Approved(i)
    BY <2>3 DEF Image, Worker, Approved
  <2> HIDE DEF i
  <2>6. Good(w') /\ w' \in Worker /\ img' \in Image /\ Approved(img')
    BY <2>3, <2>4, <2>5, Zenon DEF Good
  <2>7. /\ file' = file /\ addr' = addr /\ pidFile' = TRUE /\ parent' = "fork" /\ crashes' = 0
        /\ old' \in BOOLEAN /\ sock' \in {"none", "old"}
    BY <1>1 DEF Start
  <2> QED BY <1>0, <2>6, <2>7 DEF IInv, TypeOK, Approved
<1>2. CASE infod_parent_signals
  BY <1>0, <1>2 DEF infod_parent_signals, IInv, TypeOK, Good, Approved
<1>3. CASE handle_child_exit
  <2>1. w' = Gone
    BY <1>3 DEF handle_child_exit
  <2>2. Good(w') /\ w' \in Worker
    BY <1>0, <2>1, Zenon
  <2>3. img' \in {img, NoImage}
    BY <1>3 DEF handle_child_exit, ParentExits, ParentEnds
  <2>4. img' \in Image /\ Approved(img')
    BY <1>0, <2>3, Zenon
  <2>5. /\ parent' \in {"sleep", "none"} /\ sock' \in {"none", sock}
        /\ pidFile' \in {pidFile, FALSE} /\ UNCHANGED <<file, addr, old>>
    BY <1>3 DEF handle_child_exit, ParentExits, ParentEnds
  <2>6. crashes' \in 0 .. MaxCrash
    BY <1>0, <1>3 DEF handle_child_exit, ParentExits, ParentEnds
  <2> QED BY <1>0, <2>2, <2>4, <2>5, <2>6 DEF IInv, TypeOK, Approved
<1>4. CASE infod_parent
  <2>1. Good(Child("reborn", img)) /\ Child("reborn", img) \in Worker
    BY <1>0, ChildGood
  <2>2. w' = Child("reborn", img)
    BY <1>4 DEF infod_parent
  <2>3. Good(w') /\ w' \in Worker
    BY <2>1, <2>2, Zenon
  <2> QED BY <1>0, <1>4, <2>3 DEF infod_parent, IInv, TypeOK, Approved
<1> QED
  BY <1>1, <1>2, <1>3, <1>4 DEF ParentNext

\* Signals, faults and the changes of the world.
LEMMA OutsideGood == IInv /\ (SignalNext \/ WorldNext) => IInv'
<1> SUFFICES ASSUME IInv, SignalNext \/ WorldNext PROVE IInv'
  OBVIOUS
<1>0. /\ Good(w) /\ w \in Worker /\ Approved(img) /\ img \in Image /\ TypeOK
      /\ 0 \in 0 .. MaxCrash
      /\ Ips # {} /\ NoImage \in Image /\ Approved(NoImage) /\ Good(Gone) /\ Gone \in Worker
  BY NothingGood, InfodAssumption DEF IInv, TypeOK, Good
<1>1. ASSUME Good(w'), UNCHANGED <<file, addr, pidFile, sock, parent, img, crashes, old>>
      PROVE  IInv'
  BY <1>0, <1>1 DEF IInv, TypeOK, Good, Approved
<1>2. CASE SigTerm
  <2>1. Good(Terminated(w))
    <3>1. Good([w EXCEPT !.term = TRUE])
      BY <1>0 DEF Good, Worker, Approved
    <3> QED BY <1>0, <3>1 DEF Terminated
  <2>2. Good(w') /\ w' \in Worker
    BY <1>2, <2>1, Zenon DEF SigTerm, Good
  <2>3. /\ parent' = "none" /\ img' = NoImage /\ crashes' = 0 /\ pidFile' = FALSE
        /\ UNCHANGED <<file, addr, sock, old>>
    BY <1>2 DEF SigTerm, ParentExits, ParentEnds
  <2>4. img' \in Image /\ Approved(img')
    BY <1>0, <2>3, Zenon
  <2> QED BY <1>0, <2>2, <2>3, <2>4 DEF IInv, TypeOK
<1>3. CASE SigHup
  <2>1. Good([w EXCEPT !.hup = TRUE])
    BY <1>0 DEF Good, Worker, Approved
  <2>2. Good([w EXCEPT !.at = "hupped"]) /\ Good([w EXCEPT !.at = "stuck"])
    BY <1>0, MovedGood DEF Alive, Dead
  <2>3. Good(HungUp(w))
    BY <1>0, <2>1, <2>2 DEF HungUp
  <2>4. Good(w')
    BY <1>3, <2>3, Zenon DEF SigHup
  <2> QED BY <1>1, <1>3, <2>4 DEF SigHup
<1>4. CASE KillParent
  <2>1. /\ parent' = "none" /\ img' = NoImage /\ crashes' = 0
        /\ UNCHANGED <<file, addr, pidFile, sock, w, old>>
    BY <1>4 DEF KillParent, ParentEnds
  <2>2. img' \in Image /\ Approved(img')
    BY <1>0, <2>1, Zenon
  <2> QED BY <1>0, <2>1, <2>2 DEF IInv, TypeOK, Good, Approved
<1>5. CASE KillWorker
  <2>1. Good([w EXCEPT !.at = "killed"])
    BY <1>0, MovedGood DEF Dead
  <2> QED BY <1>5, <2>1, WorkerStep DEF KillWorker
<1>6. CASE Fault
  <2>1. Good(Crash(w))
    BY <1>0, MovedGood DEF Dead, Crash
  <2> QED BY <1>6, <2>1, WorkerStep DEF Fault
<1>7. CASE Bury
  BY <1>0, <1>1, <1>7, Zenon DEF Bury
<1>8. CASE OldExits
  BY <1>0, <1>8 DEF OldExits, IInv, TypeOK, Good, Approved
<1>9. CASE FileChange
  <2>1. /\ Good([w EXCEPT !.missed = TRUE])
        /\ Good([w EXCEPT !.seen = "older", !.missed = FALSE])
    <3>1. Good([w EXCEPT !.missed = TRUE])
      BY <1>0 DEF Good, Worker, Approved
    <3> DEFINE x == [w EXCEPT !.seen = "older", !.missed = FALSE]
    <3>2. x \in Worker
      BY <1>0 DEF Worker
    <3>3. x.at = w.at /\ x.map = w.map /\ x.vec = w.vec /\ x.ok = w.ok /\ x.ip = w.ip
      BY <1>0 DEF Worker
    <3> HIDE DEF x
    <3>4. Good(x)
      BY <1>0, <3>2, <3>3, Zenon DEF Good, Approved
    <3> QED BY <3>1, <3>4 DEF x
  <2>2. w.seen \in {"never", "current", "older"}
    BY <1>0 DEF Worker
  <2>3. w' \in {w, [w EXCEPT !.missed = TRUE], [w EXCEPT !.seen = "older", !.missed = FALSE]}
    BY <1>9, <2>2 DEF FileChange
  <2>4. Good(w') /\ w' \in Worker
    BY <1>0, <2>1, <2>3, Zenon DEF Good
  <2>5. file' \in Files /\ UNCHANGED <<addr, pidFile, sock, parent, img, crashes, old>>
    BY <1>9 DEF FileChange
  <2> QED BY <1>0, <2>4, <2>5 DEF IInv, TypeOK, Approved
<1>10. CASE AddrChange
  BY <1>0, <1>10 DEF AddrChange, IInv, TypeOK, Good, Approved
<1>11. CASE RemovePidFile
  BY <1>0, <1>11 DEF RemovePidFile, IInv, TypeOK, Good, Approved
<1> QED
  BY <1>2, <1>3, <1>4, <1>5, <1>6, <1>7, <1>8, <1>9, <1>10, <1>11 DEF SignalNext, WorldNext

\* Every reachable state has the inductive invariant.
LEMMA AlwaysGood == Spec => []IInv
<1>1. IInv /\ [Next]_vars => IInv'
  <2>1. IInv /\ UNCHANGED vars => IInv'
    BY DEF vars, IInv, TypeOK, Good, Approved
  <2> QED BY <2>1, WorkerGood, ParentGood, OutsideGood DEF Next
<1> QED
  BY <1>1, InitGood, PTL DEF Spec

\* The processes, the files and the memory of each are what the code can make of them.
THEOREM InfodTypeCorrect == Spec => []TypeOK
<1>1. IInv => TypeOK
  BY DEF IInv
<1> QED
  BY <1>1, AlwaysGood, PTL

\* For any set of addresses, any maps and any limit on crashes: a worker in its main loop
\* with an approved map has a vector of exactly the nodes of the map, this host among them.
\* Start-up, SIGHUPs, changed files and addresses, control commands, crashes and respawns
\* from the image of an older start all keep it so.
THEOREM VectorAlwaysFollowsMap == Spec => []VectorFollowsMap
<1>1. IInv => VectorFollowsMap
  BY DEF IInv, Good, Approved, VectorFollowsMap
<1> QED
  BY <1>1, AlwaysGood, PTL

-----------------------------------------------------------------------------
(***************************************************************************)
(* The heap of messages to a provider (prioHeap.c): in order, and nothing is*)
(* lost, whatever is put in and taken out.                                 *)
(***************************************************************************)

\* A sequence is a function on its places.
LEMMA SeqIsFunction ==
  ASSUME NEW E, NEW s \in Seq(E)
  PROVE  Len(s) \in Nat /\ s \in [1 .. Len(s) -> E]
OBVIOUS

-----------------------------------------------------------------------------
\* The arithmetic of a heap: who is above whom.
LEMMA ParentIs ==
  /\ \A i, j \in Nat \ {0} : Parent(j) = i <=> j = 2 * i \/ j = 2 * i + 1
  /\ \A j \in Nat \ {0} : Parent(j) \in Nat /\ Parent(j) < j
BY DEF Parent

\* Entries with keys that can be compared.
Keyed(E) == \A e \in E : e.prio \in Int

\* g has what h has.
Rearranged(g, h, E, n) == g \in [1 .. n -> E] /\ \A x : Copies(g, x) = Copies(h, x)

\* Two entries that change places: nothing is lost.
LEMMA SwappedKeeps ==
  ASSUME NEW E, NEW n \in Nat, NEW h \in [1 .. n -> E], NEW a \in 1 .. n, NEW b \in 1 .. n
  PROVE  Rearranged(Swapped(h, a, b), h, E, n)
<1> DEFINE g == Swapped(h, a, b)
<1>1. g \in [1 .. n -> E]
  BY DEF Swapped
<1>2. /\ g[b] = h[a] /\ g[a] = h[b]
      /\ \A i \in 1 .. n : i # a /\ i # b => g[i] = h[i]
  BY DEF Swapped
<1> HIDE DEF g
<1>3. ASSUME NEW x PROVE Copies(g, x) = Copies(h, x)
  <2> DEFINE A == {i \in 1 .. n : h[i] = x}
             B == {i \in 1 .. n : g[i] = x}
             p == [i \in A |-> IF i = a THEN b ELSE IF i = b THEN a ELSE i]
  <2>1. p \in [A -> B]
    BY <1>2
  <2>2. \A i, j \in A : p[i] = p[j] => i = j
    OBVIOUS
  <2>3. \A j \in B : \E i \in A : p[i] = j
    <3> SUFFICES ASSUME NEW j \in B PROVE \E i \in A : p[i] = j
      OBVIOUS
    <3> DEFINE i == IF j = a THEN b ELSE IF j = b THEN a ELSE j
    <3>1. i \in A /\ p[i] = j
      BY <1>2
    <3> QED BY <3>1
  <2>4. IsFiniteSet(A)
    BY FS_Interval, FS_Subset
  <2> HIDE DEF A, B, p
  <2>5. p \in Bijection(A, B)
    BY <2>1, <2>2, <2>3 DEF Bijection, Injection, Surjection, IsInjective
  <2>6. ExistsBijection(A, B)
    BY <2>5 DEF ExistsBijection
  <2>7. Cardinality(A) = Cardinality(B)
    BY <2>4, <2>6, FS_Bijection
  <2>8. DOMAIN g = 1 .. n /\ DOMAIN h = 1 .. n
    BY <1>1
  <2> QED BY <2>7, <2>8 DEF Copies, A, B
<1> QED
  BY <1>1, <1>3 DEF g, Rearranged

\* What largest finds: where it is, and that what is there is not behind the others.
LEMMA LargestIs ==
  ASSUME NEW E, Keyed(E), NEW n \in Nat, NEW h \in [1 .. n -> E], NEW i \in Nat \ {0}
  PROVE  LET j == largest(h, i)
         IN  /\ j = i \/ (j \in {2 * i, 2 * i + 1} /\ i < j /\ j <= n)
             /\ j # i => Prio(h, j) < Prio(h, i)
             /\ \A m \in {2 * i, 2 * i + 1} : m <= n => Prio(h, j) <= Prio(h, m)
<1>1. Len(h) = n
  OBVIOUS
<1>2. \A k \in 1 .. n : Prio(h, k) \in Int
  BY DEF Keyed, Prio
<1> QED
  BY <1>1, <1>2 DEF largest

Sinking(E, n) == [heap : [1 .. n -> E], i : Nat \ {0}]

\* A turn of the loop of heapify loses nothing, and the entry that sinks goes down or stays.
LEMMA SinkKeeps ==
  ASSUME NEW E, Keyed(E), NEW n \in Nat, NEW s \in Sinking(E, n)
  PROVE  /\ Sink(s) \in Sinking(E, n)
         /\ Rearranged(Sink(s).heap, s.heap, E, n)
         /\ Sink(s) = s \/ Sink(s).i > s.i
         /\ s.i > n => Sink(s) = s
<1> DEFINE j == largest(s.heap, s.i)
<1>1. s.heap \in [1 .. n -> E] /\ s.i \in Nat \ {0}
  BY DEF Sinking
<1>2. j = s.i \/ (j \in {2 * s.i, 2 * s.i + 1} /\ s.i < j /\ j <= n)
  BY <1>1, LargestIs
<1> HIDE DEF j
<1>3. CASE j = s.i
  BY <1>1, <1>3 DEF Sink, j, Rearranged
<1>4. CASE j # s.i
  <2>1. j \in 1 .. n /\ s.i \in 1 .. n /\ j \in Nat \ {0} /\ s.i < j
    BY <1>1, <1>2, <1>4
  <2>2. Sink(s) = [heap |-> Swapped(s.heap, s.i, j), i |-> j]
    BY <1>4 DEF Sink, j
  <2>3. Rearranged(Swapped(s.heap, s.i, j), s.heap, E, n)
    BY <1>1, <2>1, SwappedKeeps
  <2> QED BY <2>1, <2>2, <2>3 DEF Sinking, Rearranged
<1> QED
  BY <1>3, <1>4

\* The loop of heapify runs and ends: its states, from the first to the last, after
\* which the entry does not sink any further.
Sinks(s, h, i, E, n) ==
  /\ s \in [0 .. n -> Sinking(E, n)]
  /\ s[0] = [heap |-> h, i |-> i]
  /\ \A k \in 1 .. n : s[k] = Sink(s[k - 1])

\* The loop of heapify runs and ends, a turn for every entry being enough.
LEMMA HeapifyRuns ==
  ASSUME NEW E, Keyed(E), NEW n \in Nat, NEW h \in [1 .. n -> E], NEW i \in Nat \ {0}
  PROVE  \E s : Sinks(s, h, i, E, n) /\ heapify(h, i) = s[n].heap
<1> DEFINE x == [heap |-> h, i |-> i]
           S == Sinking(E, n)
           F == [p \in S \X Nat |-> Sink(p[1])]
           Value(g, k) == IF k = 0 THEN x ELSE Sink(g[k - 1])
           it == CHOOSE g : g = [k \in 0 .. n |-> Value(g, k)]
<1>1. x \in S
  BY DEF Sinking
<1>2. F \in [S \X Nat -> S]
  BY SinkKeeps
<1>3. Len(h) = n
  OBVIOUS
<1>4. heapify(h, i) = it[n].heap
  BY <1>3 DEF heapify
<1>5. \E g : g = [k \in 0 .. n |-> Value(g, k)]
  <2> HIDE DEF x, S, F
  <2>1. PICK f \in [0 .. n -> S] : Iterates(f, x, F, n)
    BY <1>1, <1>2, IterationExists
  <2>2. ASSUME NEW k \in 1 .. n PROVE f[k] = Sink(f[k - 1])
    <3>1. k - 1 \in 0 .. n /\ k \in Nat
      OBVIOUS
    <3>2. f[k - 1] \in S
      BY <2>1, <3>1
    <3>3. <<f[k - 1], k>> \in S \X Nat
      BY <3>1, <3>2
    <3>4. f[k] = F[<<f[k - 1], k>>]
      BY <2>1 DEF Iterates
    <3> QED BY <3>3, <3>4 DEF F
  <2>3. f[0] = x
    BY <2>1 DEF Iterates
  <2>4. \A k \in 0 .. n : f[k] = Value(f, k)
    BY <2>2, <2>3
  <2>5. f = [k \in 0 .. n |-> f[k]]
    BY <2>1
  <2> HIDE DEF Value
  <2>6. f = [k \in 0 .. n |-> Value(f, k)]
    BY <2>4, <2>5
  <2> QED BY <2>6
<1> HIDE DEF Value
<1>6. it = [k \in 0 .. n |-> Value(it, k)]
  BY <1>5
<1> HIDE DEF it
<1>7. \A k \in 0 .. n : it[k] = Value(it, k)
  BY <1>6, Zenon
<1>8. it[0] = x /\ \A k \in 1 .. n : it[k] = Sink(it[k - 1])
  <2>1. 0 \in 0 .. n
    OBVIOUS
  <2>2. \A k \in 1 .. n : k \in 0 .. n /\ k # 0
    OBVIOUS
  <2> QED BY <1>7, <2>1, <2>2 DEF Value
<1>9. \A k \in 0 .. n : it[k] \in S
  <2>1. ASSUME NEW k \in 1 .. n, it[k - 1] \in S PROVE it[k] \in S
    <3>1. Sink(it[k - 1]) \in S
      BY <2>1, SinkKeeps
    <3> QED BY <1>8, <3>1
  <2>2. it[0] \in S
    BY <1>1, <1>8
  <2> HIDE DEF S, x
  <2> QED BY <2>1, <2>2, IterationStays
<1>10. it \in [0 .. n -> S]
  <2>1. it = [k \in 0 .. n |-> it[k]]
    BY <1>6, <1>7, Zenon
  <2> HIDE DEF S
  <2> QED BY <1>9, <2>1
<1> QED
  BY <1>4, <1>8, <1>10 DEF Sinks

\* heapify loses nothing.
LEMMA HeapifyKeeps ==
  ASSUME NEW E, Keyed(E), NEW n \in Nat, NEW h \in [1 .. n -> E], NEW i \in Nat \ {0}
  PROVE  Rearranged(heapify(h, i), h, E, n)
<1>1. PICK s : Sinks(s, h, i, E, n) /\ heapify(h, i) = s[n].heap
  BY HeapifyRuns
<1> DEFINE T == {k \in Nat : k <= n => Rearranged(s[k].heap, h, E, n)}
<1>2. 0 \in T
  BY <1>1 DEF Sinks, Rearranged
<1>3. ASSUME NEW k \in Nat, k \in T PROVE k + 1 \in T
  <2> SUFFICES ASSUME k + 1 <= n PROVE Rearranged(s[k + 1].heap, h, E, n)
    OBVIOUS
  <2>1. k \in 0 .. n /\ k + 1 \in 1 .. n /\ k + 1 - 1 = k
    OBVIOUS
  <2>2. s[k] \in Sinking(E, n) /\ s[k + 1] = Sink(s[k])
    BY <1>1, <2>1 DEF Sinks
  <2>3. Rearranged(s[k + 1].heap, s[k].heap, E, n)
    BY <2>2, SinkKeeps
  <2>4. Rearranged(s[k].heap, h, E, n)
    BY <1>3, <2>1
  <2> QED BY <2>3, <2>4 DEF Rearranged
<1> HIDE DEF T
<1>4. n \in T
  BY <1>2, <1>3, SetInduction
<1> QED
  BY <1>1, <1>4 DEF T

\* The part of a heap under lo and those after it is in order.
OrderedFrom(h, lo) ==
  \A j \in 2 .. Len(h) : Parent(j) >= lo => Prio(h, Parent(j)) <= Prio(h, j)

\* It is, apart from the entry at i, which may belong further down.
OrderedBut(h, i, lo) ==
  \A j \in 2 .. Len(h) :
    /\ Parent(j) >= lo /\ Parent(j) # i => Prio(h, Parent(j)) <= Prio(h, j)
    /\ Parent(j) = i /\ Parent(i) >= lo => Prio(h, Parent(i)) <= Prio(h, j)

\* A turn of the loop: the entry is in place, or has come one down.
LEMMA SinkOrders ==
  ASSUME NEW E, Keyed(E), NEW n \in Nat, NEW s \in Sinking(E, n), NEW lo \in Nat \ {0},
         OrderedBut(s.heap, s.i, lo), s.i >= lo
  PROVE  /\ Sink(s) = s => OrderedFrom(s.heap, lo)
         /\ OrderedBut(Sink(s).heap, Sink(s).i, lo) /\ Sink(s).i >= lo
<1> DEFINE h == s.heap
           i == s.i
           j == largest(h, i)
           g == Swapped(h, i, j)
<1>1. h \in [1 .. n -> E] /\ i \in Nat \ {0} /\ Len(h) = n
  BY DEF Sinking
<1>2. /\ j = i \/ (j \in {2 * i, 2 * i + 1} /\ i < j /\ j <= n)
      /\ j # i => Prio(h, j) < Prio(h, i)
      /\ \A m \in {2 * i, 2 * i + 1} : m <= n => Prio(h, j) <= Prio(h, m)
  BY <1>1, LargestIs
<1>3. OrderedBut(h, i, lo) /\ i >= lo
  OBVIOUS
<1>4. Sink(s) = IF j = i THEN s ELSE [heap |-> g, i |-> j]
  BY DEF Sink
<1>5. \A m \in 1 .. n : Prio(h, m) \in Int
  BY <1>1 DEF Keyed, Prio
<1> HIDE DEF h, i, j
<1>6. CASE j = i
  <2>1. Sink(s) = s
    BY <1>4, <1>6
  <2>2. OrderedFrom(h, lo)
    <3> SUFFICES ASSUME NEW m \in 2 .. Len(h), Parent(m) >= lo
                 PROVE  Prio(h, Parent(m)) <= Prio(h, m)
      BY DEF OrderedFrom
    <3>1. CASE Parent(m) = i
      <4>1. m \in {2 * i, 2 * i + 1} /\ m <= n
        BY <1>1, <3>1, ParentIs
      <4> QED BY <1>2, <1>6, <3>1, <4>1
    <3>2. CASE Parent(m) # i
      BY <1>3, <3>2 DEF OrderedBut
    <3> QED BY <3>1, <3>2
  <2> QED BY <1>3, <2>1, <2>2 DEF h, i
<1>7. CASE j # i
  <2>1. j \in 1 .. n /\ i \in 1 .. n /\ i < j /\ Parent(j) = i /\ j \in 2 .. n
    BY <1>1, <1>2, <1>7, ParentIs
  <2>2. /\ Prio(g, i) = Prio(h, j) /\ Prio(g, j) = Prio(h, i)
        /\ \A m \in 1 .. n : m # i /\ m # j => Prio(g, m) = Prio(h, m)
    BY <1>1, <2>1 DEF Swapped, Prio
  <2>3. Len(g) = n
    BY <1>1 DEF Swapped
  <2> HIDE DEF g
  <2>4. ASSUME NEW m \in 2 .. n, Parent(m) >= lo, Parent(m) # j
        PROVE  Prio(g, Parent(m)) <= Prio(g, m)
    <3>1. Parent(m) \in 1 .. n /\ Parent(m) < m /\ m \in 1 .. n
      BY <2>4, ParentIs
    <3>2. CASE Parent(m) = i
      <4>1. m \in {2 * i, 2 * i + 1} /\ m # i
        BY <1>1, <3>1, <3>2, ParentIs
      <4>2. Prio(h, j) <= Prio(h, m)
        BY <1>2, <4>1
      <4> QED BY <1>2, <1>5, <1>7, <2>1, <2>2, <3>1, <3>2, <4>1, <4>2
    <3>3. CASE m = i
      <4>1. Prio(h, Parent(i)) <= Prio(h, j)
        BY <1>1, <1>3, <2>1, <2>4, <3>3 DEF OrderedBut
      <4> QED BY <2>2, <2>4, <3>1, <3>3, <4>1
    <3>4. CASE Parent(m) # i /\ m # i
      <4>1. m # j
        BY <2>1, <3>4
      <4>2. Prio(h, Parent(m)) <= Prio(h, m)
        BY <1>1, <1>3, <2>4, <3>4 DEF OrderedBut
      <4> QED BY <2>2, <2>4, <3>1, <3>4, <4>1, <4>2
    <3> QED BY <3>2, <3>3, <3>4
  <2>5. ASSUME NEW m \in 2 .. n, Parent(m) = j
        PROVE  Prio(g, Parent(j)) <= Prio(g, m)
    <3>1. m \in 1 .. n /\ m # j /\ m # i /\ j >= lo
      BY <1>1, <1>3, <2>1, <2>5, ParentIs
    <3>2. Prio(h, j) <= Prio(h, m)
      BY <1>1, <1>3, <1>7, <2>5, <3>1 DEF OrderedBut
    <3> QED BY <2>1, <2>2, <3>1, <3>2
  <2>6. OrderedBut(g, j, lo)
    BY <2>3, <2>4, <2>5 DEF OrderedBut
  <2>7. Sink(s) = [heap |-> g, i |-> j] /\ Sink(s) # s /\ j >= lo
    <3>1. Sink(s) = [heap |-> g, i |-> j]
      BY <1>4, <1>7 DEF g
    <3>2. Sink(s).i = j /\ s.i # j
      BY <1>7, <3>1 DEF i
    <3> QED BY <1>1, <1>3, <2>1, <3>1, <3>2
  <2> QED BY <2>6, <2>7
<1> QED
  BY <1>6, <1>7

\* heapify puts an entry that may belong further down in its place.
LEMMA HeapifyOrders ==
  ASSUME NEW E, Keyed(E), NEW n \in Nat, NEW h \in [1 .. n -> E], NEW i \in Nat \ {0},
         NEW lo \in Nat \ {0}, OrderedBut(h, i, lo), i >= lo
  PROVE  OrderedFrom(heapify(h, i), lo)
<1>1. PICK s : Sinks(s, h, i, E, n) /\ heapify(h, i) = s[n].heap
  BY HeapifyRuns
<1> DEFINE Near(k) == /\ OrderedBut(s[k].heap, s[k].i, lo) /\ s[k].i >= lo
                      /\ s[k].i > k \/ Sink(s[k]) = s[k]
           T == {k \in Nat : k <= n => Near(k)}
<1>2. 0 \in T
  BY <1>1 DEF Sinks
<1>3. ASSUME NEW k \in Nat, k \in T PROVE k + 1 \in T
  <2> SUFFICES ASSUME k + 1 <= n PROVE Near(k + 1)
    OBVIOUS
  <2>1. k \in 0 .. n /\ k + 1 \in 1 .. n /\ k + 1 - 1 = k
    OBVIOUS
  <2>2. s[k] \in Sinking(E, n) /\ s[k + 1] = Sink(s[k]) /\ s[k + 1] \in Sinking(E, n)
    BY <1>1, <2>1 DEF Sinks
  <2>3. Near(k)
    BY <1>3, <2>1
  <2>4. OrderedBut(s[k + 1].heap, s[k + 1].i, lo) /\ s[k + 1].i >= lo
    BY <2>2, <2>3, SinkOrders
  <2>5. s[k + 1] = s[k] \/ s[k + 1].i > s[k].i
    BY <2>2, SinkKeeps
  <2>6. s[k].i \in Nat /\ s[k + 1].i \in Nat
    BY <2>2 DEF Sinking
  <2>7. s[k + 1].i > k + 1 \/ Sink(s[k + 1]) = s[k + 1]
    BY <2>2, <2>3, <2>5, <2>6
  <2> QED BY <2>4, <2>7
<1> HIDE DEF T
<1>4. n \in T
  BY <1>2, <1>3, SetInduction
<1>5. Near(n)
  BY <1>4 DEF T
<1>6. s[n] \in Sinking(E, n)
  BY <1>1 DEF Sinks
<1>7. Sink(s[n]) = s[n]
  BY <1>5, <1>6, SinkKeeps
<1> QED
  BY <1>1, <1>5, <1>6, <1>7, SinkOrders

-----------------------------------------------------------------------------
Rising(E, n) == [heap : [1 .. n -> E], i : 1 .. n]

\* A turn of the loop of heap_insert loses nothing, and the entry goes up or stays.
LEMMA RiseKeeps ==
  ASSUME NEW E, NEW n \in Nat \ {0}, NEW s \in Rising(E, n)
  PROVE  /\ Rise(s) \in Rising(E, n)
         /\ Rearranged(Rise(s).heap, s.heap, E, n)
         /\ Rise(s) = s \/ Rise(s).i < s.i
         /\ s.i = 1 => Rise(s) = s
<1> DEFINE p == Parent(s.i)
<1>1. s.heap \in [1 .. n -> E] /\ s.i \in 1 .. n /\ (s.i > 1 => p \in 1 .. n /\ p < s.i)
  BY ParentIs DEF Rising, Parent
<1> HIDE DEF p
<1>2. CASE Rise(s) = s
  BY <1>1, <1>2 DEF Rearranged
<1>3. CASE Rise(s) # s
  <2>1. Rise(s) = [heap |-> Swapped(s.heap, s.i, p), i |-> p] /\ s.i > 1
    BY <1>3 DEF Rise, p
  <2>2. Rearranged(Swapped(s.heap, s.i, p), s.heap, E, n)
    BY <1>1, <2>1, SwappedKeeps
  <2> QED BY <1>1, <2>1, <2>2 DEF Rising, Rearranged
<1> QED
  BY <1>2, <1>3

\* What Append makes of a sequence of a known length.
Extends(g, h, e, E, m) ==
  /\ g \in [1 .. m + 1 -> E]
  /\ g[m + 1] = e /\ \A i \in 1 .. m : g[i] = h[i]

\* What Append makes of a heap.
LEMMA AppendIs ==
  ASSUME NEW E, NEW m \in Nat, NEW h \in [1 .. m -> E], NEW e \in E
  PROVE  Extends(Append(h, e), h, e, E, m)
<1> DEFINE g == Append(h, e)
<1>1. h \in Seq(E) /\ Len(h) = m
  OBVIOUS
<1>2. g \in Seq(E) /\ Len(g) = m + 1 /\ g[m + 1] = e /\ \A i \in 1 .. m : g[i] = h[i]
  BY <1>1, AppendProperties
<1> HIDE DEF g
<1>3. g \in [1 .. m + 1 -> E]
  BY <1>2
<1> QED
  BY <1>2, <1>3 DEF Extends, g

\* The loop of heap_insert: its states, from that in which the entry is at the end.
Rises(s, h, E, n) ==
  /\ s \in [0 .. n - 1 -> Rising(E, n)]
  /\ s[0] = [heap |-> h, i |-> n]
  /\ \A k \in 1 .. n - 1 : s[k] = Rise(s[k - 1])

\* The loop of heap_insert runs and ends.
LEMMA InsertRuns ==
  ASSUME NEW E, NEW m \in Nat, NEW h \in [1 .. m -> E], NEW e \in E, NEW length, ~HeapFull(h, length)
  PROVE  \E s : Rises(s, Append(h, e), E, m + 1) /\ heap_insert(h, e, length) = s[m].heap
<1> DEFINE n == m + 1
           x == [heap |-> Append(h, e), i |-> n]
           S == Rising(E, n)
           F == [p \in S \X Nat |-> Rise(p[1])]
           Value(g, k) == IF k = 0 THEN x ELSE Rise(g[k - 1])
           it == CHOOSE g : g = [k \in 0 .. m |-> Value(g, k)]
<1>1. x \in S
  <2>1. n \in 1 .. n
    OBVIOUS
  <2>2. Extends(Append(h, e), h, e, E, m)
    BY AppendIs
  <2> QED BY <2>1, <2>2 DEF Rising, Extends
<1>2. F \in [S \X Nat -> S]
  <2>1. n \in Nat \ {0}
    OBVIOUS
  <2> HIDE DEF n
  <2> QED BY <2>1, RiseKeeps
<1>3. Len(h) = m
  OBVIOUS
<1>4. heap_insert(h, e, length) = it[m].heap
  BY <1>3 DEF heap_insert
<1>5. \E g : g = [k \in 0 .. m |-> Value(g, k)]
  <2> HIDE DEF x, S, F
  <2>1. PICK f \in [0 .. m -> S] : Iterates(f, x, F, m)
    BY <1>1, <1>2, IterationExists
  <2>2. ASSUME NEW k \in 1 .. m PROVE f[k] = Rise(f[k - 1])
    <3>1. k - 1 \in 0 .. m /\ k \in Nat
      OBVIOUS
    <3>2. f[k - 1] \in S
      BY <2>1, <3>1
    <3>3. <<f[k - 1], k>> \in S \X Nat
      BY <3>1, <3>2
    <3>4. f[k] = F[<<f[k - 1], k>>]
      BY <2>1 DEF Iterates
    <3> QED BY <3>3, <3>4 DEF F
  <2>3. f[0] = x
    BY <2>1 DEF Iterates
  <2>4. \A k \in 0 .. m : f[k] = Value(f, k)
    BY <2>2, <2>3
  <2>5. f = [k \in 0 .. m |-> f[k]]
    BY <2>1
  <2> HIDE DEF Value
  <2>6. f = [k \in 0 .. m |-> Value(f, k)]
    BY <2>4, <2>5
  <2> QED BY <2>6
<1> HIDE DEF Value
<1>6. it = [k \in 0 .. m |-> Value(it, k)]
  BY <1>5
<1> HIDE DEF it
<1>7. \A k \in 0 .. m : it[k] = Value(it, k)
  BY <1>6, Zenon
<1>8. it[0] = x /\ \A k \in 1 .. m : it[k] = Rise(it[k - 1])
  <2>1. 0 \in 0 .. m
    OBVIOUS
  <2>2. \A k \in 1 .. m : k \in 0 .. m /\ k # 0
    OBVIOUS
  <2> QED BY <1>7, <2>1, <2>2 DEF Value
<1>9. \A k \in 0 .. m : it[k] \in S
  <2>1. \A k \in 1 .. m : it[k - 1] \in S => it[k] \in S
    <3>1. n \in Nat \ {0}
      OBVIOUS
    <3> HIDE DEF n
    <3> QED BY <1>8, <3>1, RiseKeeps
  <2>2. it[0] \in S
    BY <1>1, <1>8
  <2> HIDE DEF S, x
  <2> QED BY <2>1, <2>2, IterationStays
<1>10. it \in [0 .. m -> S]
  <2>1. it = [k \in 0 .. m |-> it[k]]
    BY <1>6, <1>7, Zenon
  <2> HIDE DEF S
  <2> QED BY <1>9, <2>1
<1>11. n - 1 = m
  OBVIOUS
<1> HIDE DEF n
<1> QED
  BY <1>4, <1>8, <1>10, <1>11 DEF Rises, n

\* The heap is in order, apart from the entry at i, which may belong further up.
OrderedUpTo(h, i) ==
  \A j \in 2 .. Len(h) :
    /\ j # i => Prio(h, Parent(j)) <= Prio(h, j)
    /\ Parent(j) = i /\ i > 1 => Prio(h, Parent(i)) <= Prio(h, j)

\* A turn of the loop: the entry is in place, or has come one up.
LEMMA RiseOrders ==
  ASSUME NEW E, Keyed(E), NEW n \in Nat \ {0}, NEW s \in Rising(E, n), OrderedUpTo(s.heap, s.i)
  PROVE  /\ Rise(s) = s => Ordered(s.heap)
         /\ OrderedUpTo(Rise(s).heap, Rise(s).i)
<1> DEFINE h == s.heap
           i == s.i
           q == Parent(i)
           g == Swapped(h, i, q)
<1>1. h \in [1 .. n -> E] /\ i \in 1 .. n /\ Len(h) = n
  BY DEF Rising
<1>2. i > 1 => q \in 1 .. n /\ q < i
  BY <1>1, ParentIs DEF Parent
<1>3. OrderedUpTo(h, i)
  OBVIOUS
<1>4. \A m \in 1 .. n : Prio(h, m) \in Int
  BY <1>1 DEF Keyed, Prio
<1>5. Rise(s) = IF i > 1 /\ Prio(h, q) > Prio(h, i) THEN [heap |-> g, i |-> q] ELSE s
  BY DEF Rise
<1> HIDE DEF h, i
<1>6. CASE ~(i > 1 /\ Prio(h, q) > Prio(h, i))
  <2>1. Rise(s) = s
    BY <1>5, <1>6
  <2>2. Ordered(h)
    <3> SUFFICES ASSUME NEW m \in 2 .. n PROVE Prio(h, Parent(m)) <= Prio(h, m)
      BY <1>1 DEF Ordered
    <3>1. CASE m = i
      BY <1>1, <1>2, <1>4, <1>6, <3>1
    <3>2. CASE m # i
      BY <1>1, <1>3, <3>2 DEF OrderedUpTo
    <3> QED BY <3>1, <3>2
  <2> QED BY <1>3, <2>1, <2>2 DEF h, i
<1>7. CASE i > 1 /\ Prio(h, q) > Prio(h, i)
  <2>1. Rise(s) = [heap |-> g, i |-> q] /\ q \in 1 .. n /\ q < i /\ i \in 2 .. n
    BY <1>1, <1>2, <1>5, <1>7
  <2>2. Rise(s) # s
    BY <1>1, <2>1 DEF i
  <2>3. /\ Prio(g, i) = Prio(h, q) /\ Prio(g, q) = Prio(h, i)
        /\ \A m \in 1 .. n : m # i /\ m # q => Prio(g, m) = Prio(h, m)
    BY <1>1, <2>1 DEF Swapped, Prio
  <2>4. Len(g) = n
    BY <1>1 DEF Swapped
  <2>5. Parent(i) = q
    OBVIOUS
  <2> HIDE DEF g, q
  <2>6. ASSUME NEW m \in 2 .. n, m # q
        PROVE  Prio(g, Parent(m)) <= Prio(g, m)
    <3>1. Parent(m) \in 1 .. n /\ Parent(m) < m /\ m \in 1 .. n
      BY ParentIs DEF Parent
    <3>2. CASE m = i
      BY <1>4, <1>7, <2>1, <2>3, <2>5, <3>1, <3>2
    <3>3. CASE m # i /\ Parent(m) = i
      <4>1. Prio(h, q) <= Prio(h, m)
        BY <1>1, <1>3, <1>7, <2>5, <3>3 DEF OrderedUpTo
      <4> QED BY <2>3, <2>6, <3>1, <3>3, <4>1
    <3>4. CASE m # i /\ Parent(m) = q
      <4>1. Prio(h, q) <= Prio(h, m)
        BY <1>1, <1>3, <3>4 DEF OrderedUpTo
      <4> QED BY <1>4, <1>7, <2>1, <2>3, <2>6, <3>1, <3>4, <4>1
    <3>5. CASE m # i /\ Parent(m) # i /\ Parent(m) # q
      <4>1. Prio(h, Parent(m)) <= Prio(h, m)
        BY <1>1, <1>3, <3>5 DEF OrderedUpTo
      <4> QED BY <2>3, <2>6, <3>1, <3>5, <4>1
    <3> QED BY <3>2, <3>3, <3>4, <3>5
  <2>7. ASSUME NEW m \in 2 .. n, Parent(m) = q, q > 1
        PROVE  Prio(g, Parent(q)) <= Prio(g, m)
    <3>1. Parent(q) \in 1 .. n /\ Parent(q) < q /\ q \in 2 .. n /\ m \in 1 .. n
      BY <2>1, <2>7, ParentIs DEF Parent
    <3>2. Prio(h, Parent(q)) <= Prio(h, q)
      BY <1>1, <1>3, <2>1, <3>1 DEF OrderedUpTo
    <3>3. Prio(g, Parent(q)) = Prio(h, Parent(q))
      BY <2>1, <2>3, <3>1
    <3>4. CASE m = i
      BY <2>3, <3>2, <3>3, <3>4
    <3>5. CASE m # i
      <4>1. Prio(h, q) <= Prio(h, m)
        BY <1>1, <1>3, <2>7, <3>5 DEF OrderedUpTo
      <4>2. m # q
        BY <2>7, ParentIs
      <4> QED BY <1>4, <2>1, <2>3, <3>1, <3>2, <3>3, <3>5, <4>1, <4>2
    <3> QED BY <3>4, <3>5
  <2>8. OrderedUpTo(g, q)
    BY <2>4, <2>6, <2>7 DEF OrderedUpTo
  <2> QED BY <2>1, <2>2, <2>8
<1> QED
  BY <1>6, <1>7

\* One entry more.
HasOneMore(g, h, e) == \A x : Copies(g, x) = Copies(h, x) + IF x = e THEN 1 ELSE 0

At(h, x, n) == {i \in 1 .. n : h[i] = x}

Counted(h, x, n) ==
  IsFiniteSet(At(h, x, n)) /\ Copies(h, x) = Cardinality(At(h, x, n)) /\ Copies(h, x) \in Nat

\* The copies of x in a heap are a finite number.
LEMMA CopiesCounted ==
  ASSUME NEW E, NEW n \in Nat, NEW h \in [1 .. n -> E], NEW x
  PROVE  Counted(h, x, n)
<1>1. IsFiniteSet(At(h, x, n))
  BY FS_Interval, FS_Subset DEF At
<1>2. Copies(h, x) = Cardinality(At(h, x, n))
  BY DEF At, Copies
<1> QED
  BY <1>1, <1>2, FS_CardinalityType DEF Counted

\* A heap with an entry appended has it once more, and no other.
LEMMA AppendCopies ==
  ASSUME NEW E, NEW m \in Nat, NEW h \in [1 .. m -> E], NEW e \in E
  PROVE  HasOneMore(Append(h, e), h, e)
<1> DEFINE g == Append(h, e)
<1>1. Extends(g, h, e, E, m) /\ m + 1 \in Nat
  BY AppendIs
<1> HIDE DEF g
<1>2. ASSUME NEW x PROVE Copies(g, x) = Copies(h, x) + IF x = e THEN 1 ELSE 0
  <2> DEFINE A == At(h, x, m)
             B == At(g, x, m + 1)
  <2>1. Counted(h, x, m)
    BY CopiesCounted
  <2>2. Counted(g, x, m + 1)
    BY <1>1, CopiesCounted DEF Extends
  <2>3. B = IF x = e THEN A \cup {m + 1} ELSE A
    BY <1>1 DEF Extends, At
  <2>4. m + 1 \notin A
    BY DEF At
  <2> HIDE DEF A, B
  <2>5. IsFiniteSet(A) /\ Cardinality(A) \in Nat
    BY <2>1 DEF Counted, A
  <2>6. Cardinality(A \cup {m + 1}) = Cardinality(A) + 1
    BY <2>4, <2>5, FS_AddElement
  <2>7. Cardinality(B) = Cardinality(A) + IF x = e THEN 1 ELSE 0
    BY <2>3, <2>5, <2>6
  <2> QED BY <2>1, <2>2, <2>7 DEF Counted, A, B
<1> QED
  BY <1>2 DEF HasOneMore, g

\* heap_insert adds its entry and loses nothing.
LEMMA InsertKeeps ==
  ASSUME NEW E, NEW m \in Nat, NEW h \in [1 .. m -> E], NEW e \in E, NEW length, ~HeapFull(h, length)
  PROVE  /\ heap_insert(h, e, length) \in [1 .. m + 1 -> E]
         /\ HasOneMore(heap_insert(h, e, length), h, e)
<1> DEFINE a == Append(h, e)
           n == m + 1
           P == {s \in Rising(E, n) : Rearranged(s.heap, a, E, n)}
<1>1. PICK s : Rises(s, a, E, n) /\ heap_insert(h, e, length) = s[m].heap
  BY InsertRuns
<1>2. n \in Nat \ {0} /\ n - 1 = m /\ a \in [1 .. n -> E]
  <2>1. Extends(a, h, e, E, m)
    BY AppendIs
  <2> QED BY <2>1 DEF Extends
<1> HIDE DEF a, n
<1>3. s[0] \in P
  BY <1>1, <1>2 DEF Rises, Rearranged
<1>4. ASSUME NEW k \in 1 .. m, s[k - 1] \in P PROVE s[k] \in P
  <2>1. s[k] = Rise(s[k - 1]) /\ s[k - 1] \in Rising(E, n)
    BY <1>1, <1>2, <1>4 DEF Rises
  <2>2. s[k] \in Rising(E, n) /\ Rearranged(s[k].heap, s[k - 1].heap, E, n)
    BY <1>2, <2>1, RiseKeeps
  <2> QED BY <1>4, <2>2 DEF Rearranged
<1> HIDE DEF P
<1>5. \A k \in 0 .. m : s[k] \in P
  BY <1>3, <1>4, IterationStays
<1>6. Rearranged(s[m].heap, a, E, n)
  BY <1>5 DEF P
<1>7. HasOneMore(a, h, e)
  BY AppendCopies DEF a
<1> QED
  BY <1>1, <1>6, <1>7 DEF Rearranged, HasOneMore, n

\* heap_insert keeps the order.
LEMMA InsertOrders ==
  ASSUME NEW E, Keyed(E), NEW m \in Nat, NEW h \in [1 .. m -> E], NEW e \in E, NEW length,
         ~HeapFull(h, length), Ordered(h)
  PROVE  Ordered(heap_insert(h, e, length))
<1> DEFINE a == Append(h, e)
           n == m + 1
           Near(k, s) == s.i <= n - k \/ Rise(s) = s
           P == {p \in Rising(E, n) \X Nat : OrderedUpTo(p[1].heap, p[1].i) /\ Near(p[2], p[1])}
<1>1. PICK s : Rises(s, a, E, n) /\ heap_insert(h, e, length) = s[m].heap
  BY InsertRuns
<1>2. /\ n \in Nat \ {0} /\ n - 1 = m /\ a \in [1 .. n -> E] /\ Len(h) = m /\ Len(a) = n
      /\ Extends(a, h, e, E, m)
  <2>1. Extends(a, h, e, E, m)
    BY AppendIs
  <2> HIDE DEF a
  <2> QED BY <2>1 DEF Extends
<1>3. OrderedUpTo(a, n)
  <2> SUFFICES ASSUME NEW j \in 2 .. n
               PROVE  /\ j # n => Prio(a, Parent(j)) <= Prio(a, j)
                      /\ Parent(j) = n /\ n > 1 => Prio(a, Parent(n)) <= Prio(a, j)
    BY <1>2 DEF OrderedUpTo
  <2>1. Parent(j) < j /\ Parent(j) \in 1 .. n
    BY ParentIs DEF Parent
  <2>2. CASE j # n
    <3>1. j \in 2 .. m /\ j \in 1 .. m /\ Parent(j) \in 1 .. m
      BY <2>1, <2>2
    <3>2. Prio(h, Parent(j)) <= Prio(h, j)
      BY <1>2, <3>1 DEF Ordered
    <3>3. a[j] = h[j] /\ a[Parent(j)] = h[Parent(j)]
      BY <1>2, <3>1 DEF Extends
    <3> QED BY <2>1, <3>1, <3>2, <3>3 DEF Prio
  <2>3. CASE j = n
    BY <2>1, <2>3
  <2> QED BY <2>2, <2>3
<1> HIDE DEF a
<1> DEFINE f == [k \in 0 .. m |-> <<s[k], k>>]
<1>4. f[0] \in P
  <2>1. s[0] = [heap |-> a, i |-> n] /\ s[0] \in Rising(E, n)
    BY <1>1, <1>2 DEF Rises
  <2> QED BY <1>3, <2>1
<1>5. ASSUME NEW k \in 1 .. m, f[k - 1] \in P PROVE f[k] \in P
  <2>1. f[k] = <<s[k], k>> /\ f[k - 1] = <<s[k - 1], k - 1>>
    OBVIOUS
  <2>2. s[k] = Rise(s[k - 1]) /\ s[k - 1] \in Rising(E, n)
    BY <1>1, <1>2 DEF Rises
  <2>3. OrderedUpTo(s[k - 1].heap, s[k - 1].i) /\ Near(k - 1, s[k - 1])
    BY <1>5, <2>1
  <2>4. s[k] \in Rising(E, n) /\ (s[k] = s[k - 1] \/ s[k].i < s[k - 1].i)
    BY <1>2, <2>2, RiseKeeps
  <2>5. OrderedUpTo(s[k].heap, s[k].i)
    BY <1>2, <2>2, <2>3, RiseOrders
  <2>6. s[k].i \in 1 .. n /\ s[k - 1].i \in 1 .. n
    BY <2>2, <2>4 DEF Rising
  <2>7. Near(k, s[k])
    BY <1>2, <2>2, <2>3, <2>4, <2>6
  <2> QED BY <2>1, <2>4, <2>5, <2>7
<1> HIDE DEF P, f
<1>6. \A k \in 0 .. m : f[k] \in P
  BY <1>4, <1>5, IterationStays
<1>7. <<s[m], m>> \in P
  BY <1>6 DEF f
<1>8. s[m] \in Rising(E, n) /\ OrderedUpTo(s[m].heap, s[m].i) /\ Near(m, s[m])
  BY <1>7 DEF P
<1>9. Rise(s[m]) = s[m]
  <2>1. s[m].i \in 1 .. n
    BY <1>8 DEF Rising
  <2>2. s[m].i <= n - m => s[m].i = 1
    <3>1. n - m = 1
      BY <1>2
    <3>2. \A i \in 1 .. n : i <= 1 => i = 1
      BY <1>2
    <3> QED BY <2>1, <3>1, <3>2
  <2>3. s[m].i = 1 => Rise(s[m]) = s[m]
    BY <1>2, <1>8, RiseKeeps
  <2> QED BY <1>8, <2>2, <2>3
<1> QED
  BY <1>1, <1>2, <1>8, <1>9, RiseOrders

-----------------------------------------------------------------------------
LastMoved(g, h, i, E, n) ==
  g \in [1 .. n - 1 -> E] /\ \A j \in 1 .. n - 1 : g[j] = IF j = i THEN h[n] ELSE h[j]

\* Where the last entry takes the place of another, that one is gone and no other.
LEMMA WithLastKeeps ==
  ASSUME NEW E, NEW n \in Nat \ {0}, NEW h \in [1 .. n -> E], NEW i \in 1 .. n
  PROVE  LastMoved(WithLastAt(h, i), h, i, E, n) /\ HasOneMore(h, WithLastAt(h, i), h[i])
<1> DEFINE g == WithLastAt(h, i)
           f == [h EXCEPT ![i] = h[n]]
<1>1. f \in [1 .. n -> E] /\ f \in Seq(E) /\ Len(f) = n /\ n \in 1 .. n
  OBVIOUS
<1>2. /\ g \in [1 .. n - 1 -> E]
      /\ \A j \in 1 .. n - 1 : g[j] = IF j = i THEN h[n] ELSE h[j]
  <2>1. g = SubSeq(f, 1, n - 1)
    BY DEF WithLastAt
  <2>2. g = [j \in 1 .. n - 1 |-> f[j]]
    <3> HIDE DEF f
    <3> QED BY <1>1, <2>1
  <2>3. \A j \in 1 .. n - 1 : f[j] = IF j = i THEN h[n] ELSE h[j]
    OBVIOUS
  <2>4. \A j \in 1 .. n - 1 : f[j] \in E
    BY <1>1
  <2> HIDE DEF f, g
  <2> QED BY <2>2, <2>3, <2>4
<1> HIDE DEF g, f
<1>3. ASSUME NEW x PROVE Copies(h, x) = Copies(g, x) + IF x = h[i] THEN 1 ELSE 0
  <2> DEFINE A == At(h, x, n)
             C == A \ {i}
             B == At(g, x, n - 1)
             p == [j \in B |-> IF j = i THEN n ELSE j]
  <2>1. Counted(h, x, n)
    BY CopiesCounted
  <2>2. Counted(g, x, n - 1)
    <3>1. n - 1 \in Nat
      OBVIOUS
    <3> QED BY <1>2, <3>1, CopiesCounted
  <2>3. p \in [B -> C]
    BY <1>2 DEF At
  <2>4. \A j, k \in B : p[j] = p[k] => j = k
    BY DEF At
  <2>5. \A k \in C : \E j \in B : p[j] = k
    <3> SUFFICES ASSUME NEW k \in C PROVE \E j \in B : p[j] = k
      OBVIOUS
    <3> DEFINE j == IF k = n THEN i ELSE k
    <3>1. j \in B /\ p[j] = k
      BY <1>2 DEF At
    <3> QED BY <3>1
  <2>6. Cardinality(C) = IF x = h[i] THEN Cardinality(A) - 1 ELSE Cardinality(A)
    <3>1. i \in A <=> x = h[i]
      BY DEF At
    <3>2. IsFiniteSet(A)
      BY <2>1 DEF Counted
    <3> HIDE DEF A
    <3> QED BY <3>1, <3>2, FS_RemoveElement
  <2> HIDE DEF A, B, C, p
  <2>7. p \in Bijection(B, C)
    BY <2>3, <2>4, <2>5 DEF Bijection, Injection, Surjection, IsInjective
  <2>8. ExistsBijection(B, C)
    BY <2>7 DEF ExistsBijection
  <2>9. Cardinality(C) = Cardinality(B)
    BY <2>2, <2>8, FS_Bijection DEF Counted, B
  <2> QED BY <2>1, <2>2, <2>6, <2>9 DEF Counted, A, B
<1> QED
  BY <1>2, <1>3 DEF HasOneMore, LastMoved, g

\* Then only that entry is out of place, and only downwards, unless it belongs above.
LEMMA WithLastOrders ==
  ASSUME NEW E, Keyed(E), NEW n \in Nat \ {0}, NEW h \in [1 .. n -> E], NEW i \in 1 .. n,
         Ordered(h), i = 1 \/ Prio(h, n) >= Prio(h, Parent(i))
  PROVE  OrderedBut(WithLastAt(h, i), i, 1)
<1> DEFINE g == WithLastAt(h, i)
<1>1. g \in [1 .. n - 1 -> E] /\ \A j \in 1 .. n - 1 : g[j] = IF j = i THEN h[n] ELSE h[j]
  <2>1. LastMoved(g, h, i, E, n)
    BY WithLastKeeps
  <2> HIDE DEF g
  <2> QED BY <2>1 DEF LastMoved
<1>2. Len(g) = n - 1 /\ Len(h) = n
  BY <1>1
<1>3. \A j \in 1 .. n : Prio(h, j) \in Int
  BY DEF Keyed, Prio
<1> HIDE DEF g
<1> SUFFICES ASSUME NEW j \in 2 .. n - 1
             PROVE  /\ Parent(j) >= 1 /\ Parent(j) # i => Prio(g, Parent(j)) <= Prio(g, j)
                    /\ Parent(j) = i /\ Parent(i) >= 1 => Prio(g, Parent(i)) <= Prio(g, j)
  BY <1>2 DEF OrderedBut, g
<1>4. Parent(j) \in 1 .. n - 1 /\ Parent(j) < j /\ j \in 1 .. n - 1 /\ j \in 2 .. n
  BY ParentIs DEF Parent
<1>5. Prio(h, Parent(j)) <= Prio(h, j)
  BY <1>2, <1>4 DEF Ordered
<1>6. ASSUME Parent(j) # i PROVE Prio(g, Parent(j)) <= Prio(g, j)
  <2>1. Prio(g, Parent(j)) = Prio(h, Parent(j))
    BY <1>1, <1>4, <1>6 DEF Prio
  <2>2. CASE j = i
    BY <1>1, <1>4, <2>1, <2>2 DEF Prio
  <2>3. CASE j # i
    BY <1>1, <1>4, <1>5, <2>1, <2>3 DEF Prio
  <2> QED BY <2>2, <2>3
<1>7. ASSUME Parent(j) = i, Parent(i) >= 1 PROVE Prio(g, Parent(i)) <= Prio(g, j)
  <2>1. i \in 2 .. n /\ Parent(i) \in 1 .. n - 1 /\ Parent(i) # i /\ j # i
    BY <1>4, <1>7, ParentIs DEF Parent
  <2>2. Prio(h, Parent(i)) <= Prio(h, i)
    BY <1>2, <2>1 DEF Ordered
  <2>3. Prio(g, Parent(i)) = Prio(h, Parent(i)) /\ Prio(g, j) = Prio(h, j)
    BY <1>1, <1>4, <2>1 DEF Prio
  <2>4. Parent(i) \in 1 .. n /\ i \in 1 .. n /\ j \in 1 .. n
    BY <1>4, <2>1
  <2> QED BY <1>3, <1>5, <1>7, <2>2, <2>3, <2>4
<1> QED
  BY <1>6, <1>7

\* The first entry of a heap in order has the lowest priority.
LEMMA FirstIsLowest ==
  ASSUME NEW E, Keyed(E), NEW n \in Nat, NEW h \in [1 .. n -> E], Ordered(h)
  PROVE  \A i \in 1 .. n : Prio(h, 1) <= Prio(h, i)
<1> DEFINE T == {i \in 1 .. n : ~(Prio(h, 1) <= Prio(h, i))}
<1> SUFFICES ASSUME T # {} PROVE FALSE
  OBVIOUS
<1>1. PICK i \in T : \A j \in T : i <= j
  <2>1. T \in SUBSET Nat
    OBVIOUS
  <2> HIDE DEF T
  <2> QED BY <2>1, LeastExists
<1>2. \A j \in 1 .. n : Prio(h, j) \in Int
  BY DEF Keyed, Prio
<1>3. i \in 2 .. n /\ 1 \in 1 .. n
  BY <1>1, <1>2
<1>4. Parent(i) \in 1 .. n /\ Parent(i) < i
  BY <1>3, ParentIs DEF Parent
<1>5. Prio(h, 1) <= Prio(h, Parent(i))
  BY <1>1, <1>4
<1>6. Prio(h, Parent(i)) <= Prio(h, i)
  BY <1>3 DEF Ordered
<1> QED
  BY <1>1, <1>2, <1>3, <1>4, <1>5, <1>6

\* The loop of build_heap runs and ends: its heaps, from the one it was given.
Builds(f, h, E, n) ==
  /\ f \in [0 .. n \div 2 -> [1 .. n -> E]]
  /\ f[0] = h
  /\ \A k \in 1 .. n \div 2 : f[k] = heapify(f[k - 1], n \div 2 + 1 - k)

LEMMA BuildRuns ==
  ASSUME NEW E, Keyed(E), NEW n \in Nat, NEW h \in [1 .. n -> E]
  PROVE  \E f : Builds(f, h, E, n) /\ build_heap(h) = f[n \div 2]
<1> DEFINE S == [1 .. n -> E]
           m == n \div 2
           F == [p \in S \X Nat |-> IF p[2] \in 1 .. m THEN heapify(p[1], m + 1 - p[2]) ELSE p[1]]
           Value(g, k) == IF k = 0 THEN h ELSE heapify(g[k - 1], m + 1 - k)
           it == CHOOSE g : g = [k \in 0 .. m |-> Value(g, k)]
<1>1. h \in S /\ m \in Nat /\ Len(h) = n
  OBVIOUS
<1>2. build_heap(h) = it[m]
  BY <1>1 DEF build_heap
<1> HIDE DEF m
<1>3. ASSUME NEW k \in 1 .. m, NEW g \in S PROVE heapify(g, m + 1 - k) \in S
  <2>1. m + 1 - k \in Nat \ {0}
    BY <1>1
  <2>2. Rearranged(heapify(g, m + 1 - k), g, E, n)
    BY <2>1, HeapifyKeeps
  <2> QED BY <2>2 DEF Rearranged
<1> HIDE DEF S
<1>4. F \in [S \X Nat -> S]
  BY <1>3
<1>5. \E g : g = [k \in 0 .. m |-> Value(g, k)]
  <2> HIDE DEF F
  <2>1. PICK f \in [0 .. m -> S] : Iterates(f, h, F, m)
    BY <1>1, <1>4, IterationExists
  <2>2. ASSUME NEW k \in 1 .. m PROVE f[k] = heapify(f[k - 1], m + 1 - k)
    <3>1. k - 1 \in 0 .. m /\ k \in Nat
      BY <1>1
    <3>2. f[k - 1] \in S
      BY <2>1, <3>1
    <3>3. <<f[k - 1], k>> \in S \X Nat
      BY <3>1, <3>2
    <3>4. f[k] = F[<<f[k - 1], k>>]
      BY <2>1 DEF Iterates
    <3> QED BY <3>3, <3>4 DEF F
  <2>3. f[0] = h
    BY <2>1 DEF Iterates
  <2>4. \A k \in 0 .. m : f[k] = Value(f, k)
    BY <1>1, <2>2, <2>3
  <2>5. f = [k \in 0 .. m |-> f[k]]
    BY <2>1
  <2> HIDE DEF Value
  <2>6. f = [k \in 0 .. m |-> Value(f, k)]
    BY <2>4, <2>5
  <2> QED BY <2>6
<1> HIDE DEF Value
<1>6. it = [k \in 0 .. m |-> Value(it, k)]
  BY <1>5
<1> HIDE DEF it
<1>7. \A k \in 0 .. m : it[k] = Value(it, k)
  BY <1>6, Zenon
<1>8. it[0] = h /\ \A k \in 1 .. m : it[k] = heapify(it[k - 1], m + 1 - k)
  <2>1. 0 \in 0 .. m
    BY <1>1
  <2>2. \A k \in 1 .. m : k \in 0 .. m /\ k # 0
    BY <1>1
  <2> QED BY <1>7, <2>1, <2>2 DEF Value
<1>9. \A k \in 0 .. m : it[k] \in S
  <2>1. \A k \in 1 .. m : it[k - 1] \in S => it[k] \in S
    BY <1>3, <1>8
  <2> QED BY <1>1, <1>8, <2>1, IterationStays
<1>10. it \in [0 .. m -> S]
  <2>1. it = [k \in 0 .. m |-> it[k]]
    BY <1>6, <1>7, Zenon
  <2> QED BY <1>9, <2>1
<1> QED
  BY <1>2, <1>8, <1>10 DEF Builds, S, m

\* build_heap makes a heap in order of any entries, and loses none.
LEMMA BuildRight ==
  ASSUME NEW E, Keyed(E), NEW n \in Nat, NEW h \in [1 .. n -> E]
  PROVE  Rearranged(build_heap(h), h, E, n) /\ Ordered(build_heap(h))
<1> DEFINE m == n \div 2
<1>1. PICK f : Builds(f, h, E, n) /\ build_heap(h) = f[m]
  BY BuildRuns
<1>2. m \in Nat /\ n < 2 * (m + 1)
  OBVIOUS
<1>3. f[0] = h /\ \A k \in 1 .. m : f[k] = heapify(f[k - 1], m + 1 - k)
  BY <1>1 DEF Builds
<1> HIDE DEF m
<1> DEFINE P == {p \in [1 .. n -> E] \X Nat : Rearranged(p[1], h, E, n) /\ OrderedFrom(p[1], m + 1 - p[2])}
           b == [k \in 0 .. m |-> <<f[k], k>>]
<1>4. b[0] \in P
  <2>1. OrderedFrom(h, m + 1)
    <3> SUFFICES ASSUME NEW j \in 2 .. n, Parent(j) >= m + 1 PROVE FALSE
      BY DEF OrderedFrom
    <3>1. j >= 2 * Parent(j) /\ Parent(j) \in Nat
      BY DEF Parent
    <3> QED BY <1>2, <3>1
  <2>2. b[0] = <<h, 0>>
    BY <1>2, <1>3
  <2>3. Rearranged(h, h, E, n)
    BY DEF Rearranged
  <2>4. m + 1 - 0 = m + 1 /\ 0 \in Nat
    BY <1>2
  <2> HIDE DEF b
  <2>5. <<h, 0>> \in P
    BY <2>1, <2>3, <2>4
  <2> QED BY <2>2, <2>5
<1>5. ASSUME NEW k \in 1 .. m, b[k - 1] \in P PROVE b[k] \in P
  <2> DEFINE g == f[k - 1]
             i == m + 1 - k
  <2>1. b[k] = <<f[k], k>> /\ b[k - 1] = <<g, k - 1>> /\ f[k] = heapify(g, i)
    BY <1>2, <1>3
  <2>2. i \in Nat \ {0} /\ m + 1 - (k - 1) = i + 1 /\ k \in Nat
    BY <1>2
  <2>3. g \in [1 .. n -> E] /\ Rearranged(g, h, E, n) /\ OrderedFrom(g, i + 1)
    <3> HIDE DEF b, g
    <3>1. OrderedFrom(g, m + 1 - (k - 1))
      BY <1>5, <2>1
    <3> QED BY <1>5, <2>1, <2>2, <3>1
  <2> HIDE DEF g, i
  <2>4. OrderedBut(g, i, i)
    <3> SUFFICES ASSUME NEW j \in 2 .. n
                 PROVE  /\ Parent(j) >= i /\ Parent(j) # i => Prio(g, Parent(j)) <= Prio(g, j)
                        /\ Parent(j) = i /\ Parent(i) >= i => Prio(g, Parent(i)) <= Prio(g, j)
      BY <2>3 DEF OrderedBut
    <3>1. Parent(j) \in Nat /\ Parent(i) < i /\ Parent(i) \in Nat
      BY <2>2, ParentIs
    <3>2. ASSUME Parent(j) >= i, Parent(j) # i PROVE Prio(g, Parent(j)) <= Prio(g, j)
      <4>1. Parent(j) >= i + 1
        BY <2>2, <3>1, <3>2
      <4> QED BY <2>3, <4>1 DEF OrderedFrom
    <3>3. ~(Parent(i) >= i)
      BY <2>2, <3>1
    <3> QED BY <3>2, <3>3
  <2>5. OrderedFrom(f[k], i)
    BY <2>1, <2>2, <2>3, <2>4, HeapifyOrders
  <2>6. Rearranged(f[k], g, E, n)
    BY <2>1, <2>2, <2>3, HeapifyKeeps
  <2>7. f[k] \in [1 .. n -> E] /\ Rearranged(f[k], h, E, n)
    BY <2>3, <2>6 DEF Rearranged
  <2> QED BY <2>1, <2>2, <2>5, <2>7 DEF i
<1> HIDE DEF P, b
<1>6. \A k \in 0 .. m : b[k] \in P
  BY <1>2, <1>4, <1>5, IterationStays
<1>7. <<f[m], m>> \in P
  BY <1>2, <1>6 DEF b
<1>8. f[m] \in [1 .. n -> E] /\ Rearranged(f[m], h, E, n) /\ OrderedFrom(f[m], 1)
  <2>1. m + 1 - m = 1
    BY <1>2
  <2> QED BY <1>7, <2>1 DEF P
<1>9. Ordered(f[m])
  <2> SUFFICES ASSUME NEW j \in 2 .. n PROVE Prio(f[m], Parent(j)) <= Prio(f[m], j)
    BY <1>8 DEF Ordered
  <2>1. Parent(j) >= 1
    BY DEF Parent
  <2> QED BY <1>8, <2>1 DEF OrderedFrom
<1> QED
  BY <1>1, <1>8, <1>9

\* heap_delete, and heap_extract_max with i = 1: the entry at i is gone and no other, and
\* the rest is in order if the entry that took the place does not belong above it.
LEMMA DeleteRight ==
  ASSUME NEW E, Keyed(E), NEW n \in Nat \ {0}, NEW h \in [1 .. n -> E], NEW i \in 1 .. n
  PROVE  LET g == heapify(WithLastAt(h, i), i)
         IN  /\ g \in [1 .. n - 1 -> E] /\ HasOneMore(h, g, h[i])
             /\ Ordered(h) /\ (i = 1 \/ Prio(h, n) >= Prio(h, Parent(i))) => Ordered(g)
<1> DEFINE u == WithLastAt(h, i)
           g == heapify(u, i)
<1>1. u \in [1 .. n - 1 -> E] /\ HasOneMore(h, u, h[i])
  <2>1. LastMoved(u, h, i, E, n) /\ HasOneMore(h, u, h[i])
    BY WithLastKeeps
  <2> HIDE DEF u
  <2> QED BY <2>1 DEF LastMoved
<1>2. i \in Nat \ {0} /\ n - 1 \in Nat
  OBVIOUS
<1> HIDE DEF u
<1>3. Rearranged(g, u, E, n - 1)
  BY <1>1, <1>2, HeapifyKeeps
<1>4. ASSUME Ordered(h), i = 1 \/ Prio(h, n) >= Prio(h, Parent(i)) PROVE Ordered(g)
  <2>1. OrderedBut(u, i, 1)
    BY <1>4, WithLastOrders DEF u
  <2>2. OrderedFrom(g, 1)
    BY <1>1, <1>2, <2>1, HeapifyOrders
  <2>3. g \in [1 .. n - 1 -> E]
    BY <1>3 DEF Rearranged
  <2> HIDE DEF g
  <2> SUFFICES ASSUME NEW j \in 2 .. n - 1 PROVE Prio(g, Parent(j)) <= Prio(g, j)
    BY <2>3 DEF Ordered
  <2>4. Parent(j) >= 1 /\ j \in 2 .. Len(g)
    BY <2>3 DEF Parent
  <2> QED BY <2>2, <2>4 DEF OrderedFrom
<1>5. g \in [1 .. n - 1 -> E] /\ HasOneMore(h, g, h[i])
  <2> HIDE DEF g
  <2> QED BY <1>1, <1>3 DEF Rearranged, HasOneMore
<1> HIDE DEF g
<1>6. g \in [1 .. n - 1 -> E] /\ HasOneMore(h, g, h[i])
        /\ (Ordered(h) /\ (i = 1 \/ Prio(h, n) >= Prio(h, Parent(i))) => Ordered(g))
  BY <1>4, <1>5
<1> QED
  BY <1>6 DEF g, u

\* The same, as PrioHeap states it.
LEMMA MoreIsMore ==
  ASSUME NEW h, NEW g, NEW e, HasOneMore(h, g, e)
  PROVE  HasMore(h, g, e)
BY DEF HasOneMore, HasMore

\* Whatever it is given, and whatever is done with it, the heap of the code is a heap: in
\* order, nothing lost, the lowest first, and never longer than it may be.
THEOREM HeapIsRight == \A length \in Nat, prios \in SUBSET Int : HeapRight(length, prios)
<1> SUFFICES ASSUME NEW length \in Nat, NEW prios \in SUBSET Int, NEW n \in 0 .. length - 1,
                    NEW h \in Heaps(n, prios)
             PROVE  /\ Ordered(build_heap(h))
                    /\ \A x \in ToSet(h) : HasMore(Append(h, x), build_heap(h), x)
                    /\ Ordered(h) => StepRight(h, prios, length)
  BY DEF HeapRight
<1> DEFINE E == [prio : prios, data : {"a", "b", "new"}]
<1>1. n \in Nat /\ h \in [1 .. n -> E] /\ Len(h) = n /\ DOMAIN h = 1 .. n
  BY DEF Heaps
<1>2. Keyed(E)
  BY DEF Keyed
<1>3. \A k \in prios : [prio |-> k, data |-> "new"] \in E
  OBVIOUS
<1>4. \A x \in ToSet(h) : x \in E
  BY <1>1 DEF ToSet
<1> HIDE DEF E
<1>5. Rearranged(build_heap(h), h, E, n) /\ Ordered(build_heap(h))
  BY <1>1, <1>2, BuildRight
<1>6. ASSUME NEW x \in ToSet(h) PROVE HasMore(Append(h, x), build_heap(h), x)
  <2>1. HasOneMore(Append(h, x), h, x)
    BY <1>1, <1>4, AppendCopies
  <2>2. HasOneMore(Append(h, x), build_heap(h), x)
    BY <1>5, <2>1 DEF HasOneMore, Rearranged
  <2> QED BY <2>2, MoreIsMore
<1>7. ASSUME Ordered(h) PROVE StepRight(h, prios, length)
  <2>1. ASSUME NEW k \in prios
        PROVE  LET e == [prio |-> k, data |-> "new"]
                   g == heap_insert(h, e, length)
               IN  Ordered(g) /\ IF Len(h) = length - 1 THEN g = h ELSE HasMore(g, h, e)
    <3> DEFINE e == [prio |-> k, data |-> "new"]
               g == heap_insert(h, e, length)
    <3>1. CASE HeapFull(h, length)
      <4>1. g = h
        BY <3>1 DEF heap_insert
      <4> QED BY <1>7, <3>1, <4>1 DEF HeapFull
    <3>2. CASE ~HeapFull(h, length)
      <4>1. e \in E
        BY <1>3
      <4> HIDE DEF e
      <4>2. Ordered(g)
        BY <1>1, <1>2, <1>7, <3>2, <4>1, InsertOrders
      <4>3. HasOneMore(g, h, e)
        BY <1>1, <3>2, <4>1, InsertKeeps
      <4>4. HasMore(g, h, e)
        BY <4>3, MoreIsMore
      <4> HIDE DEF g
      <4>5. Ordered(g) /\ IF Len(h) = length - 1 THEN g = h ELSE HasMore(g, h, e)
        BY <3>2, <4>2, <4>4 DEF HeapFull
      <4> QED BY <4>5 DEF g, e
    <3> QED BY <3>1, <3>2
  <2>2. ASSUME h # <<>>
        PROVE  LET g == heap_extract_max(h)
               IN  Ordered(g) /\ HasMore(h, g, h[1]) /\ \A i \in DOMAIN h : Prio(h, 1) <= Prio(h, i)
    <3> DEFINE g == heapify(WithLastAt(h, 1), 1)
    <3>1. heap_extract_max(h) = g
      BY <2>2 DEF heap_extract_max
    <3>2. n \in Nat \ {0} /\ 1 \in 1 .. n
      BY <1>1, <2>2
    <3>3. Ordered(g) /\ HasOneMore(h, g, h[1])
      BY <1>1, <1>2, <1>7, <3>2, DeleteRight
    <3>4. HasMore(h, g, h[1])
      BY <3>3, MoreIsMore
    <3>5. \A i \in 1 .. n : Prio(h, 1) <= Prio(h, i)
      BY <1>1, <1>2, <1>7, FirstIsLowest
    <3> HIDE DEF g
    <3> QED BY <1>1, <3>1, <3>3, <3>4, <3>5
  <2>3. ASSUME NEW i \in DOMAIN h
        PROVE  LET g == heap_delete(h, i)
               IN  /\ HasMore(h, g, h[i])
                   /\ i = 1 \/ Prio(h, Len(h)) >= Prio(h, Parent(i)) => Ordered(g)
    <3> DEFINE g == heapify(WithLastAt(h, i), i)
    <3>1. heap_delete(h, i) = g
      BY DEF heap_delete
    <3>2. n \in Nat \ {0} /\ i \in 1 .. n
      BY <1>1
    <3>3. HasOneMore(h, g, h[i]) /\ (i = 1 \/ Prio(h, n) >= Prio(h, Parent(i)) => Ordered(g))
      BY <1>1, <1>2, <1>7, <3>2, DeleteRight
    <3>4. HasMore(h, g, h[i])
      BY <3>3, MoreIsMore
    <3> HIDE DEF g
    <3> QED BY <1>1, <3>1, <3>3, <3>4
  <2> QED BY <2>1, <2>2, <2>3 DEF StepRight
<1> QED
  BY <1>5, <1>6, <1>7

\* However many messages wait for the provider, the heap they wait in gives the lowest
\* first and loses none (HeapSorts; prioHeap.c).
THEOREM HeapAlwaysSorts == KcommSpec => []HeapSorts
<1>1. HeapSorts
  <2>1. HeapLen + 1 \in Nat /\ 1 .. 3 \in SUBSET Int
    BY KcommAssumption
  <2> QED BY <2>1, HeapIsRight DEF HeapSorts, AnyHeapSorts
<1> QED
  BY <1>1, PTL

-----------------------------------------------------------------------------
(***************************************************************************)
(* What a provider sends (kcomm_recv): a connection that is up has a       *)
(* number, and no more is read of it than was sent.                        *)
(***************************************************************************)

InInv ==
  /\ status \in {"new", "unauth", "up"} /\ conn \in 0 .. Conns
  /\ fed \in 0 .. 2 * MaxIn /\ read \in 0 .. fed /\ hungUp \in BOOLEAN
  /\ handed \in (0 .. read) \X (0 .. read)
  /\ status # "new" => conn # 0

LEMMA InInvInit == KcommInit => InInv
<1> SUFFICES ASSUME KcommInit PROVE InInv
  OBVIOUS
<1>1. fed = 0 /\ read = 0 /\ conn = 0 /\ handed = <<0, 0>> /\ status = "new" /\ hungUp \in BOOLEAN
  BY Zenon DEF KcommInit
<1> QED
  BY <1>1, KcommAssumption DEF InInv

\* What changes nothing that is received but perhaps the state of the connection.
LEMMA ReceivingRests ==
  ASSUME InInv, UNCHANGED <<conn, inVars>>, status' \in {"new", status, "up"},
         status' # "new" => status # "new"
  PROVE  InInv'
BY DEF InInv, inVars

\* Whatever is read lies within what was sent, and what is handed on within what was read.
LEMMA ReadKeeps ==
  ASSUME InInv, Read, status = "up"
  PROVE  InInv'
<1> DEFINE n == IF fed - read < BuffSize THEN fed - read ELSE BuffSize
<1>1. fed \in Nat /\ read \in Nat /\ read < fed /\ BuffSize \in Nat \ {0}
  BY KcommAssumption DEF InInv, Read
<1>2. n \in Nat \ {0} /\ read + n <= fed
  BY <1>1
<1>3. read' = read + n /\ handed' = <<read + 1, read + n>> /\ UNCHANGED <<status, conn, fed, hungUp>>
  BY DEF Read, mosix_sf_parse_msg
<1> HIDE DEF n
<1>4. read' \in 0 .. fed /\ read + 1 \in 0 .. read' /\ read + n \in 0 .. read'
  BY <1>1, <1>2, <1>3
<1> QED
  BY <1>3, <1>4 DEF InInv

\* Every step keeps it.
LEMMA InInvStep == InInv /\ [KcommNext]_kcommVars => InInv'
<1> SUFFICES ASSUME InInv, [KcommNext]_kcommVars PROVE InInv'
  OBVIOUS
<1>0. ASSUME ResetOnly PROVE InInv'
  <2>1. status' = "new" /\ UNCHANGED <<conn, inVars>>
    BY <1>0 DEF ResetOnly, kcomm_reset
  <2> QED BY <2>1, ReceivingRests
<1>1. CASE UNCHANGED kcommVars
  BY <1>1, ReceivingRests DEF kcommVars
<1>2. CASE kcomm_setup_connection
  <2>1. /\ conn < Conns /\ conn' = conn + 1 /\ status' = "unauth" /\ fed' = 0 /\ read' = 0
        /\ handed' = <<0, 0>>
    BY <1>2 DEF kcomm_setup_connection
  <2>2. hungUp' \in BOOLEAN
    BY <1>2, Zenon DEF kcomm_setup_connection
  <2>3. conn' \in 1 .. Conns
    BY <2>1, KcommAssumption DEF InInv
  <2> QED BY <2>1, <2>2, <2>3, KcommAssumption DEF InInv
<1>3. CASE kcomm_recv_auth
  BY <1>0, <1>3, ReceivingRests DEF kcomm_recv_auth
<1>4. CASE kcomm_exception
  BY <1>0, <1>4 DEF kcomm_exception
<1>5. CASE kcomm_recv
  BY <1>0, <1>5, ReadKeeps DEF kcomm_recv, ReadNothing
<1>6. CASE kcomm_send
  BY <1>6, ReceivingRests DEF kcomm_send
<1>7. CASE kcomm_send_Broken \/ kcomm_finish_send_Broken
  BY <1>0, <1>7, Zenon DEF kcomm_send_Broken, kcomm_finish_send_Broken
<1>8. CASE kcomm_finish_send
  <2>1. UNCHANGED <<status, conn, inVars>>
    BY <1>8, Zenon DEF kcomm_finish_send, FinishWhole, FinishPart, FinishNothing
  <2> QED BY <2>1, ReceivingRests
<1>9. CASE ProviderSends
  <2>1. fed' = fed + 1 /\ fed < 2 * MaxIn /\ UNCHANGED <<status, conn, read, hungUp, handed>>
    BY <1>9 DEF ProviderSends
  <2>2. fed' \in 0 .. 2 * MaxIn /\ read \in 0 .. fed'
    BY <2>1, KcommAssumption DEF InInv
  <2> QED BY <2>1, <2>2 DEF InInv
<1>10. CASE ProviderHangsUp
  <2>1. hungUp' \in BOOLEAN /\ UNCHANGED <<status, conn, fed, read, handed>>
    BY <1>10 DEF ProviderHangsUp
  <2> QED BY <2>1 DEF InInv
<1> QED
  BY <1>1, <1>2, <1>3, <1>4, <1>5, <1>6, <1>7, <1>8, <1>9, <1>10 DEF KcommNext

-----------------------------------------------------------------------------
(***************************************************************************)
(* What a provider is sent (kcomm_send, kcomm_finish_send): whole messages, and*)
(* each message accepted once.                                             *)
(***************************************************************************)

Entry == [prio : {1}, data : 1 .. MaxOut]

OutTypeOK ==
  /\ asked \in 0 .. MaxOut /\ accepted \subseteq 1 .. MaxOut
  /\ pending \in Seq(Unit) /\ out \in Seq(Unit)
  /\ heap \in Seq(Entry)
  /\ garbled \in BOOLEAN

\* The units of the messages s.
Spelled(c, s) == [i \in 1 .. 2 * Len(s) |-> <<c, s[(i + 1) \div 2], IF i % 2 = 1 THEN 1 ELSE 2>>]

WholeMessages(q) ==
  \A i \in DOMAIN q :
    IF i % 2 = 1 THEN q[i][3] = 1 /\ \A j \in 1 .. i - 1 : q[j] # q[i]
    ELSE q[i] = <<q[i - 1][1], q[i - 1][2], 2>>

\* Each message accepted is once in s or in the heap, and no other is.
Shares(s, h, acc) ==
  \A m \in 1 .. MaxOut : Copies(h, Queued(m)) + Copies(s, m) = IF m \in acc THEN 1 ELSE 0

\* What is in units is whole messages, and with those in the heap they are the accepted ones.
Told(c, units, h, acc) == \E s \in Seq(1 .. MaxOut) : units = Spelled(c, s) /\ Shares(s, h, acc)

OutFlow ==
  /\ status # "up" => pending = <<>> /\ heap = <<>>
  /\ status = "unauth" => out = <<>> /\ accepted = {} /\ asked = 0
  /\ Len(heap) < HeapLen
  /\ accepted \subseteq 1 .. asked
  /\ status # "new" /\ ~garbled => Told(conn, out \o pending, heap, accepted)
  /\ ~garbled => WholeMessages(out)

OutInv == OutTypeOK /\ OutFlow

\* The units of a message.
LEMMA HalvesAre ==
  ASSUME NEW c \in 1 .. Conns, NEW m \in 1 .. MaxOut
  PROVE  /\ Halves(c, m) \in Seq(Unit) /\ Len(Halves(c, m)) = 2
         /\ Halves(c, m)[1] = <<c, m, 1>> /\ Halves(c, m)[2] = <<c, m, 2>>
<1>1. m \in 0 .. MaxIn + MaxOut
  BY KcommAssumption
<1>2. <<c, m, 1>> \in Unit /\ <<c, m, 2>> \in Unit
  BY <1>1 DEF Unit
<1> HIDE DEF Unit
<1> QED
  BY <1>2 DEF Halves

\* The units of several messages.
LEMMA SpelledIs ==
  ASSUME NEW c \in 1 .. Conns, NEW s \in Seq(1 .. MaxOut)
  PROVE  /\ Spelled(c, s) \in Seq(Unit) /\ Len(Spelled(c, s)) = 2 * Len(s)
         /\ \A i \in 1 .. 2 * Len(s) :
              Spelled(c, s)[i] = <<c, s[(i + 1) \div 2], IF i % 2 = 1 THEN 1 ELSE 2>>
<1> DEFINE n == Len(s)
           u(i) == <<c, s[(i + 1) \div 2], IF i % 2 = 1 THEN 1 ELSE 2>>
<1>1. n \in Nat /\ \A i \in 1 .. n : s[i] \in 1 .. MaxOut
  BY ElementOfSeq, LenProperties
<1>2. ASSUME NEW i \in 1 .. 2 * n PROVE u(i) \in Unit
  <2>1. (i + 1) \div 2 \in 1 .. n
    BY <1>1
  <2>2. s[(i + 1) \div 2] \in 1 .. MaxOut
    BY <1>1, <2>1
  <2>3. s[(i + 1) \div 2] \in 0 .. MaxIn + MaxOut
    BY <2>2, KcommAssumption
  <2> QED BY <2>3 DEF Unit
<1>3. Spelled(c, s) = [i \in 1 .. 2 * n |-> u(i)]
  BY DEF Spelled
<1>4. 2 * n \in Nat
  BY <1>1
<1> HIDE DEF n, u
<1>5. Spelled(c, s) \in Seq(Unit) /\ Len(Spelled(c, s)) = 2 * n
        /\ \A i \in 1 .. 2 * n : Spelled(c, s)[i] = u(i)
  BY <1>2, <1>3, <1>4
<1> QED
  BY <1>5 DEF n, u

\* One message more.
LEMMA SpelledAppend ==
  ASSUME NEW c \in 1 .. Conns, NEW s \in Seq(1 .. MaxOut), NEW m \in 1 .. MaxOut
  PROVE  Spelled(c, Append(s, m)) = Spelled(c, s) \o Halves(c, m)
<1> DEFINE n == Len(s)
           t == Append(s, m)
           a == Spelled(c, t)
           b == Spelled(c, s)
           d == Halves(c, m)
<1>1. n \in Nat /\ t \in Seq(1 .. MaxOut) /\ Len(t) = n + 1 /\ t[n + 1] = m
        /\ \A i \in 1 .. n : t[i] = s[i]
  OBVIOUS
<1> HIDE DEF t
<1>2. /\ a \in Seq(Unit) /\ Len(a) = 2 * (n + 1)
      /\ \A i \in 1 .. 2 * (n + 1) : a[i] = <<c, t[(i + 1) \div 2], IF i % 2 = 1 THEN 1 ELSE 2>>
  BY <1>1, SpelledIs
<1>3. /\ b \in Seq(Unit) /\ Len(b) = 2 * n
      /\ \A i \in 1 .. 2 * n : b[i] = <<c, s[(i + 1) \div 2], IF i % 2 = 1 THEN 1 ELSE 2>>
  BY SpelledIs
<1>4. d \in Seq(Unit) /\ Len(d) = 2 /\ d[1] = <<c, m, 1>> /\ d[2] = <<c, m, 2>>
  BY HalvesAre
<1> HIDE DEF a, b, d, n
<1>5. /\ b \o d \in Seq(Unit) /\ Len(b \o d) = 2 * (n + 1)
      /\ \A i \in 1 .. 2 * (n + 1) : (b \o d)[i] = IF i <= 2 * n THEN b[i] ELSE d[i - 2 * n]
  <2>1. /\ b \o d \in Seq(Unit) /\ Len(b \o d) = Len(b) + Len(d)
        /\ \A i \in 1 .. Len(b) + Len(d) : (b \o d)[i] = IF i <= Len(b) THEN b[i] ELSE d[i - Len(b)]
    BY <1>3, <1>4, ConcatProperties
  <2>2. Len(b) = 2 * n /\ Len(b) + Len(d) = 2 * (n + 1)
    BY <1>1, <1>3, <1>4
  <2> QED BY <2>1, <2>2
<1>6. ASSUME NEW i \in 1 .. 2 * (n + 1) PROVE a[i] = (b \o d)[i]
  <2>1. CASE i <= 2 * n
    <3>1. i \in 1 .. 2 * n /\ (i + 1) \div 2 \in 1 .. n
      BY <1>1, <2>1
    <3> QED BY <1>1, <1>2, <1>3, <1>5, <2>1, <3>1
  <2>2. CASE i = 2 * n + 1
    <3>1. (i + 1) \div 2 = n + 1 /\ i % 2 = 1 /\ i - 2 * n = 1 /\ ~(i <= 2 * n)
      BY <1>1, <2>2
    <3> QED BY <1>1, <1>2, <1>4, <1>5, <3>1
  <2>3. CASE i = 2 * n + 2
    <3>1. (i + 1) \div 2 = n + 1 /\ i % 2 # 1 /\ i - 2 * n = 2 /\ ~(i <= 2 * n)
      BY <1>1, <2>3
    <3> QED BY <1>1, <1>2, <1>4, <1>5, <3>1
  <2>4. i <= 2 * n \/ i = 2 * n + 1 \/ i = 2 * n + 2
    BY <1>1
  <2> QED BY <2>1, <2>2, <2>3, <2>4
<1>7. a = b \o d
  BY <1>1, <1>2, <1>5, <1>6, SeqEqual
<1> QED
  BY <1>7 DEF a, b, d, t

\* What is there at most once is not in two places.
LEMMA OnceIsOnce ==
  ASSUME NEW E, NEW s \in Seq(E), NEW x, Copies(s, x) <= 1,
         NEW i \in 1 .. Len(s), NEW j \in 1 .. Len(s), s[i] = x, s[j] = x
  PROVE  i = j
<1> DEFINE n == Len(s)
<1>1. n \in Nat /\ s \in [1 .. n -> E]
  OBVIOUS
<1>2. Counted(s, x, n)
  BY <1>1, CopiesCounted
<1> DEFINE A == At(s, x, n)
<1>3. i \in A /\ j \in A
  BY DEF At
<1>4. IsFiniteSet(A) /\ Cardinality(A) \in Nat /\ Cardinality(A) <= 1
  BY <1>2 DEF Counted
<1> HIDE DEF A
<1>5. Cardinality(A) # 0
  BY <1>3, <1>4, FS_EmptySet
<1>6. Cardinality(A) = 1
  BY <1>4, <1>5
<1>7. \E y : A = {y}
  BY <1>4, <1>6, FS_Singleton
<1> QED
  BY <1>3, <1>7

\* There are no copies of what is nowhere, and only of that.
LEMMA SomeIsThere ==
  ASSUME NEW E, NEW n \in Nat, NEW s \in [1 .. n -> E], NEW x
  PROVE  /\ Copies(s, x) \in Nat
         /\ Copies(s, x) = 0 <=> ~\E i \in 1 .. n : s[i] = x
<1>1. Counted(s, x, n)
  BY CopiesCounted
<1>2. Cardinality(At(s, x, n)) = 0 <=> At(s, x, n) = {}
  BY <1>1, FS_EmptySet DEF Counted
<1> QED
  BY <1>1, <1>2 DEF Counted, At

\* What was sent of whole messages, none of them twice, is whole but for the last.
LEMMA SentIsWhole ==
  ASSUME NEW c \in 1 .. Conns, NEW q \in Seq(Unit), NEW p \in Seq(Unit), NEW h, NEW acc,
         \A m \in 1 .. MaxOut : Copies(h, Queued(m)) \in Nat, Told(c, q \o p, h, acc)
  PROVE  WholeMessages(q)
<1>1. PICK s \in Seq(1 .. MaxOut) : q \o p = Spelled(c, s) /\ Shares(s, h, acc)
  BY DEF Told
<1> DEFINE n == Len(q)
           l == Len(s)
           num(i) == s[(i + 1) \div 2]
<1>2. n \in Nat /\ Len(p) \in Nat /\ l \in Nat /\ DOMAIN q = 1 .. n
  OBVIOUS
<1>3. n <= 2 * l /\ \A i \in 1 .. n : q[i] = <<c, num(i), IF i % 2 = 1 THEN 1 ELSE 2>>
  <2>1. /\ Len(q \o p) = n + Len(p)
        /\ \A i \in 1 .. n + Len(p) : (q \o p)[i] = IF i <= n THEN q[i] ELSE p[i - n]
    BY ConcatProperties
  <2>2. /\ Len(q \o p) = 2 * l
        /\ \A i \in 1 .. 2 * l : (q \o p)[i] = <<c, num(i), IF i % 2 = 1 THEN 1 ELSE 2>>
    BY <1>1, SpelledIs
  <2>3. n <= 2 * l
    BY <1>2, <2>1, <2>2
  <2> SUFFICES ASSUME NEW i \in 1 .. n
               PROVE  q[i] = <<c, num(i), IF i % 2 = 1 THEN 1 ELSE 2>>
    BY <2>3
  <2>4. i \in 1 .. n + Len(p) /\ i \in 1 .. 2 * l /\ i <= n
    BY <1>2, <2>3
  <2> HIDE DEF num, n, l
  <2> QED BY <2>1, <2>2, <2>4
<1>4. ASSUME NEW i \in 1 .. n, NEW j \in 1 .. i - 1, i % 2 = 1 PROVE q[j] # q[i]
  <2>1. j \in 1 .. n /\ (i + 1) \div 2 \in 1 .. l /\ (j + 1) \div 2 \in 1 .. l
    BY <1>2, <1>3
  <2>2. j % 2 = 1 => (i + 1) \div 2 # (j + 1) \div 2
    BY <1>2, <1>4
  <2>3. num(i) \in 1 .. MaxOut
    BY <2>1, ElementOfSeq
  <2>4. Copies(s, num(i)) <= 1
    <3>1. Copies(h, Queued(num(i))) + Copies(s, num(i)) \in {0, 1}
      BY <1>1, <2>3 DEF Shares
    <3>2. Copies(h, Queued(num(i))) \in Nat
      BY <2>3
    <3>3. Copies(s, num(i)) \in Nat
      <4>1. l \in Nat /\ s \in [1 .. l -> 1 .. MaxOut]
        BY SeqIsFunction
      <4> QED BY <4>1, SomeIsThere
    <3> HIDE DEF num
    <3> QED BY <3>1, <3>2, <3>3
  <2>5. num(i) = num(j) => (i + 1) \div 2 = (j + 1) \div 2
    <3> SUFFICES ASSUME num(i) = num(j) PROVE (i + 1) \div 2 = (j + 1) \div 2
      OBVIOUS
    <3> DEFINE a == (i + 1) \div 2
               b == (j + 1) \div 2
               x == num(i)
    <3>1. s[a] = x /\ s[b] = x /\ a \in 1 .. Len(s) /\ b \in 1 .. Len(s) /\ Copies(s, x) <= 1
      BY <2>1, <2>4
    <3> HIDE DEF a, b, x
    <3>2. a = b
      BY <3>1, OnceIsOnce
    <3> QED BY <3>2 DEF a, b
  <2>6. q[i] = <<c, num(i), 1>> /\ q[j] = <<c, num(j), IF j % 2 = 1 THEN 1 ELSE 2>>
    BY <1>3, <1>4, <2>1
  <2> HIDE DEF num
  <2> QED BY <2>2, <2>5, <2>6
<1>5. ASSUME NEW i \in 1 .. n, i % 2 # 1 PROVE q[i] = <<q[i - 1][1], q[i - 1][2], 2>>
  <2>1. i - 1 \in 1 .. n /\ (i + 1) \div 2 = (i - 1 + 1) \div 2 /\ (i - 1) % 2 = 1
    <3>1. i \in Nat \ {0} /\ i % 2 = 0
      BY <1>2, <1>5
    <3>2. (i - 1) % 2 = 1 /\ i # 1
      BY <3>1
    <3>3. (i + 1) \div 2 = (i - 1 + 1) \div 2
      BY <3>1
    <3>4. i - 1 \in 1 .. n
      BY <1>2, <3>1, <3>2
    <3> QED BY <3>2, <3>3, <3>4
  <2>2. q[i] = <<c, num(i), 2>> /\ q[i - 1] = <<c, num(i - 1), 1>>
    BY <1>3, <1>5, <2>1
  <2>3. num(i) = num(i - 1)
    BY <2>1
  <2> HIDE DEF num
  <2> QED BY <2>2, <2>3
<1>6. ASSUME NEW i \in 1 .. n, i % 2 = 1 PROVE q[i][3] = 1
  <2> HIDE DEF num
  <2>1. q[i] = <<c, num(i), 1>>
    BY <1>3, <1>6
  <2> QED BY <2>1
<1> QED
  BY <1>2, <1>4, <1>5, <1>6 DEF WholeMessages

\* What is sent in parts is sent whole in the end.
LEMMA PartsJoin ==
  ASSUME NEW S, NEW q \in Seq(S), NEW n \in 0 .. Len(q)
  PROVE  /\ SubSeq(q, 1, n) \in Seq(S) /\ SubSeq(q, n + 1, Len(q)) \in Seq(S)
         /\ SubSeq(q, 1, n) \o SubSeq(q, n + 1, Len(q)) = q
<1>1. Len(q) \in Nat /\ \A i \in 1 .. Len(q) : q[i] \in S
  BY ElementOfSeq, LenProperties
<1>2. SubSeq(q, 1, n) \in Seq(S)
  <2>1. \A i \in 1 .. n : q[i] \in S
    BY <1>1
  <2> QED BY <1>1, <2>1, SubSeqProperties
<1>3. SubSeq(q, n + 1, Len(q)) \in Seq(S)
  <2>1. \A i \in n + 1 .. Len(q) : q[i] \in S
    BY <1>1
  <2>2. n + 1 \in Int /\ Len(q) \in Int
    BY <1>1
  <2> QED BY <2>1, <2>2, SubSeqProperties
<1>4. SubSeq(q, 1, n) \o SubSeq(q, n + 1, Len(q)) = SubSeq(q, 1, Len(q))
  <2>1. 1 \in 1 .. Len(q) + 1 /\ n \in 1 - 1 .. Len(q) /\ Len(q) \in n .. Len(q)
    BY <1>1
  <2> QED BY <2>1, ConcatAdjacentSubSeq
<1>5. SubSeq(q, 1, Len(q)) = q
  BY SubSeqFull
<1> QED
  BY <1>2, <1>3, <1>4, <1>5, Zenon

\* What a message sent at once adds to what the provider was told.
LEMMA ToldSends ==
  ASSUME NEW c \in 1 .. Conns, NEW units, NEW h, NEW acc, Told(c, units, h, acc),
         \A x \in 1 .. MaxOut : Copies(h, Queued(x)) \in Nat,
         NEW g, \A x \in 1 .. MaxOut : Copies(g, Queued(x)) \in Nat,
         NEW m \in 1 .. MaxOut, NEW new,
         \/ g = h /\ m \notin acc /\ new = acc \cup {m}
         \/ HasOneMore(h, g, Queued(m)) /\ new = acc
  PROVE  Told(c, units \o Halves(c, m), g, new)
<1>1. PICK s \in Seq(1 .. MaxOut) : units = Spelled(c, s) /\ Shares(s, h, acc)
  BY DEF Told
<1> DEFINE t == Append(s, m)
           n == Len(s)
<1>2. t \in Seq(1 .. MaxOut) /\ n \in Nat /\ s \in [1 .. n -> 1 .. MaxOut]
  BY SeqIsFunction, AppendProperties
<1>3. units \o Halves(c, m) = Spelled(c, t)
  BY <1>1, SpelledAppend
<1>4. \A x : Copies(t, x) = Copies(s, x) + IF x = m THEN 1 ELSE 0
  <2>1. HasOneMore(t, s, m)
    BY <1>2, AppendCopies
  <2> HIDE DEF t
  <2> QED BY <2>1 DEF HasOneMore
<1> HIDE DEF t
<1>5. ASSUME NEW x \in 1 .. MaxOut
      PROVE  Copies(g, Queued(x)) + Copies(t, x) = IF x \in new THEN 1 ELSE 0
  <2>1. Copies(h, Queued(x)) + Copies(s, x) = IF x \in acc THEN 1 ELSE 0
    BY <1>1 DEF Shares
  <2>2. Copies(h, Queued(x)) \in Nat /\ Copies(g, Queued(x)) \in Nat /\ Copies(s, x) \in Nat
    BY <1>2, SomeIsThere
  <2>3. Copies(t, x) = Copies(s, x) + IF x = m THEN 1 ELSE 0
    BY <1>4
  <2>4. CASE g = h /\ m \notin acc /\ new = acc \cup {m}
    BY <2>1, <2>2, <2>3, <2>4
  <2>5. CASE HasOneMore(h, g, Queued(m)) /\ new = acc
    <3>1. Queued(x) = Queued(m) <=> x = m
      BY DEF Queued
    <3>2. Copies(h, Queued(x)) = Copies(g, Queued(x)) + IF x = m THEN 1 ELSE 0
      BY <2>5, <3>1 DEF HasOneMore
    <3> QED BY <2>1, <2>2, <2>3, <2>5, <3>2
  <2> QED BY <2>4, <2>5
<1>6. Shares(t, g, new)
  BY <1>5 DEF Shares
<1> QED
  BY <1>2, <1>3, <1>6 DEF Told, t

\* A message put in the heap.
LEMMA ToldQueues ==
  ASSUME NEW c, NEW units, NEW h, NEW acc, Told(c, units, h, acc),
         \A x \in 1 .. MaxOut : Copies(h, Queued(x)) \in Nat,
         NEW g, NEW m \in 1 .. MaxOut, HasOneMore(g, h, Queued(m)), m \notin acc
  PROVE  Told(c, units, g, acc \cup {m})
<1>1. PICK s \in Seq(1 .. MaxOut) : units = Spelled(c, s) /\ Shares(s, h, acc)
  BY DEF Told
<1>2. Len(s) \in Nat /\ s \in [1 .. Len(s) -> 1 .. MaxOut]
  BY SeqIsFunction
<1>3. ASSUME NEW x \in 1 .. MaxOut
      PROVE  Copies(g, Queued(x)) + Copies(s, x) = IF x \in acc \cup {m} THEN 1 ELSE 0
  <2>1. Copies(h, Queued(x)) + Copies(s, x) = IF x \in acc THEN 1 ELSE 0
    BY <1>1 DEF Shares
  <2>2. Copies(h, Queued(x)) \in Nat /\ Copies(s, x) \in Nat
    BY <1>2, SomeIsThere
  <2>3. Queued(x) = Queued(m) <=> x = m
    BY DEF Queued
  <2>4. Copies(g, Queued(x)) = Copies(h, Queued(x)) + IF x = m THEN 1 ELSE 0
    BY <2>3 DEF HasOneMore
  <2> QED BY <2>1, <2>2, <2>4
<1> QED
  BY <1>1, <1>3 DEF Told, Shares

\* The entry extracted is the first, and it is the only one gone.
LEMMA ExtractIs ==
  ASSUME NEW n \in Nat \ {0}, NEW h \in [1 .. n -> Entry]
  PROVE  /\ heap_extract_max(h) \in [1 .. n - 1 -> Entry]
         /\ h[1].data \in 1 .. MaxOut
         /\ HasOneMore(h, heap_extract_max(h), Queued(h[1].data))
<1>1. Keyed(Entry) /\ 1 \in 1 .. n
  BY DEF Keyed, Entry
<1> DEFINE g == heapify(WithLastAt(h, 1), 1)
<1>2. g \in [1 .. n - 1 -> Entry] /\ HasOneMore(h, g, h[1])
  BY <1>1, DeleteRight
<1>3. heap_extract_max(h) = g
  BY DEF heap_extract_max
<1>4. h[1].data \in 1 .. MaxOut /\ h[1] = Queued(h[1].data)
  <2>1. h[1] \in Entry
    BY <1>1
  <2> QED BY <2>1 DEF Entry, Queued
<1> HIDE DEF g
<1> QED
  BY <1>2, <1>3, <1>4

\* The heaps that extracting makes, one entry after the other.
Extracts(left, h, n) ==
  /\ left[0] = h
  /\ \A k \in 1 .. n : left[k] = heap_extract_max(left[k - 1])
  /\ \A k \in 0 .. n : left[k] \in [1 .. n - k -> Entry]

MessageAt(left, k) == Halves(conn, left[k - 1][1].data)
SentWith(left, n) == out \o pending \o [i \in 1 .. 2 * n |-> MessageAt(left, (i + 1) \div 2)[2 - (i % 2)]]

Finishes(left, n) ==
  IF n = Len(heap)
  THEN heap' = <<>> /\ out' = SentWith(left, n) /\ pending' = <<>> /\ UNCHANGED garbled
  ELSE \E cut \in {0, 1} :
         /\ heap' = left[n + 1]
         /\ out' = SentWith(left, n) \o SubSeq(MessageAt(left, n + 1), 1, cut)
         /\ PutAside(MessageAt(left, n + 1), cut)

\* The loop of send_queued_msg runs and ends.
LEMMA FinishRuns ==
  ASSUME heap \in Seq(Entry), FinishWhole
  PROVE  \E left : Extracts(left, heap, Len(heap)) /\ \E n \in 0 .. Len(heap) : Finishes(left, n)
<1>0. heap \in Seq(Entry) /\ Len(heap) \in Nat /\ heap \in [1 .. Len(heap) -> Entry]
  BY SeqIsFunction
<1> DEFINE N == Len(heap)
           S == Seq(Entry)
           F == [p \in S \X Nat |-> heap_extract_max(p[1])]
           Value(g, k) == IF k = 0 THEN heap ELSE heap_extract_max(g[k - 1])
           it == CHOOSE g : g = [k \in 0 .. N |-> Value(g, k)]
<1>1. heap \in S /\ N \in Nat /\ heap \in [1 .. N -> Entry]
  BY <1>0, Zenon
<1>2. \E n \in 0 .. N : Finishes(it, n)
  BY Zenon DEF FinishWhole, Finishes, SentWith, MessageAt
<1> HIDE DEF N
<1>3. ASSUME NEW g \in S
      PROVE  /\ heap_extract_max(g) \in S
             /\ Len(g) # 0 => Len(heap_extract_max(g)) = Len(g) - 1
  <2>1. Len(g) \in Nat /\ g \in [1 .. Len(g) -> Entry]
    BY SeqIsFunction
  <2>2. CASE Len(g) = 0
    <3>1. g = <<>>
      BY <2>2, EmptySeq
    <3> QED BY <2>2, <3>1 DEF heap_extract_max
  <2>3. CASE Len(g) # 0
    <3> DEFINE x == heap_extract_max(g)
               m == Len(g) - 1
    <3>1. x \in [1 .. m -> Entry] /\ m \in Nat
      BY <2>1, <2>3, ExtractIs
    <3> HIDE DEF x, m
    <3>2. x \in Seq(Entry) /\ Len(x) = m
      BY <3>1
    <3> QED BY <3>2 DEF x, m
  <2> QED BY <2>2, <2>3
<1>4. F \in [S \X Nat -> S]
  <2> HIDE DEF S
  <2> QED BY <1>3
<1>5. \E g : g = [k \in 0 .. N |-> Value(g, k)]
  <2> HIDE DEF F, S
  <2>1. PICK f \in [0 .. N -> S] : Iterates(f, heap, F, N)
    BY <1>1, <1>4, IterationExists
  <2>2. ASSUME NEW k \in 1 .. N PROVE f[k] = heap_extract_max(f[k - 1])
    <3>1. k - 1 \in 0 .. N /\ k \in Nat
      BY <1>1
    <3>2. f[k - 1] \in S
      BY <2>1, <3>1
    <3>3. <<f[k - 1], k>> \in S \X Nat
      BY <3>1, <3>2
    <3>4. f[k] = F[<<f[k - 1], k>>]
      BY <2>1 DEF Iterates
    <3> QED BY <3>3, <3>4 DEF F
  <2>3. f[0] = heap
    BY <2>1 DEF Iterates
  <2>4. \A k \in 0 .. N : f[k] = Value(f, k)
    BY <1>1, <2>2, <2>3
  <2>5. f = [k \in 0 .. N |-> f[k]]
    BY <2>1
  <2> HIDE DEF Value
  <2>6. f = [k \in 0 .. N |-> Value(f, k)]
    BY <2>4, <2>5
  <2> QED BY <2>6
<1> HIDE DEF Value
<1>6. it = [k \in 0 .. N |-> Value(it, k)]
  BY <1>5
<1> HIDE DEF it
<1>7. \A k \in 0 .. N : it[k] = Value(it, k)
  BY <1>6, Zenon
<1>8. it[0] = heap /\ \A k \in 1 .. N : it[k] = heap_extract_max(it[k - 1])
  <2>1. 0 \in 0 .. N
    BY <1>1
  <2>2. \A k \in 1 .. N : k \in 0 .. N /\ k # 0
    BY <1>1
  <2> QED BY <1>7, <2>1, <2>2 DEF Value
<1> DEFINE P == {p \in S \X Nat : Len(p[1]) = N - p[2]}
           b == [k \in 0 .. N |-> <<it[k], k>>]
<1>9. b[0] \in P
  <2>1. b[0] = <<heap, 0>>
    BY <1>1, <1>8
  <2>2. Len(heap) = N - 0 /\ 0 \in Nat
    BY <1>1 DEF N
  <2> HIDE DEF b, S
  <2>3. <<heap, 0>> \in P
    BY <1>1, <2>2
  <2> QED BY <2>1, <2>3
<1>10. ASSUME NEW k \in 1 .. N, b[k - 1] \in P PROVE b[k] \in P
  <2> DEFINE g == it[k - 1]
  <2>1. b[k] = <<it[k], k>> /\ b[k - 1] = <<g, k - 1>> /\ it[k] = heap_extract_max(g)
    BY <1>1, <1>8
  <2> HIDE DEF b, g, S
  <2>2. g \in S /\ Len(g) = N - (k - 1)
    BY <1>10, <2>1
  <2>3. N - (k - 1) # 0 /\ N - (k - 1) - 1 = N - k /\ k \in Nat
    BY <1>1
  <2>4. it[k] \in S /\ Len(it[k]) = N - k
    BY <1>3, <2>1, <2>2, <2>3
  <2>5. <<it[k], k>> \in P
    BY <2>3, <2>4
  <2> QED BY <2>1, <2>5
<1>11. \A k \in 0 .. N : b[k] \in P
  <2> HIDE DEF b, P
  <2> QED BY <1>1, <1>9, <1>10, IterationStays
<1>12. ASSUME NEW k \in 0 .. N PROVE it[k] \in [1 .. N - k -> Entry]
  <2>1. <<it[k], k>> \in P
    BY <1>11
  <2>2. it[k] \in Seq(Entry) /\ Len(it[k]) = N - k
    BY <2>1
  <2> QED BY <2>2, SeqIsFunction
<1>13. Extracts(it, heap, N)
  BY <1>8, <1>12 DEF Extracts
<1> QED
  BY <1>2, <1>13 DEF N

\* The copies of a message in the heap are a number.
LEMMA EntriesCounted ==
  ASSUME NEW n \in Nat, NEW h \in [1 .. n -> Entry]
  PROVE  \A x \in 1 .. MaxOut : Copies(h, Queued(x)) \in Nat
BY SomeIsThere

\* The messages of the first n entries extracted.
FirstOf(left, n) == [j \in 1 .. n |-> left[j - 1][1].data]

LEMMA FirstAre ==
  ASSUME NEW N \in Nat, NEW h, NEW left, Extracts(left, h, N), NEW n \in 0 .. N
  PROVE  /\ FirstOf(left, n) \in Seq(1 .. MaxOut) /\ Len(FirstOf(left, n)) = n
         /\ \A j \in 1 .. n : FirstOf(left, n)[j] = left[j - 1][1].data /\ left[j - 1][1].data \in 1 .. MaxOut
<1>1. ASSUME NEW j \in 1 .. n PROVE left[j - 1][1].data \in 1 .. MaxOut
  <2>1. j - 1 \in 0 .. N /\ N - (j - 1) \in Nat \ {0}
    OBVIOUS
  <2>2. left[j - 1] \in [1 .. N - (j - 1) -> Entry]
    BY <2>1 DEF Extracts
  <2> QED BY <2>1, <2>2, ExtractIs
<1>2. n \in Nat
  OBVIOUS
<1> QED
  BY <1>1, <1>2 DEF FirstOf

\* What FinishWhole sends is what was pending and then those messages.
LEMMA SentWithIs ==
  ASSUME NEW N \in Nat, NEW left, Extracts(left, heap, N), conn \in 1 .. Conns, NEW n \in 0 .. N
  PROVE  SentWith(left, n) = out \o pending \o Spelled(conn, FirstOf(left, n))
<1> DEFINE t == FirstOf(left, n)
           a == [i \in 1 .. 2 * n |-> MessageAt(left, (i + 1) \div 2)[2 - (i % 2)]]
           u(i) == <<conn, t[(i + 1) \div 2], IF i % 2 = 1 THEN 1 ELSE 2>>
<1>1. /\ t \in Seq(1 .. MaxOut) /\ Len(t) = n
      /\ \A j \in 1 .. n : t[j] = left[j - 1][1].data /\ left[j - 1][1].data \in 1 .. MaxOut
  BY FirstAre
<1> HIDE DEF t
<1>2. ASSUME NEW i \in 1 .. 2 * n PROVE MessageAt(left, (i + 1) \div 2)[2 - (i % 2)] = u(i)
  <2> DEFINE j == (i + 1) \div 2
  <2>1. j \in 1 .. n /\ 2 - (i % 2) = (IF i % 2 = 1 THEN 1 ELSE 2)
    OBVIOUS
  <2> HIDE DEF j
  <2>2. MessageAt(left, j) = Halves(conn, t[j]) /\ t[j] \in 1 .. MaxOut
    BY <1>1, <2>1 DEF MessageAt
  <2>3. Halves(conn, t[j])[1] = <<conn, t[j], 1>> /\ Halves(conn, t[j])[2] = <<conn, t[j], 2>>
    BY DEF Halves
  <2> QED BY <2>1, <2>2, <2>3 DEF j
<1> HIDE DEF u
<1>3. a = [i \in 1 .. 2 * n |-> u(i)]
  BY <1>2
<1>4. Spelled(conn, t) = [i \in 1 .. 2 * n |-> u(i)]
  BY <1>1 DEF Spelled, u
<1>5. SentWith(left, n) = out \o pending \o a
  BY DEF SentWith
<1> HIDE DEF a
<1> QED
  BY <1>3, <1>4, <1>5 DEF t

\* After n messages of the heap what was sent is still whole messages, and those left are
\* the others.
LEMMA SentSoFar ==
  ASSUME OutTypeOK, ~garbled => Told(conn, out \o pending, heap, accepted),
         conn \in 1 .. Conns, NEW left, Extracts(left, heap, Len(heap)), NEW n \in 0 .. Len(heap)
  PROVE  /\ SentWith(left, n) \in Seq(Unit)
         /\ ~garbled => Told(conn, SentWith(left, n), left[n], accepted)
<1> DEFINE N == Len(heap)
           f == [k \in 0 .. N |-> <<SentWith(left, k), k>>]
           P == {p \in Seq(Unit) \X Nat : ~garbled => Told(conn, p[1], left[p[2]], accepted)}
<1>1. N \in Nat /\ out \in Seq(Unit) /\ pending \in Seq(Unit) /\ out \o pending \in Seq(Unit)
  BY ConcatProperties DEF OutTypeOK
<1> HIDE DEF N
<1>2. Extracts(left, heap, N)
  BY DEF N
<1>3. f[0] \in P
  <2>1. 0 \in 0 .. N
    BY <1>1
  <2>2. f[0] = <<SentWith(left, 0), 0>>
    BY <2>1
  <2>3. Len(FirstOf(left, 0)) = 0 /\ FirstOf(left, 0) \in Seq(1 .. MaxOut)
    BY <1>1, <1>2, <2>1, FirstAre
  <2>4. Spelled(conn, FirstOf(left, 0)) = <<>>
    <3>1. Spelled(conn, FirstOf(left, 0)) \in Seq(Unit) /\ Len(Spelled(conn, FirstOf(left, 0))) = 2 * 0
      BY <2>3, SpelledIs
    <3> QED BY <3>1, EmptySeq
  <2>5. SentWith(left, 0) = out \o pending
    <3>1. SentWith(left, 0) = out \o pending \o Spelled(conn, FirstOf(left, 0))
      BY <1>1, <1>2, <2>1, SentWithIs
    <3>2. out \o pending \o <<>> = out \o pending
      BY <1>1, ConcatEmptySeq
    <3> QED BY <2>4, <3>1, <3>2, Zenon
  <2>6. left[0] = heap
    BY <1>2 DEF Extracts
  <2> HIDE DEF f
  <2>7. <<out \o pending, 0>> \in P
    BY <1>1, <2>6
  <2> QED BY <2>2, <2>5, <2>7
<1>4. ASSUME NEW k \in 1 .. N, f[k - 1] \in P PROVE f[k] \in P
  <2> DEFINE units == SentWith(left, k - 1)
             h == left[k - 1]
             m == h[1].data
             g == left[k]
             s == FirstOf(left, k - 1)
             t == FirstOf(left, k)
  <2>1. f[k] = <<SentWith(left, k), k>> /\ f[k - 1] = <<units, k - 1>> /\ k - 1 \in 0 .. N /\ k \in 0 .. N
        /\ k \in Nat
    BY <1>1
  <2> HIDE DEF f, units
  <2>2. units \in Seq(Unit) /\ (~garbled => Told(conn, units, h, accepted))
    BY <1>4, <2>1
  <2>3. h \in [1 .. N - (k - 1) -> Entry] /\ N - (k - 1) \in Nat \ {0} /\ g = heap_extract_max(h)
        /\ N - (k - 1) - 1 \in Nat
    BY <1>1, <1>2, <2>1 DEF Extracts
  <2> HIDE DEF g, h
  <2>4. /\ g \in [1 .. N - (k - 1) - 1 -> Entry] /\ m \in 1 .. MaxOut
        /\ HasOneMore(h, g, Queued(m))
    BY <2>3, ExtractIs
  <2>5. /\ s \in Seq(1 .. MaxOut) /\ Len(s) = k - 1
        /\ \A j \in 1 .. k - 1 : s[j] = left[j - 1][1].data
    BY <1>1, <1>2, <2>1, FirstAre
  <2>6. /\ t \in Seq(1 .. MaxOut) /\ Len(t) = k
        /\ \A j \in 1 .. k : t[j] = left[j - 1][1].data
    BY <1>1, <1>2, <2>1, FirstAre
  <2> HIDE DEF m, s, t
  <2>7. t = Append(s, m)
    <3>1. t[k] = m
      BY <2>6 DEF m, h
    <3>2. Append(s, m) \in Seq(1 .. MaxOut) /\ Len(Append(s, m)) = k /\ Append(s, m)[k] = m
          /\ \A j \in 1 .. k - 1 : Append(s, m)[j] = s[j]
      BY <2>1, <2>4, <2>5, AppendProperties
    <3>3. \A j \in 1 .. k : t[j] = Append(s, m)[j]
      <4> SUFFICES ASSUME NEW j \in 1 .. k PROVE t[j] = Append(s, m)[j]
        OBVIOUS
      <4>1. j = k \/ j \in 1 .. k - 1
        BY <2>1
      <4> QED BY <2>5, <2>6, <3>1, <3>2, <4>1, Zenon
    <3> QED BY <2>6, <3>2, <3>3, SeqEqual
  <2>8. SentWith(left, k) = units \o Halves(conn, m)
    <3>1. SentWith(left, k) = out \o pending \o Spelled(conn, t)
      BY <1>1, <1>2, <2>1, SentWithIs DEF t
    <3>2. units = out \o pending \o Spelled(conn, s)
      BY <1>1, <1>2, <2>1, SentWithIs DEF s, units
    <3>3. Spelled(conn, t) = Spelled(conn, s) \o Halves(conn, m)
      BY <2>4, <2>5, <2>7, SpelledAppend
    <3>4. Spelled(conn, s) \in Seq(Unit) /\ Halves(conn, m) \in Seq(Unit)
      BY <2>4, <2>5, SpelledIs, HalvesAre
    <3>5. out \o pending \o Spelled(conn, s) \o Halves(conn, m)
          = out \o pending \o (Spelled(conn, s) \o Halves(conn, m))
      <4> DEFINE q == out \o pending
                 a == Spelled(conn, s)
                 d == Halves(conn, m)
      <4>1. q \in Seq(Unit) /\ a \in Seq(Unit) /\ d \in Seq(Unit)
        BY <1>1, <3>4
      <4> HIDE DEF q, a, d
      <4>2. q \o a \o d = q \o (a \o d)
        BY ONLY <4>1, ConcatAssociative, SMTT(30)
      <4> QED BY <4>2 DEF q, a, d
    <3> QED BY <3>1, <3>2, <3>3, <3>5, Zenon
  <2>9. SentWith(left, k) \in Seq(Unit)
    BY <2>2, <2>4, <2>8, HalvesAre, ConcatProperties
  <2>10. ~garbled => Told(conn, SentWith(left, k), g, accepted)
    <3>1. \A x \in 1 .. MaxOut : Copies(h, Queued(x)) \in Nat /\ Copies(g, Queued(x)) \in Nat
      BY <2>3, <2>4, EntriesCounted
    <3>2. ~garbled => Told(conn, units \o Halves(conn, m), g, accepted)
      BY <2>2, <2>4, <3>1, ToldSends
    <3> QED BY <2>8, <3>2, Zenon
  <2>11. <<SentWith(left, k), k>> \in P
    BY <2>1, <2>9, <2>10 DEF g
  <2> QED BY <2>1, <2>11
<1>5. f[n] \in P
  <2>1. n \in 0 .. N
    BY DEF N
  <2> HIDE DEF f, P
  <2> QED BY <1>1, <1>3, <1>4, <2>1, IterationStays
<1>6. f[n] = <<SentWith(left, n), n>>
  BY DEF N
<1> HIDE DEF f
<1> QED
  BY <1>5, <1>6

\* At first the provider was told nothing, and nothing is wanted.
LEMMA ToldNothing ==
  ASSUME NEW c
  PROVE  Told(c, <<>>, <<>>, {})
<1>1. <<>> \in Seq(1 .. MaxOut) /\ Len(<<>>) = 0
  OBVIOUS
<1>2. Spelled(c, <<>>) = <<>>
  <2>1. \A e : [i \in 1 .. 2 * 0 |-> e[i]] = <<>>
    OBVIOUS
  <2> QED BY <1>1 DEF Spelled
<1>3. \A x : Copies(<<>>, x) = 0
  <2>1. \A x : {i \in DOMAIN <<>> : <<>>[i] = x} = {}
    OBVIOUS
  <2> QED BY <2>1, FS_EmptySet DEF Copies
<1>4. Shares(<<>>, <<>>, {})
  BY <1>3 DEF Shares
<1> QED
  BY <1>1, <1>2, <1>4, Zenon DEF Told

\* While the connection is up, the rest of the invariant follows from what was told.
LEMMA ToldIsEnough ==
  ASSUME OutTypeOK', status' = "up", conn' \in 1 .. Conns, Len(heap') < HeapLen,
         accepted' \subseteq 1 .. asked',
         ~garbled' => Told(conn', out' \o pending', heap', accepted')
  PROVE  OutInv'
<1>1. ~garbled' => WholeMessages(out')
  <2>1. heap' \in [1 .. Len(heap') -> Entry] /\ Len(heap') \in Nat
    BY SeqIsFunction DEF OutTypeOK
  <2>2. \A m \in 1 .. MaxOut : Copies(heap', Queued(m)) \in Nat
    BY <2>1, EntriesCounted
  <2>3. out' \in Seq(Unit) /\ pending' \in Seq(Unit)
    BY DEF OutTypeOK
  <2> QED BY <2>2, <2>3, SentIsWhole
<1>2. WholeMessages(out)' <=> WholeMessages(out')
  BY DEF WholeMessages
<1>3. Told(conn, out \o pending, heap, accepted)' <=> Told(conn', out' \o pending', heap', accepted')
  BY DEF Told, Spelled, Shares, Queued, Copies
<1>4. OutFlow'
  BY <1>1, <1>2, <1>3 DEF OutFlow
<1> QED
  BY <1>4 DEF OutInv

\* A part of msg goes out behind o, and the rest is put aside.
LEMMA PartGoes ==
  ASSUME garbled \in BOOLEAN, NEW o \in Seq(Unit), NEW msg \in Seq(Unit), NEW n \in 0 .. Len(msg),
         out' = o \o SubSeq(msg, 1, n), PutAside(msg, n)
  PROVE  /\ out' \in Seq(Unit) /\ pending' \in Seq(Unit) /\ garbled' \in BOOLEAN
         /\ ~garbled' => ~garbled /\ out' \o pending' = o \o msg
<1> DEFINE a == SubSeq(msg, 1, n)
           b == SubSeq(msg, n + 1, Len(msg))
<1>1. a \in Seq(Unit) /\ b \in Seq(Unit) /\ a \o b = msg
  BY PartsJoin
<1>2. out' = o \o a /\ out' \in Seq(Unit)
  BY <1>1, ConcatProperties
<1>3. CASE pending' = b /\ garbled' = garbled
  <2> HIDE DEF a, b
  <2>1. (o \o a) \o b = o \o (a \o b)
    <3>1. o \in Seq(Unit) /\ a \in Seq(Unit) /\ b \in Seq(Unit)
      BY <1>1
    <3> QED BY ONLY <3>1, ConcatAssociative, SMTT(30)
  <2> QED BY <1>1, <1>2, <1>3, <2>1, Zenon
<1>4. CASE pending' = msg /\ garbled' = TRUE
  BY <1>2, <1>4
<1> QED
  BY <1>3, <1>4 DEF PutAside

\* kcomm_send sends the message, a part of it, puts it in the heap or refuses it.
LEMMA SendKeeps ==
  ASSUME OutInv, conn \in 1 .. Conns, kcomm_send
  PROVE  OutInv'
<1> DEFINE m == asked + 1
           msg == Halves(conn, m)
           N == Len(heap)
<1>1. /\ status = "up" /\ asked < MaxOut /\ asked' = m
      /\ status' = status /\ conn' = conn
      /\ IF pending # <<>> /\ HeapFull(heap, HeapLen)
         THEN UNCHANGED <<accepted, pending, heap, out, garbled>>
         ELSE SendOrQueue(m) /\ accepted' = accepted \cup {m}
  BY DEF kcomm_send, SendOrQueue
<1>2. /\ asked \in Nat /\ m \in 1 .. MaxOut /\ m \notin accepted /\ accepted \subseteq 1 .. asked
      /\ accepted \cup {m} \subseteq 1 .. m /\ accepted \subseteq 1 .. m
  BY <1>1, KcommAssumption DEF OutInv, OutTypeOK, OutFlow
<1>3. /\ out \in Seq(Unit) /\ pending \in Seq(Unit) /\ heap \in Seq(Entry) /\ garbled \in BOOLEAN
      /\ N < HeapLen /\ (~garbled => Told(conn, out \o pending, heap, accepted))
  BY <1>1 DEF OutInv, OutTypeOK, OutFlow
<1>4. N \in Nat /\ heap \in [1 .. N -> Entry]
  BY <1>3, SeqIsFunction
<1>5. msg \in Seq(Unit) /\ Len(msg) = 2
  BY <1>2, HalvesAre
<1>6. \A x \in 1 .. MaxOut : Copies(heap, Queued(x)) \in Nat
  BY <1>4, EntriesCounted
<1> HIDE DEF N, msg, m
<1>7. accepted \cup {m} \subseteq 1 .. MaxOut /\ accepted \subseteq 1 .. MaxOut /\ m \in 0 .. MaxOut
  BY <1>2, KcommAssumption DEF OutInv, OutTypeOK
<1>8. CASE pending # <<>> /\ HeapFull(heap, HeapLen)
  <2>1. /\ accepted' = accepted /\ pending' = pending /\ heap' = heap /\ out' = out
        /\ garbled' = garbled
    BY <1>1, <1>8
  <2>2. OutTypeOK'
    BY <1>1, <1>3, <1>7, <2>1 DEF OutTypeOK
  <2>3. accepted' \subseteq 1 .. asked'
    BY <1>1, <1>2, <2>1
  <2>4. conn' \in 1 .. Conns /\ Len(heap') < HeapLen /\ status' = "up"
    BY <1>1, <1>3, <2>1 DEF N
  <2>5. ~garbled' => Told(conn', out' \o pending', heap', accepted')
    BY <1>1, <1>3, <2>1
  <2> QED BY <2>2, <2>3, <2>4, <2>5, ToldIsEnough
<1>9. CASE pending = <<>>
  <2>1. accepted' = accepted \cup {m} /\ SendNow(m)
    BY <1>1, <1>9 DEF SendOrQueue
  <2>2. PICK n \in 0 .. 2 : /\ out' = out \o SubSeq(msg, 1, n)
                            /\ IF n = 2 THEN UNCHANGED <<pending, garbled>> ELSE PutAside(msg, n)
                            /\ heap' = heap
    BY <2>1 DEF SendNow, msg
  <2>3. out \o pending = out
    BY <1>3, <1>9, ConcatEmptySeq
  <2>4. /\ out' \in Seq(Unit) /\ pending' \in Seq(Unit) /\ garbled' \in BOOLEAN
        /\ ~garbled' => ~garbled /\ out' \o pending' = out \o msg
    <3>1. CASE n = 2
      <4>1. SubSeq(msg, 1, n) = msg
        BY <1>5, <3>1, SubSeqFull
      <4>2. out' = out \o msg /\ out \o msg \in Seq(Unit)
        BY <1>3, <1>5, <2>2, <4>1, ConcatProperties
      <4>3. pending' = <<>> /\ garbled' = garbled
        BY <1>9, <2>2, <3>1
      <4>4. out \o msg \o <<>> = out \o msg
        BY <4>2, ConcatEmptySeq
      <4>5. <<>> \in Seq(Unit)
        OBVIOUS
      <4> QED BY <1>3, <4>2, <4>3, <4>4, <4>5, Zenon
    <3>2. CASE n # 2
      <4>1. n \in 0 .. Len(msg)
        BY <1>5
      <4> QED BY <1>3, <1>5, <2>2, <3>2, <4>1, PartGoes
    <3> QED BY <3>1, <3>2
  <2>5. OutTypeOK'
    BY <1>1, <1>3, <1>7, <2>1, <2>2, <2>4 DEF OutTypeOK
  <2>6. ~garbled' => Told(conn', out' \o pending', heap', accepted')
    <3>1. ~garbled => Told(conn, out \o msg, heap, accepted \cup {m})
      BY <1>2, <1>3, <1>6, <2>3, ToldSends DEF msg
    <3> QED BY <1>1, <2>1, <2>2, <2>4, <3>1, Zenon
  <2>7. conn' \in 1 .. Conns /\ Len(heap') < HeapLen /\ status' = "up" /\ accepted' \subseteq 1 .. asked'
    BY <1>1, <1>2, <1>3, <2>1, <2>2 DEF N
  <2> QED BY <2>5, <2>6, <2>7, ToldIsEnough
<1>10. CASE pending # <<>> /\ ~HeapFull(heap, HeapLen)
  <2> DEFINE g == heap_insert(heap, Queued(m), HeapLen)
  <2>1. /\ accepted' = accepted \cup {m} /\ heap' = g /\ out' = out /\ pending' = pending
        /\ garbled' = garbled
    BY <1>1, <1>10 DEF SendOrQueue, SendLater
  <2>2. Queued(m) \in Entry
    BY <1>2 DEF Entry, Queued
  <2>3. g \in [1 .. N + 1 -> Entry] /\ HasOneMore(g, heap, Queued(m))
    BY <1>4, <1>10, <2>2, InsertKeeps
  <2> HIDE DEF g
  <2>4. g \in Seq(Entry) /\ Len(g) = N + 1
    BY <1>4, <2>3
  <2>5. N + 1 < HeapLen
    BY <1>3, <1>4, <1>10, KcommAssumption DEF HeapFull, N
  <2>6. OutTypeOK'
    BY <1>1, <1>3, <1>7, <2>1, <2>4 DEF OutTypeOK
  <2>7. ~garbled' => Told(conn', out' \o pending', heap', accepted')
    BY <1>1, <1>2, <1>3, <1>6, <2>1, <2>3, ToldQueues
  <2>8. conn' \in 1 .. Conns /\ Len(heap') < HeapLen /\ status' = "up" /\ accepted' \subseteq 1 .. asked'
    BY <1>1, <1>2, <2>1, <2>4, <2>5
  <2> QED BY <2>6, <2>7, <2>8, ToldIsEnough
<1> QED
  BY <1>8, <1>9, <1>10

\* A part of what is pending goes.
LEMMA FinishPartKeeps ==
  ASSUME OutInv, conn \in 1 .. Conns, FinishPart
  PROVE  OutInv'
<1>1. PICK n \in 1 .. Len(pending) - 1 : /\ out' = out \o SubSeq(pending, 1, n)
                                         /\ pending' = SubSeq(pending, n + 1, Len(pending))
  BY DEF FinishPart
<1>2. /\ status' = status /\ conn' = conn /\ asked' = asked /\ accepted' = accepted /\ heap' = heap
      /\ garbled' = garbled /\ status = "up"
  BY DEF FinishPart, MayFinish
<1>3. /\ out \in Seq(Unit) /\ pending \in Seq(Unit) /\ garbled \in BOOLEAN
      /\ (~garbled => Told(conn, out \o pending, heap, accepted))
  BY <1>2 DEF OutInv, OutTypeOK, OutFlow
<1>4. n \in 0 .. Len(pending) /\ PutAside(pending, n)
  BY <1>1, <1>2, <1>3 DEF PutAside
<1>5. /\ out' \in Seq(Unit) /\ pending' \in Seq(Unit)
      /\ ~garbled' => out' \o pending' = out \o pending
  BY <1>1, <1>3, <1>4, PartGoes
<1>6. OutTypeOK'
  BY <1>2, <1>5 DEF OutInv, OutTypeOK
<1>7. ~garbled' => Told(conn', out' \o pending', heap', accepted')
  BY <1>2, <1>3, <1>5
<1>8. conn' \in 1 .. Conns /\ Len(heap') < HeapLen /\ status' = "up" /\ accepted' \subseteq 1 .. asked'
  BY <1>2 DEF OutInv, OutFlow
<1> QED
  BY <1>6, <1>7, <1>8, ToldIsEnough

\* What is miscounted says nothing of what is sent; its types are right.
LEMMA FinishNothingKeeps ==
  ASSUME OutInv, conn \in 1 .. Conns, FinishNothing
  PROVE  OutInv'
<1>1. /\ status' = status /\ conn' = conn /\ asked' = asked /\ accepted' = accepted /\ heap' = heap
      /\ out' = out /\ garbled' = TRUE /\ pending' = <<Junk>> \o pending /\ status = "up"
  BY DEF FinishNothing, MayFinish
<1>2. Junk \in Unit
  <2>1. 1 \in 1 .. Conns /\ 0 \in 0 .. MaxIn + MaxOut
    BY KcommAssumption
  <2> QED BY <2>1 DEF Junk, Unit
<1>3. pending' \in Seq(Unit)
  <2>1. <<Junk>> \in Seq(Unit) /\ pending \in Seq(Unit)
    BY <1>2 DEF OutInv, OutTypeOK
  <2> QED BY <1>1, <2>1, ConcatProperties
<1>4. OutTypeOK'
  BY <1>1, <1>3 DEF OutInv, OutTypeOK
<1>5. conn' \in 1 .. Conns /\ Len(heap') < HeapLen /\ status' = "up" /\ accepted' \subseteq 1 .. asked'
  BY <1>1 DEF OutInv, OutFlow
<1> QED
  BY <1>1, <1>4, <1>5, ToldIsEnough

\* All that was pending goes, and messages of the heap with it.
LEMMA FinishWholeKeeps ==
  ASSUME OutInv, conn \in 1 .. Conns, FinishWhole
  PROVE  OutInv'
<1> DEFINE N == Len(heap)
<1>1. /\ status' = status /\ conn' = conn /\ asked' = asked /\ accepted' = accepted /\ status = "up"
  BY Zenon DEF FinishWhole, MayFinish
<1>2. /\ OutTypeOK /\ heap \in Seq(Entry) /\ garbled \in BOOLEAN
      /\ (~garbled => Told(conn, out \o pending, heap, accepted))
      /\ N < HeapLen /\ accepted \subseteq 1 .. asked
  BY <1>1 DEF OutInv, OutTypeOK, OutFlow
<1>3. N \in Nat /\ heap \in [1 .. N -> Entry]
  BY <1>2, SeqIsFunction
<1>4. PICK left : Extracts(left, heap, N) /\ \E n \in 0 .. N : Finishes(left, n)
  BY <1>2, FinishRuns
<1>5. PICK n \in 0 .. N : Finishes(left, n)
  BY <1>4
<1> DEFINE units == SentWith(left, n)
<1>6. units \in Seq(Unit) /\ (~garbled => Told(conn, units, left[n], accepted))
  BY <1>2, <1>4, SentSoFar
<1>7. /\ left[n] \in [1 .. N - n -> Entry]
      /\ n # N => left[n + 1] \in [1 .. N - (n + 1) -> Entry] /\ left[n + 1] = heap_extract_max(left[n])
  <2> HIDE DEF N
  <2>1. n \in Nat /\ (n # N => n + 1 \in 1 .. N /\ n + 1 \in 0 .. N /\ n + 1 - 1 = n)
    BY <1>3
  <2> QED BY <1>4, <2>1 DEF Extracts
<1>8. conn' \in 1 .. Conns /\ status' = "up" /\ accepted' \subseteq 1 .. asked'
  BY <1>1, <1>2
<1> HIDE DEF units, N
<1>9. CASE n = N
  <2>1. heap' = <<>> /\ out' = units /\ pending' = <<>> /\ garbled' = garbled
    BY <1>5, <1>9 DEF Finishes, units, N
  <2>2. left[n] = <<>>
    <3>1. N - n = 0
      BY <1>3, <1>9
    <3>2. left[n] \in [1 .. 0 -> Entry]
      BY <1>7, <3>1
    <3> QED BY <3>2
  <2>3. units \o <<>> = units
    BY <1>6, ConcatEmptySeq
  <2>4. <<>> \in Seq(Unit) /\ <<>> \in Seq(Entry) /\ Len(<<>>) = 0 /\ 0 < HeapLen
    BY KcommAssumption
  <2>5. OutTypeOK'
    BY <1>1, <1>2, <1>6, <2>1, <2>4 DEF OutTypeOK
  <2>6. ~garbled' => Told(conn', out' \o pending', heap', accepted')
    BY <1>1, <1>6, <2>1, <2>2, <2>3, Zenon
  <2>7. Len(heap') < HeapLen
    BY <2>1, <2>4
  <2> QED BY <1>8, <2>5, <2>6, <2>7, ToldIsEnough
<1>10. CASE n # N
  <2> DEFINE h == left[n]
             g == left[n + 1]
             m == h[1].data
             msg == Halves(conn, m)
  <2>1. n + 1 - 1 = n /\ N - n \in Nat \ {0} /\ N - n - 1 = N - (n + 1) /\ N - (n + 1) \in Nat
        /\ N - (n + 1) < HeapLen
    BY <1>2, <1>3, <1>10, KcommAssumption
  <2>2. MessageAt(left, n + 1) = msg
    <3>1. n + 1 - 1 = n
      BY <2>1
    <3>2. ASSUME NEW k, k = n PROVE Halves(conn, left[k][1].data) = msg
      BY <3>2
    <3> QED BY <3>1, <3>2 DEF MessageAt
  <2>3. PICK cut \in {0, 1} : /\ heap' = g
                              /\ out' = units \o SubSeq(msg, 1, cut)
                              /\ PutAside(msg, cut)
    BY <1>5, <1>10, <2>2, Zenon DEF Finishes, units, N
  <2>4. h \in [1 .. N - n -> Entry] /\ g \in [1 .. N - (n + 1) -> Entry] /\ g = heap_extract_max(h)
    BY <1>7, <1>10
  <2> HIDE DEF h, g
  <2>5. m \in 1 .. MaxOut /\ HasOneMore(h, g, Queued(m))
    BY <2>1, <2>4, ExtractIs
  <2>6. \A x \in 1 .. MaxOut : Copies(h, Queued(x)) \in Nat /\ Copies(g, Queued(x)) \in Nat
    BY <2>1, <2>4, EntriesCounted
  <2> HIDE DEF m
  <2>7. msg \in Seq(Unit) /\ Len(msg) = 2
    BY <2>5, HalvesAre
  <2>8. ~garbled => Told(conn, units \o msg, g, accepted)
    BY <1>6, <2>5, <2>6, ToldSends DEF h
  <2> HIDE DEF msg
  <2>9. /\ out' \in Seq(Unit) /\ pending' \in Seq(Unit) /\ garbled' \in BOOLEAN
        /\ ~garbled' => ~garbled /\ out' \o pending' = units \o msg
    <3>1. cut \in 0 .. Len(msg)
      BY <2>7
    <3> QED BY <1>2, <1>6, <2>3, <2>7, <3>1, PartGoes
  <2>10. g \in Seq(Entry) /\ Len(g) = N - (n + 1)
    BY <2>1, <2>4
  <2>11. OutTypeOK'
    BY <1>1, <1>2, <2>3, <2>9, <2>10 DEF OutTypeOK
  <2>12. ~garbled' => Told(conn', out' \o pending', heap', accepted')
    BY <1>1, <2>3, <2>8, <2>9, Zenon
  <2>13. Len(heap') < HeapLen
    BY <2>1, <2>3, <2>10
  <2> QED BY <1>8, <2>11, <2>12, <2>13, ToldIsEnough
<1> QED
  BY <1>9, <1>10, Zenon

\* Nothing that concerns what is sent changes, unless the connection is authenticated.
LEMMA SameOutKeeps ==
  ASSUME OutInv, status' = status \/ (status = "unauth" /\ status' = "up"), UNCHANGED <<conn, outVars>>
  PROVE  OutInv'
<1>1. /\ conn' = conn /\ asked' = asked /\ accepted' = accepted /\ pending' = pending /\ heap' = heap
      /\ out' = out /\ garbled' = garbled
  BY DEF outVars
<1>2. OutTypeOK'
  BY <1>1, Zenon DEF OutInv, OutTypeOK
<1>3. WholeMessages(out)' <=> WholeMessages(out)
  BY <1>1 DEF WholeMessages
<1>4. Told(conn, out \o pending, heap, accepted)' <=> Told(conn, out \o pending, heap, accepted)
  BY <1>1 DEF Told, Spelled, Shares, Queued, Copies
<1>5. status' = status \/ (status # "up" /\ status # "new" /\ status' # "unauth" /\ status' = "up")
  OBVIOUS
<1>6. OutFlow'
  BY <1>1, <1>3, <1>4, <1>5, Zenon DEF OutInv, OutFlow
<1> QED
  BY <1>2, <1>6 DEF OutInv

\* The connection is gone, and with it what was pending and queued.
LEMMA ResetKeepsSent ==
  ASSUME OutInv, ResetOnly
  PROVE  OutInv'
<1>1. /\ status' = "new" /\ pending' = <<>> /\ heap' = <<>>
      /\ asked' = asked /\ accepted' = accepted /\ out' = out /\ garbled' = garbled
  BY DEF ResetOnly, kcomm_reset
<1>2. <<>> \in Seq(Unit) /\ <<>> \in Seq(Entry) /\ Len(<<>>) = 0 /\ 0 < HeapLen
  BY KcommAssumption
<1>3. OutTypeOK'
  BY <1>1, <1>2, Zenon DEF OutInv, OutTypeOK
<1>4. WholeMessages(out)' <=> WholeMessages(out)
  BY <1>1 DEF WholeMessages
<1>5. Len(heap') < HeapLen
  BY <1>1, <1>2
<1>6. status' # "unauth"
  BY <1>1
<1>7. OutFlow'
  BY <1>1, <1>4, <1>5, <1>6, Zenon DEF OutInv, OutFlow
<1> QED
  BY <1>3, <1>7 DEF OutInv

\* A new connection starts with nothing sent.
LEMMA SetupKeepsSent ==
  ASSUME OutInv, kcomm_setup_connection
  PROVE  OutInv'
<1>1. /\ status = "new" /\ status' = "unauth" /\ asked' = 0 /\ accepted' = {} /\ out' = <<>>
      /\ garbled' = FALSE /\ pending' = pending /\ heap' = heap
  BY DEF kcomm_setup_connection
<1>2. pending' = <<>> /\ heap' = <<>>
  BY <1>1 DEF OutInv, OutFlow
<1>3. <<>> \in Seq(Unit) /\ <<>> \in Seq(Entry) /\ Len(<<>>) = 0 /\ 0 < HeapLen /\ <<>> \o <<>> = <<>>
        /\ 0 \in 0 .. MaxOut
  BY KcommAssumption
<1>4. OutTypeOK'
  BY <1>1, <1>2, <1>3 DEF OutTypeOK
<1>5. Told(conn, out \o pending, heap, accepted)'
  <2>1. Told(conn', <<>>, <<>>, {})
    BY ToldNothing
  <2>2. Told(conn, out \o pending, heap, accepted)' <=> Told(conn', out' \o pending', heap', accepted')
    BY DEF Told, Spelled, Shares, Queued, Copies
  <2> QED BY <1>1, <1>2, <1>3, <2>1, <2>2, Zenon
<1>6. WholeMessages(out)'
  BY <1>1 DEF WholeMessages
<1>7. Len(heap') < HeapLen /\ accepted' \subseteq 1 .. asked' /\ status' # "up"
  BY <1>1, <1>2, <1>3
<1>8. OutFlow'
  BY <1>1, <1>2, <1>5, <1>6, <1>7, Zenon DEF OutFlow
<1> QED
  BY <1>4, <1>8 DEF OutInv

\* What holds of the sending side holds of a channel that was never connected.
LEMMA OutInvInit == KcommInit => OutInv
<1> SUFFICES ASSUME KcommInit PROVE OutInv
  OBVIOUS
<1>1. /\ status = "new" /\ asked = 0 /\ accepted = {} /\ pending = <<>> /\ heap = <<>> /\ out = <<>>
      /\ garbled = FALSE
  BY DEF KcommInit
<1>2. <<>> \in Seq(Unit) /\ <<>> \in Seq(Entry) /\ Len(<<>>) = 0 /\ 0 < HeapLen /\ 0 \in 0 .. MaxOut
  BY KcommAssumption
<1>3. OutTypeOK
  BY <1>1, <1>2 DEF OutTypeOK
<1>4. WholeMessages(out)
  BY <1>1 DEF WholeMessages
<1>5. Len(heap) < HeapLen /\ accepted \subseteq 1 .. asked
  BY <1>1, <1>2
<1>6. OutFlow
  BY <1>1, <1>4, <1>5 DEF OutFlow
<1> QED
  BY <1>3, <1>6 DEF OutInv

\* Every step of the channel keeps it.
LEMMA OutInvStep == InInv /\ OutInv /\ [KcommNext]_kcommVars => OutInv'
<1> SUFFICES ASSUME InInv, OutInv, [KcommNext]_kcommVars PROVE OutInv'
  OBVIOUS
<1>1. status # "new" => conn \in 1 .. Conns
  BY KcommAssumption DEF InInv
<1>2. CASE UNCHANGED kcommVars
  BY <1>2, SameOutKeeps DEF kcommVars
<1>3. CASE kcomm_setup_connection
  BY <1>3, SetupKeepsSent
<1>4. CASE kcomm_recv_auth
  BY <1>4, SameOutKeeps, ResetKeepsSent DEF kcomm_recv_auth
<1>5. CASE kcomm_exception \/ kcomm_send_Broken \/ kcomm_finish_send_Broken
  BY <1>5, ResetKeepsSent DEF kcomm_exception, kcomm_send_Broken, kcomm_finish_send_Broken
<1>6. CASE kcomm_recv
  BY <1>6, SameOutKeeps, ResetKeepsSent DEF kcomm_recv, ReadNothing, Read
<1>7. CASE kcomm_send
  <2>1. status = "up"
    BY <1>7, Zenon DEF kcomm_send
  <2> QED BY <1>1, <1>7, <2>1, SendKeeps
<1>8. CASE kcomm_finish_send
  <2>1. status = "up"
    BY <1>8, Zenon DEF kcomm_finish_send, FinishWhole, FinishPart, FinishNothing, MayFinish
  <2> QED BY <1>1, <1>8, <2>1, FinishWholeKeeps, FinishPartKeeps, FinishNothingKeeps
          DEF kcomm_finish_send
<1>9. CASE ProviderSends \/ ProviderHangsUp
  BY <1>9, SameOutKeeps DEF ProviderSends, ProviderHangsUp
<1> QED
  BY <1>2, <1>3, <1>4, <1>5, <1>6, <1>7, <1>8, <1>9 DEF KcommNext

\* Both sides together.
LEMMA KcommInvHolds == KcommSpec => [](InInv /\ OutInv)
<1>1. KcommInit => InInv /\ OutInv
  BY InInvInit, OutInvInit
<1>2. InInv /\ OutInv /\ [KcommNext]_kcommVars => InInv' /\ OutInv'
  BY InInvStep, OutInvStep
<1> QED
  BY <1>1, <1>2, PTL DEF KcommSpec

\* What was accepted is what was sent, is being sent or is queued.
LEMMA AcceptedAreThere ==
  ASSUME OutTypeOK, conn \in 1 .. Conns, Told(conn, out \o pending, heap, accepted)
  PROVE  accepted = MessagesOut(out \o pending) \cup {q.data : q \in ToSet(heap)}
<1> DEFINE units == out \o pending
           H == {q.data : q \in ToSet(heap)}
<1>1. PICK s \in Seq(1 .. MaxOut) : units = Spelled(conn, s) /\ Shares(s, heap, accepted)
  BY DEF Told
<1> DEFINE l == Len(s)
           N == Len(heap)
<1>2. /\ l \in Nat /\ s \in [1 .. l -> 1 .. MaxOut] /\ N \in Nat /\ heap \in [1 .. N -> Entry]
      /\ accepted \subseteq 1 .. MaxOut
  BY SeqIsFunction DEF OutTypeOK
<1>3. DOMAIN units = 1 .. 2 * l /\ \A i \in 1 .. 2 * l : units[i][2] = s[(i + 1) \div 2]
  <2>1. /\ units \in Seq(Unit) /\ Len(units) = 2 * l
        /\ \A i \in 1 .. 2 * l : units[i] = <<conn, s[(i + 1) \div 2], IF i % 2 = 1 THEN 1 ELSE 2>>
    BY <1>1, SpelledIs
  <2> HIDE DEF units, l
  <2> QED BY <2>1
<1> HIDE DEF units
<1>4. \A x : x \in MessagesOut(units) <=> \E j \in 1 .. l : s[j] = x
  <2> SUFFICES ASSUME NEW x PROVE x \in MessagesOut(units) <=> \E j \in 1 .. l : s[j] = x
    OBVIOUS
  <2>1. ASSUME NEW j \in 1 .. l PROVE s[j] \in MessagesOut(units)
    <3>1. 2 * j \in 1 .. 2 * l /\ (2 * j + 1) \div 2 = j
      BY <1>2
    <3> HIDE DEF l
    <3> QED BY <1>3, <3>1 DEF MessagesOut
  <2>2. ASSUME NEW i \in DOMAIN units PROVE \E j \in 1 .. l : s[j] = units[i][2]
    <3>1. i \in 1 .. 2 * l /\ (i + 1) \div 2 \in 1 .. l
      BY <1>2, <1>3
    <3> HIDE DEF l
    <3> QED BY <1>3, <3>1
  <2> QED BY <2>1, <2>2 DEF MessagesOut
<1>5. \A x : x \in H <=> \E j \in 1 .. N : heap[j] = Queued(x)
  <2>1. \A e \in Entry : e = Queued(e.data)
    BY DEF Entry, Queued
  <2>2. \A j \in 1 .. N : heap[j] = Queued(heap[j].data)
    BY <1>2, <2>1
  <2>3. \A x : Queued(x).data = x
    BY DEF Queued
  <2>4. ToSet(heap) = {heap[j] : j \in 1 .. N}
    BY <1>2 DEF ToSet
  <2> HIDE DEF N
  <2> QED BY <2>2, <2>3, <2>4
<1>6. ASSUME NEW x PROVE x \in accepted <=> x \in MessagesOut(units) \cup H
  <2>1. x \in MessagesOut(units) \cup H => x \in 1 .. MaxOut
    <3>1. x \in MessagesOut(units) => x \in 1 .. MaxOut
      BY <1>2, <1>4
    <3>2. x \in H => x \in 1 .. MaxOut
      <4> SUFFICES ASSUME NEW j \in 1 .. N, heap[j] = Queued(x) PROVE x \in 1 .. MaxOut
        BY <1>5
      <4>1. Queued(x) \in Entry
        BY <1>2
      <4> QED BY <4>1 DEF Entry, Queued
    <3> QED BY <3>1, <3>2
  <2>2. ASSUME x \in 1 .. MaxOut PROVE x \in accepted <=> x \in MessagesOut(units) \cup H
    <3>1. Copies(heap, Queued(x)) + Copies(s, x) = IF x \in accepted THEN 1 ELSE 0
      BY <1>1, <2>2 DEF Shares
    <3>2. Copies(heap, Queued(x)) \in Nat /\ (Copies(heap, Queued(x)) = 0 <=> x \notin H)
      <4>1. /\ Copies(heap, Queued(x)) \in Nat
            /\ Copies(heap, Queued(x)) = 0 <=> ~\E j \in 1 .. N : heap[j] = Queued(x)
        BY <1>2, SomeIsThere
      <4> HIDE DEF H
      <4> QED BY <1>5, <4>1, Zenon
    <3>3. Copies(s, x) \in Nat /\ (Copies(s, x) = 0 <=> x \notin MessagesOut(units))
      <4>1. Copies(s, x) \in Nat /\ (Copies(s, x) = 0 <=> ~\E j \in 1 .. l : s[j] = x)
        BY <1>2, SomeIsThere
      <4> QED BY <1>4, <4>1, Zenon
    <3> HIDE DEF H
    <3> QED BY <3>1, <3>2, <3>3
  <2> QED BY <1>2, <2>1, <2>2
<1> QED
  BY <1>6 DEF units

\* The connection's variables have their types, whatever is sent, read and lost.
THEOREM KcommTypeCorrect == KcommSpec => []KcommTypeOK
<1>1. InInv /\ OutInv => KcommTypeOK
  BY DEF InInv, OutInv, OutTypeOK, KcommTypeOK, Entry
<1> QED
  BY <1>1, KcommInvHolds, PTL

\* As long as no amount was miscounted the provider is sent whole messages, none twice, and
\* no message accepted is lost while the connection lasts; the queue is never full to its
\* last place (SentWhole; kcomm_send, kcomm_finish_send, send_queued_msg, prioHeap.c).
THEOREM SentAlwaysWhole == KcommSpec => []SentWhole
<1>1. InInv /\ OutInv => SentWhole
  <2> SUFFICES ASSUME InInv, OutInv PROVE SentWhole
    OBVIOUS
  <2>1. ~garbled => WholeMessages(out)
    BY DEF OutInv, OutFlow
  <2>2. status = "up" /\ ~garbled =>
          accepted = MessagesOut(out \o pending) \cup {q.data : q \in ToSet(heap)}
    <3> SUFFICES ASSUME status = "up", ~garbled
                 PROVE  accepted = MessagesOut(out \o pending) \cup {q.data : q \in ToSet(heap)}
      OBVIOUS
    <3>1. conn \in 1 .. Conns
      BY KcommAssumption DEF InInv
    <3>2. OutTypeOK /\ Told(conn, out \o pending, heap, accepted)
      BY DEF OutInv, OutFlow
    <3> QED BY <3>1, <3>2, AcceptedAreThere
  <2>3. Len(heap) < HeapLen
    BY DEF OutInv, OutFlow
  <2> QED BY <2>1, <2>2, <2>3, Zenon DEF SentWhole, WholeMessages
<1> QED
  BY <1>1, KcommInvHolds, PTL

-----------------------------------------------------------------------------
(***************************************************************************)
(* The map file: checking and sorting a text exchanges its lines, and      *)
(* neither loses one nor repeats one (MapperBuilder.c).                    *)
(***************************************************************************)

\* Lines of a map, and what a text of them becomes when they are put in another order:
\* the same lines, none of which names an address or a number of another.
Ranged(R) == R \subseteq {l \in [base : Nat, addr : Nat, count : Nat] : Plain(l)}

Reordered(t, R, n) ==
  {m \in [1 .. n -> R] : /\ \A i \in 1 .. n : \E j \in 1 .. n : m[i] = t[j]
                         /\ \A j \in 1 .. n : \E i \in 1 .. n : m[i] = t[j]
                         /\ Unambiguous(m)}

\* Two neighbours are exchanged.
LEMMA SwapKeeps ==
  ASSUME NEW R, NEW n \in Nat, NEW t, NEW m \in Reordered(t, R, n), NEW j \in 1 .. n - 1
  PROVE  Swap(m, j) \in Reordered(t, R, n)
<1> DEFINE g == [m EXCEPT ![j] = m[j + 1], ![j + 1] = m[j]]
<1>1. m \in [1 .. n -> R] /\ j \in 1 .. n /\ j + 1 \in 1 .. n /\ j # j + 1
  BY DEF Reordered
<1>2. g \in [1 .. n -> R]
  BY <1>1
<1>3. g[j] = m[j + 1] /\ g[j + 1] = m[j] /\ \A i \in 1 .. n : i # j /\ i # j + 1 => g[i] = m[i]
  BY <1>1
<1> HIDE DEF g
<1> DEFINE s(i) == IF i = j THEN j + 1 ELSE IF i = j + 1 THEN j ELSE i
<1>4. \A i \in 1 .. n : s(i) \in 1 .. n /\ g[i] = m[s(i)] /\ g[s(i)] = m[i]
  BY <1>1, <1>3
<1>5. \A i, k \in 1 .. n : i # k => s(i) # s(k)
  OBVIOUS
<1> HIDE DEF s
<1>6. \A i \in 1 .. n : \E k \in 1 .. n : g[i] = t[k]
  <2> SUFFICES ASSUME NEW i \in 1 .. n PROVE \E k \in 1 .. n : g[i] = t[k]
    OBVIOUS
  <2>1. s(i) \in 1 .. n /\ g[i] = m[s(i)]
    BY <1>4
  <2>2. \A e \in 1 .. n : \E k \in 1 .. n : m[e] = t[k]
    BY DEF Reordered
  <2>3. \E k \in 1 .. n : m[s(i)] = t[k]
    BY <2>1, <2>2, Zenon
  <2> QED BY <2>1, <2>3
<1>7. \A k \in 1 .. n : \E i \in 1 .. n : g[i] = t[k]
  <2> SUFFICES ASSUME NEW k \in 1 .. n PROVE \E i \in 1 .. n : g[i] = t[k]
    OBVIOUS
  <2>1. PICK i \in 1 .. n : m[i] = t[k]
    BY DEF Reordered
  <2> QED BY <1>4, <2>1
<1>8. Unambiguous(g)
  <2>1. DOMAIN g = 1 .. n /\ DOMAIN m = 1 .. n
    BY <1>1, <1>2
  <2>2. Unambiguous(m)
    BY DEF Reordered
  <2> SUFFICES ASSUME NEW i \in 1 .. n, NEW k \in 1 .. n, i # k
               PROVE  Nodes(g[i]) \cap Nodes(g[k]) = {} /\ NumbersOf(g[i]) \cap NumbersOf(g[k]) = {}
    BY <2>1 DEF Unambiguous
  <2>3. s(i) \in 1 .. n /\ s(k) \in 1 .. n /\ s(i) # s(k) /\ g[i] = m[s(i)] /\ g[k] = m[s(k)]
    BY <1>4, <1>5
  <2> QED BY <2>1, <2>2, <2>3 DEF Unambiguous
<1>9. g \in Reordered(t, R, n)
  BY <1>2, <1>6, <1>7, <1>8 DEF Reordered
<1> QED
  BY <1>9 DEF Swap, g

\* A pass of exchanges.
LEMMA PassKeeps ==
  ASSUME NEW R, NEW n \in Nat, NEW t, NEW m \in Reordered(t, R, n), NEW i \in 1 .. n
  PROVE  Pass(m, i) \in Reordered(t, R, n)
<1> DEFINE S == Reordered(t, R, n)
           e == i - 1
           F == [p \in S \X Nat |-> IF p[2] \in 1 .. e THEN Swap(p[1], p[2]) ELSE p[1]]
           Value(g, k) == IF k = 0 THEN m ELSE Swap(g[k - 1], k)
           it == CHOOSE g : g = [k \in 0 .. e |-> Value(g, k)]
<1>1. e \in Nat /\ e <= n - 1
  OBVIOUS
<1>2. Pass(m, i) = it[e]
  BY DEF Pass
<1> HIDE DEF e
<1>3. ASSUME NEW k \in 1 .. e, NEW g \in S PROVE Swap(g, k) \in S
  <2>1. k \in 1 .. n - 1
    BY <1>1
  <2> QED BY <2>1, SwapKeeps
<1> HIDE DEF S
<1>4. F \in [S \X Nat -> S] /\ m \in S
  BY <1>3 DEF S
<1>5. \E g : g = [k \in 0 .. e |-> Value(g, k)]
  <2> HIDE DEF F
  <2>1. PICK f \in [0 .. e -> S] : Iterates(f, m, F, e)
    BY <1>1, <1>4, IterationExists
  <2>2. ASSUME NEW k \in 1 .. e PROVE f[k] = Swap(f[k - 1], k)
    <3>1. k - 1 \in 0 .. e /\ k \in Nat
      BY <1>1
    <3>2. f[k - 1] \in S
      BY <2>1, <3>1
    <3>3. <<f[k - 1], k>> \in S \X Nat
      BY <3>1, <3>2
    <3>4. f[k] = F[<<f[k - 1], k>>]
      BY <2>1 DEF Iterates
    <3> QED BY <3>3, <3>4 DEF F
  <2>3. f[0] = m
    BY <2>1 DEF Iterates
  <2>4. \A k \in 0 .. e : f[k] = Value(f, k)
    BY <1>1, <2>2, <2>3
  <2>5. f = [k \in 0 .. e |-> f[k]]
    BY <2>1
  <2> HIDE DEF Value
  <2>6. f = [k \in 0 .. e |-> Value(f, k)]
    BY <2>4, <2>5
  <2> QED BY <2>6
<1> HIDE DEF Value
<1>6. it = [k \in 0 .. e |-> Value(it, k)]
  BY <1>5
<1> HIDE DEF it
<1>7. \A k \in 0 .. e : it[k] = Value(it, k)
  BY <1>6, Zenon
<1>8. it[0] = m /\ \A k \in 1 .. e : it[k] = Swap(it[k - 1], k)
  <2>1. 0 \in 0 .. e
    BY <1>1
  <2>2. \A k \in 1 .. e : k \in 0 .. e /\ k # 0
    BY <1>1
  <2> QED BY <1>7, <2>1, <2>2 DEF Value
<1>9. \A k \in 0 .. e : it[k] \in S
  <2>1. \A k \in 1 .. e : it[k - 1] \in S => it[k] \in S
    BY <1>3, <1>8
  <2> QED BY <1>1, <1>4, <1>8, <2>1, IterationStays
<1>10. it[e] \in S
  BY <1>1, <1>9
<1> QED
  BY <1>2, <1>10 DEF S

\* The sort, whether it sorts or not.
LEMMA SortKeeps ==
  ASSUME NEW R, NEW n \in Nat, NEW t, NEW m \in Reordered(t, R, n)
  PROVE  sort_cluster_ranges(m) \in Reordered(t, R, n)
<1> DEFINE S == Reordered(t, R, n)
           F == [p \in S \X Nat |-> IF p[2] \in 1 .. n THEN Pass(p[1], p[2]) ELSE p[1]]
           Value(g, k) == IF k = 0 THEN m ELSE Pass(g[k - 1], k)
           it == CHOOSE g : g = [k \in 0 .. n |-> Value(g, k)]
<1>1. Len(m) = n
  BY DEF Reordered
<1>2. sort_cluster_ranges(m) = it[n]
  BY <1>1 DEF sort_cluster_ranges
<1>3. ASSUME NEW k \in 1 .. n, NEW g \in S PROVE Pass(g, k) \in S
  BY PassKeeps
<1> HIDE DEF S
<1>4. F \in [S \X Nat -> S] /\ m \in S
  BY <1>3 DEF S
<1>5. \E g : g = [k \in 0 .. n |-> Value(g, k)]
  <2> HIDE DEF F
  <2>1. PICK f \in [0 .. n -> S] : Iterates(f, m, F, n)
    BY <1>4, IterationExists
  <2>2. ASSUME NEW k \in 1 .. n PROVE f[k] = Pass(f[k - 1], k)
    <3>1. k - 1 \in 0 .. n /\ k \in Nat
      OBVIOUS
    <3>2. f[k - 1] \in S
      BY <2>1, <3>1
    <3>3. <<f[k - 1], k>> \in S \X Nat
      BY <3>1, <3>2
    <3>4. f[k] = F[<<f[k - 1], k>>]
      BY <2>1 DEF Iterates
    <3> QED BY <3>3, <3>4 DEF F
  <2>3. f[0] = m
    BY <2>1 DEF Iterates
  <2>4. \A k \in 0 .. n : f[k] = Value(f, k)
    BY <2>2, <2>3
  <2>5. f = [k \in 0 .. n |-> f[k]]
    BY <2>1
  <2> HIDE DEF Value
  <2>6. f = [k \in 0 .. n |-> Value(f, k)]
    BY <2>4, <2>5
  <2> QED BY <2>6
<1> HIDE DEF Value
<1>6. it = [k \in 0 .. n |-> Value(it, k)]
  BY <1>5
<1> HIDE DEF it
<1>7. \A k \in 0 .. n : it[k] = Value(it, k)
  BY <1>6, Zenon
<1>8. it[0] = m /\ \A k \in 1 .. n : it[k] = Pass(it[k - 1], k)
  <2>1. 0 \in 0 .. n
    OBVIOUS
  <2>2. \A k \in 1 .. n : k \in 0 .. n /\ k # 0
    OBVIOUS
  <2> QED BY <1>7, <2>1, <2>2 DEF Value
<1>9. \A k \in 0 .. n : it[k] \in S
  <2>1. \A k \in 1 .. n : it[k - 1] \in S => it[k] \in S
    BY <1>3, <1>8
  <2> QED BY <1>4, <1>8, <2>1, IterationStays
<1> QED
  BY <1>2, <1>9 DEF S

-----------------------------------------------------------------------------
(***************************************************************************)
(* Which texts make a map (MapperBuilder.c).                               *)
(***************************************************************************)

\* A power of two is a number: the size of a set of sets.
LEMMA PowerIs ==
  ASSUME NEW n \in Nat
  PROVE  2 ^ n \in Nat \ {0}
<1> DEFINE S == 1 .. n
<1>1. IsFiniteSet(S) /\ Cardinality(S) = n
  BY FS_Interval
<1> HIDE DEF S
<1>2. IsFiniteSet(SUBSET S) /\ Cardinality(SUBSET S) = 2 ^ n
  BY <1>1, FS_SUBSET
<1>3. SUBSET S # {}
  OBVIOUS
<1> QED
  BY <1>2, <1>3, FS_CardinalityType, FS_EmptySet

\* Lines whose addresses are below the last one.
Below(R) == Ranged(R) /\ \A l \in R : Nodes(l) \subseteq 0 .. 2 ^ AddrBits - 2

\* So no sum that is computed of a line leaves the width it is kept in.
LEMMA LineIs ==
  ASSUME NEW R, Below(R), NEW l \in R
  PROVE  /\ l.base \in Nat \ {0} /\ l.addr \in Nat /\ l.count \in Nat \ {0}
         /\ l.base + l.count <= 2 ^ NodeBits /\ l.addr + l.count < 2 ^ AddrBits
         /\ 2 ^ NodeBits \in Nat \ {0} /\ 2 ^ AddrBits \in Nat \ {0}
<1>1. l \in [base : Nat, addr : Nat, count : Nat] /\ Plain(l)
  BY DEF Below, Ranged
<1>2. 2 ^ NodeBits \in Nat \ {0} /\ 2 ^ AddrBits \in Nat \ {0}
  BY MapperAssumption, PowerIs
<1>3. l.addr + l.count - 1 \in Nodes(l)
  BY <1>1 DEF Plain, Nodes
<1>4. l.addr + l.count - 1 \in 0 .. 2 ^ AddrBits - 2
  BY <1>3 DEF Below
<1> DEFINE lim == 2 ^ AddrBits
<1>5. l.addr + l.count < lim
  <2>1. lim \in Nat /\ l.addr + l.count - 1 <= lim - 2
    BY <1>2, <1>4
  <2> HIDE DEF lim
  <2> QED BY <1>1, <2>1
<1> QED
  BY <1>1, <1>2, <1>5 DEF Plain

\* What is below a power of two is not wrapped by it, nor shifted into the number of a cluster.
LEMMA NotWrapped ==
  ASSUME NEW lim \in Nat \ {0}, NEW a \in Nat, a < lim
  PROVE  a % lim = a /\ a \div lim = 0
OBVIOUS

\* Such a line is never refused on its own.
LEMMA LineAdded ==
  ASSUME NEW R, Below(R), NEW l \in R
  PROVE  mapper_addClusterHostRange(l)
<1>1. /\ l.base \in Nat \ {0} /\ l.addr \in Nat /\ l.count \in Nat \ {0}
      /\ l.base + l.count <= 2 ^ NodeBits /\ l.addr + l.count < 2 ^ AddrBits
      /\ 2 ^ NodeBits \in Nat \ {0} /\ 2 ^ AddrBits \in Nat \ {0}
  BY LineIs
<1> DEFINE lim == 2 ^ AddrBits
           v == 2 ^ NodeBits
           c == 2 ^ ClusterBits
<1>2. c \in Nat \ {0} /\ v \in Nat \ {0} /\ lim \in Nat \ {0}
  BY <1>1, MapperAssumption, PowerIs
<1>3. l.base < v /\ l.addr + l.count < lim
  <2> HIDE DEF v, lim
  <2>1. l.base + l.count <= v
    BY <1>1 DEF v
  <2> QED BY <1>1, <1>2, <2>1 DEF lim
<1> HIDE DEF v, lim, c
<1>4. l.base \div v = 0 /\ 0 % c = 0 /\ (l.addr + l.count) % lim = l.addr + l.count
  <2>1. l.base \div v = 0
    BY <1>1, <1>2, <1>3, NotWrapped
  <2>2. 0 % c = 0
    BY <1>2, NotWrapped
  <2>3. (l.addr + l.count) % lim = l.addr + l.count
    <3>1. l.addr + l.count \in Nat
      BY <1>1
    <3> QED BY <1>2, <1>3, <3>1, NotWrapped
  <2> QED BY <2>1, <2>2, <2>3
<1>5. PE_CLUSTER_ID(l.base) = 0
  BY <1>4 DEF PE_CLUSTER_ID, v, c
<1>6. Wrapped(l.addr + l.count) >= l.addr
  <2>1. Wrapped(l.addr + l.count) = l.addr + l.count
    BY <1>4 DEF Wrapped, lim
  <2> QED BY <1>1, <2>1
<1> QED
  BY <1>5, <1>6 DEF mapper_addClusterHostRange

\* Two ranges intersect if they have something in common.
LEMMA IntersectIs ==
  ASSUME NEW x \in Nat, NEW m \in Nat \ {0}, NEW y \in Nat, NEW n \in Nat \ {0}
  PROVE  Intersect(x, m, y, n) <=> (x .. x + m - 1) \cap (y .. y + n - 1) # {}
<1>1. ASSUME Intersect(x, m, y, n) PROVE (x .. x + m - 1) \cap (y .. y + n - 1) # {}
  <2>1. CASE x <= y /\ x + m > y
    <3>1. y \in x .. x + m - 1 /\ y \in y .. y + n - 1
      BY <2>1
    <3> QED BY <3>1
  <2>2. CASE y <= x /\ y + n > x
    <3>1. x \in x .. x + m - 1 /\ x \in y .. y + n - 1
      BY <2>2
    <3> QED BY <3>1
  <2> QED BY <1>1, <2>1, <2>2 DEF Intersect
<1>2. ASSUME NEW z \in (x .. x + m - 1) \cap (y .. y + n - 1) PROVE Intersect(x, m, y, n)
  BY DEF Intersect
<1> QED
  BY <1>1, <1>2

\* A text is taken for a map exactly if no line names what another does.
LEMMA ValidIs ==
  ASSUME NEW R, Below(R), NEW n \in Nat, NEW t \in [1 .. n -> R]
  PROVE  isMapValid(t) <=> t # <<>> /\ Unambiguous(t)
<1>1. DOMAIN t = 1 .. n
  OBVIOUS
<1>2. \A i, j \in 1 .. n :
        /\ ranges_ip_intersect(t[i], t[j]) <=> Nodes(t[i]) \cap Nodes(t[j]) # {}
        /\ ranges_nodeId_intersect(t[i], t[j]) <=> NumbersOf(t[i]) \cap NumbersOf(t[j]) # {}
  <2> SUFFICES ASSUME NEW i \in 1 .. n, NEW j \in 1 .. n
               PROVE  /\ ranges_ip_intersect(t[i], t[j]) <=> Nodes(t[i]) \cap Nodes(t[j]) # {}
                      /\ ranges_nodeId_intersect(t[i], t[j]) <=> NumbersOf(t[i]) \cap NumbersOf(t[j]) # {}
    OBVIOUS
  <2>1. t[i] \in R /\ t[j] \in R
    OBVIOUS
  <2>2. /\ t[i].base \in Nat /\ t[i].addr \in Nat /\ t[i].count \in Nat \ {0}
        /\ t[j].base \in Nat /\ t[j].addr \in Nat /\ t[j].count \in Nat \ {0}
    BY <2>1, LineIs
  <2> QED
    BY <2>2, IntersectIs DEF ranges_ip_intersect, ranges_nodeId_intersect, Nodes, NumbersOf
<1> DEFINE Clash(i, j) == Nodes(t[i]) \cap Nodes(t[j]) # {} \/ NumbersOf(t[i]) \cap NumbersOf(t[j]) # {}
<1>3. isMapValid(t) <=> t # <<>> /\ \A i, j \in 1 .. n : i < j => ~Clash(i, j)
  BY <1>1, <1>2 DEF isMapValid
<1>4. Unambiguous(t) <=> \A i, j \in 1 .. n : i # j => ~Clash(i, j)
  BY <1>1 DEF Unambiguous
<1>5. \A i, j : Clash(i, j) <=> Clash(j, i)
  OBVIOUS
<1> HIDE DEF Clash
<1>6. \A i, j \in 1 .. n : i # j => i < j \/ j < i
  OBVIOUS
<1> QED
  BY <1>3, <1>4, <1>5, <1>6

\* A map accepted is the text in some order, and none is without reason refused.
LEMMA BuiltIs ==
  ASSUME NEW R, Below(R), NEW n \in Nat, NEW t \in [1 .. n -> R]
  PROVE  /\ AcceptedRight(t)
         /\ t # <<>> /\ Unambiguous(t) => BuildUserViewMap(t) \in Reordered(t, R, n)
<1>1. \A i \in DOMAIN t : mapper_addClusterHostRange(t[i])
  BY LineAdded
<1>2. BuildUserViewMap(t) = IF t # <<>> /\ Unambiguous(t) THEN sort_cluster_ranges(t) ELSE <<>>
  BY <1>1, ValidIs DEF BuildUserViewMap
<1>3. ASSUME t # <<>>, Unambiguous(t) PROVE sort_cluster_ranges(t) \in Reordered(t, R, n) /\ sort_cluster_ranges(t) # <<>>
  <2>1. t \in Reordered(t, R, n)
    BY <1>3 DEF Reordered
  <2>2. sort_cluster_ranges(t) \in Reordered(t, R, n)
    BY <2>1, SortKeeps
  <2>3. n # 0
    BY <1>3
  <2>4. sort_cluster_ranges(t) # <<>>
    BY <2>2, <2>3 DEF Reordered
  <2> QED BY <2>2, <2>4
<1> QED
  BY <1>2, <1>3 DEF AcceptedRight

-----------------------------------------------------------------------------
(***************************************************************************)
(* Walking over a map (mapperNext, mapperTotalNodeNum in Mapper.c).        *)
(***************************************************************************)

\* The addresses of one line, and a sequence that gives each of A once.
Run(l) == [k \in 1 .. l.count |-> l.addr + k - 1]

Lists(q, A) ==
  /\ q \in Seq(Nat)
  /\ \A i \in 1 .. Len(q) : q[i] \in A
  /\ \A a \in A : \E i \in 1 .. Len(q) : q[i] = a
  /\ \A i, j \in 1 .. Len(q) : q[i] = q[j] => i = j

\* The addresses of a line, each once.
LEMMA RunIs ==
  ASSUME NEW R, Below(R), NEW l \in R
  PROVE  Lists(Run(l), Nodes(l)) /\ Len(Run(l)) = l.count
<1> DEFINE c == l.count
           a == l.addr
           q == [k \in 1 .. c |-> a + k - 1]
<1>1. c \in Nat /\ a \in Nat
  BY LineIs
<1>2. Run(l) = q /\ Nodes(l) = a .. a + c - 1
  BY DEF Run, Nodes
<1> HIDE DEF c, a
<1>3. \A k \in 1 .. c : q[k] = a + k - 1 /\ q[k] \in Nat
  BY <1>1
<1>4. q \in [1 .. c -> Nat]
  BY <1>3
<1> HIDE DEF q
<1>5. q \in Seq(Nat) /\ Len(q) = c
  <2>1. q \in Seq(Nat)
    BY ONLY <1>1, <1>4
  <2> QED BY <1>1, <1>4, <2>1
<1>6. ASSUME NEW x \in a .. a + c - 1 PROVE \E i \in 1 .. c : q[i] = x
  <2>1. x - a + 1 \in 1 .. c /\ a + (x - a + 1) - 1 = x
    BY <1>1
  <2> QED BY <1>3, <2>1
<1>7. \A i \in 1 .. c : q[i] \in a .. a + c - 1
  BY <1>1, <1>3
<1>8. \A i, j \in 1 .. c : q[i] = q[j] => i = j
  BY <1>1, <1>3
<1> QED
  BY <1>2, <1>5, <1>6, <1>7, <1>8 DEF Lists, c

\* What comes after with something else in it.
LEMMA ListsMore ==
  ASSUME NEW A, NEW B, A \cap B = {}, NEW p, Lists(p, A), NEW q, Lists(q, B)
  PROVE  Lists(p \o q, A \cup B) /\ Len(p \o q) = Len(p) + Len(q)
<1> DEFINE s == p \o q
           m == Len(p)
           n == Len(q)
<1>1. p \in Seq(Nat) /\ q \in Seq(Nat) /\ m \in Nat /\ n \in Nat
  BY DEF Lists
<1>2. s \in Seq(Nat) /\ Len(s) = m + n
  BY <1>1
<1>3. \A i \in 1 .. m + n : s[i] = IF i <= m THEN p[i] ELSE q[i - m]
  BY <1>1
<1> HIDE DEF s, m, n
<1>4. \A i \in 1 .. m + n : \/ i \in 1 .. m /\ s[i] = p[i] /\ p[i] \in A
                            \/ i - m \in 1 .. n /\ s[i] = q[i - m] /\ q[i - m] \in B
  <2> SUFFICES ASSUME NEW i \in 1 .. m + n
               PROVE  \/ i \in 1 .. m /\ s[i] = p[i] /\ p[i] \in A
                      \/ i - m \in 1 .. n /\ s[i] = q[i - m] /\ q[i - m] \in B
    OBVIOUS
  <2>1. CASE i <= m
    <3>1. i \in 1 .. m /\ s[i] = p[i]
      BY <1>1, <1>3, <2>1
    <3> QED BY <3>1 DEF Lists, m
  <2>2. CASE ~(i <= m)
    <3>1. i - m \in 1 .. n /\ s[i] = q[i - m]
      BY <1>1, <1>3, <2>2
    <3> QED BY <3>1 DEF Lists, n
  <2> QED BY <2>1, <2>2
<1>5. \A i \in 1 .. m + n : s[i] \in A \cup B
  BY <1>4
<1>6. ASSUME NEW a \in A \cup B PROVE \E i \in 1 .. m + n : s[i] = a
  <2>1. CASE a \in A
    <3>1. PICK i \in 1 .. m : p[i] = a
      BY <2>1 DEF Lists, m
    <3>2. i \in 1 .. m + n /\ s[i] = a
      BY <1>1, <1>3, <3>1
    <3> QED BY <3>2
  <2>2. CASE a \in B
    <3>1. PICK i \in 1 .. n : q[i] = a
      BY <2>2 DEF Lists, n
    <3>2. PICK z \in 1 .. m + n : ~(z <= m) /\ z - m = i
      <4>1. i + m \in 1 .. m + n /\ ~(i + m <= m) /\ i + m - m = i
        BY <1>1
      <4> QED BY <1>1, <4>1
    <3>3. s[z] = q[z - m]
      BY <1>3, <3>2
    <3> QED BY <3>1, <3>2, <3>3
  <2> QED BY <2>1, <2>2
<1>7. ASSUME NEW i \in 1 .. m + n, NEW j \in 1 .. m + n, s[i] = s[j] PROVE i = j
  <2>1. CASE i \in 1 .. m /\ s[i] = p[i] /\ p[i] \in A
    <3>1. j \in 1 .. m /\ s[j] = p[j]
      BY <1>4, <1>7, <2>1
    <3> QED BY <1>7, <2>1, <3>1 DEF Lists, m
  <2>2. CASE i - m \in 1 .. n /\ s[i] = q[i - m] /\ q[i - m] \in B
    <3>1. j - m \in 1 .. n /\ s[j] = q[j - m]
      BY <1>4, <1>7, <2>2
    <3>2. i - m = j - m
      BY <1>7, <2>2, <3>1 DEF Lists, n
    <3> QED BY <1>1, <3>2
  <2> QED BY <1>4, <2>1, <2>2
<1>8. Lists(s, A \cup B)
  BY <1>2, <1>5, <1>6, <1>7 DEF Lists
<1> QED
  BY <1>2, <1>8 DEF s, m, n

\* The loop of mapperTotalNodeNum.
LEMMA TotalRuns ==
  ASSUME NEW R, Below(R), NEW n \in Nat, NEW m \in [1 .. n -> R]
  PROVE  \E s : /\ \A k \in 0 .. n : s[k] \in Nat
                /\ s[0] = 0 /\ \A k \in 1 .. n : s[k] = s[k - 1] + m[k].count
                /\ mapperTotalNodeNum(m) = s[n]
<1> DEFINE F == [p \in Nat \X Nat |-> IF p[2] \in 1 .. n THEN p[1] + m[p[2]].count ELSE p[1]]
           Value(g, k) == IF k = 0 THEN 0 ELSE g[k - 1] + m[k].count
           it == CHOOSE g : g = [k \in 0 .. n |-> Value(g, k)]
<1>1. Len(m) = n
  OBVIOUS
<1>2. mapperTotalNodeNum(m) = it[n]
  BY <1>1 DEF mapperTotalNodeNum
<1>3. \A k \in 1 .. n : m[k].count \in Nat
  <2> SUFFICES ASSUME NEW k \in 1 .. n PROVE m[k].count \in Nat
    OBVIOUS
  <2>1. m[k] \in R
    OBVIOUS
  <2> QED BY <2>1, LineIs
<1>4. F \in [Nat \X Nat -> Nat]
  BY <1>3
<1>5. \E g : g = [k \in 0 .. n |-> Value(g, k)]
  <2> HIDE DEF F
  <2>1. PICK f \in [0 .. n -> Nat] : Iterates(f, 0, F, n)
    BY <1>4, IterationExists
  <2>2. ASSUME NEW k \in 1 .. n PROVE f[k] = f[k - 1] + m[k].count
    <3>1. k - 1 \in 0 .. n /\ k \in Nat
      OBVIOUS
    <3>2. f[k - 1] \in Nat
      BY <2>1, <3>1
    <3>3. <<f[k - 1], k>> \in Nat \X Nat
      BY <3>1, <3>2
    <3>4. f[k] = F[<<f[k - 1], k>>]
      BY <2>1 DEF Iterates
    <3> QED BY <3>3, <3>4 DEF F
  <2>3. f[0] = 0
    BY <2>1 DEF Iterates
  <2>4. \A k \in 0 .. n : f[k] = Value(f, k)
    BY <2>2, <2>3
  <2>5. f = [k \in 0 .. n |-> f[k]]
    BY <2>1
  <2> HIDE DEF Value
  <2>6. f = [k \in 0 .. n |-> Value(f, k)]
    BY <2>4, <2>5
  <2> QED BY <2>6
<1> HIDE DEF Value
<1>6. it = [k \in 0 .. n |-> Value(it, k)]
  BY <1>5
<1> HIDE DEF it
<1>7. \A k \in 0 .. n : it[k] = Value(it, k)
  BY <1>6, Zenon
<1>8. it[0] = 0 /\ \A k \in 1 .. n : it[k] = it[k - 1] + m[k].count
  <2>1. 0 \in 0 .. n
    OBVIOUS
  <2>2. \A k \in 1 .. n : k \in 0 .. n /\ k # 0
    OBVIOUS
  <2> QED BY <1>7, <2>1, <2>2 DEF Value
<1>9. \A k \in 0 .. n : it[k] \in Nat
  <2>1. \A k \in 1 .. n : it[k - 1] \in Nat => it[k] \in Nat
    BY <1>3, <1>8
  <2>2. it[0] \in Nat
    BY <1>8
  <2> QED BY ONLY n \in Nat, <2>1, <2>2, IterationStays
<1> QED
  BY <1>2, <1>8, <1>9

\* The steps of a walk.
Walked(s, m, n, walk) ==
  /\ \A k \in 0 .. n : s[k] \in Seq(Nat)
  /\ s[0] = <<>> /\ \A k \in 1 .. n : s[k] = s[k - 1] \o Run(m[k])
  /\ walk = s[n]

\* The walk: no range is empty, and none is number 0.
LEMMA WalkRuns ==
  ASSUME NEW R, Below(R), NEW n \in Nat, NEW m \in [1 .. n -> R], NEW junk
  PROVE  \E s : Walked(s, m, n, mapperWalk(m, junk))
<1> DEFINE S == Seq(Nat)
           V(q, k) == Visit(q, m[k], k = 1, junk)
           F == [p \in S \X Nat |-> IF p[2] \in 1 .. n THEN V(p[1], p[2]) ELSE p[1]]
           Value(g, k) == IF k = 0 THEN <<>> ELSE V(g[k - 1], k)
           it == CHOOSE g : g = [k \in 0 .. n |-> Value(g, k)]
           stops == {i \in DOMAIN m : m[i].base = 0}
<1>1. Len(m) = n /\ DOMAIN m = 1 .. n
  OBVIOUS
<1>2. ASSUME NEW k \in 1 .. n PROVE m[k].base # 0 /\ m[k].count # 0 /\ Run(m[k]) \in S
  <2>1. m[k] \in R
    OBVIOUS
  <2> QED BY <2>1, LineIs, RunIs DEF Lists
<1>3. mapperWalk(m, junk) = it[n]
  <2>1. stops = {}
    BY <1>1, <1>2
  <2> HIDE DEF stops
  <2> QED BY <1>1, <2>1 DEF mapperWalk, stops
<1>4. ASSUME NEW k \in 1 .. n, NEW q PROVE V(q, k) = q \o Run(m[k])
  BY <1>2 DEF Visit, Run
<1> HIDE DEF V
<1>5. ASSUME NEW k \in 1 .. n, NEW q \in S PROVE V(q, k) \in S
  <2>1. V(q, k) = q \o Run(m[k])
    BY <1>4
  <2>2. Run(m[k]) \in Seq(Nat) /\ q \in Seq(Nat)
    BY <1>2
  <2> QED BY <2>1, <2>2
<1> HIDE DEF S
<1>6. F \in [S \X Nat -> S] /\ <<>> \in S
  BY <1>5 DEF S
<1>7. \E g : g = [k \in 0 .. n |-> Value(g, k)]
  <2> HIDE DEF F
  <2>1. PICK f \in [0 .. n -> S] : Iterates(f, <<>>, F, n)
    BY <1>6, IterationExists
  <2>2. ASSUME NEW k \in 1 .. n PROVE f[k] = V(f[k - 1], k)
    <3>1. k - 1 \in 0 .. n /\ k \in Nat
      OBVIOUS
    <3>2. f[k - 1] \in S
      BY <2>1, <3>1
    <3>3. <<f[k - 1], k>> \in S \X Nat
      BY <3>1, <3>2
    <3>4. f[k] = F[<<f[k - 1], k>>]
      BY <2>1 DEF Iterates
    <3> QED BY <3>3, <3>4 DEF F
  <2>3. f[0] = <<>>
    BY <2>1 DEF Iterates
  <2>4. \A k \in 0 .. n : f[k] = Value(f, k)
    BY <2>2, <2>3
  <2>5. f = [k \in 0 .. n |-> f[k]]
    BY <2>1
  <2> HIDE DEF Value
  <2>6. f = [k \in 0 .. n |-> Value(f, k)]
    BY <2>4, <2>5
  <2> QED BY <2>6
<1> HIDE DEF Value
<1>8. it = [k \in 0 .. n |-> Value(it, k)]
  BY <1>7
<1> HIDE DEF it
<1>9. \A k \in 0 .. n : it[k] = Value(it, k)
  BY <1>8, Zenon
<1>10. it[0] = <<>> /\ \A k \in 1 .. n : it[k] = V(it[k - 1], k)
  <2>1. 0 \in 0 .. n
    OBVIOUS
  <2>2. \A k \in 1 .. n : k \in 0 .. n /\ k # 0
    OBVIOUS
  <2> QED BY <1>9, <2>1, <2>2 DEF Value
<1>11. \A k \in 0 .. n : it[k] \in S
  <2>1. \A k \in 1 .. n : it[k - 1] \in S => it[k] \in S
    BY <1>5, <1>10
  <2> QED BY <1>6, <1>10, <2>1, IterationStays
<1>12. \A k \in 1 .. n : it[k] = it[k - 1] \o Run(m[k])
  BY <1>4, <1>10
<1> QED
  BY <1>3, <1>10, <1>11, <1>12 DEF S, Walked

-----------------------------------------------------------------------------
(***************************************************************************)
(* Asking a map (Mapper.c).                                                *)
(***************************************************************************)

\* The walk gives each address once, as many as the map says it has.
LEMMA WalkLists ==
  ASSUME NEW R, Below(R), NEW n \in Nat, NEW m \in [1 .. n -> R], Unambiguous(m), NEW junk
  PROVE  Lists(mapperWalk(m, junk), ListedBy(m)) /\ Len(mapperWalk(m, junk)) = mapperTotalNodeNum(m)
<1> DEFINE A(k) == UNION {Nodes(m[i]) : i \in 1 .. k}
<1>1. PICK total : /\ \A k \in 0 .. n : total[k] \in Nat
                   /\ total[0] = 0 /\ \A k \in 1 .. n : total[k] = total[k - 1] + m[k].count
                   /\ mapperTotalNodeNum(m) = total[n]
  BY TotalRuns
<1>0. PICK seen : Walked(seen, m, n, mapperWalk(m, junk))
  BY WalkRuns
<1>2. /\ \A k \in 0 .. n : seen[k] \in Seq(Nat)
      /\ seen[0] = <<>> /\ \A k \in 1 .. n : seen[k] = seen[k - 1] \o Run(m[k])
      /\ mapperWalk(m, junk) = seen[n]
  BY <1>0 DEF Walked
<1> DEFINE T == {k \in Nat : k <= n => Lists(seen[k], A(k)) /\ Len(seen[k]) = total[k]}
<1>3. 0 \in T
  <2>1. A(0) = {} /\ Len(<<>>) = 0 /\ <<>> \in Seq(Nat)
    OBVIOUS
  <2> HIDE DEF A
  <2>2. Lists(<<>>, A(0))
    BY <2>1 DEF Lists
  <2> QED BY <1>1, <1>2, <2>1, <2>2
<1>4. ASSUME NEW k \in Nat, k \in T PROVE k + 1 \in T
  <2> SUFFICES ASSUME k + 1 <= n PROVE Lists(seen[k + 1], A(k + 1)) /\ Len(seen[k + 1]) = total[k + 1]
    OBVIOUS
  <2> DEFINE j == k + 1
  <2>1. j \in 1 .. n /\ j - 1 = k /\ k \in 0 .. n
    OBVIOUS
  <2>2. Lists(seen[k], A(k)) /\ Len(seen[k]) = total[k]
    BY <1>4
  <2>3. A(j) = A(k) \cup Nodes(m[j])
    <3>1. 1 .. j = (1 .. k) \cup {j}
      OBVIOUS
    <3> HIDE DEF j
    <3> QED BY <3>1
  <2>4. A(k) \cap Nodes(m[j]) = {}
    <3> SUFFICES ASSUME NEW i \in 1 .. k PROVE Nodes(m[i]) \cap Nodes(m[j]) = {}
      OBVIOUS
    <3>1. i \in DOMAIN m /\ j \in DOMAIN m /\ i # j
      BY <2>1
    <3> HIDE DEF j
    <3> QED BY <3>1 DEF Unambiguous
  <2> HIDE DEF A
  <2>5. seen[j] = seen[k] \o Run(m[j]) /\ total[j] = total[k] + m[j].count
    BY <1>1, <1>2, <2>1
  <2> HIDE DEF j
  <2>6. m[j] \in R
    BY <2>1
  <2>7. Lists(Run(m[j]), Nodes(m[j])) /\ Len(Run(m[j])) = m[j].count
    BY <2>6, RunIs
  <2>8. Lists(seen[j], A(j)) /\ Len(seen[j]) = total[j]
    <3> DEFINE p == seen[k]
               q == Run(m[j])
               B == Nodes(m[j])
               C == A(k)
    <3>1. Lists(p, C) /\ Lists(q, B) /\ C \cap B = {}
      BY <2>2, <2>4, <2>7
    <3> HIDE DEF p, q, B, C
    <3>2. Lists(p \o q, C \cup B) /\ Len(p \o q) = Len(p) + Len(q)
      BY <3>1, ListsMore
    <3> QED BY <2>2, <2>3, <2>5, <2>7, <3>2 DEF p, q, B, C
  <2> QED BY <2>8 DEF j
<1>5. A(n) = ListedBy(m)
  BY DEF ListedBy
<1> HIDE DEF T, A
<1>6. n \in T
  BY <1>3, <1>4, SetInduction
<1>7. Lists(seen[n], A(n)) /\ Len(seen[n]) = total[n]
  BY <1>6 DEF T
<1> QED
  BY <1>1, <1>2, <1>5, <1>7

\* What is listed once is as much as there is.
LEMMA ListsAll ==
  ASSUME NEW A, NEW q, Lists(q, A)
  PROVE  {q[i] : i \in DOMAIN q} = A /\ Len(q) = Cardinality(A)
<1> DEFINE D == 1 .. Len(q)
           f == [i \in D |-> q[i]]
<1>1. Len(q) \in Nat /\ DOMAIN q = D
  BY DEF Lists
<1>2. IsFiniteSet(D) /\ Cardinality(D) = Len(q)
  <2> DEFINE n == Len(q)
  <2>1. n \in Nat
    BY <1>1
  <2> HIDE DEF n
  <2>2. IsFiniteSet(1 .. n) /\ Cardinality(1 .. n) = n
    BY <2>1, FS_Interval
  <2> QED BY <2>2 DEF n
<1>3. {q[i] : i \in DOMAIN q} = A
  BY <1>1 DEF Lists
<1>4. f \in [D -> A] /\ (\A i, j \in D : f[i] = f[j] => i = j) /\ \A a \in A : \E i \in D : f[i] = a
  BY DEF Lists
<1> HIDE DEF D, f
<1>5. f \in Bijection(D, A)
  BY <1>4 DEF Bijection, Injection, Surjection, IsInjective
<1>6. ExistsBijection(D, A)
  BY <1>5 DEF ExistsBijection
<1>7. Cardinality(D) = Cardinality(A)
  BY <1>2, <1>6, FS_Bijection
<1> QED
  BY <1>2, <1>3, <1>7

\* The vector's entries are those of the walk.
LEMMA EntriesAre ==
  ASSUME NEW R, Below(R), NEW n \in Nat, NEW m \in [1 .. n -> R], Unambiguous(m), NEW junk
  PROVE  LET q == infoVecInitEntries(m, junk)
         IN  {q[i] : i \in DOMAIN q} = ListedBy(m) /\ Len(q) = Cardinality(ListedBy(m))
<1> DEFINE q == mapperWalk(m, junk)
<1>1. Lists(q, ListedBy(m)) /\ Len(q) = mapperTotalNodeNum(m)
  BY WalkLists
<1>2. infoVecInitEntries(m, junk) = SubSeq(q, 1, Len(q))
  <2> HIDE DEF q
  <2>1. Len(q) \in Nat
    BY <1>1 DEF Lists
  <2>2. ~(Len(q) < mapperTotalNodeNum(m))
    BY <1>1, <2>1
  <2> QED BY <1>1, <2>2 DEF infoVecInitEntries, q
<1> HIDE DEF q
<1>3. SubSeq(q, 1, Len(q)) = q
  <2>1. q \in Seq(Nat)
    BY <1>1 DEF Lists
  <2> QED BY <2>1
<1>4. {q[i] : i \in DOMAIN q} = ListedBy(m) /\ Len(q) = Cardinality(ListedBy(m))
  BY <1>1, ListsAll
<1>5. infoVecInitEntries(m, junk) = q
  BY <1>2, <1>3
<1> QED
  BY <1>4, <1>5

\* The first of some places is one of them.
LEMMA FirstIs ==
  ASSUME NEW S \in SUBSET Nat, S # {}
  PROVE  First(S) \in S
BY LeastExists DEF First

\* An address leads to a number, and that back to the address.
LEMMA NumberLeadsBack ==
  ASSUME NEW R, Below(R), NEW n \in Nat, NEW m \in [1 .. n -> R], Unambiguous(m), NEW a \in ListedBy(m)
  PROVE  mapper_node2addr(m, mapper_addr2node(m, a)) = a
<1> DEFINE found == {i \in DOMAIN m : HasAddress(m[i], a)}
           i == First(found)
           l == m[i]
           x == l.base + a - l.addr
           lim == 2 ^ AddrBits
           v == 2 ^ NodeBits
<1>1. DOMAIN m = 1 .. n
  OBVIOUS
<1>2. \A k \in 1 .. n : m[k] \in R
  OBVIOUS
<1>3. found # {}
  <2>1. PICK k \in 1 .. n : a \in Nodes(m[k])
    BY <1>1 DEF ListedBy
  <2>2. m[k].addr \in Nat /\ m[k].count \in Nat
    BY <1>2, LineIs
  <2>3. HasAddress(m[k], a)
    BY <2>1, <2>2 DEF Nodes, HasAddress
  <2> QED BY <1>1, <2>1, <2>3
<1>4. i \in 1 .. n /\ HasAddress(m[i], a)
  <2>1. found \in SUBSET Nat
    BY <1>1
  <2> HIDE DEF found
  <2>2. First(found) \in found
    BY <1>3, <2>1, FirstIs
  <2> QED BY <1>1, <2>2 DEF found
<1>5. mapper_addr2node(m, a) = PE_NODE_ID(x)
  BY <1>3 DEF mapper_addr2node
<1> HIDE DEF found, i
<1>6. /\ l.base \in Nat \ {0} /\ l.addr \in Nat /\ l.count \in Nat \ {0}
      /\ l.base + l.count <= v /\ l.addr + l.count < lim /\ v \in Nat \ {0} /\ lim \in Nat \ {0}
  <2>1. l \in R
    BY <1>2, <1>4
  <2> QED BY <2>1, LineIs
<1>7. a \in Nat
  <2>1. PICK k \in 1 .. n : a \in Nodes(m[k])
    BY <1>1 DEF ListedBy
  <2>2. m[k].addr \in Nat /\ m[k].count \in Nat
    BY <1>2, LineIs
  <2> QED BY <2>1, <2>2 DEF Nodes
<1>8. l.addr <= a /\ a < l.addr + l.count
  BY <1>4 DEF HasAddress
<1> HIDE DEF lim, v, l
<1>9. x \in Nat /\ x < v /\ l.base <= x /\ x < l.base + l.count /\ a < lim
  <2> DEFINE b == l.base
             d == l.addr
             c == l.count
  <2>1. /\ b \in Nat \ {0} /\ d \in Nat /\ c \in Nat \ {0} /\ b + c <= v /\ d + c < lim
        /\ v \in Nat /\ lim \in Nat /\ d <= a /\ a < d + c
    BY <1>6, <1>8
  <2>2. x = b + a - d
    OBVIOUS
  <2> HIDE DEF b, c, d, x
  <2>3. x \in Nat /\ x < v /\ b <= x /\ x < b + c /\ a < lim
    BY <1>7, <2>1, <2>2
  <2> QED BY <2>3 DEF b, c
<1>10. l.addr + x - l.base = a
  BY <1>6, <1>7
<1> HIDE DEF x
<1>11. PE_NODE_ID(x) = x
  BY <1>6, <1>9, NotWrapped DEF PE_NODE_ID, v
<1> DEFINE holders == {k \in DOMAIN m : HasNumber(m[k], x)}
           j == First(holders)
<1>12. i \in holders
  BY <1>1, <1>4, <1>9 DEF HasNumber, l
<1>13. \A k \in holders : k = i
  <2> SUFFICES ASSUME NEW k \in 1 .. n, HasNumber(m[k], x), k # i PROVE FALSE
    BY <1>1
  <2>1. m[k].base \in Nat /\ m[k].count \in Nat
    BY <1>2, LineIs
  <2>2. x \in NumbersOf(m[k])
    BY <1>9, <2>1 DEF HasNumber, NumbersOf
  <2>3. x \in NumbersOf(m[i])
    BY SMTT(30), <1>6, <1>9 DEF NumbersOf, l
  <2> QED BY <1>1, <1>4, <2>2, <2>3 DEF Unambiguous
<1>14. j = i
  <2>1. holders \in SUBSET Nat
    BY <1>1
  <2> HIDE DEF holders
  <2>2. j \in holders
    BY <1>12, <2>1, FirstIs
  <2> QED BY <1>13, <2>2
<1>15. mapper_node2addr(m, x) = Wrapped(l.addr + x - l.base)
  <2>1. holders # {}
    BY <1>12
  <2>2. mapper_node2addr(m, x) = Wrapped(m[j].addr + x - m[j].base)
    BY <1>11, <2>1 DEF mapper_node2addr
  <2> HIDE DEF j
  <2> QED BY <1>14, <2>2 DEF l
<1>16. Wrapped(a) = a
  BY <1>6, <1>7, <1>9, NotWrapped DEF Wrapped, lim
<1> QED
  BY <1>5, <1>10, <1>11, <1>15, <1>16

\* A map has an address exactly if it lists it.
LEMMA AddressListed ==
  ASSUME NEW R, Below(R), NEW n \in Nat, NEW m \in [1 .. n -> R], NEW a \in Nat
  PROVE  (\E i \in DOMAIN m : HasAddress(m[i], a)) <=> a \in ListedBy(m)
<1>1. DOMAIN m = 1 .. n
  OBVIOUS
<1>2. \A i \in 1 .. n : HasAddress(m[i], a) <=> a \in Nodes(m[i])
  <2> SUFFICES ASSUME NEW i \in 1 .. n PROVE HasAddress(m[i], a) <=> a \in Nodes(m[i])
    OBVIOUS
  <2>1. m[i] \in R
    OBVIOUS
  <2>2. m[i].addr \in Nat /\ m[i].count \in Nat
    BY <2>1, LineIs
  <2> QED BY <2>2 DEF HasAddress, Nodes
<1> QED
  BY <1>1, <1>2 DEF ListedBy

-----------------------------------------------------------------------------
(***************************************************************************)
(* The map of the daemon is the set of the addresses it lists.             *)
(***************************************************************************)

\* The lines a text may be made of are below the last address.
LEMMA LinesBelow ==
  ASSUME NEW nodes \in Maps
  PROVE  Below({l \in Line : Plain(l) /\ Nodes(l) \subseteq nodes})
<1> DEFINE R == {l \in Line : Plain(l) /\ Nodes(l) \subseteq nodes}
<1>1. nodes \subseteq 0 .. 2 ^ AddrBits - 2
  BY InfodMapAssumption
<1>2. Numbers \subseteq Nat /\ Counts \subseteq Nat /\ Addresses \subseteq Nat
  BY MapperAssumption
<1>3. Line \subseteq [base : Nat, addr : Nat, count : Nat]
  BY <1>2 DEF Line
<1>4. Ranged(R)
  BY <1>3 DEF Ranged
<1>5. \A l \in R : Nodes(l) \subseteq 0 .. 2 ^ AddrBits - 2
  BY <1>1
<1> QED
  BY <1>4, <1>5 DEF Below

\* The same lines list the same addresses.
LEMMA ReorderedLists ==
  ASSUME NEW R, NEW n \in Nat, NEW t \in [1 .. n -> R], NEW m \in Reordered(t, R, n)
  PROVE  ListedBy(m) = ListedBy(t)
<1>1. DOMAIN m = 1 .. n /\ DOMAIN t = 1 .. n
  BY DEF Reordered
<1>2. \A i \in 1 .. n : \E j \in 1 .. n : m[i] = t[j]
  BY DEF Reordered
<1>3. \A j \in 1 .. n : \E i \in 1 .. n : m[i] = t[j]
  BY DEF Reordered
<1>4. ListedBy(m) \subseteq ListedBy(t)
  <2> SUFFICES ASSUME NEW i \in 1 .. n, NEW a \in Nodes(m[i]) PROVE \E j \in 1 .. n : a \in Nodes(t[j])
    BY <1>1 DEF ListedBy
  <2>1. PICK j \in 1 .. n : m[i] = t[j]
    BY <1>2
  <2> QED BY <2>1
<1>5. ListedBy(t) \subseteq ListedBy(m)
  <2> SUFFICES ASSUME NEW j \in 1 .. n, NEW a \in Nodes(t[j]) PROVE \E i \in 1 .. n : a \in Nodes(m[i])
    BY <1>1 DEF ListedBy
  <2>1. PICK i \in 1 .. n : m[i] = t[j]
    BY <1>3
  <2> QED BY <2>1
<1> QED
  BY <1>4, <1>5

\* What the code makes of lines that list the nodes, whichever order they come in.
LEMMA ReadsRight ==
  ASSUME NEW R, Below(R), NEW n \in Nat, NEW t \in [1 .. n -> R], NEW m \in Reordered(t, R, n),
         NEW ip \in Ips
  PROVE  ReadsAs(m, ListedBy(t), ip)
<1> DEFINE nodes == ListedBy(t)
           mine == mapperSetMyIP(m, ip)
           entries == infoVecInitEntries(mine, 0)
<1>1. m \in [1 .. n -> R] /\ ListedBy(m) = nodes /\ ip \in Nat
  <2>1. m \in [1 .. n -> R]
    BY DEF Reordered
  <2>2. ListedBy(m) = ListedBy(t)
    BY ReorderedLists
  <2>3. ip \in Nat
    BY InfodMapAssumption
  <2> QED BY <2>1, <2>2, <2>3
<1>2. (\E i \in DOMAIN m : HasAddress(m[i], ip)) <=> ip \in nodes
  BY <1>1, AddressListed
<1>3. CASE ip \notin nodes
  BY <1>2, <1>3 DEF mapperSetMyIP, ReadsAs
<1>4. CASE ip \in nodes
  <2>1. mine = sort_cluster_ranges(m)
    BY <1>2, <1>4 DEF mapperSetMyIP
  <2>2. mine \in Reordered(t, R, n)
    BY <2>1, SortKeeps
  <2> HIDE DEF mine
  <2>3. mine \in [1 .. n -> R] /\ Unambiguous(mine) /\ ListedBy(mine) = nodes
    <3>1. mine \in [1 .. n -> R] /\ Unambiguous(mine)
      BY <2>2 DEF Reordered
    <3>2. ListedBy(mine) = ListedBy(t)
      BY <2>2, ReorderedLists
    <3> QED BY <3>1, <3>2
  <2>4. {entries[i] : i \in DOMAIN entries} = nodes /\ Len(entries) = Cardinality(nodes)
    BY <2>3, EntriesAre
  <2>5. \A a \in nodes : mapper_node2addr(mine, mapper_addr2node(mine, a)) = a
    BY <2>3, NumberLeadsBack
  <2>6. ASSUME NEW a \in Addresses \ nodes PROVE mapper_addr2node(mine, a) = Nothing
    <3>1. a \in Nat
      BY MapperAssumption
    <3>2. ~\E i \in DOMAIN mine : HasAddress(mine[i], a)
      BY <2>3, <3>1, AddressListed
    <3>3. {i \in DOMAIN mine : HasAddress(mine[i], a)} = {}
      BY <3>2
    <3> QED BY <3>3 DEF mapper_addr2node
  <2> HIDE DEF nodes, entries
  <2> QED BY <1>4, <2>4, <2>5, <2>6 DEF ReadsAs, mine, nodes, entries
<1> QED
  BY <1>3, <1>4

\* No line lists no node, and there is no map of none.
LEMMA EmptyReads ==
  ASSUME NEW ip
  PROVE  BuildUserViewMap(<<>>) = <<>> /\ ListedBy(<<>>) = {} /\ ReadsAs(<<>>, {}, ip)
<1>1. ~isMapValid(<<>>)
  BY DEF isMapValid
<1>2. BuildUserViewMap(<<>>) = <<>>
  BY <1>1 DEF BuildUserViewMap
<1>3. DOMAIN <<>> = {}
  OBVIOUS
<1>4. mapperSetMyIP(<<>>, ip) = <<>>
  BY <1>3 DEF mapperSetMyIP
<1>5. ListedBy(<<>>) = {}
  BY <1>3 DEF ListedBy
<1> QED
  BY <1>2, <1>4, <1>5 DEF ReadsAs

\* Every text, whatever it says and in whichever order.
LEMMA TextsRead ==
  ASSUME NEW nodes \in Maps, NEW ip \in Ips
  PROVE  IsItsSet(nodes, ip)
<1> DEFINE R == {l \in Line : Plain(l) /\ Nodes(l) \subseteq nodes}
<1>1. Below(R)
  BY LinesBelow
<1> SUFFICES ASSUME NEW t \in Texts(nodes)
             PROVE  /\ AcceptedRight(t)
                    /\ ListedBy(t) = nodes /\ Unambiguous(t) => ReadsAs(BuildUserViewMap(t), nodes, ip)
  BY DEF IsItsSet
<1>2. PICK n \in 0 .. MaxLines : t \in [1 .. n -> R]
  BY DEF Texts
<1>3. n \in Nat
  BY <1>2, MapperAssumption
<1> HIDE DEF R
<1>4. AcceptedRight(t) /\ (t # <<>> /\ Unambiguous(t) => BuildUserViewMap(t) \in Reordered(t, R, n))
  BY <1>1, <1>2, <1>3, BuiltIs
<1>5. ASSUME ListedBy(t) = nodes, Unambiguous(t) PROVE ReadsAs(BuildUserViewMap(t), nodes, ip)
  <2>1. CASE t = <<>>
    BY <1>5, <2>1, EmptyReads
  <2>2. CASE t # <<>>
    <3>1. BuildUserViewMap(t) \in Reordered(t, R, n)
      BY <1>4, <1>5, <2>2
    <3>2. ReadsAs(BuildUserViewMap(t), ListedBy(t), ip)
      BY <1>1, <1>2, <1>3, <3>1, ReadsRight
    <3> QED BY <1>5, <3>2
  <2> QED BY <2>1, <2>2
<1> QED
  BY <1>4, <1>5

\* However the map file writes down the nodes it lists, in whichever order of lines, the
\* code takes it for that set: it is refused exactly when it is ambiguous, the host is found
\* exactly when it is listed, the vector gets every node once, and the number a node has
\* leads back to its address (MapIsItsSet; isMapValid and sort_cluster_ranges in
\* MapperBuilder.c, mapperNext, mapper_addr2node and mapper_node2addr in Mapper.c).
THEOREM MapAlwaysItsSet == Spec => []MapIsItsSet
<1>1. TypeOK => MapIsItsSet
  <2> SUFFICES ASSUME TypeOK, file.nodes # None PROVE MapTable[file.nodes][addr]
    BY DEF MapIsItsSet
  <2> DEFINE nodes == file.nodes
  <2>1. nodes \in Maps /\ addr \in Ips
    BY DEF TypeOK, Files
  <2> HIDE DEF nodes
  <2>2. MapTable[nodes][addr] = IsItsSet(nodes, addr)
    BY <2>1, Zenon DEF MapTable
  <2>3. IsItsSet(nodes, addr)
    BY <2>1, TextsRead
  <2> QED BY <2>2, <2>3, Zenon DEF nodes
<1> QED
  BY <1>1, InfodTypeCorrect, PTL
===============================================================================
