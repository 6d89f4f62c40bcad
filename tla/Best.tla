--------------------------------- MODULE Best ---------------------------------
(***************************************************************************)
(* Runs of infod-best (src/infod-best/infod_best.c) that share one file of *)
(* load constraints (src/libutil/LoadConstraints.c).  A run asks infod for *)
(* the loads, adds to them what the constraints in the file announce,      *)
(* chooses nodes, and replaces the file by one that announces its own      *)
(* processes for Duration seconds.  Runs overlap, are killed at any point  *)
(* and meet a full disk.                                                   *)
(*                                                                         *)
(* A constraint carries the run that made it, which the file does not: two *)
(* runs may announce the same.  Loads are as calcFutureLoad rounds them.   *)
(***************************************************************************)
EXTENDS Integers, FiniteSetsExt

CONSTANTS
  Runs,
  Nodes,
  Load,           \* the load infod reports of each node
  Cost,           \* what one process adds to it
  FreeMem,        \* the free memory infod reports
  Demands,        \* [procs, memory] a run may be asked for
  EqualLoadDiff,
  Duration,       \* BN.timeLCVal
  FileRoom,       \* constraints the write buffer of updateLC holds
  MaxTime         \* bound on the clock

ASSUME BestAssumption ==
  /\ Load \in [Nodes -> Nat] /\ Cost \in [Nodes -> Nat] /\ FreeMem \in [Nodes -> Nat]
  /\ IsFiniteSet(Nodes)
  /\ Demands # {} /\ Demands \subseteq [procs : Nat \ {0}, memory : Nat]
  /\ EqualLoadDiff \in Nat /\ Duration \in Nat /\ FileRoom \in Nat /\ MaxTime \in Nat

VARIABLES
  now,
  file,        \* the file of constraints
  run,         \* the memory of each run
  granted,     \* history: the constraints whose run printed its nodes
  overlapped   \* history: a run began before another had ended

vars == <<now, file, run, granted, overlapped>>

Constraint == [by : Runs, node : Nodes, procs : Nat, memory : Nat, until : Nat]

\* No file, a whole one, or one that was not written to the end.
File == [there : BOOLEAN, whole : BOOLEAN, items : SUBSET Constraint]
WholeFile(items) == [there |-> TRUE, whole |-> TRUE, items |-> items]
NoFile == [there |-> FALSE, whole |-> TRUE, items |-> {}]

Steps == {"unborn", "sized", "loaded", "chosen", "written", "renamed", "printed", "failed"}
Ended == {"unborn", "printed", "failed"}

\* assigned: processes on each node; tmp: the file it writes.
Run == [at : Steps, want : Demands, size : Nat, lc : SUBSET Constraint,
        assigned : [Nodes -> Nat], tmp : File]

\* Every host and every constraint takes its place.
Size(items) == Cardinality(items) + Cardinality({c.node : c \in items})

TypeOK ==
  /\ now \in 0 .. MaxTime /\ file \in File /\ run \in [Runs -> Run]
  /\ granted \subseteq Constraint /\ overlapped \in BOOLEAN
  /\ Size(file.items) <= FileRoom

\* A process that has ended, or does not exist yet, has no memory.
NoProcess(at) ==
  [at |-> at, want |-> CHOOSE d \in Demands : TRUE, size |-> 0, lc |-> {},
   assigned |-> [n \in Nodes |-> 0], tmp |-> NoFile]

Init ==
  /\ now = 0 /\ file = NoFile /\ granted = {} /\ overlapped = FALSE
  /\ run = [r \in Runs |-> NoProcess("unborn")]

Fails(r) ==
  /\ run' = [run EXCEPT ![r] = NoProcess("failed")]
  /\ UNCHANGED <<file, granted>>

-----------------------------------------------------------------------------
(***************************************************************************)
(* The constraints                                                         *)
(***************************************************************************)
verifyTimeItem(c) == now <= c.until

lcVerify(lc) == {c \in lc : verifyTimeItem(c)}

Announced(lc, n) == {c \in lc : c.node = n}
lcProcesses(lc, n) == MapThenSumSet(LAMBDA c : c.procs, Announced(lc, n))
lcMemory(lc, n) == MapThenSumSet(LAMBDA c : c.memory, Announced(lc, n))

\* loadLC looks at the size first.
loadLC(r) ==
  /\ run[r].at = "unborn"
  /\ overlapped' = (overlapped \/ \E q \in Runs : run[q].at \notin Ended)
  /\ \E d \in Demands :
       run' = [run EXCEPT ![r].at = IF file.there THEN "sized" ELSE "loaded",
                          ![r].want = d, ![r].size = Size(file.items)]
  /\ UNCHANGED <<now, file, granted>>

Loads(r, lc) ==
  /\ run' = [run EXCEPT ![r].at = "loaded", ![r].lc = lcVerify(lc)]
  /\ UNCHANGED <<file, granted>>

\* What a run may take for a constraint that reads past its buffer.
Garbage(r) == {[by |-> r, node |-> n, procs |-> 1, memory |-> 0, until |-> MaxTime] : n \in Nodes}

\* A file that became shorter leaves the run without constraints, which is
\* fatal later; from one that became longer, or is cut short, the run takes a
\* part and whatever is in memory behind it.
ReadFile(r) ==
  /\ run[r].at = "sized"
  /\ IF Size(file.items) < run[r].size THEN Fails(r)
     ELSE IF Size(file.items) = run[r].size /\ file.whole THEN Loads(r, file.items)
     ELSE \/ Fails(r)
          \/ \E part \in SUBSET file.items, g \in Garbage(r) : Loads(r, part) \/ Loads(r, part \cup {g})
  /\ UNCHANGED <<now, overlapped>>

-----------------------------------------------------------------------------
(***************************************************************************)
(* The choice                                                              *)
(***************************************************************************)
MemoryLeft_Reported(lc, n) == FreeMem[n]   \* mutant: announced memory is not subtracted

MemoryLeft(lc, n) == IF lcMemory(lc, n) > FreeMem[n] THEN 0 ELSE FreeMem[n] - lcMemory(lc, n)

\* freeMem and load after applyNodesLC and the processes assigned so far.
freeMem(r, a, n) == MemoryLeft(run[r].lc, n) - a[n] * run[r].want.memory
FutureLoad(r, a, n) == Load[n] + Cost[n] * (lcProcesses(run[r].lc, n) + a[n] + 1)

Fit(r, a) == {n \in Nodes : freeMem(r, a, n) > run[r].want.memory}

chooseBestNode_Current(r, a) ==   \* mutant: the load before the process is added counts
  {n \in Fit(r, a) : \A m \in Fit(r, a) :
     FutureLoad(r, a, n) - Cost[n] - (FutureLoad(r, a, m) - Cost[m]) <= EqualLoadDiff}

chooseBestNode(r, a) ==
  {n \in Fit(r, a) : \A m \in Fit(r, a) :
     FutureLoad(r, a, n) - FutureLoad(r, a, m) <= EqualLoadDiff}

updateChosenNodeLoad(a, n) == [a EXCEPT ![n] = @ + 1]

\* The assignments that k choices may lead to; none if one finds no node.
Assignments(r, k) ==
  LET f[j \in 0 .. k] ==
        IF j = 0 THEN {[n \in Nodes |-> 0]}
        ELSE UNION {{updateChosenNodeLoad(a, n) : n \in chooseBestNode(r, a)} : a \in f[j - 1]}
  IN  f[k]

bestNodesOfAll(r) ==
  /\ run[r].at = "loaded"
  /\ LET as == Assignments(r, run[r].want.procs)
     IN  IF as = {} THEN Fails(r)
         ELSE /\ \E a \in as : run' = [run EXCEPT ![r].at = "chosen", ![r].assigned = a]
              /\ UNCHANGED <<file, granted>>
  /\ UNCHANGED <<now, overlapped>>

-----------------------------------------------------------------------------
(***************************************************************************)
(* The new file                                                            *)
(***************************************************************************)
Own(r) ==
  {[by |-> r, node |-> n, procs |-> run[r].assigned[n],
    memory |-> run[r].assigned[n] * run[r].want.memory, until |-> now + Duration] :
     n \in {m \in Nodes : run[r].assigned[m] > 0}}

\* Nothing when the buffer is too small.
writeLCAsBinary(items) == IF Size(items) <= FileRoom THEN items ELSE {}

WriteTmp_InPlace(r) ==   \* mutant: the file itself is written
  /\ run[r].at = "chosen"
  /\ LET f == WholeFile(run[r].lc \cup Own(r))
     IN  \/ file' = f /\ run' = [run EXCEPT ![r].at = "written", ![r].tmp = f]
         \/ file' = [f EXCEPT !.whole = FALSE] /\ run' = [run EXCEPT ![r] = NoProcess("failed")]
  /\ UNCHANGED <<now, granted, overlapped>>

\* updateLC up to the temporary file, which a full disk cuts short.
WriteTmp(r) ==
  /\ run[r].at = "chosen"
  /\ LET items == writeLCAsBinary(run[r].lc \cup Own(r))
     IN  IF items = {} THEN Fails(r)
         ELSE \/ /\ run' = [run EXCEPT ![r].at = "written", ![r].tmp = WholeFile(items)]
                 /\ UNCHANGED <<file, granted>>
              \/ Fails(r)
  /\ UNCHANGED <<now, overlapped>>

Rename(r) ==
  /\ run[r].at = "written"
  /\ file' = run[r].tmp
  /\ run' = [run EXCEPT ![r].at = "renamed"]
  /\ UNCHANGED <<now, granted, overlapped>>

printResults(r) ==
  /\ run[r].at = "renamed"
  /\ granted' = granted \cup {c \in run[r].tmp.items : c.by = r}
  /\ run' = [run EXCEPT ![r] = NoProcess("printed")]
  /\ UNCHANGED <<now, file, overlapped>>

Kill(r) ==
  /\ run[r].at \notin Ended
  /\ Fails(r)
  /\ UNCHANGED <<now, overlapped>>

Tick == now < MaxTime /\ now' = now + 1 /\ UNCHANGED <<file, run, granted, overlapped>>

Next ==
  \/ \E r \in Runs : \/ loadLC(r) \/ ReadFile(r) \/ bestNodesOfAll(r)
                     \/ WriteTmp(r) \/ Rename(r) \/ printResults(r) \/ Kill(r)
  \/ Tick

Spec == Init /\ [][Next]_vars

-----------------------------------------------------------------------------
Live(cs) == {c \in cs : now <= c.until}

\* Runs that do not overlap lose nothing: as long as a run's announcement
\* holds it stands in the file, and together the announcements never take
\* more of a node than its free memory; and the file is whole, whoever was
\* killed and whatever the disk refused.  (Two runs that overlap lose the
\* announcements of the one that replaces the file first.)
ReservationsKept ==
  /\ file.whole
  /\ ~overlapped => /\ Live(granted) \subseteq file.items
                    /\ \A n \in Nodes : lcMemory(Live(granted), n) <= FreeMem[n]

\* The nodes chosen one by one for several processes are a good choice
\* together: no process would be better off, by more than EqualLoadDiff, on
\* another node that has room for it.
NoBetterMove ==
  \A r \in Runs : run[r].at = "chosen" =>
    LET a == run[r].assigned
    IN  \A n \in Nodes, m \in Fit(r, a) :
          a[n] > 0 => FutureLoad(r, a, n) - Cost[n] - FutureLoad(r, a, m) <= EqualLoadDiff

==============================================================================
