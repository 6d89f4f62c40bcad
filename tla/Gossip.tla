-------------------------------- MODULE Gossip --------------------------------
(***************************************************************************)
(* A cluster of infods: every timer tick a node refreshes its own entry    *)
(* and pushes its window to a partner, or asks one for its window          *)
(* (doTimeStep in src/infod/infod.c, src/infod/gossipAlgo.c).  Messages    *)
(* are delivered in any order, after any delay up to MaxDelay; connections *)
(* fail, time out without a trace or are reported failed although the      *)
(* message arrives; nodes crash and are respawned with an empty vector.    *)
(*                                                                         *)
(* The reading of a node is the tick at which it was made.  The clock of   *)
(* node n runs Skew[n] ticks ahead of the common time now.                 *)
(***************************************************************************)
EXTENDS InfoVecOps

CONSTANTS
  GossipAlgo,    \* "reg", "mindead" or "pushpull"
  Skew,          \* how far the clock of each node is ahead
  MaxDelay,      \* bound on the ticks a message spends under way
  MaxClock,      \* bound on the common time
  MaxMsgs,       \* bound on the messages under way
  Mortal,        \* the nodes that may crash
  NetFaults      \* whether messages vanish or are reported failed although both nodes are up

ASSUME GossipAssumption ==
  /\ GossipAlgo \in {"reg", "mindead", "pushpull"}
  /\ Skew \in [Idx -> Nat]
  /\ MaxDelay \in Nat /\ MaxClock \in 0 .. AgeWrap - 1 /\ MaxMsgs \in Nat \ {0}
  /\ Mortal \subseteq Idx /\ NetFaults \in BOOLEAN
  /\ Readings = 0 .. MaxClock

VARIABLES
  vec,        \* the vector of each node
  up,         \* the nodes whose infod runs
  pullCycle,  \* pull_cycle of gossipAlgoPushPull_step
  stepped,    \* the nodes whose timer has fired since the last tick
  net,        \* the messages under way
  now         \* the common time

vars == <<vec, up, pullCycle, stepped, net, now>>

Clock(n) == now + Skew[n]
NoOne == Unknown

Message ==
  [kind : {"info", "pull"}, from : Idx, to : Idx, sent : 0 .. MaxClock,
   records : Seq(WireRecord)]

TypeOK ==
  /\ vec \in [Idx -> Vector]
  /\ up \subseteq Idx
  /\ pullCycle \in [Idx -> BOOLEAN]
  /\ stepped \subseteq Idx
  /\ net \subseteq Message /\ Cardinality(net) <= MaxMsgs
  /\ now \in 0 .. MaxClock

\* info_setup: the vector a node starts, or starts again, with.
info_setup(n) ==
  infoVecPunish(infoVecInit(n, Clock(n)), n, DeadProvider, Clock(n))

Init ==
  /\ now = 0
  /\ vec = [n \in Idx |-> info_setup(n)]
  /\ up = Idx
  /\ pullCycle = [n \in Idx |-> FALSE]
  /\ stepped = Idx
  /\ net = {}

-----------------------------------------------------------------------------
(***************************************************************************)
(* The gossip algorithms: what a step may decide, as the kind of message,  *)
(* the partner and the next pull_cycle.                                    *)
(***************************************************************************)
Choice(kind, partners, cycle) ==
  {[kind |-> kind, to |-> i, cycle |-> cycle] :
     i \in IF partners = {} THEN {NoOne} ELSE partners}

gossipAlgoRegular_step(v, cycle) == Choice("info", ivec_get_any_rand(v), cycle)

gossipAlgoMinDead_step(v, cycle) ==
  Choice("info", ivec_get_any_rand(v), cycle) \cup Choice("info", ivec_get_rand_active(v), cycle)

gossipAlgoPushPull_step(v, t, cycle) ==
  Choice("info", ivec_get_any_rand(v), cycle) \cup
  (IF cycle THEN Choice("pull", infoVecOldestNode(v, t), FALSE)
   ELSE Choice("info", ivec_get_rand_active(v), TRUE))

AlgoStep(v, t, cycle) ==
  IF GossipAlgo = "reg" THEN gossipAlgoRegular_step(v, cycle)
  ELSE IF GossipAlgo = "mindead" THEN gossipAlgoMinDead_step(v, cycle)
  ELSE gossipAlgoPushPull_step(v, t, cycle)

\* Faults end before the last tick, so that what they spoil can be repaired in time.
MayFail == now < MaxClock

\* A send fails when the node is down, or because of the network or a full table of
\* connections.
MayBeReportedDown(i) == i \notin up \/ (NetFaults /\ MayFail)

Info(n, i, v) == [kind |-> "info", from |-> n, to |-> i, sent |-> now,
                  records |-> WindowMessage(v, Clock(n))]
Pull(n, i) == [kind |-> "pull", from |-> n, to |-> i, sent |-> now, records |-> <<>>]

\* The vector after the provider was asked for a reading (priority 0), which may fail.
Refreshed(n) ==
  {infoVecUpdate(vec[n], [index |-> n, time |-> Clock(n), status |-> Alive,
                          data |-> now, prio |-> 0], Clock(n))} \cup
  (IF NetFaults /\ MayFail THEN {infoVecPunish(vec[n], n, DeadProvider, Clock(n))} ELSE {})

\* The timer fires once in a tick, and again and again when the clock can count no further.
TimerDue(n) == n \notin stepped \/ now = MaxClock

\* doTimeStep with partner p: the window is taken (and its priorities lowered) before
\* the connection is tried.
TimeStep(n, p) ==
  /\ n \in up
  /\ TimerDue(n)
  /\ \E v \in Refreshed(n) : \E c \in AlgoStep(v, Clock(n), pullCycle[n]) :
       LET w == IF c.kind = "info" /\ p # NoOne THEN infoVecGetWindow(v, Clock(n)) ELSE v
           m == IF c.kind = "info" THEN Info(n, p, v) ELSE Pull(n, p)
       IN  /\ c.to = p
           /\ pullCycle' = [pullCycle EXCEPT ![n] = c.cycle]
           /\ \/ p = NoOne /\ vec' = [vec EXCEPT ![n] = w] /\ UNCHANGED net
              \/ /\ p # NoOne /\ Cardinality(net \cup {m}) <= MaxMsgs
                 /\ vec' = [vec EXCEPT ![n] = w]
                 /\ net' = net \cup {m}
              \/ /\ p # NoOne /\ MayBeReportedDown(p)
                 /\ vec' = [vec EXCEPT ![n] = infoVecPunish(w, p, DeadConnect, Clock(n))]
                 /\ UNCHANGED net
  /\ stepped' = stepped \cup {n}
  /\ UNCHANGED <<up, now>>

-----------------------------------------------------------------------------
\* handle_info, and handle_info_pull, which answers with a window on the same socket.
Receive(m) ==
  /\ m.to \in up
  /\ LET n == m.to
         answer == Info(n, m.from, vec[n])
     IN  \/ /\ m.kind = "info"
            /\ vec' = [vec EXCEPT ![n] = infoVecUseRemoteWindow(@, m.records, Clock(n))]
            /\ net' = net \ {m}
         \/ /\ m.kind = "pull"
            /\ vec' = [vec EXCEPT ![n] = infoVecGetWindow(@, Clock(n))]
            /\ net' = (net \ {m}) \cup {answer}
  /\ UNCHANGED <<up, pullCycle, stepped, now>>

\* send_inpr_info: the sender learns that a message did not get through.
SendFails(m) ==
  /\ MayBeReportedDown(m.to)
  /\ m.from \in up
  /\ vec' = [vec EXCEPT ![m.from] = infoVecPunish(@, m.to, DeadConnect, Clock(m.from))]
  /\ net' = net \ {m}
  /\ UNCHANGED <<up, pullCycle, stepped, now>>

\* comm_finish_send reports a full socket buffer as a failure and keeps the message.
SendStalls(m) ==
  /\ NetFaults /\ MayFail
  /\ m.from \in up
  /\ vec' = [vec EXCEPT ![m.from] = infoVecPunish(@, m.to, DeadConnect, Clock(m.from))]
  /\ UNCHANGED <<up, pullCycle, stepped, net, now>>

\* The connection dies with one of its ends, or comm_admin times it out silently.
Lose(m) ==
  /\ m.from \notin up \/ (NetFaults /\ MayFail)
  /\ net' = net \ {m}
  /\ UNCHANGED <<vec, up, pullCycle, stepped, now>>

\* Time passes when no message would be under way for longer than MaxDelay.
Tick ==
  /\ now < MaxClock
  /\ \A m \in net : m.sent + MaxDelay > now
  /\ now' = now + 1
  /\ stepped' = {}
  /\ UNCHANGED <<vec, up, pullCycle, net>>

\* The worker dies; infod_parent sleeps, while the old connections break, and starts another.
Crash(n) ==
  /\ n \in up \cap Mortal /\ MayFail
  /\ up' = up \ {n}
  /\ UNCHANGED <<vec, pullCycle, stepped, net, now>>

Restart(n) ==
  /\ n \notin up /\ MayFail
  /\ \A m \in net : n \notin {m.from, m.to}
  /\ up' = up \cup {n}
  /\ vec' = [vec EXCEPT ![n] = info_setup(n)]
  /\ pullCycle' = [pullCycle EXCEPT ![n] = FALSE]
  /\ stepped' = stepped \cup {n}
  /\ UNCHANGED <<net, now>>

Next ==
  \/ \E n \in Idx, p \in Idx \cup {NoOne} : TimeStep(n, p)
  \/ \E m \in net : Receive(m) \/ SendFails(m) \/ SendStalls(m) \/ Lose(m)
  \/ Tick
  \/ \E n \in Idx : Crash(n) \/ Restart(n)

Spec == Init /\ [][Next]_vars

\* Strong fairness towards every partner a node can choose (its timer keeps firing and
\* rand() returns every value again and again), weak fairness for messages and for time.
\* The conditions are written out because ENABLED of these actions is slow to evaluate.
MayPush(n, p) ==
  /\ n \in up /\ TimerDue(n) /\ Cardinality(net) < MaxMsgs
  /\ \E c \in AlgoStep(vec[n], Clock(n), pullCycle[n]) : c.to = p

Fairness ==
  /\ \A n \in Idx : \A p \in Idx \ {n} : []<>MayPush(n, p) => []<><<TimeStep(n, p)>>_vars
  /\ <>[](net # {}) => []<><<\E m \in net : Receive(m) \/ SendFails(m) \/ Lose(m)>>_vars
  /\ WF_vars(Tick)

FairSpec == Spec /\ Fairness

-----------------------------------------------------------------------------
LiveEntries(n) == AliveIdx(vec[n])

\* Ages carry time from clock to clock: whatever the clocks of the nodes say and however
\* long messages take, a node never thinks a reading is older than it is, nor made in the
\* future; if messages take no time it knows exactly when the reading was made
\* (ivec_time2age, ivec_age2time).
InfoDated ==
  \A n \in up : \A i \in LiveEntries(n) :
    LET e == vec[n].entry[i]
    IN  /\ e.data + Skew[n] <= e.time /\ e.time <= Clock(n)
        /\ MaxDelay = 0 => e.time = e.data + Skew[n]

\* Nobody speaks for a node but itself: its own entry only changes when its timer fires or
\* it starts, whatever windows, even its own echoed back, arrive (infoVecUseRemoteWindow).
OnlySelfSpeaks ==
  [][\A n \in up : vec'[n].entry[n] # vec[n].entry[n] =>
       \/ n \notin stepped /\ n \in stepped'
       \/ now = MaxClock]_vars

\* "Updating the entry only if its creation time is newer than the time already stored in
\* the vector" (infoVec.c:827): a node that keeps running never replaces a reading by one
\* made before it, and never revives a dead node by a reading made before the verdict.
NewsOnlyMovesForward ==
  [][\A n \in up \cap up' : \A i \in Idx \ {n} :
       LET old == vec[n].entry[i]
           new == vec'[n].entry[i]
       IN  ~new.dead => IF old.dead THEN new.data + Skew[n] >= old.time
                        ELSE new.data >= old.data]_vars

\* The purpose of gossip: once failures stop, every running node ends up knowing exactly
\* which nodes run (ivec_get_any_rand reaches the nodes nobody has heard of).
EveryoneKnows == \A n \in up : LiveEntries(n) = up
Converges == <>[]EveryoneKnows


-----------------------------------------------------------------------------
(***************************************************************************)
(* The abstract cluster, and how this one implements it: the age of an     *)
(* entry, its priority and its place in the window are hidden, and what is *)
(* left of a message is the live entries it carries.                       *)
(***************************************************************************)
BeliefOf(n) == [i \in Idx |-> IF vec[n].entry[i].dead THEN NoData ELSE vec[n].entry[i].data]

LiveRecords(m) == {r \in ToSet(m.records) : r.status = Alive}
Carried == UNION {{<<r.index, r.data>> : r \in LiveRecords(m)} : m \in net}

H == INSTANCE Hearsay WITH
       Nodes <- Idx, Dead <- NoData, clock <- now, running <- up,
       belief <- [n \in Idx |-> BeliefOf(n)], wire <- Carried

\* Relays, echoes, late answers and respawns never make a node believe of another what that
\* other did not measure, what nobody told it, or what it held before it started
\* (infoVecGetWindow, infoVecUseRemoteWindow, info_setup).
IsHearsay == H!Spec

=============================================================================
