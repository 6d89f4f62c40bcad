-------------------------------- MODULE InfoVec --------------------------------
(***************************************************************************)
(* One infod's information vector over time: the calls the daemon makes    *)
(* into infoVec.c, in any order its event loop can make them, against a    *)
(* clock that an administrator may set back.  infod is single threaded and *)
(* every call runs to its end; the queries, which sample the clock once    *)
(* and then visit entry after entry, take one step per entry visited (the  *)
(* variable scan), so that the clock may move under them.                  *)
(***************************************************************************)
EXTENDS InfoVecOps

CONSTANTS
  Local,          \* this infod's place in the map
  MaxClock,       \* bound on the clock
  MaxPrio,        \* bound on the priority of a received record
  RemoteCauses,   \* causes of death other infods report
  AgesAsked,      \* ages, in seconds, clients ask for
  ClockGoesBack   \* whether the clock may be set back

ASSUME InfoVecAssumption ==
  /\ Local \in Idx
  /\ MaxClock \in Nat
  /\ MaxPrio \in Nat
  /\ RemoteCauses \subseteq DeadCauses
  /\ ClockGoesBack \in BOOLEAN

VARIABLES
  vec,    \* glob_vec
  now,    \* the clock gettimeofday() reads
  scan    \* the query being answered: entries still to visit, time it began,
          \* the age below which it judges no entry

vars == <<vec, now, scan>>

Idle == [left |-> 0, cur |-> 0, upto |-> 0]
Scans == [left : 0 .. VSize, cur : 0 .. MaxClock, upto : {0} \cup {a * Milli : a \in AgesAsked}]

TypeOK ==
  /\ vec \in Vector
  /\ now \in 0 .. MaxClock
  /\ scan \in Scans

\* info_setup: a new vector, with the local node dead until its provider speaks.
Init ==
  /\ now = 0
  /\ vec = infoVecPunish(infoVecInit(Local, 0), Local, DeadProvider, 0)
  /\ scan = Idle

-----------------------------------------------------------------------------
Tick ==
  /\ now < MaxClock
  /\ now' = now + 1
  /\ UNCHANGED <<vec, scan>>

SetClockBack ==
  /\ ClockGoesBack
  /\ \E t \in 0 .. now - 1 : now' = t
  /\ UNCHANGED <<vec, scan>>

\* doTimeStep with the provider up: the provider's reading, taken now, with the priority
\* mosix_get_priority always returns.
LocalUpdate ==
  /\ scan = Idle
  /\ \E d \in Readings :
       vec' = infoVecUpdate(vec, [index |-> Local, time |-> now, status |-> Alive,
                                  data |-> d, prio |-> 0], now)
  /\ UNCHANGED <<now, scan>>

\* What another infod may say of a node: alive with a reading, or dead without.
RemoteRecords ==
  {u \in [index : (Idx \cup {Unknown}) \ {Local}, time : 0 .. MaxClock,
          status : RemoteCauses \cup {Alive}, data : Readings \cup {NoData},
          prio : 0 .. MaxPrio] : u.status = Alive <=> u.data # NoData}

\* infoVecUseRemoteWindow, one entry of the message (never the local one).
RemoteUpdate ==
  /\ scan = Idle
  /\ \E u \in RemoteRecords : vec' = infoVecUpdate(vec, u, now)
  /\ UNCHANGED <<now, scan>>

\* doGossipStep and send_inpr_info: a message could not be delivered to i.
ConnectFails(i) ==
  /\ scan = Idle
  /\ i # Local
  /\ vec' = infoVecPunish(vec, i, DeadConnect, now)
  /\ UNCHANGED <<now, scan>>

\* doTimeStep with the provider away.
ProviderFails ==
  /\ scan = Idle
  /\ vec' = infoVecPunish(vec, Local, DeadProvider, now)
  /\ UNCHANGED <<now, scan>>

\* infoVecGetAllEntries: the clock is read once, then every entry is visited.
BeginGetAll ==
  /\ scan = Idle
  /\ scan' = [left |-> VSize, cur |-> now, upto |-> 0]
  /\ UNCHANGED <<vec, now>>

\* infoVecGetEntriesByAge: so is it here, but an entry younger than what the client asked
\* for is handed out even if it is too old to be taken for alive.
BeginGetByAge ==
  /\ scan = Idle
  /\ \E a \in AgesAsked : scan' = [left |-> VSize, cur |-> now, upto |-> a * Milli]
  /\ UNCHANGED <<vec, now>>

VisitEntry ==
  /\ scan.left > 0
  /\ LET i == VSize - scan.left
     IN  vec' = IF compute_age(vec.entry[i].time, scan.cur) < scan.upto THEN vec
                ELSE PunishIfOld(vec, i, scan.cur, now)
  /\ scan' = IF scan.left = 1 THEN Idle ELSE [scan EXCEPT !.left = @ - 1]
  /\ UNCHANGED now

\* infoVecGetEntriesByIP of one address; longer lists and infoVecGetContIPEntries
\* are successive calls of it.
GetEntryByIP ==
  /\ scan = Idle
  /\ \E i \in Idx \cup {Unknown} : vec' = PunishIfOld(vec, i, now, now)
  /\ UNCHANGED <<now, scan>>

GetWindow ==
  /\ scan = Idle
  /\ vec' = infoVecGetWindow(vec, now)
  /\ UNCHANGED <<now, scan>>

ClearDeathLog ==
  /\ scan = Idle
  /\ vec' = infoVecClearDeathLog(vec)
  /\ UNCHANGED <<now, scan>>

Next ==
  \/ Tick \/ SetClockBack
  \/ LocalUpdate \/ RemoteUpdate
  \/ \E i \in Idx : ConnectFails(i)
  \/ ProviderFails
  \/ BeginGetAll \/ BeginGetByAge \/ VisitEntry \/ GetEntryByIP
  \/ GetWindow \/ ClearDeathLog

Spec == Init /\ [][Next]_vars

-----------------------------------------------------------------------------
\* The count of live nodes, which steers the choice of gossip partners, is the
\* number of entries not marked dead: no sequence of updates, failed connections,
\* queries and resets lets it drift (infoVecUpdate, ivec_kill_entry, ivec_reset).
NumAliveExact == vec.numAlive = Cardinality(AliveIdx(vec))

\* The three places that say a node is dead agree: isdead, hdr.status and the zeroed
\* payload.  A client is never shown the load of a dead node, nor a live node
\* without one, whichever of infoVecUpdate, infoVecPunish and ivec_reset came last.
DeadMarksAgree ==
  \A i \in Idx : /\ vec.entry[i].dead <=> vec.entry[i].status # Alive
                 /\ vec.entry[i].dead <=> vec.entry[i].data = NoData

\* The shape the window code relies on: occupied slots come first, a node has one
\* slot, and the local node, which every message carries anyway, has none.
OccupiedFirst ==
  \A k, m \in Slots : k < m /\ vec.win[k].index = Empty => vec.win[m].index = Empty
OneSlotPerNode ==
  \A k, m \in Slots : vec.win[k].index = vec.win[m].index /\ k # m => vec.win[k].index = Empty
LocalNotInWindow == ~InWindow(vec, Local)
WindowSound == OccupiedFirst /\ OneSlotPerNode /\ LocalNotInWindow

\* While the clock only moves forward no entry is dated in the future, so an age is
\* never the huge number a negative difference wraps to (compute_age).
NothingFromFuture == \A i \in Idx : vec.entry[i].time <= now

\* Even when the clock is set back, a live entry is never newer than the last call of
\* infoVecUpdate: the comparison with prev_time there is enough to notice that the
\* clock went behind the information the vector holds on live nodes.
LiveNotAhead == \A i \in AliveIdx(vec) : vec.entry[i].time <= vec.prevTime

\* With a forward clock an entry never goes back to older information nor ahead of the
\* present, and a node known dead returns to life only by information newer than the
\* verdict (infoVecUpdate, ivec_kill_entry).
FreshnessMonotone ==
  [][\A i \in Idx :
       /\ vec'.entry[i].time \in vec.entry[i].time .. now'
       /\ vec.entry[i].dead /\ ~vec'.entry[i].dead
            => vec'.entry[i].time > vec.entry[i].time]_vars

\* Urgent news loses its urgency: the priority of a node that stays in the window
\* never rises while it is positive, so no record is forwarded first forever
\* ("alowing the high priority to decay properly", ivec_update_win).
PriorityDecays ==
  [][\A k, m \in Slots :
       (/\ vec.win[k].index # Empty
        /\ vec'.win[m].index = vec.win[k].index
        /\ vec.win[k].prio > 0) => vec'.win[m].prio <= vec.win[k].prio]_vars

\* A node this infod itself finds dead is in the window after the verdict, however
\* full the window was of other urgent news, unless the clock was set back behind
\* what the vector holds (infoVecPunish, ivec_update_win).
DeathEntersWindow ==
  [][\A i \in Idx : NothingFromFuture /\ ConnectFails(i) /\ ~vec.entry[i].dead
                      => InWindow(vec', i)]_vars

\* With an up-to-age window no live node is crowded out of it: news of every live
\* node stays available to the next message (infoVecInitWin sizes it by vsize).
LiveInWindow ==
  WinType = "uptoage" => \A i \in AliveIdx(vec) \ {Local} : InWindow(vec, i)

=============================================================================
