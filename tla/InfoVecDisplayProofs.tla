-------------------------- MODULE InfoVecDisplayProofs -------------------------
(***************************************************************************)
(* Proofs about the two ends of the data: the information vector of a      *)
(* daemon, for every size of the map, window policy, age limit and bound   *)
(* on the clock; and the display that draws what it was told, for every    *)
(* number of nodes, set of clusters, length of the strings and height of   *)
(* the graph.                                                              *)
(***************************************************************************)
EXTENDS InfoVec, Graph, InfoVecOpsProofs, SequenceTheorems

-----------------------------------------------------------------------------
(***************************************************************************)
(* The steps of the daemon, as calls on the vector.                        *)
(***************************************************************************)

\* A record the daemon offers to infoVecUpdate: a payload comes with a live node.
Offered == {u \in Record : (u.status = Alive <=> u.data # NoData) /\ u.prio <= MaxPrio}

\* What a step may do to the vector: nothing, an update, a verdict, or a call that
\* touches neither entries nor count nor the nodes of the window.
Harmless(v, w) ==
  /\ w \in Vector /\ w.localIndex = v.localIndex /\ w.prevTime = v.prevTime
  /\ w.entry = v.entry /\ w.numAlive = v.numAlive
  /\ SlotsFade(v, w)

Call(v, w, t) ==
  \/ Harmless(v, w)
  \/ \E u \in Offered : w = infoVecUpdate(v, u, t)
  \/ \E i \in Idx, c \in DeadCauses : w = infoVecPunish(v, i, c, t)

\* A vector left as it is has lost nothing.
LEMMA NothingFades == ASSUME NEW v \in Vector PROVE SlotsFade(v, v)
BY DEF SlotsFade, Vector, WinEntry

\* infoVecPunish of an unknown node does nothing, and the loops over the entries call it
\* with the cause INFOD_DEAD_AGE.
LEMMA PunishIsCall ==
  ASSUME NEW v \in Vector, NEW i \in Idx \cup {Unknown}, NEW c \in DeadCauses,
         NEW t \in Nat, NEW cur
  PROVE  /\ Call(v, infoVecPunish(v, i, c, t), t)
         /\ Call(v, PunishIfOld(v, i, cur, t), t)
<1>1. Harmless(v, v)
  BY NothingFades DEF Harmless
<1>2. ASSUME NEW d \in DeadCauses PROVE Call(v, infoVecPunish(v, i, d, t), t)
  <2>1. CASE i = Unknown
    BY <1>1, <2>1 DEF infoVecPunish, Call
  <2>2. CASE i \in Idx
    BY <2>2 DEF Call
  <2> QED BY <2>1, <2>2
<1>3. DeadAge \in DeadCauses
  BY DEF DeadCauses
<1> QED
  BY <1>1, <1>2, <1>3 DEF PunishIfOld, Call

\* Every step of Next is one call on the vector, made at the time of the clock, and keeps
\* the clock and the running query in their ranges.
LEMMA NextIsCall ==
  ASSUME TypeOK, Next
  PROVE  /\ Call(vec, vec', now)
         /\ now' \in 0 .. MaxClock
         /\ scan' \in Scans
         /\ ~ClockGoesBack => now' >= now
<1>1. /\ vec \in Vector /\ now \in Nat /\ now \in 0 .. MaxClock
      /\ scan \in Scans /\ Harmless(vec, vec)
  BY InfoVecAssumption, NothingFades DEF TypeOK, Harmless
<1>2. VSize \in Nat /\ MaxPrio \in Nat /\ MaxClock \in Nat /\ Local \in Idx /\ Idx = 0 .. VSize - 1
  BY VecAssumption, InfoVecAssumption DEF Idx
<1>3. CASE Tick
  BY <1>1, <1>2, <1>3 DEF Tick, Call
<1>4. CASE SetClockBack
  BY <1>1, <1>2, <1>4 DEF SetClockBack, Call
<1>5. CASE LocalUpdate
  <2>1. PICK d \in Readings :
          vec' = infoVecUpdate(vec, [index |-> Local, time |-> now, status |-> Alive,
                                     data |-> d, prio |-> 0], now)
    BY <1>5 DEF LocalUpdate
  <2> DEFINE u == [index |-> Local, time |-> now, status |-> Alive, data |-> d, prio |-> 0]
  <2>2. u \in Offered
    BY <1>1, <1>2, StatusFacts, VecAssumption DEF Offered, Record
  <2>3. vec' = infoVecUpdate(vec, u, now)
    BY <2>1
  <2> HIDE DEF u
  <2>4. Call(vec, vec', now)
    BY <2>2, <2>3 DEF Call
  <2> QED BY <1>1, <1>5, <2>4 DEF LocalUpdate
<1>6. CASE RemoteUpdate
  <2>1. RemoteRecords \subseteq Offered
    BY <1>2, StatusFacts, InfoVecAssumption DEF RemoteRecords, Offered, Record
  <2> QED BY <1>1, <1>6, <2>1 DEF RemoteUpdate, Call
<1>7. CASE \E i \in Idx : ConnectFails(i)
  <2>1. DeadConnect \in DeadCauses
    BY DEF DeadCauses
  <2> QED BY <1>1, <1>7, <2>1 DEF ConnectFails, Call
<1>8. CASE ProviderFails
  <2>1. DeadProvider \in DeadCauses
    BY DEF DeadCauses
  <2> QED BY <1>1, <1>2, <1>8, <2>1 DEF ProviderFails, Call
<1>9. CASE BeginGetAll
  BY <1>1, <1>2, <1>9 DEF BeginGetAll, Call, Scans
<1>14. CASE BeginGetByAge
  BY <1>1, <1>2, <1>14 DEF BeginGetByAge, Call, Scans
<1>10. CASE VisitEntry
  <2>1. VSize - scan.left \in Idx
    BY <1>1, <1>2, <1>10 DEF VisitEntry, Scans
  <2>2. Call(vec, vec', now)
    <3>1. CASE vec' = vec
      BY <1>1, <3>1 DEF Call
    <3>2. CASE vec' = PunishIfOld(vec, VSize - scan.left, scan.cur, now)
      BY <1>1, <2>1, <3>2, PunishIsCall, StatusFacts DEF DeadCauses
    <3> QED BY <1>10, <3>1, <3>2 DEF VisitEntry
  <2>3. scan' \in Scans
    <3>1. Idle \in Scans
      BY <1>2 DEF Idle, Scans
    <3>2. [scan EXCEPT !.left = scan.left - 1] \in Scans
      BY <1>1, <1>2, <1>10 DEF VisitEntry, Scans
    <3> QED BY <1>10, <3>1, <3>2 DEF VisitEntry
  <2> QED BY <1>1, <1>10, <2>2, <2>3 DEF VisitEntry
<1>11. CASE GetEntryByIP
  BY <1>1, <1>11, PunishIsCall DEF GetEntryByIP, DeadCauses
<1>12. CASE GetWindow
  BY <1>1, <1>12, GetWindowEffect DEF GetWindow, Call, Harmless
<1>13. CASE ClearDeathLog
  BY <1>1, <1>13, ClearDeathLogEffect DEF ClearDeathLog, Call, Harmless
<1> QED
  BY <1>3, <1>4, <1>5, <1>6, <1>7, <1>8, <1>9, <1>10, <1>11, <1>12, <1>13, <1>14 DEF Next

\* A call keeps the vector a vector of the same node.
LEMMA CallKeepsType ==
  ASSUME NEW v \in Vector, NEW w, NEW t \in Nat, Call(v, w, t)
  PROVE  w \in Vector /\ w.localIndex = v.localIndex
<1>1. CASE Harmless(v, w)
  BY <1>1 DEF Harmless
<1>2. CASE \E u \in Offered : w = infoVecUpdate(v, u, t)
  BY <1>2, UpdateEffect DEF Offered
<1>3. CASE \E i \in Idx, c \in DeadCauses : w = infoVecPunish(v, i, c, t)
  BY <1>3, PunishEffect DEF OnlyEntry
<1> QED
  BY <1>1, <1>2, <1>3 DEF Call

-----------------------------------------------------------------------------
(***************************************************************************)
(* The theorems.                                                           *)
(***************************************************************************)

\* The vector infod starts with: every node dead and never heard of, the window free.
LEMMA InitFacts ==
  ASSUME Init
  PROVE  /\ TypeOK /\ vec.localIndex = Local /\ vec.prevTime = 0 /\ now = 0
         /\ vec.numAlive = 0 /\ WinOK(vec)
         /\ \A i \in Idx : /\ vec.entry[i].dead /\ vec.entry[i].status # Alive
                           /\ vec.entry[i].data = NoData /\ vec.entry[i].time = 0
<1> DEFINE v == infoVecInit(Local, 0)
<1>1. Local \in Idx /\ 0 \in 0 .. MaxClock /\ 0 \in 0 .. VSize /\ 0 \in Nat
  BY VecAssumption, InfoVecAssumption
<1>8. /\ v \in Vector /\ v.localIndex = Local /\ v.numAlive = 0 /\ v.prevTime = 0
      /\ \A k \in Slots : v.win[k].index = Empty
      /\ \A i \in Idx : /\ v.entry[i].dead /\ v.entry[i].status \in DeadCauses
                        /\ v.entry[i].data = NoData /\ v.entry[i].time = 0
  BY <1>1, InitVector
<1> HIDE DEF v
<1>9. WinOK(v)
  BY <1>1, <1>8, WinSizePositive DEF WinOK, InWindow
<1>10. vec = infoVecPunish(v, Local, DeadProvider, 0)
  BY DEF Init, v
<1>11. /\ OnlyEntry(v, vec, Local)
       /\ vec.entry[Local].dead /\ vec.entry[Local].status \in DeadCauses
       /\ vec.entry[Local].time = 0 /\ vec.entry[Local].data = NoData
       /\ vec.numAlive = 0
  BY <1>1, <1>8, <1>10, PunishEffect DEF DeadCauses
<1>12. TypeOK
  BY <1>1, <1>11 DEF OnlyEntry, TypeOK, Init, Idle, Scans
<1> QED
  BY <1>8, <1>9, <1>11, <1>12, StatusFacts DEF OnlyEntry, Init

\* Type correctness, whatever the clock does and whatever the other infods report.
THEOREM TypeCorrect == Spec => []TypeOK
<1>1. Init => TypeOK
  BY InitFacts
<1>2. TypeOK /\ [Next]_vars => TypeOK'
  <2> SUFFICES ASSUME TypeOK, [Next]_vars PROVE TypeOK'
    OBVIOUS
  <2>1. CASE Next
    <3>1. now \in Nat /\ vec \in Vector
      BY InfoVecAssumption DEF TypeOK
    <3> QED BY <2>1, <3>1, NextIsCall, CallKeepsType DEF TypeOK
  <2>2. CASE UNCHANGED vars
    BY <2>2 DEF vars, TypeOK
  <2> QED BY <2>1, <2>2
<1> QED
  BY <1>1, <1>2, PTL DEF Spec

\* The set of the living gains or loses the one entry an update or a verdict touches,
\* and the count follows.
LEMMA CountFollows ==
  ASSUME NEW v \in Vector, NEW w \in Vector, NEW i \in Idx,
         v.numAlive = Cardinality(AliveIdx(v)),
         \A j \in Idx \ {i} : w.entry[j] = v.entry[j],
         v.entry[i].dead /\ ~w.entry[i].dead => w.numAlive = v.numAlive + 1,
         ~v.entry[i].dead /\ w.entry[i].dead => w.numAlive = v.numAlive - 1,
         (v.entry[i].dead <=> w.entry[i].dead) => w.numAlive = v.numAlive
  PROVE  w.numAlive = Cardinality(AliveIdx(w))
<1>1. IsFiniteSet(AliveIdx(v)) /\ IsFiniteSet(AliveIdx(w))
  <2>1. IsFiniteSet(Idx)
    BY VecAssumption, FS_Interval DEF Idx
  <2> QED BY <2>1, FS_Subset DEF AliveIdx
<1>2. CASE v.entry[i].dead /\ ~w.entry[i].dead
  <2>1. AliveIdx(w) = AliveIdx(v) \cup {i} /\ i \notin AliveIdx(v)
    BY <1>2 DEF AliveIdx
  <2> QED BY <1>1, <1>2, <2>1, FS_AddElement
<1>3. CASE ~v.entry[i].dead /\ w.entry[i].dead
  <2>1. AliveIdx(w) = AliveIdx(v) \ {i} /\ i \in AliveIdx(v)
    BY <1>3 DEF AliveIdx
  <2> QED BY <1>1, <1>3, <2>1, FS_RemoveElement
<1>4. CASE v.entry[i].dead <=> w.entry[i].dead
  <2>1. AliveIdx(w) = AliveIdx(v)
    BY <1>4 DEF AliveIdx
  <2> QED BY <1>4, <2>1
<1> QED
  BY <1>2, <1>3, <1>4

\* The count of the living stays exact under every call.
LEMMA CallKeepsCount ==
  ASSUME NEW v \in Vector, NEW w, NEW t \in Nat, Call(v, w, t),
         v.numAlive = Cardinality(AliveIdx(v))
  PROVE  w.numAlive = Cardinality(AliveIdx(w))
<1>a. w \in Vector
  BY CallKeepsType
<1>1. CASE Harmless(v, w)
  <2>1. AliveIdx(w) = AliveIdx(v)
    BY <1>1 DEF Harmless, AliveIdx
  <2> QED BY <1>1, <2>1 DEF Harmless
<1>2. ASSUME NEW u \in Offered, w = infoVecUpdate(v, u, t)
      PROVE  w.numAlive = Cardinality(AliveIdx(w))
  <2>1. WasReset(v, w, t) \/ TurnedAway(v, w, t) \/ Stored(v, w, u, t)
    BY <1>2, UpdateEffect DEF Offered
  <2>2. CASE WasReset(v, w, t)
    <3>1. AliveIdx(w) = {}
      BY <2>2 DEF WasReset, AliveIdx, ivec_reset_entry
    <3> QED BY <2>2, <3>1, FS_EmptySet DEF WasReset
  <2>3. CASE TurnedAway(v, w, t)
    <3>1. AliveIdx(w) = AliveIdx(v)
      BY <2>3 DEF TurnedAway, AliveIdx
    <3> QED BY <2>3, <3>1 DEF TurnedAway
  <2>4. CASE Stored(v, w, u, t)
    <3> DEFINE i == u.index
    <3>1. /\ i \in Idx /\ \A j \in Idx \ {i} : w.entry[j] = v.entry[j]
          /\ v.entry[i].dead /\ ~w.entry[i].dead => w.numAlive = v.numAlive + 1
          /\ ~v.entry[i].dead /\ w.entry[i].dead => w.numAlive = v.numAlive - 1
          /\ (v.entry[i].dead <=> w.entry[i].dead) => w.numAlive = v.numAlive
      BY <2>4 DEF Stored
    <3> QED BY <1>a, <3>1, CountFollows
  <2> QED BY <2>1, <2>2, <2>3, <2>4
<1>3. ASSUME NEW i \in Idx, NEW c \in DeadCauses, w = infoVecPunish(v, i, c, t)
      PROVE  w.numAlive = Cardinality(AliveIdx(w))
  <2>1. /\ \A j \in Idx \ {i} : w.entry[j] = v.entry[j]
        /\ w.entry[i].dead
        /\ v.entry[i].dead => w.numAlive = v.numAlive
        /\ ~v.entry[i].dead => w.numAlive = v.numAlive - 1
    BY <1>3, PunishEffect DEF OnlyEntry
  <2> QED BY <1>a, <2>1, CountFollows
<1> QED
  BY <1>1, <1>2, <1>3 DEF Call

\* The count of live nodes is exact, for every map, window policy and clock.
THEOREM CountExact == Spec => []NumAliveExact
<1>1. Init => NumAliveExact
  <2> SUFFICES ASSUME Init PROVE NumAliveExact
    OBVIOUS
  <2>1. AliveIdx(vec) = {}
    BY InitFacts DEF AliveIdx
  <2> QED BY <2>1, InitFacts, FS_EmptySet DEF NumAliveExact
<1>2. TypeOK /\ NumAliveExact /\ [Next]_vars => NumAliveExact'
  <2> SUFFICES ASSUME TypeOK, NumAliveExact, [Next]_vars PROVE NumAliveExact'
    OBVIOUS
  <2>1. CASE Next
    <3>1. now \in Nat /\ vec \in Vector /\ Call(vec, vec', now)
      BY <2>1, NextIsCall, InfoVecAssumption DEF TypeOK
    <3>2. vec'.numAlive = Cardinality(AliveIdx(vec'))
      BY <3>1, CallKeepsCount DEF NumAliveExact
    <3> QED BY <3>2 DEF NumAliveExact
  <2>2. CASE UNCHANGED vars
    BY <2>2 DEF vars, NumAliveExact
  <2> QED BY <2>1, <2>2
<1> QED
  BY <1>1, <1>2, TypeCorrect, PTL DEF Spec

-----------------------------------------------------------------------------
\* The marks of one entry agree.
MarksAgree(e) == (e.dead <=> e.status # Alive) /\ (e.dead <=> e.data = NoData)

\* Every call leaves the marks of every entry in agreement.
LEMMA CallKeepsMarks ==
  ASSUME NEW v \in Vector, NEW w, NEW t \in Nat, Call(v, w, t),
         \A i \in Idx : MarksAgree(v.entry[i])
  PROVE  \A i \in Idx : MarksAgree(w.entry[i])
<1>1. CASE Harmless(v, w)
  BY <1>1 DEF Harmless
<1>2. ASSUME NEW u \in Offered, w = infoVecUpdate(v, u, t)
      PROVE  \A i \in Idx : MarksAgree(w.entry[i])
  <2>1. WasReset(v, w, t) \/ TurnedAway(v, w, t) \/ Stored(v, w, u, t)
    BY <1>2, UpdateEffect DEF Offered
  <2>2. CASE WasReset(v, w, t)
    <3>1. MarksAgree(ivec_reset_entry(t))
      BY StatusFacts DEF ivec_reset_entry, MarksAgree, DeadCauses
    <3> QED BY <2>2, <3>1 DEF WasReset
  <2>3. CASE TurnedAway(v, w, t)
    BY <2>3 DEF TurnedAway
  <2>4. CASE Stored(v, w, u, t)
    <3>1. MarksAgree(w.entry[u.index])
      BY <2>4 DEF Stored, Offered, MarksAgree
    <3> QED BY <2>4, <3>1 DEF Stored
  <2> QED BY <2>1, <2>2, <2>3, <2>4
<1>3. ASSUME NEW i \in Idx, NEW c \in DeadCauses, w = infoVecPunish(v, i, c, t)
      PROVE  \A j \in Idx : MarksAgree(w.entry[j])
  <2>1. MarksAgree(v.entry[i])
    OBVIOUS
  <2>2. MarksAgree(w.entry[i])
    BY <1>3, <2>1, PunishEffect, StatusFacts DEF MarksAgree
  <2>3. \A j \in Idx \ {i} : w.entry[j] = v.entry[j]
    BY <1>3, PunishEffect DEF OnlyEntry
  <2> QED BY <2>2, <2>3
<1> QED
  BY <1>1, <1>2, <1>3 DEF Call

\* isdead, hdr.status and the payload of every entry agree in every reachable state.
THEOREM MarksAlwaysAgree == Spec => []DeadMarksAgree
<1>1. DeadMarksAgree <=> \A i \in Idx : MarksAgree(vec.entry[i])
  BY DEF DeadMarksAgree, MarksAgree
<1>2. Init => DeadMarksAgree
  BY InitFacts DEF DeadMarksAgree
<1>3. TypeOK /\ DeadMarksAgree /\ [Next]_vars => DeadMarksAgree'
  <2> SUFFICES ASSUME TypeOK, DeadMarksAgree, [Next]_vars PROVE DeadMarksAgree'
    OBVIOUS
  <2>1. CASE Next
    <3>1. now \in Nat /\ vec \in Vector /\ Call(vec, vec', now)
      BY <2>1, NextIsCall, InfoVecAssumption DEF TypeOK
    <3>2. \A i \in Idx : MarksAgree(vec'.entry[i])
      BY <1>1, <3>1, CallKeepsMarks
    <3> QED BY <3>2 DEF DeadMarksAgree, MarksAgree
  <2>2. CASE UNCHANGED vars
    BY <2>2 DEF vars, DeadMarksAgree
  <2> QED BY <2>1, <2>2
<1> QED
  BY <1>2, <1>3, TypeCorrect, PTL DEF Spec

-----------------------------------------------------------------------------
\* No live entry is newer than the last call of infoVecUpdate, even when the clock goes
\* back between calls: this is why comparing the clock with prev_time is enough.
LEMMA CallKeepsBehind ==
  ASSUME NEW v \in Vector, NEW w, NEW t \in Nat, Call(v, w, t),
         \A i \in AliveIdx(v) : v.entry[i].time <= v.prevTime
  PROVE  \A i \in AliveIdx(w) : w.entry[i].time <= w.prevTime
<1>a. v.prevTime \in Nat /\ \A i \in Idx : v.entry[i].time \in Nat
  <2>1. v.prevTime \in Nat
    BY DEF Vector
  <2>2. ASSUME NEW i \in Idx PROVE v.entry[i].time \in Nat
    BY VectorFields DEF Entry
  <2> QED BY <2>1, <2>2
<1>1. CASE Harmless(v, w)
  BY <1>1 DEF Harmless, AliveIdx
<1>2. ASSUME NEW u \in Offered, w = infoVecUpdate(v, u, t)
      PROVE  \A i \in AliveIdx(w) : w.entry[i].time <= w.prevTime
  <2>1. /\ w.prevTime = t
        /\ WasReset(v, w, t) \/ TurnedAway(v, w, t) \/ Stored(v, w, u, t)
    BY <1>2, UpdateEffect DEF Offered
  <2>2. CASE WasReset(v, w, t)
    BY <2>2 DEF WasReset, AliveIdx, ivec_reset_entry
  <2>3. CASE TurnedAway(v, w, t)
    BY <1>a, <2>1, <2>3 DEF TurnedAway, AliveIdx
  <2>4. CASE Stored(v, w, u, t)
    BY <1>a, <2>1, <2>4 DEF Stored, AliveIdx
  <2> QED BY <2>1, <2>2, <2>3, <2>4
<1>3. ASSUME NEW i \in Idx, NEW c \in DeadCauses, w = infoVecPunish(v, i, c, t)
      PROVE  \A j \in AliveIdx(w) : w.entry[j].time <= w.prevTime
  <2>1. w.entry[i].dead /\ OnlyEntry(v, w, i)
    BY <1>3, PunishEffect
  <2> QED BY <2>1 DEF OnlyEntry, AliveIdx
<1> QED
  BY <1>1, <1>2, <1>3 DEF Call

\* The same as an invariant of the daemon.
THEOREM LiveNeverAhead == Spec => []LiveNotAhead
<1>1. Init => LiveNotAhead
  BY InitFacts DEF LiveNotAhead, AliveIdx
<1>2. TypeOK /\ LiveNotAhead /\ [Next]_vars => LiveNotAhead'
  <2> SUFFICES ASSUME TypeOK, LiveNotAhead, [Next]_vars PROVE LiveNotAhead'
    OBVIOUS
  <2>1. CASE Next
    <3>1. now \in Nat /\ vec \in Vector /\ Call(vec, vec', now)
      BY <2>1, NextIsCall, InfoVecAssumption DEF TypeOK
    <3>2. \A i \in AliveIdx(vec') : vec'.entry[i].time <= vec'.prevTime
      BY <3>1, CallKeepsBehind DEF LiveNotAhead
    <3> QED BY <3>2 DEF LiveNotAhead, AliveIdx
  <2>2. CASE UNCHANGED vars
    BY <2>2 DEF vars, LiveNotAhead, AliveIdx
  <2> QED BY <2>1, <2>2
<1> QED
  BY <1>1, <1>2, TypeCorrect, PTL DEF Spec

-----------------------------------------------------------------------------
(***************************************************************************)
(* With a clock that only moves forward the vector is never reset, and     *)
(* more holds: the inductive invariant also bounds prev_time by the clock. *)
(***************************************************************************)

ForwardInv ==
  /\ TypeOK
  /\ vec.localIndex = Local
  /\ vec.prevTime <= now
  /\ WinOK(vec)
  /\ NothingFromFuture

\* A call made when the clock has not gone back keeps the invariant, and no entry goes
\* back to older information.
LEMMA ForwardCall ==
  ASSUME NEW v \in Vector, NEW w, NEW t \in Nat, Call(v, w, t), v.prevTime <= t,
         \A i \in Idx : v.entry[i].time <= t
  PROVE  /\ w.prevTime <= t
         /\ WinOK(v) => WinOK(w)
         /\ \A i \in Idx : /\ w.entry[i].time <= t
                           /\ w.entry[i].time >= v.entry[i].time
                           /\ v.entry[i].dead /\ ~w.entry[i].dead
                                => w.entry[i].time > v.entry[i].time
<1>a. v.prevTime \in Nat /\ \A i \in Idx : v.entry[i].time \in Nat
  <2>1. v.prevTime \in Nat
    BY DEF Vector
  <2>2. ASSUME NEW i \in Idx PROVE v.entry[i].time \in Nat
    BY VectorFields DEF Entry
  <2> QED BY <2>1, <2>2
<1>1. CASE Harmless(v, w)
  BY <1>a, <1>1, FadingKeepsShape DEF Harmless
<1>2. ASSUME NEW u \in Offered, w = infoVecUpdate(v, u, t)
      PROVE  /\ w.prevTime <= t
             /\ WinOK(v) => WinOK(w)
             /\ \A i \in Idx : /\ w.entry[i].time <= t
                               /\ w.entry[i].time >= v.entry[i].time
                               /\ v.entry[i].dead /\ ~w.entry[i].dead
                                    => w.entry[i].time > v.entry[i].time
  <2>1. /\ w.prevTime = t /\ w.localIndex = v.localIndex /\ u.time \in Nat
        /\ WasReset(v, w, t) \/ TurnedAway(v, w, t) \/ Stored(v, w, u, t)
    BY <1>2, UpdateEffect DEF Offered, Record
  <2>2. CASE WasReset(v, w, t)
    BY <1>a, <2>2 DEF WasReset
  <2>3. CASE TurnedAway(v, w, t)
    BY <1>a, <2>1, <2>3, SameWindow DEF TurnedAway
  <2>4. CASE Stored(v, w, u, t)
    BY <1>a, <2>1, <2>4 DEF Stored
  <2> QED BY <2>1, <2>2, <2>3, <2>4
<1>3. ASSUME NEW i \in Idx, NEW c \in DeadCauses, w = infoVecPunish(v, i, c, t)
      PROVE  /\ w.prevTime <= t
             /\ WinOK(v) => WinOK(w)
             /\ \A j \in Idx : /\ w.entry[j].time <= t
                               /\ w.entry[j].time >= v.entry[j].time
                               /\ v.entry[j].dead /\ ~w.entry[j].dead
                                    => w.entry[j].time > v.entry[j].time
  <2>1. OnlyEntry(v, w, i) /\ w.entry[i].dead
        /\ w.entry[i].time = IF v.entry[i].dead THEN v.entry[i].time ELSE t
    BY <1>3, PunishEffect
  <2> QED BY <1>a, <2>1 DEF OnlyEntry
<1> QED
  BY <1>1, <1>2, <1>3 DEF Call

\* One step of the daemon keeps the invariant when the clock cannot be set back.
LEMMA ForwardStep ==
  ASSUME ~ClockGoesBack, ForwardInv, Next
  PROVE  /\ ForwardInv'
         /\ \A i \in Idx : /\ vec'.entry[i].time >= vec.entry[i].time
                           /\ vec.entry[i].dead /\ ~vec'.entry[i].dead
                                => vec'.entry[i].time > vec.entry[i].time
<1>1. vec \in Vector /\ now \in Nat /\ Call(vec, vec', now) /\ now' \in Nat /\ now' >= now
  BY NextIsCall, InfoVecAssumption DEF ForwardInv, TypeOK
<1>2. vec' \in Vector /\ vec'.localIndex = Local
  BY <1>1, CallKeepsType DEF ForwardInv
<1>3. TypeOK'
  BY <1>2, NextIsCall DEF ForwardInv, TypeOK
<1>4. /\ vec'.prevTime <= now /\ WinOK(vec')
      /\ \A i \in Idx : /\ vec'.entry[i].time <= now
                        /\ vec'.entry[i].time >= vec.entry[i].time
                        /\ vec.entry[i].dead /\ ~vec'.entry[i].dead
                             => vec'.entry[i].time > vec.entry[i].time
  BY <1>1, ForwardCall DEF ForwardInv, NothingFromFuture
<1>5. vec'.prevTime \in Nat /\ \A i \in Idx : vec'.entry[i].time \in Nat
  <2>1. vec'.prevTime \in Nat
    BY <1>2 DEF Vector
  <2>2. ASSUME NEW i \in Idx PROVE vec'.entry[i].time \in Nat
    BY <1>2, VectorFields DEF Entry
  <2> QED BY <2>1, <2>2
<1>6. WinOK(vec)'
  BY <1>4 DEF WinOK, InWindow
<1>7. NothingFromFuture'
  BY <1>1, <1>4, <1>5 DEF NothingFromFuture
<1>8. vec'.prevTime <= now'
  BY <1>1, <1>4, <1>5
<1> QED
  BY <1>2, <1>3, <1>4, <1>6, <1>7, <1>8 DEF ForwardInv

\* The invariant holds of every state of a daemon whose clock is never set back.
LEMMA ForwardAlways == ASSUME ~ClockGoesBack PROVE Spec => []ForwardInv
<1>1. Init => ForwardInv
  BY InitFacts DEF ForwardInv, NothingFromFuture
<1>2. ForwardInv /\ [Next]_vars => ForwardInv'
  <2> SUFFICES ASSUME ForwardInv, [Next]_vars PROVE ForwardInv'
    OBVIOUS
  <2>1. CASE Next
    BY <2>1, ForwardStep
  <2>2. CASE UNCHANGED vars
    BY <2>2 DEF vars, ForwardInv, TypeOK, NothingFromFuture, WinOK, InWindow
  <2> QED BY <2>1, <2>2
<1> QED
  BY <1>1, <1>2, PTL DEF Spec

\* While the clock only moves forward, the occupied slots come first, no node has two
\* slots and the local node has none: the entry a tie or a full window would misplace is
\* the reason UpdateWinKeepsShape is needed.
THEOREM WindowAlwaysSound == ASSUME ~ClockGoesBack PROVE Spec => []WindowSound
<1>1. ForwardInv => WindowSound
  BY DEF ForwardInv, WinOK, WindowSound, OccupiedFirst, OneSlotPerNode, LocalNotInWindow
<1> QED
  BY <1>1, ForwardAlways, PTL

\* While the clock only moves forward, no entry is dated in the future, so compute_age
\* never wraps.
THEOREM NoFutureEntry == ASSUME ~ClockGoesBack PROVE Spec => []NothingFromFuture
<1>1. ForwardInv => NothingFromFuture
  BY DEF ForwardInv
<1> QED
  BY <1>1, ForwardAlways, PTL

\* While the clock only moves forward, no step replaces an entry by older information,
\* dates it in the future or brings a dead node back by information no newer than the verdict.
THEOREM FreshnessAlways == ASSUME ~ClockGoesBack PROVE Spec => FreshnessMonotone
<1> DEFINE Fresher ==
      \A i \in Idx : /\ vec'.entry[i].time \in vec.entry[i].time .. now'
                     /\ vec.entry[i].dead /\ ~vec'.entry[i].dead
                          => vec'.entry[i].time > vec.entry[i].time
<1>1. ForwardInv /\ [Next]_vars => [Fresher]_vars
  <2> SUFFICES ASSUME ForwardInv, Next PROVE Fresher
    BY Zenon
  <2>1. /\ ForwardInv'
        /\ \A i \in Idx : /\ vec'.entry[i].time >= vec.entry[i].time
                          /\ vec.entry[i].dead /\ ~vec'.entry[i].dead
                               => vec'.entry[i].time > vec.entry[i].time
    BY ForwardStep
  <2>2. \A i \in Idx : vec'.entry[i].time <= now'
    BY <2>1 DEF ForwardInv, NothingFromFuture
  <2>3. \A i \in Idx : vec.entry[i].time \in Nat /\ vec'.entry[i].time \in Nat
    BY <2>1, VectorFields DEF ForwardInv, TypeOK, Entry
  <2>4. \A i \in Idx : vec'.entry[i].time \in vec.entry[i].time .. now'
    <3>1. now' \in Nat
      BY <2>1 DEF ForwardInv, TypeOK
    <3> QED BY <2>1, <2>2, <2>3, <3>1
  <2> QED BY <2>1, <2>4
<1> QED
  BY <1>1, ForwardAlways, PTL DEF Spec, FreshnessMonotone

-----------------------------------------------------------------------------
(***************************************************************************)
(* The priorities of the window.                                           *)
(***************************************************************************)

\* Under every call, a reset included, only the first slot that names a node has a
\* priority, and that priority is not raised.
LEMMA CallDecays ==
  ASSUME NEW v \in Vector, NEW w, NEW t \in Nat, Call(v, w, t), FirstsOnly(v)
  PROVE  FirstsOnly(w) /\ Decays(v, w)
<1> DEFINE Good(x) == FirstsOnly(x) /\ Decays(v, x)
<1>a. w \in Vector /\ \A k \in Slots : v.win[k].prio \in Nat /\ w.win[k].prio \in Nat
  BY CallKeepsType DEF Vector, WinEntry
<1>1. ASSUME SlotsFade(v, w) PROVE Good(w)
  <2>1. FirstsOnly(w)
    BY <1>a, <1>1 DEF FirstsOnly, SlotsFade
  <2>2. ASSUME NEW k \in Slots, NEW m \in Slots, v.win[k].index # Empty,
               w.win[m].index = v.win[k].index, v.win[k].prio > 0
        PROVE  w.win[m].prio <= v.win[k].prio
    <3>1. k \in Nat /\ m \in Nat /\ v.win[m].index = v.win[k].index
      BY <1>1, <2>2, WinSizePositive DEF SlotsFade
    <3>2. v.win[m].prio <= v.win[k].prio
      BY <1>a, <2>2, <3>1 DEF FirstsOnly
    <3>3. w.win[m].prio <= v.win[m].prio
      BY <1>1 DEF SlotsFade
    <3> QED BY <1>a, <3>2, <3>3
  <2> QED BY <2>1, <2>2 DEF Decays
<1>2. ASSUME NEW i \in Idx, NEW prio \in Nat, EntersWindow(v, w, i, prio) PROVE Good(w)
  <2>1. PICK x \in Vector : x.win = v.win /\ w.win = ivec_update_win(x, i, prio).win
    BY <1>2 DEF EntersWindow
  <2>2. FirstsOnly(x)
    BY <2>1 DEF FirstsOnly
  <2>3. FirstsOnly(ivec_update_win(x, i, prio)) /\ Decays(x, ivec_update_win(x, i, prio))
    BY <2>2, UpdateWinDecays
  <2> QED BY <2>1, <2>3 DEF FirstsOnly, Decays
<1>3. CASE Harmless(v, w)
  BY <1>1, <1>3 DEF Harmless
<1>4. ASSUME NEW u \in Offered, w = infoVecUpdate(v, u, t) PROVE Good(w)
  <2>1. WasReset(v, w, t) \/ TurnedAway(v, w, t) \/ Stored(v, w, u, t)
    BY <1>4, UpdateEffect DEF Offered
  <2>2. CASE WasReset(v, w, t)
    <3>1. \A k \in Slots : w.win[k].index = 0 /\ w.win[k].prio = 0
      BY <2>2 DEF WasReset
    <3> QED BY <1>a, <3>1 DEF FirstsOnly, Decays, Empty
  <2>3. CASE TurnedAway(v, w, t)
    <3>1. SlotsFade(v, w)
      BY <2>3, NothingFades DEF TurnedAway, SlotsFade
    <3> QED BY <1>1, <3>1
  <2>4. CASE Stored(v, w, u, t)
    BY <1>2, <2>4 DEF Stored, Offered, Record
  <2> QED BY <2>1, <2>2, <2>3, <2>4
<1>5. ASSUME NEW i \in Idx, NEW c \in DeadCauses, w = infoVecPunish(v, i, c, t) PROVE Good(w)
  <2>1. CASE v.entry[i].dead
    <3>1. SlotsFade(v, w)
      BY <1>5, <2>1, PunishEffect, NothingFades DEF SlotsFade
    <3> QED BY <1>1, <3>1
  <2>2. CASE ~v.entry[i].dead
    BY <1>2, <1>5, <2>2, PunishEffect, VecAssumption
  <2> QED BY <2>1, <2>2
<1> QED
  BY <1>3, <1>4, <1>5 DEF Call

\* No step raises the priority a node of the window has, whatever the clock does, so that
\* urgent news stops being urgent: neither an older record of the node that arrives with a
\* higher priority, nor a second verdict, nor a reset makes it so.
THEOREM PriorityAlwaysDecays == Spec => PriorityDecays
<1> DEFINE Decaying == Decays(vec, vec')
<1>1. Init => FirstsOnly(vec)
  <2> SUFFICES ASSUME Init PROVE FirstsOnly(vec)
    OBVIOUS
  <2>1. WinOK(vec) /\ vec \in Vector
    BY InitFacts DEF TypeOK
  <2>2. \A k, m \in Slots : k < m => k # m
    BY WinSizePositive
  <2> QED BY <2>1, <2>2 DEF WinOK, FirstsOnly
<1>2. TypeOK /\ FirstsOnly(vec) /\ [Next]_vars => FirstsOnly(vec)' /\ [Decaying]_vars
  <2> SUFFICES ASSUME TypeOK, FirstsOnly(vec), [Next]_vars
               PROVE  FirstsOnly(vec)' /\ [Decaying]_vars
    OBVIOUS
  <2>1. CASE Next
    <3>1. now \in Nat /\ vec \in Vector /\ Call(vec, vec', now)
      BY <2>1, NextIsCall, InfoVecAssumption DEF TypeOK
    <3>2. FirstsOnly(vec') /\ Decays(vec, vec')
      BY <3>1, CallDecays
    <3> QED BY <3>2 DEF FirstsOnly
  <2>2. CASE UNCHANGED vars
    BY <2>2 DEF vars, FirstsOnly
  <2> QED BY <2>1, <2>2
<1>3. [Decaying]_vars <=>
      [\A k, m \in Slots :
         (/\ vec.win[k].index # Empty
          /\ vec'.win[m].index = vec.win[k].index
          /\ vec.win[k].prio > 0) => vec'.win[m].prio <= vec.win[k].prio]_vars
  BY DEF Decays
<1> HIDE DEF Decaying
<1> QED
  BY <1>1, <1>2, <1>3, TypeCorrect, PTL DEF Spec, PriorityDecays

\* As long as no record arrives with a higher priority than a death starts with, none in the
\* window is higher.
LEMMA CallKeepsPrio ==
  ASSUME NEW v \in Vector, NEW w, NEW t \in Nat, Call(v, w, t),
         MaxPrio <= DeadStartPrio, PrioWithin(v, DeadStartPrio)
  PROVE  PrioWithin(w, DeadStartPrio)
<1>a. /\ DeadStartPrio \in Nat /\ MaxPrio \in Nat
      /\ w \in Vector /\ \A k \in Slots : v.win[k].prio \in Nat /\ w.win[k].prio \in Nat
  <2>1. w \in Vector
    BY CallKeepsType
  <2> QED BY <2>1, VecAssumption, InfoVecAssumption DEF Vector, WinEntry
<1>1. ASSUME SlotsFade(v, w) PROVE PrioWithin(w, DeadStartPrio)
  BY <1>a, <1>1 DEF SlotsFade, PrioWithin
<1>2. ASSUME NEW i \in Idx, NEW prio \in Nat, prio <= DeadStartPrio, EntersWindow(v, w, i, prio)
      PROVE  PrioWithin(w, DeadStartPrio)
  <2>1. PICK x \in Vector : x.win = v.win /\ w.win = ivec_update_win(x, i, prio).win
    BY <1>2 DEF EntersWindow
  <2>2. PrioWithin(x, DeadStartPrio)
    BY <2>1 DEF PrioWithin
  <2>3. PrioWithin(ivec_update_win(x, i, prio), DeadStartPrio)
    BY <1>a, <1>2, <2>2, UpdateWinPrio
  <2> QED BY <2>1, <2>3 DEF PrioWithin
<1>3. CASE Harmless(v, w)
  BY <1>1, <1>3 DEF Harmless
<1>4. ASSUME NEW u \in Offered, w = infoVecUpdate(v, u, t) PROVE PrioWithin(w, DeadStartPrio)
  <2>1. WasReset(v, w, t) \/ TurnedAway(v, w, t) \/ Stored(v, w, u, t)
    BY <1>4, UpdateEffect DEF Offered
  <2>2. CASE WasReset(v, w, t)
    BY <1>a, <2>2 DEF WasReset, PrioWithin
  <2>3. CASE TurnedAway(v, w, t)
    BY <2>3 DEF TurnedAway, PrioWithin
  <2>4. CASE Stored(v, w, u, t)
    <3>1. u.index \in Idx /\ u.prio \in Nat /\ u.prio <= DeadStartPrio
      BY <1>a, <2>4 DEF Stored, Offered, Record
    <3> QED BY <1>2, <2>4, <3>1 DEF Stored
  <2> QED BY <2>1, <2>2, <2>3, <2>4
<1>5. ASSUME NEW i \in Idx, NEW c \in DeadCauses, w = infoVecPunish(v, i, c, t)
      PROVE  PrioWithin(w, DeadStartPrio)
  <2>1. CASE v.entry[i].dead
    BY <1>5, <2>1, PunishEffect DEF PrioWithin
  <2>2. CASE ~v.entry[i].dead
    BY <1>a, <1>2, <1>5, <2>2, PunishEffect
  <2> QED BY <2>1, <2>2
<1> QED
  BY <1>3, <1>4, <1>5 DEF Call

\* Every node this infod finds dead gets into the window, however full the window is of
\* other urgent news: the infods of a cluster start the priority of a death at the same
\* number, the size of their common map deciding it, so no record arrives with a higher
\* one, and among equals the verdict is the youngest unless an entry is from the future.
THEOREM DeathAlwaysEnters ==
  ASSUME MaxPrio <= DeadStartPrio PROVE Spec => DeathEntersWindow
<1> DEFINE Inv == TypeOK /\ PrioWithin(vec, DeadStartPrio) /\ vec.localIndex = Local
           Entering == \A i \in Idx : NothingFromFuture /\ ConnectFails(i) /\ ~vec.entry[i].dead
                                        => InWindow(vec', i)
<1>1. Init => Inv
  <2> SUFFICES ASSUME Init PROVE PrioWithin(vec, DeadStartPrio)
    BY InitFacts
  <2> DEFINE v == infoVecInit(Local, 0)
  <2>1. vec = infoVecPunish(v, Local, DeadProvider, 0) /\ Local \in Idx /\ 0 \in Nat
    BY InfoVecAssumption DEF Init
  <2>2. v \in Vector /\ v.entry[Local].dead /\ \A k \in Slots : v.win[k].prio = 0
    BY <2>1, InitVector
  <2> HIDE DEF v
  <2>3. vec.win = v.win
    BY <2>1, <2>2, PunishEffect DEF DeadCauses
  <2> QED BY <2>2, <2>3, VecAssumption DEF PrioWithin
<1>2. Inv /\ [Next]_vars => Inv'
  <2> SUFFICES ASSUME Inv, [Next]_vars PROVE PrioWithin(vec, DeadStartPrio)' /\ TypeOK' /\ vec'.localIndex = Local
    OBVIOUS
  <2>1. CASE Next
    <3>1. now \in Nat /\ vec \in Vector /\ Call(vec, vec', now)
      BY <2>1, NextIsCall, InfoVecAssumption DEF TypeOK
    <3>2. PrioWithin(vec', DeadStartPrio) /\ vec' \in Vector /\ vec'.localIndex = Local
      BY <3>1, CallKeepsPrio, CallKeepsType
    <3> QED BY <2>1, <3>2, NextIsCall DEF PrioWithin, TypeOK
  <2>2. CASE UNCHANGED vars
    BY <2>2 DEF vars, PrioWithin, TypeOK
  <2> QED BY <2>1, <2>2
<1>3. Inv /\ [Next]_vars => [Entering]_vars
  <2> SUFFICES ASSUME Inv, NEW i \in Idx, NothingFromFuture, ConnectFails(i), ~vec.entry[i].dead
               PROVE  InWindow(vec', i)
    OBVIOUS
  <2>1. vec \in Vector /\ now \in Nat /\ i # Local /\ vec' = infoVecPunish(vec, i, DeadConnect, now)
    BY InfoVecAssumption DEF ConnectFails, TypeOK
  <2>2. /\ OnlyEntry(vec, vec', i) /\ vec'.entry[i].time = now
        /\ EntersWindow(vec, vec', i, DeadStartPrio)
    BY <2>1, PunishEffect DEF DeadCauses
  <2>3. PICK x \in Vector :
          /\ x.win = vec.win /\ x.localIndex = Local /\ x.entry = vec'.entry
          /\ vec'.win = ivec_update_win(x, i, DeadStartPrio).win
    BY <2>2 DEF EntersWindow
  <2>4. \A j \in Idx : x.entry[j].time \in Nat /\ x.entry[j].time <= now
    <3> SUFFICES ASSUME NEW j \in Idx PROVE x.entry[j].time \in Nat /\ x.entry[j].time <= now
      OBVIOUS
    <3>1. x.entry[j].time \in Nat
      BY VectorFields DEF Entry
    <3>2. x.entry[j].time = now \/ x.entry[j].time = vec.entry[j].time
      BY <2>2, <2>3 DEF OnlyEntry
    <3> QED BY <2>1, <3>1, <3>2 DEF NothingFromFuture
  <2>5. ASSUME NEW k \in Slots, x.win[k].index # Empty
        PROVE  ivec_win_cmp(x, x.win[k], [index |-> i, prio |-> DeadStartPrio]) = 1
    <3>1. x.win[k].index \in Idx /\ x.win[k].prio \in Nat /\ x.win[k].prio <= DeadStartPrio
      BY <2>3, <2>5 DEF Vector, WinEntry, PrioWithin
    <3>2. x.entry[x.win[k].index].time <= x.entry[i].time
      BY <2>2, <2>3, <2>4, <3>1
    <3>3. x.entry[x.win[k].index].time \in Nat /\ x.entry[i].time \in Nat /\ DeadStartPrio \in Nat
      BY <2>4, <3>1, VecAssumption
    <3> QED BY <3>1, <3>2, <3>3 DEF ivec_win_cmp
  <2>6. InWindow(ivec_update_win(x, i, DeadStartPrio), i)
    BY <2>1, <2>3, <2>5, UpdateWinAdmits, VecAssumption
  <2> QED BY <2>3, <2>6 DEF InWindow
<1> HIDE DEF Inv
<1> QED
  BY <1>1, <1>2, <1>3, PTL DEF Spec, DeathEntersWindow

-----------------------------------------------------------------------------
(***************************************************************************)
(* Live nodes and the up-to-age window.                                    *)
(***************************************************************************)

AllLiveIn(v) == \A i \in AliveIdx(v) \ {v.localIndex} : InWindow(v, i)

\* While the clock does not go back, no call crowds a live node out of an up-to-age window:
\* there is a free slot for every newcomer (RoomInWindow).
LEMMA CallKeepsLiveIn ==
  ASSUME NEW v \in Vector, NEW w, NEW t \in Nat, Call(v, w, t), v.prevTime <= t,
         WinOK(v), WinType = "uptoage", AllLiveIn(v)
  PROVE  AllLiveIn(w)
<1>a. v.prevTime \in Nat /\ w.localIndex = v.localIndex
  BY CallKeepsType DEF Vector
<1>1. ASSUME NEW i \in Idx, NEW prio \in Nat, EntersWindow(v, w, i, prio),
             \A j \in Idx \ {i} : w.entry[j] = v.entry[j]
      PROVE  AllLiveIn(w)
  <2>1. PICK x \in Vector : x.win = v.win /\ x.localIndex = v.localIndex
                            /\ w.win = ivec_update_win(x, i, prio).win
    BY <1>1 DEF EntersWindow
  <2>2. WinOK(x) /\ \A j \in Idx : InWindow(v, j) <=> InWindow(x, j)
    BY <2>1, SameWindow DEF InWindow
  <2>3. /\ \A j \in Idx : InWindow(x, j) => InWindow(ivec_update_win(x, i, prio), j)
        /\ i # x.localIndex => InWindow(ivec_update_win(x, i, prio), i)
    BY <2>2, UpdateWinKeepsNodes
  <2>4. \A j \in Idx : InWindow(ivec_update_win(x, i, prio), j) => InWindow(w, j)
    BY <2>1 DEF InWindow
  <2> QED BY <1>a, <1>1, <2>1, <2>2, <2>3, <2>4 DEF AllLiveIn, AliveIdx
<1>2. CASE Harmless(v, w)
  BY <1>a, <1>2, FadingKeepsShape DEF Harmless, AllLiveIn, AliveIdx
<1>3. ASSUME NEW u \in Offered, w = infoVecUpdate(v, u, t) PROVE AllLiveIn(w)
  <2>1. t >= v.prevTime /\ (WasReset(v, w, t) \/ TurnedAway(v, w, t) \/ Stored(v, w, u, t))
    BY <1>a, <1>3, UpdateEffect DEF Offered
  <2>2. ~WasReset(v, w, t)
    BY <1>a DEF WasReset
  <2>3. CASE TurnedAway(v, w, t)
    BY <1>a, <2>3 DEF TurnedAway, AllLiveIn, AliveIdx, InWindow
  <2>4. CASE Stored(v, w, u, t)
    BY <1>1, <2>4 DEF Stored, Offered, Record
  <2> QED BY <2>1, <2>2, <2>3, <2>4
<1>4. ASSUME NEW i \in Idx, NEW c \in DeadCauses, w = infoVecPunish(v, i, c, t)
      PROVE  AllLiveIn(w)
  <2>1. CASE v.entry[i].dead
    <3>1. w.win = v.win /\ w.entry[i].dead /\ \A j \in Idx \ {i} : w.entry[j] = v.entry[j]
      BY <1>4, <2>1, PunishEffect DEF OnlyEntry
    <3> QED BY <1>a, <3>1 DEF AllLiveIn, AliveIdx, InWindow
  <2>2. CASE ~v.entry[i].dead
    <3>1. EntersWindow(v, w, i, DeadStartPrio) /\ \A j \in Idx \ {i} : w.entry[j] = v.entry[j]
      BY <1>4, <2>2, PunishEffect DEF OnlyEntry
    <3> QED BY <1>1, <3>1, VecAssumption
  <2> QED BY <2>1, <2>2
<1> QED
  BY <1>2, <1>3, <1>4 DEF Call

\* While the clock only moves forward, news of every live node stays in an up-to-age window,
\* whatever the size of the map and however many nodes die and return.
THEOREM LiveAlwaysInWindow == ASSUME ~ClockGoesBack PROVE Spec => []LiveInWindow
<1> DEFINE Inv == WinType = "uptoage" => AllLiveIn(vec)
<1>1. Init => Inv
  BY InitFacts DEF AllLiveIn, AliveIdx
<1>2. ForwardInv /\ Inv /\ [Next]_vars => Inv'
  <2> SUFFICES ASSUME ForwardInv, AllLiveIn(vec), [Next]_vars, WinType = "uptoage"
               PROVE  AllLiveIn(vec)'
    OBVIOUS
  <2>1. CASE Next
    <3>1. now \in Nat /\ vec \in Vector /\ Call(vec, vec', now)
      BY <2>1, NextIsCall, InfoVecAssumption DEF ForwardInv, TypeOK
    <3>2. AllLiveIn(vec')
      BY <3>1, CallKeepsLiveIn DEF ForwardInv
    <3> QED BY <3>2 DEF AllLiveIn, AliveIdx, InWindow
  <2>2. CASE UNCHANGED vars
    BY <2>2 DEF vars, AllLiveIn, AliveIdx, InWindow
  <2> QED BY <2>1, <2>2
<1>3. ForwardInv /\ Inv => LiveInWindow
  BY DEF ForwardInv, AllLiveIn, LiveInWindow
<1> QED
  BY <1>1, <1>2, <1>3, ForwardAlways, PTL DEF Spec

-----------------------------------------------------------------------------
(***************************************************************************)
(* The raw data of a display.  A block in use is what some entry of the    *)
(* last answer made of one, whatever the block held before: first one      *)
(* entry and its strings, then the letters, the order, and the fetch.      *)
(***************************************************************************)

\* An entry of an answer, and what a block may hold.
Answered == [node : Node, alive : BOOLEAN]
Blocks ==
  [num : Nat, status : {"none", "alive", "dead"}, data : {<<>>} \cup (Node \X Stamp),
   users : Pointers, letter : Nat]

\* A string fits where it is, and what was made for a short one has room for any short one.
StringFits(p) == p # NULL => p.size < p.cap /\ Room < p.cap

\* No node is in an answer twice.
OnceEach(w) == \A i, j \in 1 .. Len(w) : w[i].node = w[j].node => i = j

\* Block b is what entry k of the answer w made of one, its letter only if the table of
\* letters was not spoiled.
Holds(b, w, k, t, u, spoiled) ==
  /\ b.num = Number[w[k].node] /\ b.status = (IF w[k].alive THEN "alive" ELSE "dead")
  /\ w[k].alive =>
       /\ b.data = <<w[k].node, t>> /\ (~spoiled => b.letter = cluster_id_new_item(w, k))
       /\ IF Size[w[k].node][t] = 0 \/ u = NoUser THEN b.users = NULL
          ELSE b.users.size = Size[w[k].node][t] /\ b.users.of = <<w[k].node, t>>

\* The blocks in use are what the entries of the answer made of them, in another order.
FromEntries(blocks, w, t, u, spoiled) ==
  \E p \in [1 .. Len(w) -> 1 .. Len(w)] :
    /\ \A i, j \in 1 .. Len(w) : i < j => blocks[i].num < blocks[j].num
    /\ \A i \in 1 .. Len(w) : Holds(blocks[i], w, p[i], t, u, spoiled)

\* The types of what is known of an entry.
LEMMA EntryIs ==
  ASSUME NEW e \in Answered
  PROVE  e.node \in Node /\ e.alive \in BOOLEAN /\ Number[e.node] \in Nat /\ \A t \in Stamp : Size[e.node][t] \in Nat
<1>1. e.node \in Node /\ e.alive \in BOOLEAN
  BY DEF Answered
<1> QED
  BY <1>1, CellsAssumption

\* The answer without some of its nodes is one with no node twice.
LEMMA WantedIs ==
  ASSUME NEW w \in Seq(Answered), OnceEach(w)
  PROVE  Wanted(w) \in Seq(Answered) /\ OnceEach(Wanted(w)) /\ Len(Wanted(w)) <= Len(w)
<1> DEFINE kept == {i \in DOMAIN w : w[i].node \in Filter}
           n == Cardinality(kept)
           s == InOrder(kept)
           v == [k \in 1 .. n |-> w[s[k]]]
<1>1. DOMAIN w = 1 .. Len(w) /\ Len(w) \in Nat
  OBVIOUS
<1>2. kept \in SUBSET Nat /\ kept \subseteq 1 .. Len(w)
  BY <1>1
<1>3. IsFiniteSet(1 .. Len(w)) /\ Cardinality(1 .. Len(w)) = Len(w)
  BY SMTT(30), <1>1, FS_Interval
<1>4. IsFiniteSet(kept) /\ n <= Len(w) /\ n \in Nat
  <2> HIDE DEF kept
  <2> QED BY <1>2, <1>3, FS_Subset, FS_CardinalityType
<1>5. s \in [1 .. n -> kept] /\ \A i, j \in 1 .. n : i < j => s[i] < s[j]
  <2> HIDE DEF kept
  <2> QED BY <1>2, <1>4, InOrderIs
<1>6. \A k \in 1 .. n : s[k] \in 1 .. Len(w)
  <2> HIDE DEF kept, s, n
  <2> QED BY <1>2, <1>5
<1>7. \A k \in 1 .. n : w[s[k]] \in Answered
  <2> HIDE DEF kept, s, n
  <2> QED BY <1>6
<1>8. v \in [1 .. n -> Answered]
  <2> HIDE DEF s, n
  <2> QED BY <1>7
<1>9. v \in Seq(Answered) /\ Len(v) = n
  <2> HIDE DEF n, s
  <2>1. DOMAIN v = 1 .. n
    OBVIOUS
  <2> HIDE DEF v
  <2>2. v \in Seq(Answered)
    BY ONLY <1>4, <1>8
  <2> QED BY <1>4, <2>1, <2>2
<1>10. OnceEach(v)
  <2> SUFFICES ASSUME NEW i \in 1 .. n, NEW j \in 1 .. n, v[i].node = v[j].node PROVE i = j
    BY <1>9 DEF OnceEach
  <2> HIDE DEF kept, n, s
  <2>1. v[i] = w[s[i]] /\ v[j] = w[s[j]]
    OBVIOUS
  <2>2. s[i] = s[j]
    BY <1>6, <2>1 DEF OnceEach
  <2>3. s[i] \in Int /\ s[j] \in Int
    BY <1>6
  <2>4. i \in Nat /\ j \in Nat
    BY <1>4
  <2> HIDE DEF v
  <2> QED BY <1>5, <2>2, <2>3, <2>4, SMTT(30)
<1>11. Wanted(w) = v
  BY DEF Wanted
<1> QED
  BY <1>4, <1>9, <1>10, <1>11

\* A string that is written fits, and is the one that was sent.
LEMMA StringKept ==
  ASSUME NEW p \in Pointers, StringFits(p), NEW n \in Node, NEW t \in Stamp
  PROVE  LET q == getVlenItem(Text(n, t), p)
         IN  /\ q \in Pointers /\ StringFits(q)
             /\ IF Size[n][t] = 0 THEN q = NULL ELSE q.size = Size[n][t] /\ q.of = <<n, t>>
<1> DEFINE x == Text(n, t)
           q == getVlenItem(x, p)
<1>1. Size[n][t] \in Nat /\ Room \in Nat
  BY CellsAssumption
<1>2. x.size = Size[n][t] /\ x.of = <<n, t>> /\ x.of \in Node \X Stamp
  BY DEF Text
<1>3. NULL \in Pointers /\ StringFits(NULL)
  BY DEF Pointers, StringFits
<1> HIDE DEF x
<1>4. CASE x.size = 0
  <2>1. q = NULL
    BY <1>4 DEF getVlenItem
  <2>2. q \in Pointers /\ StringFits(q) /\ Size[n][t] = 0
    BY <1>2, <1>3, <1>4, <2>1
  <2> QED BY <2>1, <2>2 DEF x
<1>5. CASE x.size # 0
  <2> DEFINE c == IF p = NULL THEN Max2(x.size, Room) + 1 ELSE IF x.size > Room THEN x.size + 1 ELSE p.cap
  <2>1. q = [cap |-> c, size |-> x.size, of |-> x.of]
    BY <1>5 DEF getVlenItem, save_vlen_data
  <2>2. p # NULL => p.cap \in Nat /\ p.size \in Nat /\ Room < p.cap
    BY DEF Pointers, StringFits
  <2>3. c \in Nat /\ x.size < c /\ Room < c
    BY <1>1, <1>2, <2>2 DEF Max2
  <2> HIDE DEF c
  <2>4. q.cap = c /\ q.size = x.size /\ q.of = x.of /\ q \in [cap : Nat, size : Nat, of : Node \X Stamp]
    BY <1>1, <1>2, <2>1, <2>3
  <2>5. q \in Pointers
    BY <2>4 DEF Pointers
  <2>6. StringFits(q)
    BY <2>3, <2>4 DEF StringFits
  <2>7. q.size = Size[n][t] /\ q.of = <<n, t>> /\ Size[n][t] # 0
    BY <1>2, <1>5, <2>4
  <2> QED BY <2>5, <2>6, <2>7 DEF x
<1> QED
  BY <1>4, <1>5

\* An entry is written into a block, whatever the block held.
LEMMA ItemHolds ==
  ASSUME NEW b \in Blocks, StringFits(b.users), NEW w \in Seq(Answered), NEW k \in 1 .. Len(w),
         NEW t \in Stamp, NEW u \in Users, NEW letter \in Nat,
         NEW spoiled, w[k].alive /\ ~spoiled => letter = cluster_id_new_item(w, k)
  PROVE  LET x == set_raw_data_item(b, w[k], t, letter, u)
         IN  x \in Blocks /\ StringFits(x.users) /\ Holds(x, w, k, t, u, spoiled)
<1> DEFINE e == w[k]
           x == set_raw_data_item(b, e, t, letter, u)
<1>1. e \in Answered
  OBVIOUS
<1>2. e.node \in Node /\ e.alive \in BOOLEAN /\ Number[e.node] \in Nat /\ Size[e.node][t] \in Nat
  BY <1>1, EntryIs
<1>3. b.users \in Pointers /\ b.data \in {<<>>} \cup (Node \X Stamp) /\ b.letter \in Nat
  BY DEF Blocks
<1>4. NULL \in Pointers /\ StringFits(NULL)
  BY DEF Pointers, StringFits
<1> HIDE DEF e
<1>5. CASE e.alive
  <2> DEFINE p == IF u = NoUser THEN NULL ELSE getVlenItem(Text(e.node, t), b.users)
  <2>1. x = [num |-> Number[e.node], status |-> "alive", data |-> <<e.node, t>>, users |-> p, letter |-> letter]
    BY <1>5 DEF set_raw_data_item
  <2>2. /\ p \in Pointers /\ StringFits(p)
        /\ IF Size[e.node][t] = 0 \/ u = NoUser THEN p = NULL
           ELSE p.size = Size[e.node][t] /\ p.of = <<e.node, t>>
    <3>1. CASE u = NoUser
      BY <1>4, <3>1
    <3>2. CASE u # NoUser
      BY <1>2, <1>3, <3>2, StringKept
    <3> QED BY <3>1, <3>2
  <2> HIDE DEF p
  <2>3. /\ x.num = Number[e.node] /\ x.status = "alive" /\ x.data = <<e.node, t>>
        /\ x.users = p /\ x.letter = letter
    BY <2>1
  <2>4. x \in Blocks
    BY <1>2, <2>1, <2>2 DEF Blocks
  <2>5. Holds(x, w, k, t, u, spoiled)
    BY <1>5, <2>2, <2>3 DEF Holds, e
  <2> QED BY <2>2, <2>3, <2>4, <2>5 DEF e
<1>6. CASE ~e.alive
  <2>1. x = [b EXCEPT !.num = Number[e.node], !.status = "dead"]
    BY <1>6 DEF set_raw_data_item
  <2>2. x \in Blocks /\ x.num = Number[e.node] /\ x.status = "dead" /\ x.users = b.users
    BY <1>2, <2>1 DEF Blocks
  <2>3. Holds(x, w, k, t, u, spoiled)
    BY <1>6, <2>2 DEF Holds, e
  <2> QED BY <2>2, <2>3 DEF e
<1> QED
  BY <1>2, <1>5, <1>6

\* The clusters met are finitely many, and more and more of them.
LEMMA SeenIs ==
  ASSUME NEW w \in Seq(Answered), NEW i \in 0 .. Len(w), NEW j \in 0 .. Len(w), i <= j
  PROVE  IsFiniteSet(Seen(w, i)) /\ Seen(w, i) \subseteq Seen(w, j) /\ Cardinality(Seen(w, i)) \in Nat
<1> DEFINE D == {k \in 1 .. i : w[k].alive}
           f == [k \in D |-> ClusterOf[w[k].node]]
<1>1. IsFiniteSet(1 .. i) /\ D \subseteq 1 .. i
  BY FS_Interval
<1>2. IsFiniteSet(D)
  <2> HIDE DEF D
  <2> QED BY <1>1, FS_Subset
<1>3. IsFiniteSet({f[k] : k \in D})
  <2> HIDE DEF f, D
  <2> QED BY <1>2, ImageNoLarger
<1>4. Seen(w, i) = {f[k] : k \in D}
  <2>1. \A k \in D : f[k] = ClusterOf[w[k].node]
    OBVIOUS
  <2>2. Seen(w, i) = {ClusterOf[w[k].node] : k \in D}
    BY DEF Seen
  <2> HIDE DEF f, D
  <2> QED BY <2>1, <2>2
<1>5. Seen(w, i) \subseteq Seen(w, j)
  BY DEF Seen
<1> QED
  BY <1>3, <1>4, <1>5, FS_CardinalityType

\* The entry at which the cluster of a live one was met first.
First(w, i) ==
  CHOOSE j \in 1 .. i : /\ w[j].alive /\ ClusterOf[w[j].node] = ClusterOf[w[i].node]
                        /\ ClusterOf[w[i].node] \notin Seen(w, j - 1)

\* There is one, and it gives the letter.
LEMMA FirstIs ==
  ASSUME NEW w \in Seq(Answered), NEW i \in 1 .. Len(w), w[i].alive
  PROVE  /\ First(w, i) \in 1 .. i /\ w[First(w, i)].alive
         /\ ClusterOf[w[First(w, i)].node] = ClusterOf[w[i].node]
         /\ ClusterOf[w[i].node] \notin Seen(w, First(w, i) - 1)
         /\ cluster_id_new_item(w, i) = Cardinality(Seen(w, First(w, i)))
<1> DEFINE T == {j \in 1 .. i : w[j].alive /\ ClusterOf[w[j].node] = ClusterOf[w[i].node]}
<1>1. T \in SUBSET Nat /\ i \in T
  OBVIOUS
<1>2. PICK m \in T : \A j \in T : m <= j
  <2> HIDE DEF T
  <2> QED BY <1>1, LeastExists
<1>3. m \in 1 .. i /\ w[m].alive /\ ClusterOf[w[m].node] = ClusterOf[w[i].node]
  OBVIOUS
<1>4. ClusterOf[w[i].node] \notin Seen(w, m - 1)
  <2> SUFFICES ASSUME ClusterOf[w[i].node] \in Seen(w, m - 1) PROVE FALSE
    OBVIOUS
  <2>1. PICK j \in 1 .. m - 1 : w[j].alive /\ ClusterOf[w[i].node] = ClusterOf[w[j].node]
    BY SMTT(30) DEF Seen
  <2>2. j \in T /\ j < m /\ m \in Nat
    BY <1>3, <2>1
  <2> QED BY <1>2, <2>2
<1>5. /\ First(w, i) \in 1 .. i /\ w[First(w, i)].alive
      /\ ClusterOf[w[First(w, i)].node] = ClusterOf[w[i].node]
      /\ ClusterOf[w[i].node] \notin Seen(w, First(w, i) - 1)
  <2> HIDE DEF T
  <2> QED BY <1>3, <1>4 DEF First
<1>6. cluster_id_new_item(w, i) = Cardinality(Seen(w, First(w, i)))
  BY DEF cluster_id_new_item, First
<1> QED
  BY <1>5, <1>6

\* The letter of a cluster met later is another one.
LEMMA LaterLetter ==
  ASSUME NEW w \in Seq(Answered), NEW a \in 1 .. Len(w), NEW b \in 1 .. Len(w), a < b,
         w[b].alive, ClusterOf[w[b].node] \notin Seen(w, b - 1)
  PROVE  Cardinality(Seen(w, a)) # Cardinality(Seen(w, b))
<1>1. a \in 0 .. Len(w) /\ b \in 0 .. Len(w) /\ b - 1 \in 0 .. Len(w) /\ a <= b - 1 /\ a <= b /\ b <= b
  OBVIOUS
<1>2. Seen(w, a) \subseteq Seen(w, b - 1) /\ Seen(w, a) \subseteq Seen(w, b)
  BY <1>1, SeenIs
<1>3. IsFiniteSet(Seen(w, b))
  BY <1>1, SeenIs
<1>4. ClusterOf[w[b].node] \in Seen(w, b)
  BY DEF Seen
<1>5. Seen(w, a) # Seen(w, b)
  BY <1>2, <1>4
<1> QED
  BY <1>2, <1>3, <1>5, FS_Subset

\* Two live entries have one letter exactly if they are of one cluster.
LEMMA LettersAre ==
  ASSUME NEW w \in Seq(Answered), NEW i \in 1 .. Len(w), NEW j \in 1 .. Len(w), w[i].alive, w[j].alive
  PROVE  /\ cluster_id_new_item(w, i) \in Nat
         /\ cluster_id_new_item(w, i) = cluster_id_new_item(w, j)
              <=> ClusterOf[w[i].node] = ClusterOf[w[j].node]
<1> DEFINE a == First(w, i)
           b == First(w, j)
<1>1. /\ a \in 1 .. i /\ w[a].alive /\ ClusterOf[w[a].node] = ClusterOf[w[i].node]
      /\ ClusterOf[w[a].node] \notin Seen(w, a - 1)
      /\ cluster_id_new_item(w, i) = Cardinality(Seen(w, a))
  BY FirstIs
<1>2. /\ b \in 1 .. j /\ w[b].alive /\ ClusterOf[w[b].node] = ClusterOf[w[j].node]
      /\ ClusterOf[w[b].node] \notin Seen(w, b - 1)
      /\ cluster_id_new_item(w, j) = Cardinality(Seen(w, b))
  BY FirstIs
<1>3. a \in 1 .. Len(w) /\ b \in 1 .. Len(w) /\ a \in 0 .. Len(w)
  BY <1>1, <1>2
<1> HIDE DEF a, b
<1>4. Cardinality(Seen(w, a)) \in Nat
  BY <1>3, SeenIs
<1>5. ASSUME ClusterOf[w[i].node] = ClusterOf[w[j].node] PROVE a = b
  <2>1. ASSUME a < b PROVE FALSE
    <3>1. a \in 1 .. b - 1
      BY <1>3, <2>1
    <3>2. ClusterOf[w[a].node] \in Seen(w, b - 1)
      BY <1>1, <3>1 DEF Seen
    <3> QED BY <1>1, <1>2, <1>5, <3>2
  <2>2. ASSUME b < a PROVE FALSE
    <3>1. b \in 1 .. a - 1
      BY <1>3, <2>2
    <3>2. ClusterOf[w[b].node] \in Seen(w, a - 1)
      BY <1>2, <3>1 DEF Seen
    <3> QED BY <1>1, <1>2, <1>5, <3>2
  <2> QED BY <1>3, <2>1, <2>2
<1>6. ASSUME ClusterOf[w[i].node] # ClusterOf[w[j].node]
      PROVE  Cardinality(Seen(w, a)) # Cardinality(Seen(w, b))
  <2>1. a # b
    BY <1>1, <1>2, <1>6
  <2>2. CASE a < b
    BY <1>2, <1>3, <2>2, LaterLetter
  <2>3. CASE b < a
    BY <1>1, <1>3, <2>3, LaterLetter
  <2> QED BY <1>3, <2>1, <2>2, <2>3
<1> QED
  BY <1>1, <1>2, <1>4, <1>5, <1>6

\* The entries of an answer are written over the blocks from the first on.
LEMMA WrittenIs ==
  ASSUME NEW blocks \in Seq(Blocks), \A i \in 1 .. Len(blocks) : StringFits(blocks[i].users),
         NEW w \in Seq(Answered), Len(w) <= Len(blocks), NEW t \in Stamp, NEW u \in Users, NEW spoiled,
         NEW letters, \A i \in 1 .. Len(w) : /\ letters[i] \in Nat
                                             /\ w[i].alive /\ ~spoiled => letters[i] = cluster_id_new_item(w, i)
  PROVE  LET x == Written(blocks, w, letters, t, u)
         IN  /\ x \in Seq(Blocks) /\ Len(x) = Len(blocks)
             /\ \A i \in 1 .. Len(blocks) : StringFits(x[i].users)
             /\ \A i \in 1 .. Len(w) : Holds(x[i], w, i, t, u, spoiled)
<1> DEFINE m == Len(blocks)
           Item(i) == IF i > Len(w) THEN blocks[i] ELSE set_raw_data_item(blocks[i], w[i], t, letters[i], u)
           x == [i \in 1 .. m |-> Item(i)]
<1>1. Written(blocks, w, letters, t, u) = x
  BY DEF Written
<1>2. m \in Nat /\ Len(w) \in Nat /\ Len(w) <= m
  OBVIOUS
<1>3. ASSUME NEW i \in 1 .. m
      PROVE  /\ Item(i) \in Blocks /\ StringFits(Item(i).users)
             /\ i \in 1 .. Len(w) => Holds(Item(i), w, i, t, u, spoiled)
  <2>1. blocks[i] \in Blocks /\ StringFits(blocks[i].users)
    OBVIOUS
  <2>2. CASE i > Len(w)
    BY <1>2, <2>1, <2>2
  <2>3. CASE ~(i > Len(w))
    <3>1. i \in 1 .. Len(w)
      BY <1>2, <2>3
    <3>2. letters[i] \in Nat /\ (w[i].alive /\ ~spoiled => letters[i] = cluster_id_new_item(w, i))
      BY <3>1
    <3>3. LET y == set_raw_data_item(blocks[i], w[i], t, letters[i], u)
          IN  y \in Blocks /\ StringFits(y.users) /\ Holds(y, w, i, t, u, spoiled)
      BY <2>1, <3>1, <3>2, ItemHolds
    <3> QED BY <2>3, <3>3
  <2> QED BY <2>2, <2>3
<1> HIDE DEF Item
<1>4. x \in [1 .. m -> Blocks] /\ \A i \in 1 .. m : x[i] = Item(i)
  BY <1>3
<1>5. x \in Seq(Blocks) /\ Len(x) = m
  <2>1. DOMAIN x = 1 .. m
    OBVIOUS
  <2> HIDE DEF x, m
  <2>2. x \in Seq(Blocks)
    BY ONLY <1>2, <1>4
  <2> QED BY <1>2, <2>1, <2>2
<1>6. \A i \in 1 .. m : StringFits(x[i].users)
  BY <1>3, <1>4
<1>7. \A i \in 1 .. Len(w) : Holds(x[i], w, i, t, u, spoiled)
  <2> SUFFICES ASSUME NEW i \in 1 .. Len(w) PROVE Holds(x[i], w, i, t, u, spoiled)
    OBVIOUS
  <2>1. i \in 1 .. m
    BY <1>2
  <2>2. Holds(Item(i), w, i, t, u, spoiled) /\ x[i] = Item(i)
    BY <1>3, <1>4, <2>1
  <2> QED BY <2>2
<1> HIDE DEF x
<1> QED
  BY <1>1, <1>5, <1>6, <1>7

\* Different numbers can be put in order.
LEMMA OrderingExists ==
  ASSUME NEW n \in Nat, NEW f \in [1 .. n -> Nat], \A i, j \in 1 .. n : f[i] = f[j] => i = j
  PROVE  \E q \in [1 .. n -> 1 .. n] : \A i, j \in 1 .. n : i < j => f[q[i]] < f[q[j]]
<1> DEFINE D == 1 .. n
           S == {f[i] : i \in D}
           s == InOrder(S)
<1>1. IsFiniteSet(D) /\ Cardinality(D) = n
  <2>1. 1 \in Int /\ n \in Int /\ n - 1 + 1 = n /\ (1 > n => n = 0)
    OBVIOUS
  <2> QED BY <2>1, FS_Interval
<1>2. S \in SUBSET Nat
  OBVIOUS
<1>3. IsFiniteSet(S) /\ Cardinality(S) = n
  <2>1. \A i, j \in D : f[i] = f[j] => i = j
    OBVIOUS
  <2> HIDE DEF D
  <2>2. IsFiniteSet(S)
    BY <1>1, ImageNoLarger
  <2>3. Cardinality(S) = Cardinality(D)
    BY ONLY <1>1, <2>1, InjectiveImage, Zenon
  <2> QED BY <1>1, <2>2, <2>3
<1>4. s \in [1 .. n -> S] /\ \A i, j \in 1 .. n : i < j => s[i] < s[j]
  <2> HIDE DEF S
  <2> QED BY <1>2, <1>3, InOrderIs
<1>5. \A i \in 1 .. n : \E j \in 1 .. n : f[j] = s[i]
  <2> HIDE DEF s
  <2> QED BY <1>4
<1> HIDE DEF s
<1> DEFINE q == [i \in 1 .. n |-> CHOOSE j \in 1 .. n : f[j] = s[i]]
<1>6. \A i \in 1 .. n : q[i] \in 1 .. n /\ f[q[i]] = s[i]
  <2> SUFFICES ASSUME NEW i \in 1 .. n PROVE q[i] \in 1 .. n /\ f[q[i]] = s[i]
    OBVIOUS
  <2>1. \E j \in 1 .. n : f[j] = s[i]
    BY <1>5
  <2>2. q[i] = CHOOSE j \in 1 .. n : f[j] = s[i]
    OBVIOUS
  <2> HIDE DEF q
  <2> QED BY <2>1, <2>2
<1>7. q \in [1 .. n -> 1 .. n]
  BY <1>6
<1>8. \A i, j \in 1 .. n : i < j => f[q[i]] < f[q[j]]
  <2> HIDE DEF q, S
  <2> QED BY <1>4, <1>6
<1> QED
  BY <1>7, <1>8

\* qsort puts the blocks in use in the order of their numbers, and no other.
LEMMA SortedIs ==
  ASSUME NEW blocks \in Seq(Blocks), NEW n \in Nat, n <= Len(blocks),
         \A i, j \in 1 .. n : blocks[i].num = blocks[j].num => i = j
  PROVE  LET p == Ordering(blocks, n)
             x == Sorted(blocks, n)
         IN  /\ p \in [1 .. n -> 1 .. n] /\ x \in Seq(Blocks) /\ Len(x) = Len(blocks)
             /\ \A i \in 1 .. n : x[i] = blocks[p[i]]
             /\ \A i, j \in 1 .. n : i < j => x[i].num < x[j].num
             /\ \A i \in 1 .. Len(blocks) : \E j \in 1 .. Len(blocks) : x[i] = blocks[j]
<1> DEFINE m == Len(blocks)
           f == [i \in 1 .. n |-> blocks[i].num]
           p == Ordering(blocks, n)
           x == Sorted(blocks, n)
<1>1. m \in Nat /\ n <= m /\ \A i \in 1 .. n : i \in 1 .. m
  OBVIOUS
<1>2. \A i \in 1 .. n : blocks[i] \in Blocks
  OBVIOUS
<1>3. \A i \in 1 .. n : f[i] = blocks[i].num /\ blocks[i].num \in Nat
  BY <1>2 DEF Blocks
<1>4. f \in [1 .. n -> Nat]
  BY <1>3
<1>5. \A i, j \in 1 .. n : f[i] = f[j] => i = j
  BY <1>3
<1>6. \E q \in [1 .. n -> 1 .. n] : \A i, j \in 1 .. n : i < j => f[q[i]] < f[q[j]]
  <2> HIDE DEF f
  <2> QED BY <1>4, <1>5, OrderingExists
<1>7. \E q \in [1 .. n -> 1 .. n] : \A i, j \in 1 .. n : i < j => blocks[q[i]].num < blocks[q[j]].num
  <2>1. PICK q \in [1 .. n -> 1 .. n] : \A i, j \in 1 .. n : i < j => f[q[i]] < f[q[j]]
    BY <1>6
  <2>2. \A i \in 1 .. n : q[i] \in 1 .. n /\ f[q[i]] = blocks[q[i]].num
    BY <1>3
  <2>3. \A i, j \in 1 .. n : i < j => blocks[q[i]].num < blocks[q[j]].num
    <3> HIDE DEF f
    <3> SUFFICES ASSUME NEW i \in 1 .. n, NEW j \in 1 .. n, i < j PROVE blocks[q[i]].num < blocks[q[j]].num
      OBVIOUS
    <3>1. f[q[i]] < f[q[j]]
      BY <2>1
    <3>2. f[q[i]] = blocks[q[i]].num /\ f[q[j]] = blocks[q[j]].num
      BY <2>2
    <3> QED BY <3>1, <3>2
  <2> QED BY <2>3
<1>10. p \in [1 .. n -> 1 .. n] /\ \A i, j \in 1 .. n : i < j => blocks[p[i]].num < blocks[p[j]].num
  BY <1>7 DEF Ordering
<1> HIDE DEF p
<1>11. x = [i \in 1 .. m |-> blocks[IF i <= n THEN p[i] ELSE i]]
  BY DEF Sorted, p
<1>12. \A i \in 1 .. m : x[i] = blocks[IF i <= n THEN p[i] ELSE i] /\ (IF i <= n THEN p[i] ELSE i) \in 1 .. m
  <2> SUFFICES ASSUME NEW i \in 1 .. m
               PROVE  x[i] = blocks[IF i <= n THEN p[i] ELSE i] /\ (IF i <= n THEN p[i] ELSE i) \in 1 .. m
    OBVIOUS
  <2>1. x[i] = blocks[IF i <= n THEN p[i] ELSE i]
    BY <1>11
  <2>2. i <= n => p[i] \in 1 .. m
    BY <1>1, <1>10
  <2> QED BY <2>1, <2>2
<1>13. x \in [1 .. m -> Blocks] /\ DOMAIN x = 1 .. m
  BY <1>11, <1>12
<1> HIDE DEF x
<1>14. x \in Seq(Blocks) /\ Len(x) = m
  <2> HIDE DEF m
  <2>1. x \in Seq(Blocks)
    BY ONLY <1>1, <1>13
  <2> QED BY <1>1, <1>13, <2>1
<1>15. \A i \in 1 .. n : x[i] = blocks[p[i]]
  <2> SUFFICES ASSUME NEW i \in 1 .. n PROVE x[i] = blocks[p[i]]
    OBVIOUS
  <2>1. i \in 1 .. m /\ i <= n
    BY <1>1
  <2> QED BY <1>12, <2>1
<1>16. \A i, j \in 1 .. n : i < j => x[i].num < x[j].num
  <2> SUFFICES ASSUME NEW i \in 1 .. n, NEW j \in 1 .. n, i < j PROVE x[i].num < x[j].num
    OBVIOUS
  <2>1. blocks[p[i]].num < blocks[p[j]].num
    BY <1>10
  <2>2. x[i] = blocks[p[i]] /\ x[j] = blocks[p[j]]
    BY <1>15
  <2> QED BY <2>1, <2>2, Zenon
<1>17. \A i \in 1 .. m : \E j \in 1 .. m : x[i] = blocks[j]
  BY <1>12
<1> QED
  BY <1>10, <1>14, <1>15, <1>16, <1>17 DEF p, x

\* The types of the table of letters.
Tables == [named : Nat, freed : BOOLEAN, spoiled : BOOLEAN]

\* What an answer leaves in a table: no more than there are clusters, and while these are no
\* more than are cleared, nothing that was freed.
TableOK(t) == /\ t.named <= Cardinality(Clusters)
              /\ Cardinality(Clusters) <= Cleared => ~t.freed /\ ~t.spoiled

\* The clusters are finitely many.
LEMMA ClustersFinite == IsFiniteSet(Clusters) /\ Cardinality(Clusters) \in Nat
<1> DEFINE f == [n \in Node |-> ClusterOf[n]]
<1>1. IsFiniteSet(Node)
  BY CellsAssumption, FS_Interval DEF Node
<1>2. Clusters = {f[n] : n \in Node}
  BY DEF Clusters
<1>3. IsFiniteSet(Clusters)
  <2> HIDE DEF f
  <2> QED BY <1>1, <1>2, ImageNoLarger
<1> QED
  BY <1>3, FS_CardinalityType

\* Those of an answer are among them.
LEMMA ClustersAre ==
  ASSUME NEW w \in Seq(Answered), NEW i \in 0 .. Len(w)
  PROVE  Cardinality(Clusters) \in Nat /\ Cardinality(Seen(w, i)) <= Cardinality(Clusters)
<1>1. Seen(w, i) \subseteq Clusters
  <2>1. \A k \in 1 .. i : w[k].node \in Node
    <3>1. \A k \in 1 .. i : w[k] \in Answered
      OBVIOUS
    <3> QED BY <3>1 DEF Answered
  <2> QED BY <2>1 DEF Seen, Clusters
<1> QED
  BY <1>1, ClustersFinite, FS_Subset

\* Whatever the table is taken to serve, it stays a table, and as long as it is not spoiled
\* every live entry has the letter of its cluster.
LEMMA LetteringIs ==
  ASSUME clsid \in Tables, TableOK(clsid), NEW w \in Seq(Answered), NEW letters \in Lettering(w)
  PROVE  /\ Table(w) \in Tables /\ TableOK(Table(w))
         /\ \A i \in 1 .. Len(w) :
              /\ letters[i] \in Nat
              /\ w[i].alive /\ ~Table(w).spoiled => letters[i] = cluster_id_new_item(w, i)
<1> DEFINE m == Len(w)
           named == Cardinality(Seen(w, m))
           unknown == {i \in DOMAIN w : w[i].alive /\ cluster_id_new_item(w, i) > Serving}
           L(any) == [i \in DOMAIN w |-> IF ~w[i].alive THEN 0
                                         ELSE IF i \in unknown THEN any[i] ELSE cluster_id_new_item(w, i)]
<1>1. m \in Nat /\ DOMAIN w = 1 .. m
  OBVIOUS
<1>2. Letters \in Nat /\ Cleared \in Nat /\ Serving \in Nat
  BY CellsAssumption DEF Serving
<1>3. IsFiniteSet(Seen(w, m)) /\ named \in Nat
  <2>1. m \in 0 .. m /\ m <= m
    BY <1>1
  <2> QED BY <2>1, SeenIs
<1> DEFINE stale == clsid.named > Cleared
           bad == clsid.spoiled \/ clsid.freed \/ named > Serving
<1>4. Table(w) = IF named = 0 THEN clsid ELSE [named |-> named, freed |-> stale, spoiled |-> bad]
  BY DEF Table
<1>5. Table(w) \in Tables
  <2>1. stale \in BOOLEAN /\ bad \in BOOLEAN
    OBVIOUS
  <2> HIDE DEF named, stale, bad
  <2> QED BY <1>3, <1>4, <2>1 DEF Tables
<1>9. TableOK(Table(w))
  <2>1. named <= Cardinality(Clusters) /\ Cardinality(Clusters) \in Nat
    <3>1. m \in 0 .. m
      BY <1>1
    <3> QED BY <3>1, ClustersAre
  <2>2. CASE named = 0
    BY <1>4, <2>2
  <2>3. CASE named # 0
    <3>1. Table(w).named = named /\ Table(w).freed = stale /\ Table(w).spoiled = bad
      <4> HIDE DEF stale, bad
      <4> QED BY <1>4, <2>3
    <3>2. ASSUME Cardinality(Clusters) <= Cleared PROVE ~stale /\ ~bad
      <4> HIDE DEF named
      <4>1. clsid.named \in Nat /\ clsid.named <= Cleared /\ ~clsid.freed /\ ~clsid.spoiled
        BY <1>2, <2>1, <3>2 DEF TableOK, Tables
      <4>2. ~(clsid.named > Cleared)
        BY <1>2, <4>1
      <4>3. Serving = Letters /\ Cleared <= Letters
        BY <4>1, <4>2, CellsAssumption DEF Serving
      <4>4. ~(named > Serving)
        BY <1>2, <1>3, <2>1, <3>2, <4>3
      <4> QED BY <4>1, <4>2, <4>4
    <3> HIDE DEF named, stale, bad
    <3> QED BY <2>1, <3>1, <3>2 DEF TableOK
  <2> QED BY <2>2, <2>3
<1>6. PICK any \in [unknown -> 1 .. Letters + 1] : letters = L(any)
  BY Zenon DEF Lettering
<1>7. ASSUME NEW i \in 1 .. m, w[i].alive
      PROVE  cluster_id_new_item(w, i) \in Nat /\ cluster_id_new_item(w, i) <= named /\ named # 0
  <2>1. /\ First(w, i) \in 1 .. i /\ cluster_id_new_item(w, i) = Cardinality(Seen(w, First(w, i)))
    BY <1>7, FirstIs
  <2>2. First(w, i) \in 0 .. m /\ m \in 0 .. m /\ First(w, i) <= m
    BY <1>1, <2>1
  <2>3. Seen(w, First(w, i)) \subseteq Seen(w, m) /\ Cardinality(Seen(w, First(w, i))) \in Nat
    BY <2>2, SeenIs
  <2>4. Cardinality(Seen(w, First(w, i))) <= named
    BY <1>3, <2>3, FS_Subset
  <2>5. ClusterOf[w[i].node] \in Seen(w, m)
    BY <1>1, <1>7 DEF Seen
  <2>6. named # 0
    BY <1>3, <2>5, FS_EmptySet
  <2> QED BY <2>1, <2>3, <2>4, <2>6
<1> HIDE DEF named
<1>8. ASSUME NEW i \in 1 .. m
      PROVE  /\ letters[i] \in Nat
             /\ w[i].alive /\ ~Table(w).spoiled => letters[i] = cluster_id_new_item(w, i)
  <2>1. letters[i] = IF ~w[i].alive THEN 0 ELSE IF i \in unknown THEN any[i] ELSE cluster_id_new_item(w, i)
    <3> HIDE DEF unknown
    <3> QED BY <1>1, <1>6
  <2>2. i \in unknown => any[i] \in Nat
    <3> HIDE DEF unknown
    <3> QED BY <1>2, <1>6
  <2>3. letters[i] \in Nat
    BY <1>7, <2>1, <2>2
  <2>4. ASSUME w[i].alive, ~Table(w).spoiled PROVE letters[i] = cluster_id_new_item(w, i)
    <3>1. cluster_id_new_item(w, i) \in Nat /\ cluster_id_new_item(w, i) <= named /\ named # 0
      BY <1>7, <2>4
    <3>2. ~(named > Serving)
      <4>1. ~bad
        <5> HIDE DEF bad, stale
        <5> QED BY <1>4, <2>4, <3>1
      <4> QED BY <4>1
    <3>3. ~(cluster_id_new_item(w, i) > Serving)
      BY <1>2, <1>3, <3>1, <3>2
    <3> QED BY <2>1, <2>4, <3>3
  <2> QED BY <2>3, <2>4
<1> QED
  BY <1>1, <1>5, <1>8, <1>9

\* What infod may answer is an answer.
LEMMA AnswerIs ==
  ASSUME NEW w \in Answers
  PROVE  w \in Seq(Answered) /\ OnceEach(w)
<1>1. PICK n \in Nodes - 1 .. Nodes : w \in [1 .. n -> Answered]
  BY DEF Answers, Answered
<1>2. n \in Nat
  BY <1>1, CellsAssumption
<1>3. w \in Seq(Answered) /\ DOMAIN w = 1 .. Len(w)
  BY <1>1, <1>2
<1>4. \A i, j \in 1 .. Len(w) : i < j => w[i].node < w[j].node
  BY <1>3 DEF Answers
<1>5. \A i \in 1 .. Len(w) : w[i].node \in Nat
  <2>1. \A i \in 1 .. Len(w) : w[i] \in Answered
    BY <1>3
  <2> QED BY <2>1 DEF Answered, Node
<1>6. OnceEach(w)
  <2> SUFFICES ASSUME NEW i \in 1 .. Len(w), NEW j \in 1 .. Len(w), w[i].node = w[j].node PROVE i = j
    BY DEF OnceEach
  <2>1. ~(i < j) /\ ~(j < i)
    BY <1>4, <1>5
  <2> QED BY <2>1
<1> QED
  BY <1>3, <1>6

\* What is known of the blocks, and of the last answer.
CellsInv ==
  /\ raw \in Seq(Blocks) /\ count \in 0 .. Len(raw) /\ user \in Users
  /\ \A i \in 1 .. Len(raw) : StringFits(raw[i].users)
  /\ alive = [i \in 1 .. count |-> raw[i].status = "alive"]
  /\ fetched \in [entries : Seq(Answered), time : Stamp, user : Users]
  /\ count = Len(fetched.entries) /\ OnceEach(fetched.entries)
  /\ FromEntries(raw, fetched.entries, fetched.time, fetched.user, clsid.spoiled)
  /\ clsid \in Tables /\ TableOK(clsid)

\* A fresh block.
LEMMA BlockIs == Block \in Blocks /\ StringFits(Block.users)
<1>1. NULL \in Pointers
  BY DEF Pointers
<1>2. Block = [num |-> 0, status |-> "none", data |-> <<>>, users |-> NULL, letter |-> 0]
  BY DEF Block
<1>3. Block.users = NULL
  BY <1>2
<1>4. Block \in Blocks
  <2> HIDE DEF NULL
  <2> QED BY <1>1, <1>2 DEF Blocks
<1> QED
  BY <1>3, <1>4 DEF StringFits

\* An answer is fetched.
LEMMA FetchKeeps ==
  ASSUME CellsInv, NEW entries \in Answers, get_nodes_to_display(entries)
  PROVE  CellsInv'
<1> DEFINE blocks == IF raw = <<>> THEN [i \in 1 .. Len(entries) |-> Block] ELSE raw
           w == Wanted(entries)
           n == Len(w)
           t == 1 - fetched.time
<1>a. PICK letters \in Lettering(w) : raw' = Sorted(Written(blocks, w, letters, t, user), n)
  BY DEF get_nodes_to_display
<1> DEFINE spoiled == Table(w).spoiled
           x == Written(blocks, w, letters, t, user)
           shown == Sorted(x, n)
           p == Ordering(x, n)
<1>1. entries \in Seq(Answered) /\ OnceEach(entries)
  BY AnswerIs
<1>2. w \in Seq(Answered) /\ OnceEach(w) /\ n <= Len(entries)
  BY <1>1, WantedIs
<1>3. /\ Len(entries) <= Len(blocks) /\ raw' = shown /\ count' = n
      /\ alive' = [i \in 1 .. n |-> raw'[i].status = "alive"]
      /\ fetched' = [entries |-> w, time |-> t, user |-> user] /\ user' = user
      /\ clsid' = Table(w)
  BY <1>a DEF get_nodes_to_display
<1>4. raw \in Seq(Blocks) /\ user \in Users /\ fetched.time \in Stamp /\ \A i \in 1 .. Len(raw) : StringFits(raw[i].users)
  BY DEF CellsInv
<1>5. t \in Stamp
  BY <1>4 DEF Stamp
<1>b. /\ Table(w) \in Tables /\ TableOK(Table(w))
       /\ \A i \in 1 .. n : /\ letters[i] \in Nat
                            /\ w[i].alive /\ ~spoiled => letters[i] = cluster_id_new_item(w, i)
  <2>1. clsid \in Tables /\ TableOK(clsid)
    BY DEF CellsInv
  <2> HIDE DEF w
  <2> QED BY <1>a, <1>2, <2>1, LetteringIs
<1> HIDE DEF spoiled
<1> HIDE DEF w, t
<1>6. blocks \in Seq(Blocks) /\ \A i \in 1 .. Len(blocks) : StringFits(blocks[i].users)
  <2>1. CASE raw = <<>>
    <3> DEFINE m == Len(entries)
               f == [i \in 1 .. m |-> Block]
    <3>1. m \in Nat /\ blocks = f
      BY <1>1, <2>1
    <3> HIDE DEF m
    <3>2. f \in [1 .. m -> Blocks] /\ DOMAIN f = 1 .. m /\ \A i \in 1 .. m : f[i] = Block
      BY BlockIs
    <3> HIDE DEF f
    <3>3. f \in Seq(Blocks) /\ Len(f) = m
      <4>1. f \in Seq(Blocks)
        BY ONLY <3>1, <3>2
      <4> QED BY <3>1, <3>2, <4>1
    <3> QED BY <3>1, <3>2, <3>3, BlockIs
  <2>2. CASE raw # <<>>
    BY <1>4, <2>2
  <2> QED BY <2>1, <2>2
<1> HIDE DEF blocks
<1>7. n \in Nat /\ n <= Len(blocks)
  BY <1>1, <1>2, <1>3, <1>6
<1>8. /\ x \in Seq(Blocks) /\ Len(x) = Len(blocks)
      /\ \A i \in 1 .. Len(blocks) : StringFits(x[i].users)
      /\ \A i \in 1 .. n : Holds(x[i], w, i, t, user, spoiled)
  BY <1>b, <1>2, <1>4, <1>5, <1>6, <1>7, WrittenIs
<1> HIDE DEF x
<1>9. \A i, j \in 1 .. n : x[i].num = x[j].num => i = j
  <2> SUFFICES ASSUME NEW i \in 1 .. n, NEW j \in 1 .. n, x[i].num = x[j].num PROVE i = j
    OBVIOUS
  <2>1. Number[w[i].node] = Number[w[j].node]
    BY <1>8 DEF Holds
  <2>2. w[i].node \in Node /\ w[j].node \in Node
    <3>1. w[i] \in Answered /\ w[j] \in Answered
      BY <1>2
    <3> QED BY <3>1 DEF Answered
  <2>3. w[i].node = w[j].node
    BY <2>1, <2>2, CellsAssumption
  <2> QED BY <1>2, <2>3 DEF OnceEach
<1>10. /\ p \in [1 .. n -> 1 .. n] /\ shown \in Seq(Blocks) /\ Len(shown) = Len(x)
       /\ \A i \in 1 .. n : shown[i] = x[p[i]]
       /\ \A i, j \in 1 .. n : i < j => shown[i].num < shown[j].num
       /\ \A i \in 1 .. Len(x) : \E j \in 1 .. Len(x) : shown[i] = x[j]
  <2> HIDE DEF n
  <2> QED BY <1>7, <1>8, <1>9, SortedIs
<1> HIDE DEF p, shown
<1>11. \A i \in 1 .. Len(shown) : StringFits(shown[i].users)
  BY <1>8, <1>10
<1>12. FromEntries(shown, w, t, user, spoiled)
  <2>1. \A i \in 1 .. n : Holds(shown[i], w, p[i], t, user, spoiled)
    <3> SUFFICES ASSUME NEW i \in 1 .. n PROVE Holds(shown[i], w, p[i], t, user, spoiled)
      OBVIOUS
    <3>1. p[i] \in 1 .. n /\ shown[i] = x[p[i]]
      BY <1>10
    <3> QED BY <1>8, <3>1
  <2> QED BY <1>10, <2>1 DEF FromEntries
<1>13. fetched' \in [entries : Seq(Answered), time : Stamp, user : Users]
  BY <1>2, <1>3, <1>4, <1>5
<1>14. fetched'.entries = w /\ fetched'.time = t /\ fetched'.user = user
  BY <1>3
<1>15. count' \in 0 .. Len(raw')
  BY <1>3, <1>7, <1>8, <1>10
<1> HIDE DEF n
<1>16. /\ raw' \in Seq(Blocks) /\ user' \in Users
       /\ \A i \in 1 .. Len(raw') : StringFits(raw'[i].users)
       /\ alive' = [i \in 1 .. count' |-> raw'[i].status = "alive"]
       /\ count' = Len(fetched'.entries) /\ OnceEach(fetched'.entries)
       /\ FromEntries(raw', fetched'.entries, fetched'.time, fetched'.user, clsid'.spoiled)
       /\ clsid' \in Tables /\ TableOK(clsid')
  BY <1>b, <1>2, <1>3, <1>4, <1>10, <1>11, <1>12, <1>14 DEF n, spoiled
<1> QED
  BY <1>13, <1>15, <1>16 DEF CellsInv

\* Without blocks nothing is shown.
LEMMA NothingHeld ==
  ASSUME NEW t, NEW u, NEW spoiled
  PROVE  FromEntries(<<>>, <<>>, t, u, spoiled) /\ OnceEach(<<>>) /\ <<>> \in Seq(Blocks) /\ <<>> \in Seq(Answered) /\ Len(<<>>) = 0
<1>1. Len(<<>>) = 0 /\ 1 .. 0 = {}
  OBVIOUS
<1>2. [i \in 1 .. 0 |-> i] \in [1 .. 0 -> 1 .. 0]
  OBVIOUS
<1>3. FromEntries(<<>>, <<>>, t, u, spoiled)
  BY <1>1, <1>2 DEF FromEntries
<1> QED
  BY <1>1, <1>3 DEF OnceEach

\* The display is given up.
LEMMA FreeKeeps ==
  ASSUME CellsInv, displayFreeData
  PROVE  CellsInv'
<1>1. /\ raw' = <<>> /\ count' = 0 /\ alive' = <<>> /\ user' = user /\ clsid' = clsid
      /\ fetched' = [fetched EXCEPT !.entries = <<>>]
  BY DEF displayFreeData
<1>2. fetched \in [entries : Seq(Answered), time : Stamp, user : Users] /\ user \in Users /\ clsid \in Tables /\ TableOK(clsid)
  BY DEF CellsInv
<1>3. fetched' \in [entries : Seq(Answered), time : Stamp, user : Users] /\ fetched'.entries = <<>>
  BY <1>1, <1>2, NothingHeld
<1>4. <<>> = [i \in 1 .. 0 |-> <<>>[i].status = "alive"]
  OBVIOUS
<1>5. 0 \in 0 .. Len(<<>>) /\ \A i \in 1 .. Len(<<>>) : StringFits(<<>>[i].users)
  OBVIOUS
<1> QED
  BY <1>1, <1>2, <1>3, <1>4, <1>5, NothingHeld DEF CellsInv

\* It holds before the first answer.
LEMMA CellsInvInit == CellsInit => CellsInv
<1> SUFFICES ASSUME CellsInit PROVE CellsInv
  OBVIOUS
<1>1. /\ raw = <<>> /\ count = 0 /\ alive = <<>> /\ user = NoUser
      /\ fetched = [entries |-> <<>>, time |-> 0, user |-> NoUser]
      /\ clsid = [named |-> 0, freed |-> FALSE, spoiled |-> FALSE]
  BY DEF CellsInit
<1>6. clsid \in Tables /\ TableOK(clsid)
  <2>1. Cardinality(Clusters) \in Nat
    BY ClustersFinite
  <2> QED BY <1>1, <2>1 DEF Tables, TableOK
<1>2. user \in Users /\ 0 \in Stamp /\ NoUser \in Users
  BY <1>1 DEF Users, Stamp
<1>3. /\ fetched \in [entries : Seq(Answered), time : Stamp, user : Users]
      /\ fetched.entries = <<>> /\ fetched.time = 0 /\ fetched.user = NoUser
  BY <1>1, <1>2
<1>4. <<>> = [i \in 1 .. 0 |-> <<>>[i].status = "alive"]
  OBVIOUS
<1>5. 0 \in 0 .. Len(<<>>) /\ \A i \in 1 .. Len(<<>>) : StringFits(<<>>[i].users)
  OBVIOUS
<1> QED
  BY <1>1, <1>2, <1>3, <1>4, <1>5, <1>6, NothingHeld DEF CellsInv

\* Every other step of the blocks keeps the invariant too.
LEMMA CellsInvStep == CellsInv /\ (CellsNext \/ UNCHANGED cvars) => CellsInv'
<1>1. ASSUME CellsInv, UNCHANGED cvars PROVE CellsInv'
  BY <1>1 DEF CellsInv, cvars
<1>2. ASSUME CellsInv, new_user PROVE CellsInv'
  <2>1. user' \in Users /\ raw' = raw /\ count' = count /\ alive' = alive /\ fetched' = fetched /\ clsid' = clsid
    BY <1>2 DEF new_user
  <2> QED BY <1>2, <2>1 DEF CellsInv
<1> QED
  BY <1>1, <1>2, FetchKeeps, FreeKeeps DEF CellsNext

\* A living node's block is that of a living entry.
LEMMA LivingHolds ==
  ASSUME CellsInv, NEW i \in 1 .. count, alive[i]
  PROVE  /\ raw[i].data \in Node \X Stamp /\ raw[i].letter \in Nat
         /\ \E k \in 1 .. count :
              /\ fetched.entries[k] \in Answered /\ fetched.entries[k].alive
              /\ raw[i].data = <<fetched.entries[k].node, fetched.time>>
              /\ ~clsid.spoiled => raw[i].letter = cluster_id_new_item(fetched.entries, k)
<1> DEFINE w == fetched.entries
<1>1. w \in Seq(Answered) /\ count = Len(w) /\ raw \in Seq(Blocks) /\ count <= Len(raw) /\ fetched.time \in Stamp
  BY DEF CellsInv
<1>2. raw[i].status = "alive"
  BY DEF CellsInv
<1>3. PICK p \in [1 .. Len(w) -> 1 .. Len(w)] : \A j \in 1 .. Len(w) : Holds(raw[j], w, p[j], fetched.time, fetched.user, clsid.spoiled)
  BY DEF CellsInv, FromEntries
<1> HIDE DEF w
<1>4. p[i] \in 1 .. count /\ Holds(raw[i], w, p[i], fetched.time, fetched.user, clsid.spoiled)
  BY <1>1, <1>3
<1>5. w[p[i]] \in Answered
  BY <1>1, <1>4
<1>6. w[p[i]].alive
  BY <1>2, <1>4 DEF Holds
<1>7. raw[i].data = <<w[p[i]].node, fetched.time>> /\ (~clsid.spoiled => raw[i].letter = cluster_id_new_item(w, p[i]))
  BY <1>4, <1>6 DEF Holds
<1>8. w[p[i]].node \in Node
  BY <1>5 DEF Answered
<1>9. raw[i].letter \in Nat
  <2>1. raw[i] \in Blocks
    BY <1>1
  <2> QED BY <2>1 DEF Blocks
<1> QED
  BY <1>1, <1>4, <1>5, <1>6, <1>7, <1>8, <1>9 DEF w

\* The letters of living nodes say of which cluster they are, from a table not spoiled.
LEMMA LettersSay == CellsInv /\ ~clsid.spoiled => LettersSayCluster
<1> SUFFICES ASSUME CellsInv, ~clsid.spoiled, NEW i \in 1 .. count, NEW j \in 1 .. count, alive[i], alive[j]
             PROVE  raw[i].letter = raw[j].letter <=> ClusterOf[raw[i].data[1]] = ClusterOf[raw[j].data[1]]
  BY DEF LettersSayCluster
<1> DEFINE w == fetched.entries
<1>1. w \in Seq(Answered) /\ count = Len(w)
  BY DEF CellsInv
<1>2. PICK k \in 1 .. count : /\ w[k].alive /\ raw[i].data = <<w[k].node, fetched.time>>
                              /\ raw[i].letter = cluster_id_new_item(w, k)
  BY LivingHolds
<1>3. PICK m \in 1 .. count : /\ w[m].alive /\ raw[j].data = <<w[m].node, fetched.time>>
                              /\ raw[j].letter = cluster_id_new_item(w, m)
  BY LivingHolds
<1> HIDE DEF w
<1>4. raw[i].data[1] = w[k].node /\ raw[j].data[1] = w[m].node
  BY <1>2, <1>3
<1>5. cluster_id_new_item(w, k) = cluster_id_new_item(w, m) <=> ClusterOf[w[k].node] = ClusterOf[w[m].node]
  BY <1>1, <1>2, <1>3, LettersAre
<1> QED
  BY <1>2, <1>3, <1>4, <1>5

\* What is shown is what was fetched.
LEMMA FetchedIsShown == CellsInv => ShownIsFetched
<1> SUFFICES ASSUME CellsInv, ~clsid.spoiled PROVE ShownIsFetched
  <2>1. ASSUME CellsInv, clsid.spoiled PROVE Cardinality(Clusters) > Cleared
    <3>1. Cardinality(Clusters) \in Nat /\ Cleared \in Nat
      BY ClustersFinite, CellsAssumption
    <3> QED BY <2>1, <3>1 DEF CellsInv, TableOK
  <2> QED BY <2>1 DEF ShownIsFetched
<1> DEFINE w == fetched.entries
<1>1. /\ w \in Seq(Answered) /\ count = Len(w) /\ raw \in Seq(Blocks) /\ count <= Len(raw)
      /\ fetched.time \in Stamp /\ count \in Nat
  BY DEF CellsInv
<1>2. alive = [i \in 1 .. count |-> raw[i].status = "alive"]
  BY DEF CellsInv
<1>3. PICK p \in [1 .. Len(w) -> 1 .. Len(w)] :
        /\ \A i, j \in 1 .. Len(w) : i < j => raw[i].num < raw[j].num
        /\ \A i \in 1 .. Len(w) : Holds(raw[i], w, p[i], fetched.time, fetched.user, clsid.spoiled)
  BY DEF CellsInv, FromEntries
<1>4. Fits
  <2> SUFFICES ASSUME NEW i \in 1 .. Len(raw), raw[i].users # NULL PROVE raw[i].users.size + 1 <= raw[i].users.cap
    BY DEF Fits
  <2>1. raw[i].users \in Pointers
    <3>1. raw[i] \in Blocks
      BY <1>1
    <3> QED BY <3>1 DEF Blocks
  <2>2. raw[i].users.size < raw[i].users.cap
    BY DEF CellsInv, StringFits
  <2>3. raw[i].users.size \in Nat /\ raw[i].users.cap \in Nat
    BY <2>1 DEF Pointers
  <2> QED BY <2>2, <2>3
<1>5. ASSUME NEW i \in 1 .. count
      PROVE  \E k \in 1 .. count :
               LET e == w[k]
                   sent == Text(e.node, fetched.time)
               IN  /\ raw[i].num = Number[e.node] /\ alive[i] = e.alive
                   /\ e.alive => /\ raw[i].data = <<e.node, fetched.time>>
                                 /\ IF sent.size = 0 \/ fetched.user = NoUser THEN raw[i].users = NULL
                                    ELSE raw[i].users.of = sent.of /\ raw[i].users.size = sent.size
  <2> HIDE DEF w
  <2>1. p[i] \in 1 .. count /\ Holds(raw[i], w, p[i], fetched.time, fetched.user, clsid.spoiled)
    BY <1>1, <1>3
  <2> DEFINE e == w[p[i]]
             sent == Text(e.node, fetched.time)
  <2>2. e \in Answered /\ e.alive \in BOOLEAN
    <3>1. e \in Answered
      BY <1>1, <2>1
    <3> HIDE DEF e
    <3> QED BY <3>1 DEF Answered
  <2>3. sent.size = Size[e.node][fetched.time] /\ sent.of = <<e.node, fetched.time>>
    BY DEF Text
  <2>4. alive[i] = (raw[i].status = "alive")
    BY <1>2
  <2>5. raw[i].status = (IF e.alive THEN "alive" ELSE "dead") /\ raw[i].num = Number[e.node]
    BY <2>1 DEF Holds
  <2>6. alive[i] = e.alive
    BY <2>2, <2>4, <2>5
  <2>7. e.alive => /\ raw[i].data = <<e.node, fetched.time>>
                   /\ IF sent.size = 0 \/ fetched.user = NoUser THEN raw[i].users = NULL
                      ELSE raw[i].users.of = sent.of /\ raw[i].users.size = sent.size
    BY <2>1, <2>3 DEF Holds
  <2> QED BY <2>1, <2>5, <2>6, <2>7
<1>6. \A i \in 1 .. (count - 1) : raw[i].num < raw[i + 1].num
  <2> SUFFICES ASSUME NEW i \in 1 .. (count - 1) PROVE raw[i].num < raw[i + 1].num
    OBVIOUS
  <2>1. i \in 1 .. Len(w) /\ i + 1 \in 1 .. Len(w) /\ i < i + 1
    BY <1>1
  <2> QED BY <1>3, <2>1
<1> QED
  BY <1>1, <1>4, <1>5, <1>6, LettersSay DEF ShownIsFetched

-----------------------------------------------------------------------------
(***************************************************************************)
(* The bars.  The scale of the axis covers the columns of its kind, that   *)
(* of any other kind the columns of that one.                              *)
(***************************************************************************)

\* The scale of the axis is a number once something was drawn.
GraphInv == CellsInv /\ legend \in Seq(Scalars \cup {"space"}) /\ last_max \in Nat \cup {Unset}

\* A fetch or none, and the legend edited by it.
LEMMA EditKeeps ==
  ASSUME GraphInv, Refetched, NEW l \in Seq(Scalars \cup {"space"}), legend' = l, last_max' = last_max
  PROVE  GraphInv'
<1>1. CellsInv'
  <2>1. CASE \E entries \in Answers : get_nodes_to_display(entries)
    BY <2>1, FetchKeeps DEF GraphInv
  <2>2. CASE UNCHANGED cvars
    BY <2>2, CellsInvStep DEF GraphInv
  <2> QED BY <2>1, <2>2 DEF Refetched
<1> QED
  BY <1>1 DEF GraphInv

\* What the legend may become.
LEMMA LegendIs ==
  ASSUME NEW l \in Seq(Scalars \cup {"space"}), legend = l, NEW kind \in Scalars \cup {"space"}, NEW action \in {0, 1}
  PROVE  /\ toggle_disp_type(kind, action) \in Seq(Scalars \cup {"space"})
         /\ \A c \in DOMAIN legend : [legend EXCEPT ![c] = kind] \in Seq(Scalars \cup {"space"})
<1> DEFINE K == Scalars \cup {"space"}
<1>1. kind \in K /\ l \in Seq(K)
  OBVIOUS
<1> HIDE DEF K
<1>2. Append(l, kind) \in Seq(K)
  BY <1>1
<1>3. l # <<>> => Front(l) \in Seq(K)
  <2> SUFFICES ASSUME l # <<>> PROVE Front(l) \in Seq(K)
    OBVIOUS
  <2> DEFINE n == Len(l) - 1
  <2>1. n \in Nat /\ \A i \in 1 .. n : l[i] \in K
    BY <1>1
  <2>2. Front(l) = [i \in 1 .. n |-> l[i]]
    BY <1>1 DEF Front
  <2> HIDE DEF n
  <2>3. Front(l) \in [1 .. n -> K]
    BY <2>1, <2>2
  <2> QED BY ONLY <2>1, <2>3
<1>4. toggle_disp_type(kind, action) \in Seq(K)
  BY <1>1, <1>2, <1>3 DEF toggle_disp_type
<1>5. ASSUME NEW c \in DOMAIN l PROVE [l EXCEPT ![c] = kind] \in Seq(K)
  BY <1>1
<1> QED
  BY <1>4, <1>5 DEF K

\* The columns are those of the nodes in use, as many for each as the legend has kinds.
LEMMA ColumnIs ==
  ASSUME GraphInv, NEW k \in Columns
  PROVE  /\ ((k - 1) \div Len(legend)) + 1 \in 1 .. count
         /\ Kind(k) \in Scalars \cup {"space"} /\ Living(k) \in BOOLEAN
<1> DEFINE L == Len(legend)
           K == Scalars \cup {"space"}
<1>1. L \in Nat /\ count \in Nat /\ k \in 1 .. count * L /\ legend \in Seq(K)
  BY DEF GraphInv, CellsInv, Columns
<1>2. L # 0
  BY <1>1
<1>3. PICK b \in 1 .. count, j \in 1 .. L : k = (b - 1) * L + j
  <2>1. L \in Nat \ {0} /\ count \in Nat /\ k \in 1 .. count * L
    BY <1>1, <1>2
  <2> HIDE DEF L
  <2> QED BY ONLY <2>1, InOneBlock
<1>4. (k - 1) \div L = b - 1
  <2>1. b - 1 \in Nat /\ L \in Nat \ {0} /\ (b - 1) * L \in Int
    BY <1>1, <1>2, <1>3
  <2> DEFINE m == (b - 1) * L
  <2>2. k - 1 = (b - 1) * L + j - 1
    <3> HIDE DEF m, L
    <3>1. k = m + j /\ m \in Int /\ j \in Int
      BY <1>1, <1>3, <2>1 DEF m
    <3>2. k - 1 = m + j - 1
      BY <3>1
    <3> QED BY <3>2 DEF m
  <2> HIDE DEF L
  <2>3. ((b - 1) * L + j - 1) \div L = b - 1
    BY <1>3, <2>1, BlockNumber
  <2> QED BY <2>2, <2>3
<1>5. (k - 1) \div L + 1 \in 1 .. count
  BY <1>3, <1>4
<1>6. ((k - 1) % L) + 1 \in 1 .. L
  <2> HIDE DEF L
  <2>1. k - 1 \in Nat /\ L \in Nat \ {0}
    <3>1. count * L \in Nat
      BY <1>1
    <3> QED BY <1>1, <1>2, <3>1
  <2> QED BY <2>1
<1>7. Kind(k) \in K
  <2> DEFINE i == ((k - 1) % L) + 1
  <2>1. Kind(k) = legend[i] /\ i \in 1 .. L
    BY <1>6 DEF Kind
  <2> HIDE DEF i, K
  <2> QED BY <1>1, <2>1
<1>8. Living(k) \in BOOLEAN
  <2> DEFINE i == (k - 1) \div L + 1
  <2>1. Living(k) = alive[i] /\ i \in 1 .. count
    BY <1>5 DEF Living
  <2> HIDE DEF i
  <2> QED BY <2>1 DEF GraphInv, CellsInv
<1> QED
  BY <1>5, <1>7, <1>8

\* A living column has a value, and a part of it, if its kind has any.
LEMMA ColumnValue ==
  ASSUME GraphInv, NEW k \in Columns, Living(k), NEW kind \in Scalars
  PROVE  At(kind, k).total \in Nat /\ At(kind, k).part \in Nat /\ At(kind, k).part <= At(kind, k).total
<1> DEFINE i == ((k - 1) \div Len(legend)) + 1
<1>1. i \in 1 .. count /\ alive[i]
  BY ColumnIs DEF Living
<1>2. raw[i].data \in Node \X Stamp
  <2> HIDE DEF i
  <2> QED BY <1>1, LivingHolds DEF GraphInv
<1>3. At(kind, k) = Value[kind][raw[i].data[1]][raw[i].data[2]]
  BY DEF At, BlockOf
<1> HIDE DEF i
<1>4. raw[i].data[1] \in Node /\ raw[i].data[2] \in Stamp
  BY <1>2, SMTT(30)
<1>5. At(kind, k).total \in Nat /\ At(kind, k).part \in 0 .. At(kind, k).total
  BY <1>3, <1>4, GraphAssumption
<1> QED
  BY <1>5

\* The maximum of a kind is a number no living column that shows it exceeds.
LEMMA GetMaxIs ==
  ASSUME GraphInv, NEW kind
  PROVE  /\ get_max(kind) \in Nat
         /\ \A c \in Columns : kind \in Scalars /\ Living(c) /\ Kind(c) = kind => At(kind, c).total <= get_max(kind)
<1>1. CASE kind \notin Scalars \/ \A k \in Columns : ~Living(k)
  BY <1>1 DEF get_max
<1>2. CASE kind \in Scalars /\ \E k \in Columns : Living(k)
  <2> DEFINE C == {k \in Columns : Living(k)}
             first == CHOOSE k \in Columns : Living(k) /\ \A j \in Columns : Living(j) => k <= j
             D == {first} \union {j \in Columns : Living(j) /\ Kind(j) = kind}
             f == [k \in D |-> scalar_div_x(kind, k)]
             M == {f[k] : k \in D}
  <2>1. Columns = 1 .. count * Len(legend) /\ count * Len(legend) \in Int
    BY DEF GraphInv, CellsInv, Columns
  <2>2. C \in SUBSET Nat /\ C # {}
    BY <1>2, <2>1
  <2>3. \E k \in Columns : Living(k) /\ \A j \in Columns : Living(j) => k <= j
    <3>1. PICK k \in C : \A j \in C : k <= j
      <4> HIDE DEF C
      <4> QED BY <2>2, LeastExists
    <3> QED BY <3>1
  <2>4. first \in Columns /\ Living(first)
    BY <2>3
  <2> HIDE DEF first
  <2>5. D \subseteq Columns /\ D # {} /\ \A k \in D : Living(k)
    BY <2>4
  <2>6. IsFiniteSet(Columns)
    <3> DEFINE m == count * Len(legend)
    <3>1. 1 \in Int /\ m \in Int
      BY <2>1
    <3> HIDE DEF m
    <3>2. IsFiniteSet(1 .. m)
      BY <3>1, FS_Interval
    <3> QED BY <2>1, <3>2 DEF m
  <2>7. IsFiniteSet(D)
    <3> HIDE DEF D
    <3> QED BY <2>5, <2>6, FS_Subset
  <2>8. \A k \in D : f[k] = At(kind, k).total /\ f[k] \in Nat
    <3> SUFFICES ASSUME NEW k \in D PROVE f[k] = At(kind, k).total /\ f[k] \in Nat
      OBVIOUS
    <3>1. k \in Columns /\ Living(k)
      BY <2>5
    <3>2. f[k] = At(kind, k).total
      BY DEF scalar_div_x
    <3> HIDE DEF D, f
    <3> QED BY <1>2, <3>1, <3>2, ColumnValue
  <2>9. M \in SUBSET Nat /\ M # {} /\ IsFiniteSet(M)
    <3> HIDE DEF D, f
    <3> QED BY <2>5, <2>7, <2>8, ImageNoLarger
  <2>10. get_max(kind) = Max(M)
    <3>1. get_max(kind) = Max({scalar_div_x(kind, k) : k \in D})
      BY <1>2 DEF get_max, first
    <3>2. \A k \in D : f[k] = scalar_div_x(kind, k)
      OBVIOUS
    <3>3. {scalar_div_x(kind, k) : k \in D} = M
      <4> HIDE DEF D, f
      <4> QED BY <3>2
    <3> QED BY <3>1, <3>3
  <2>11. Max(M) \in M /\ \A y \in M : y <= Max(M)
    <3> HIDE DEF M
    <3> QED BY <2>9, MaxIsGreatest
  <2>12. \A c \in Columns : Living(c) /\ Kind(c) = kind => At(kind, c).total \in M
    <3> SUFFICES ASSUME NEW c \in Columns, Living(c), Kind(c) = kind PROVE At(kind, c).total \in M
      OBVIOUS
    <3>1. c \in D
      OBVIOUS
    <3> HIDE DEF D, f
    <3> QED BY <2>8, <3>1
  <2> HIDE DEF M
  <2> QED BY <2>9, <2>10, <2>11, <2>12
<1> QED
  BY <1>1, <1>2

\* The axis is of a kind that has bars.
LEMMA AxisIs ==
  ASSUME GraphInv, HasAxis
  PROVE  AxisKind \in Scalars
<1> DEFINE I == {i \in 1 .. Len(legend) : legend[i] # "space"}
<1>1. legend \in Seq(Scalars \cup {"space"}) /\ DOMAIN legend = 1 .. Len(legend)
  BY DEF GraphInv
<1>2. I \in SUBSET Nat /\ I # {}
  BY <1>1 DEF HasAxis
<1>3. Min(I) \in I
  <2> HIDE DEF I
  <2> QED BY <1>2, MinIsLeast
<1>4. AxisKind = legend[Min(I)]
  BY <1>2 DEF AxisKind, SelectInSeq
<1> QED
  BY <1>1, <1>3, <1>4

\* The scale of the axis covers what is measured.
LEMMA ScaleCovers ==
  ASSUME GraphInv, displayRedrawGraph
  PROVE  /\ last_max' \in Nat
         /\ \A c \in Columns : Living(c) /\ Kind(c) = AxisKind => At(AxisKind, c).total <= last_max'
<1>1. HasAxis /\ displayManageMax
  BY DEF displayRedrawGraph
<1> DEFINE g == get_max(AxisKind)
<1>2. AxisKind \in Scalars /\ g \in Nat
  BY <1>1, AxisIs, GetMaxIs
<1>3. \A c \in Columns : Living(c) /\ Kind(c) = AxisKind => At(AxisKind, c).total \in Nat /\ At(AxisKind, c).total <= g
  BY <1>2, ColumnValue, GetMaxIs
<1>4. Measured \in Nat /\ g <= Measured
  <2>1. Measured = IF AxisKind = "load" /\ g < 1 THEN 1 ELSE g
    BY DEF Measured
  <2> HIDE DEF g
  <2> QED BY <1>2, <2>1
<1> HIDE DEF g
<1>5. last_max' \in Nat /\ Measured <= last_max'
  <2>1. CASE \/ max_counter >= max_val_reset_timeout \/ Measured > last_max
             \/ last_max = Unset \/ last_max_type # AxisKind
    BY <1>1, <1>4, <2>1 DEF displayManageMax
  <2>2. CASE ~(\/ max_counter >= max_val_reset_timeout \/ Measured > last_max
               \/ last_max = Unset \/ last_max_type # AxisKind)
    <3>1. last_max' = last_max /\ last_max # Unset /\ ~(Measured > last_max)
      BY <1>1, <2>2 DEF displayManageMax
    <3> QED BY <1>4, <3>1 DEF GraphInv
  <2> QED BY <2>1, <2>2
<1> QED
  BY <1>2, <1>3, <1>4, <1>5

\* What is divided by the scale keeps its order, and a value no larger than the scale gives no
\* more than the rows.
LEMMA RowsAre ==
  ASSUME NEW v \in Nat, NEW w \in Nat, NEW s \in Nat \ {0}, v <= w, w <= s
  PROVE  RowsOf(w, s) <= Rows /\ RowsOf(v, s) <= RowsOf(w, s)
<1>1. Rows \in Nat
  BY GraphAssumption
<1> DEFINE a == Rows * v
           b == Rows * w
           c == Rows * s
<1>2. a \in Nat /\ b \in Nat /\ c \in Nat /\ a <= b /\ b <= c
  <2>1. ASSUME NEW x \in Nat, NEW y \in Nat, x <= y PROVE Rows * x <= Rows * y
    <3>1. PICK z \in Nat : y = x + z
      <4>1. y - x \in Nat /\ y = x + (y - x)
        BY <2>1
      <4> QED BY <4>1
    <3>2. Rows * y = Rows * x + Rows * z /\ Rows * z \in Nat /\ Rows * x \in Nat
      BY <1>1, <3>1
    <3> QED BY <3>2
  <2>2. a \in Nat /\ b \in Nat /\ c \in Nat
    BY <1>1
  <2> QED BY <2>1, <2>2
<1>3. c \div s = Rows
  BY <1>1
<1>4. ASSUME NEW x \in Nat, NEW y \in Nat, x <= y PROVE x \div s <= y \div s
  BY <1>4
<1>5. RowsOf(w, s) = b \div s /\ RowsOf(v, s) = a \div s
  BY DEF RowsOf
<1> HIDE DEF a, b, c
<1> QED
  BY <1>2, <1>3, <1>4, <1>5

\* A drawing draws no bar beyond the graph.
LEMMA DrawingFits ==
  ASSUME GraphInv, displayRedrawGraph, NEW k \in Columns, Living(k), Kind(k) # "space", ScaleOf(k) > 0
  PROVE  LET total == RowsOf(At(Kind(k), k).total, ScaleOf(k))
             part == RowsOf(At(Kind(k), k).part, ScaleOf(k))
         IN  total <= Rows /\ (Kind(k) \in Parts => part <= total)
<1> DEFINE kind == Kind(k)
           w == At(kind, k).total
           v == At(kind, k).part
           s == ScaleOf(k)
<1>1. kind \in Scalars
  BY ColumnIs
<1>2. w \in Nat /\ v \in Nat /\ v <= w
  BY <1>1, ColumnValue
<1>3. s \in Nat /\ w <= s
  <2>1. CASE kind = AxisKind
    <3>1. s = last_max'
      BY <2>1 DEF ScaleOf
    <3> QED BY <2>1, <3>1, ScaleCovers
  <2>2. CASE kind # AxisKind
    <3>1. s = get_max(kind)
      BY <2>2 DEF ScaleOf
    <3> QED BY <1>1, <3>1, GetMaxIs
  <2> QED BY <2>1, <2>2
<1>4. s \in Nat \ {0}
  BY <1>3
<1> HIDE DEF w, v, s
<1>5. RowsOf(w, s) <= Rows /\ RowsOf(v, s) <= RowsOf(w, s)
  BY <1>2, <1>3, <1>4, RowsAre
<1> QED
  BY <1>5 DEF w, v, s

\* Before the first drawing.
LEMMA GraphInvInit == GraphInit => GraphInv
<1> SUFFICES ASSUME GraphInit PROVE GraphInv
  OBVIOUS
<1>1. CellsInit /\ legend = <<"load">> /\ last_max = Unset
  BY DEF GraphInit
<1>2. legend \in Seq(Scalars \cup {"space"})
  BY <1>1, GraphAssumption
<1> QED
  BY <1>1, <1>2, CellsInvInit DEF GraphInv

\* The keys of the legend.
LEMMA KeysKeep ==
  ASSUME GraphInv, PressKind \/ PressBackspace
  PROVE  GraphInv'
<1> DEFINE K == Scalars \cup {"space"}
<1>1. legend \in Seq(K)
  BY DEF GraphInv
<1>2. CASE PressKind
  <2>1. PICK kind \in K :
          \/ \E cursor \in DOMAIN legend : legend' = [legend EXCEPT ![cursor] = kind]
          \/ legend' = toggle_disp_type(kind, 1)
    BY <1>2 DEF PressKind
  <2>2. legend' \in Seq(K)
    BY <1>1, <2>1, LegendIs
  <2>3. Refetched /\ last_max' = last_max
    BY <1>2 DEF PressKind
  <2> QED BY <2>2, <2>3, EditKeeps
<1>3. CASE PressBackspace
  <2>1. legend # <<>> /\ legend' = toggle_disp_type(Last(legend), 0) /\ Refetched /\ last_max' = last_max
    BY <1>3 DEF PressBackspace
  <2>2. Last(legend) \in K
    <3> HIDE DEF K
    <3> QED BY <1>1, <2>1 DEF Last
  <2>3. legend' \in Seq(K)
    BY <1>1, <2>1, <2>2, LegendIs
  <2> QED BY <2>1, <2>3, EditKeeps
<1> QED
  BY <1>2, <1>3

\* Every step keeps the invariant.
LEMMA GraphInvStep == GraphInv /\ [GraphNext]_graphVars => GraphInv'
<1> SUFFICES ASSUME GraphInv, [GraphNext]_graphVars PROVE GraphInv'
  OBVIOUS
<1>1. ASSUME CellsInv', UNCHANGED gvars PROVE GraphInv'
  BY <1>1 DEF GraphInv, gvars
<1>2. ASSUME NEW entries \in Answers, get_nodes_to_display(entries), UNCHANGED gvars PROVE GraphInv'
  BY <1>1, <1>2, FetchKeeps DEF GraphInv
<1>3. CASE displayFreeData /\ UNCHANGED gvars
  BY <1>1, <1>3, FreeKeeps DEF GraphInv
<1>4. CASE new_user /\ UNCHANGED gvars
  BY <1>1, <1>4, CellsInvStep DEF GraphInv, CellsNext
<1>5. CASE displayRedrawGraph
  <2>1. UNCHANGED cvars /\ legend' = legend
    BY <1>5 DEF displayRedrawGraph
  <2>2. last_max' \in Nat
    BY <1>5, ScaleCovers
  <2>3. CellsInv'
    BY <2>1, CellsInvStep DEF GraphInv
  <2> QED BY <2>1, <2>2, <2>3 DEF GraphInv
<1>6. CASE PressKind \/ PressBackspace
  BY <1>6, KeysKeep
<1>7. CASE UNCHANGED graphVars
  <2>1. UNCHANGED cvars /\ UNCHANGED gvars
    BY <1>7 DEF graphVars
  <2> QED BY <1>1, <2>1, CellsInvStep DEF GraphInv
<1> QED
  BY <1>2, <1>3, <1>4, <1>5, <1>6, <1>7 DEF GraphNext

\* So it always holds.
LEMMA GraphInvHolds == GraphSpec => []GraphInv
  BY GraphInvInit, GraphInvStep, PTL DEF GraphSpec

\* The raw data keep their types: as many status marks as blocks in use, and no more of
\* those than were allocated for the first answer (get_nodes_to_display, infoMethods.c).
THEOREM DisplayTypeCorrect == GraphSpec => []CellsTypeOK
<1>1. GraphInv => CellsTypeOK
  <2> SUFFICES ASSUME GraphInv PROVE CellsTypeOK
    OBVIOUS
  <2>1. /\ raw \in Seq(Blocks) /\ count \in 0 .. Len(raw) /\ user \in Users
        /\ alive = [i \in 1 .. count |-> raw[i].status = "alive"]
    BY DEF GraphInv, CellsInv
  <2>2. ASSUME NEW i \in 1 .. Len(raw) PROVE raw[i].users \in Pointers
    <3>1. raw[i] \in Blocks
      BY <2>1
    <3> QED BY <3>1 DEF Blocks
  <2>3. Len(alive) = count
    <3>1. count \in Nat
      BY <2>1
    <3> QED BY <2>1, <3>1
  <2> QED BY <2>1, <2>2, <2>3 DEF CellsTypeOK
<1> QED
  BY <1>1, GraphInvHolds, PTL

\* Whatever order answers, new users, edits of the legend and changes of the cluster come in,
\* each number is shown with what the last answer said of that node, with nothing left of the
\* node that had the block before, and no string passes its memory (ShownIsFetched;
\* set_raw_data_item, save_vlen_data, qsort in get_nodes_to_display, infoMethods.c).
THEOREM ShownAlwaysFetched == GraphSpec => []ShownIsFetched
<1>1. GraphInv => ShownIsFetched
  BY FetchedIsShown DEF GraphInv
<1> QED
  BY <1>1, GraphInvHolds, PTL

\* No drawing makes a bar higher than the graph, or a part higher than its total, although the
\* scale of the axis may be older than the data (BarsFit; displayManageMax, get_max, display.c).
THEOREM BarsAlwaysFit == GraphSpec => BarsFit
<1> DEFINE Bar == displayRedrawGraph =>
             \A k \in Columns : Living(k) /\ Kind(k) # "space" /\ ScaleOf(k) > 0 =>
               LET total == RowsOf(At(Kind(k), k).total, ScaleOf(k))
                   part == RowsOf(At(Kind(k), k).part, ScaleOf(k))
               IN  total <= Rows /\ (Kind(k) \in Parts => part <= total)
<1>1. GraphInv => Bar
  BY DrawingFits
<1>2. GraphInv /\ [GraphNext]_graphVars => [Bar]_graphVars
  BY <1>1
<1> QED
  BY <1>2, GraphInvHolds, PTL DEF GraphSpec, BarsFit
=============================================================================
