------------------------------ MODULE InfoVecOps ------------------------------
(***************************************************************************)
(* The information vector of one infod (src/infod/infoVec.c) as a value,   *)
(* and the functions of infoVec.c as operators from a vector to the vector *)
(* the call leaves behind.  A vector has one entry per node of the cluster *)
(* map and a window: the short list of entries that travels in the next    *)
(* gossip message.  gettimeofday() is the parameter now.                   *)
(*                                                                         *)
(* Time is counted in ticks; a tick stands for the microseconds between    *)
(* two instants the properties tell apart.  The payload of an entry is a   *)
(* value without structure, NoData once it has been zeroed.  Left out: a   *)
(* failed allocation, names, sizes, measurements, and hdr.cause, a second  *)
(* copy of the cause of death that nothing in infod reads back.            *)
(***************************************************************************)
EXTENDS Integers, Sequences, FiniteSetsExt, SequencesExt

CONSTANTS
  VSize,          \* vec->vsize: the nodes of the map
  WinType,        \* "fixed" (INFOVEC_WIN_FIXED) or "uptoage" (INFOVEC_WIN_UPTOAGE)
  WinParam,       \* winTypeParam: window length, or the age that still travels
  MsgRoom,        \* window entries that fit in the message buffer
  MaxAge,         \* vec->max_age
  Milli,          \* MILLI: ticks in one second
  AgeWrap,        \* 2^64: the range of the unsigned long an age is kept in
  DeadStartPrio,  \* vec->deadStartPrio, 1.386 * log2(vsize) rounded down
  LogSize,        \* INFOVEC_DEATH_LOG_SIZE
  ForwardCopy,    \* whether memcpy on overlapping ranges copies byte after byte
  Readings,       \* payloads of live nodes
  NoData          \* a zeroed payload

ASSUME VecAssumption ==
  /\ VSize \in Nat \ {0}
  /\ WinType \in {"fixed", "uptoage"}
  /\ WinParam \in Nat \ {0}
  /\ MsgRoom \in Nat
  /\ MaxAge \in Nat
  /\ Milli \in Nat \ {0}
  /\ AgeWrap \in Nat \ {0}
  /\ DeadStartPrio \in Nat
  /\ LogSize \in Nat \ {0}
  /\ ForwardCopy \in BOOLEAN
  /\ NoData \notin Readings

Idx == 0 .. VSize - 1
Unknown == -1                    \* infoVecFindByIP: the map has no such IP

\* The INFOD_* bits of include/info.h that hdr.status holds.
Alive        == "alive"
DeadInit     == "init"
DeadAge      == "age"
DeadConnect  == "connect"
DeadProvider == "provider"
DeadReset    == "reset"
DeadCauses   == {DeadInit, DeadAge, DeadConnect, DeadProvider, DeadReset}
Status       == DeadCauses \cup {Alive}

(***************************************************************************)
(* The window: slots 1 .. WinSize, each an index of the vector and the     *)
(* priority of that information, index Empty in a free slot.               *)
(***************************************************************************)
WinSizeMinusOne == IF WinType = "fixed" THEN 2 * WinParam - 2 ELSE VSize - 2   \* mutant
WinSize    == IF WinType = "fixed" THEN 2 * WinParam - 1 ELSE VSize
fixWinSize == WinParam - 1
uptoAge    == WinParam
Slots      == 1 .. WinSize
Empty      == -1
FreeSlot   == [index |-> Empty, prio |-> 0]
WinEntry   == [index : Idx \cup {Empty}, prio : Nat]

Entry == [time : Nat, dead : BOOLEAN, status : Status, data : Readings \cup {NoData}]

Vector == [localIndex : Idx, entry : [Idx -> Entry], win : [Slots -> WinEntry],
           numAlive : Int, localPrio : Nat, prevTime : Nat, deathLog : Seq(Idx)]

\* A record offered to infoVecUpdate: a node_info_t and the priority it came with.
Record == [index : Idx \cup {Unknown}, time : Nat, status : Status,
           data : Readings \cup {NoData}, prio : Nat]

\* The same in a message, where it has an age instead of a time.
WireRecord == [index : Idx, age : Nat, status : Status, data : Readings \cup {NoData},
               prio : Nat]

AliveIdx(v) == {i \in Idx : ~v.entry[i].dead}
InWindow(v, i) == \E k \in Slots : v.win[k].index = i

compute_age(t, cur) == (cur - t) % AgeWrap

ivec_init_entry(now) ==
  [time |-> now, dead |-> TRUE, status |-> DeadInit, data |-> NoData]

infoVecInit(local, now) ==
  [localIndex |-> local, entry |-> [i \in Idx |-> ivec_init_entry(now)],
   win |-> [k \in Slots |-> FreeSlot], numAlive |-> 0, localPrio |-> 0,
   prevTime |-> now, deathLog |-> <<>>]

-----------------------------------------------------------------------------
(***************************************************************************)
(* The window's order: -1 when a comes first, 1 when it gives way to b.    *)
(***************************************************************************)
ivec_win_cmp_OlderWins(v, a, b) ==   \* mutant: a tie keeps the entry already there
  IF \/ a.prio > b.prio
     \/ a.prio = b.prio /\ v.entry[a.index].time >= v.entry[b.index].time
  THEN -1 ELSE 1

ivec_win_cmp(v, a, b) ==
  IF \/ a.prio > b.prio
     \/ a.prio = b.prio /\ v.entry[a.index].time > v.entry[b.index].time
  THEN -1 ELSE 1

\* The slot that holds i, or the first free one, or the last one.
TargetSlot(v, i) == Min({k \in Slots : v.win[k].index \in {i, Empty}} \cup {WinSize})

\* e is stored in slot k and floats towards the first slot past all it beats.
Landing(v, k, e) ==
  Min({j \in 1 .. k : \A m \in j .. k - 1 : ivec_win_cmp(v, v.win[m], e) = 1})

FloatUp(v, k, e) ==
  [m \in Slots |-> IF m = Landing(v, k, e) THEN e
                   ELSE IF m \in Landing(v, k, e) + 1 .. k THEN v.win[m - 1]
                   ELSE v.win[m]]

\* A node already in the window at a positive priority keeps that priority.
DecayedPrio_Raised(v, k, i, prio) == prio   \* mutant: the rule is missing

DecayedPrio(v, k, i, prio) ==
  IF v.win[k].index = i /\ v.win[k].prio > 0 THEN v.win[k].prio ELSE prio

Rejected_LocalAllowed(v, k, e) ==   \* mutant: the local node is not kept out
  v.win[k].index # Empty /\ ivec_win_cmp(v, v.win[k], e) # 1

Rejected(v, k, e) ==
  \/ e.index = v.localIndex
  \/ v.win[k].index # Empty /\ ivec_win_cmp(v, v.win[k], e) # 1

ivec_update_win(v, i, prio) ==
  LET k == TargetSlot(v, i)
  IN  IF Rejected(v, k, [index |-> i, prio |-> prio]) THEN v
      ELSE [v EXCEPT !.win =
              FloatUp(v, k, [index |-> i, prio |-> DecayedPrio(v, k, i, prio)])]

-----------------------------------------------------------------------------
(***************************************************************************)
(* The death log.  A full log is shifted by a memcpy of overlapping ranges *)
(* and the new death replaces its last element.                            *)
(***************************************************************************)
ShiftedLog(log) ==
  [k \in 1 .. LogSize - 1 |-> IF k = 1 \/ ForwardCopy THEN log[1] ELSE log[k - 1]]

LogDeath(log, i) ==
  IF Len(log) < LogSize THEN Append(log, i) ELSE Append(ShiftedLog(log), i)

ivec_kill_entry(v, i) ==
  [v EXCEPT !.numAlive = @ - 1, !.entry[i].dead = TRUE, !.deathLog = LogDeath(@, i)]

\* A verdict reached by this infod itself: a failed connection, an old entry,
\* a provider that went away.
infoVecPunish(v, i, cause, now) ==
  IF i = Unknown THEN v
  ELSE IF v.entry[i].dead
  THEN [v EXCEPT !.entry[i].status = IF cause # DeadAge THEN cause ELSE @]
  ELSE LET w == [v EXCEPT !.entry[i] = [@ EXCEPT !.time = now, !.status = cause, !.data = NoData]]
       IN  ivec_update_win(ivec_kill_entry(w, i), i, DeadStartPrio)

\* One turn of the loops that answer a query; cur is the time the query began.
PunishIfOld(v, i, cur, now) ==
  IF i # Unknown /\ compute_age(v.entry[i].time, cur) > MaxAge
  THEN infoVecPunish(v, i, DeadAge, now) ELSE v

-----------------------------------------------------------------------------
ivec_reset_entry(now) ==
  [time |-> now, dead |-> TRUE, status |-> DeadReset, data |-> NoData]

ivec_reset_KeepCount(v, now) ==   \* mutant: numAlive is not cleared
  [v EXCEPT !.entry = [i \in Idx |-> ivec_reset_entry(now)],
            !.win = [k \in Slots |-> [index |-> 0, prio |-> 0]]]

\* The clock went back: everything is forgotten.  The slots are zeroed, so each
\* names entry 0 rather than Empty.
ivec_reset(v, now) ==
  [v EXCEPT !.entry = [i \in Idx |-> ivec_reset_entry(now)], !.numAlive = 0,
            !.win = [k \in Slots |-> [index |-> 0, prio |-> 0]]]

\* max_age counts seconds here.
Acceptable(u, now) ==
  /\ u.time <= now
  /\ now - MaxAge * Milli <= u.time
  /\ u.index # Unknown

IsNewer_Always(e, u) == TRUE   \* mutant: the last message wins

IsNewer(e, u) == e.time < u.time

CopyFields_NoStatus(v, u) ==   \* mutant: hdr.status is not among the copied fields
  [v EXCEPT !.entry[u.index] = [@ EXCEPT !.time = u.time, !.data = u.data]]

CopyFields(v, u) ==
  [v EXCEPT !.entry[u.index] = [@ EXCEPT !.time = u.time, !.status = u.status, !.data = u.data],
            !.localPrio = IF u.index = v.localIndex /\ u.prio > 0 THEN u.prio ELSE @]

BringToLife(v, i) == [v EXCEPT !.entry[i].dead = FALSE, !.numAlive = @ + 1]

StoreRecord(v, u) ==
  LET w == CopyFields(v, u)
      dead == v.entry[u.index].dead
      x == IF dead /\ u.status = Alive THEN BringToLife(w, u.index)
           ELSE IF ~dead /\ u.status # Alive THEN ivec_kill_entry(w, u.index)
           ELSE w
  IN  ivec_update_win(x, u.index, u.prio)

infoVecUpdate_NoReset(v, u, now) ==   \* mutant: a clock set back goes unnoticed
  LET w == [v EXCEPT !.prevTime = now]
  IN  IF Acceptable(u, now) /\ IsNewer(v.entry[u.index], u) THEN StoreRecord(w, u) ELSE w

infoVecUpdate(v, u, now) ==
  LET w == [v EXCEPT !.prevTime = now]
  IN  IF now < v.prevTime THEN ivec_reset(w, now)
      ELSE IF Acceptable(u, now) /\ IsNewer(v.entry[u.index], u) THEN StoreRecord(w, u)
      ELSE w

-----------------------------------------------------------------------------
(***************************************************************************)
(* The outgoing message: the local entry, then a prefix of the window.     *)
(***************************************************************************)
Sendable(v, k, now) ==
  /\ v.win[k].index # Empty
  /\ IF WinType = "fixed" THEN k <= fixWinSize
     ELSE \/ v.win[k].prio > 0
          \/ compute_age(v.entry[v.win[k].index].time, now) <= uptoAge

SentSlots(v, now) == {k \in Slots : k <= MsgRoom /\ \A j \in 1 .. k : Sendable(v, j, now)}

\* Each entry sent loses one of its priority.
LowerPrio(p) == IF p > 0 THEN p - 1 ELSE p

infoVecGetWindow(v, now) ==
  [v EXCEPT !.localPrio = LowerPrio(@),
            !.win = [k \in Slots |-> IF k \in SentSlots(v, now)
                                     THEN [v.win[k] EXCEPT !.prio = LowerPrio(@)]
                                     ELSE v.win[k]]]

\* Times travel as ages (ivec_time2age), so that the clocks of two nodes need not agree;
\* an entry carries the priority it had before this message lowered it.
SentRecord_Rounded(v, i, prio, now) ==   \* mutant: a part of a tick counts as a whole one
  [index |-> i, age |-> compute_age(v.entry[i].time, now) + 1, status |-> v.entry[i].status,
   data |-> v.entry[i].data, prio |-> prio]

SentRecord_Local(v, i, prio, now) ==   \* mutant: the payload sent is always the local one
  [index |-> i, age |-> compute_age(v.entry[i].time, now), status |-> v.entry[i].status,
   data |-> v.entry[v.localIndex].data, prio |-> prio]

SentRecord(v, i, prio, now) ==
  [index |-> i, age |-> compute_age(v.entry[i].time, now), status |-> v.entry[i].status,
   data |-> v.entry[i].data, prio |-> prio]

WindowMessage(v, now) ==
  <<SentRecord(v, v.localIndex, v.localPrio, now)>> \o
  [k \in 1 .. Cardinality(SentSlots(v, now)) |->
     SentRecord(v, v.win[k].index, v.win[k].prio, now)]

\* The receiver turns ages back into times of its own clock (ivec_age2time) and offers every
\* record but the one on itself to infoVecUpdate.
AsRecord(r, now) ==
  [index |-> r.index, time |-> now - r.age, status |-> r.status, data |-> r.data, prio |-> r.prio]

UseRecord_Self(w, r, now) ==   \* mutant: others may speak for this node
  infoVecUpdate(w, AsRecord(r, now), now)

UseRecord(w, r, now) ==
  IF r.index = w.localIndex THEN w ELSE infoVecUpdate(w, AsRecord(r, now), now)

infoVecUseRemoteWindow(v, msg, now) ==
  FoldLeft(LAMBDA w, r : UseRecord(w, r, now), v, msg)

-----------------------------------------------------------------------------
(***************************************************************************)
(* Partners: the nodes each search may return, none when it fails.         *)
(***************************************************************************)
ivec_get_any_rand_Known(v) == AliveIdx(v) \ {v.localIndex}   \* mutant: dead nodes never tried

ivec_get_any_rand(v) == Idx \ {v.localIndex}

ivec_get_rand_active(v) ==
  LET live_nodes == v.numAlive - (IF v.entry[v.localIndex].dead THEN 0 ELSE 1)
  IN  IF live_nodes <= 0 THEN {}
      ELSE IF v.numAlive = VSize THEN ivec_get_any_rand(v)
      ELSE AliveIdx(v) \ {v.localIndex}

\* The first of the live nodes whose information is the oldest, if it has any age.
infoVecOldestNode(v, now) ==
  LET age(i) == compute_age(v.entry[i].time, now)
      candidates == {i \in AliveIdx(v) \ {v.localIndex} : age(i) > 0}
  IN  {i \in candidates : \A j \in candidates \ {i} :
         age(j) < age(i) \/ (age(j) = age(i) /\ i < j)}

infoVecClearDeathLog(v) == [v EXCEPT !.deathLog = <<>>]

=============================================================================
