---------------------------- MODULE GossipProofs ----------------------------
(***************************************************************************)
(* What holds of a cluster of any size, whatever its clocks, its gossip    *)
(* algorithm, the delays of its network and the crashes of its nodes.      *)
(*                                                                         *)
(* The invariant dates everything by the common time: an entry lies        *)
(* between the start of the clock of its holder and now, no earlier than   *)
(* the reading it holds, and a record under way is as old as it says.      *)
(***************************************************************************)
EXTENDS Gossip, InfoVecOpsProofs

\* An entry held at common time c by a node whose clock is s ahead; exact: nothing was lost
\* on the way.
EntryOK(e, s, c, exact) ==
  /\ s <= e.time /\ e.time <= c + s
  /\ e.dead <=> e.status # Alive
  /\ e.dead <=> e.data = NoData
  /\ ~e.dead => e.data + s <= e.time /\ (exact => e.data + s = e.time)

VecOK(v, n, c) ==
  /\ v \in Vector /\ v.localIndex = n /\ v.prevTime <= c + Skew[n]
  /\ \A i \in Idx : EntryOK(v.entry[i], Skew[n], c, MaxDelay = 0 \/ i = n)

\* A record of a message sent at common time s.
RecordOK(r, s) ==
  /\ r.age <= s
  /\ r.status = Alive <=> r.data # NoData
  /\ r.status = Alive => r.data + r.age <= s /\ (MaxDelay = 0 => r.data + r.age = s)

MsgOK(m, c) ==
  /\ m \in Message /\ m.from # m.to
  /\ m.sent <= c /\ (MaxDelay = 0 => m.sent = c)
  /\ \A r \in ToSet(m.records) : RecordOK(r, m.sent)

NetOK(msgs, c) ==
  /\ IsFiniteSet(msgs) /\ Cardinality(msgs) <= MaxMsgs
  /\ \A m \in msgs : MsgOK(m, c)

IInv ==
  /\ now \in 0 .. MaxClock
  /\ up \subseteq Idx /\ stepped \subseteq Idx
  /\ pullCycle \in [Idx -> BOOLEAN]
  /\ vec \in [Idx -> Vector] /\ \A n \in Idx : VecOK(vec[n], n, now)
  /\ NetOK(net, now)

-----------------------------------------------------------------------------
(***************************************************************************)
(* What the calls of infoVec.c make of a vector whose times are right.     *)
(***************************************************************************)

\* The constants and the data of an entry, as the arithmetic below needs them.
LEMMA GossipConstants ==
  /\ MaxClock \in Nat /\ MaxDelay \in Nat /\ MaxMsgs \in Nat /\ AgeWrap \in Nat
  /\ MaxClock < AgeWrap /\ Readings \subseteq Nat /\ \A n \in Idx : Skew[n] \in Nat
BY GossipAssumption, VecAssumption

\* The fields of an entry of a vector; live readings are numbers.
LEMMA EntryFields ==
  ASSUME NEW v \in Vector, NEW i \in Idx
  PROVE  /\ v.entry[i].time \in Nat /\ v.entry[i].dead \in BOOLEAN
         /\ v.entry[i].status \in Status /\ v.entry[i].data \in Readings \cup {NoData}
         /\ v.entry[i].data # NoData => v.entry[i].data \in Nat
<1>1. v.entry[i] \in Entry
  BY VectorFields
<1> QED
  BY <1>1, GossipConstants DEF Entry

\* Every entry but n's own is the one v had or a verdict of death.
Keeps(v, w, n) == \A i \in Idx \ {n} : w.entry[i] = v.entry[i] \/ w.entry[i].dead

\* A punished vector is right and holds the others' entries as they were; the punished node
\* is dead.
LEMMA PunishOK ==
  ASSUME NEW n \in Idx, NEW c \in Nat, NEW v, VecOK(v, n, c), NEW i \in Idx,
         NEW cause \in DeadCauses
  PROVE  LET w == infoVecPunish(v, i, cause, c + Skew[n])
         IN  /\ VecOK(w, n, c) /\ w.entry[i].dead
             /\ \A j \in Idx \ {i} : w.entry[j] = v.entry[j]
<1> DEFINE t == c + Skew[n]
           w == infoVecPunish(v, i, cause, t)
           e == v.entry[i]
           f == w.entry[i]
<1>1. v \in Vector /\ v.localIndex = n /\ v.prevTime <= t
      /\ \A j \in Idx : EntryOK(v.entry[j], Skew[n], c, MaxDelay = 0 \/ j = n)
  BY DEF VecOK
<1>2. t \in Nat /\ Skew[n] \in Nat /\ Skew[n] <= t
  BY GossipConstants
<1> HIDE DEF t, w
<1>3. /\ OnlyEntry(v, w, i)
      /\ f.dead /\ f.status \in DeadCauses \cup {e.status}
      /\ e.dead => f.time = e.time /\ f.data = e.data
      /\ ~e.dead => f.time = t /\ f.data = NoData /\ f.status = cause
  BY <1>1, <1>2, PunishEffect DEF w
<1>4. /\ w \in Vector /\ w.localIndex = n /\ w.prevTime <= t
      /\ \A j \in Idx \ {i} : w.entry[j] = v.entry[j]
  BY <1>1, <1>3 DEF OnlyEntry
<1>5. EntryOK(f, Skew[n], c, MaxDelay = 0 \/ i = n)
  <2>1. EntryOK(e, Skew[n], c, MaxDelay = 0 \/ i = n)
    BY <1>1
  <2>2. CASE e.dead
    <3>1. f.status # Alive
      BY <1>3, <2>1, <2>2, StatusFacts DEF EntryOK
    <3> QED BY <1>3, <2>1, <2>2, <3>1 DEF EntryOK
  <2>3. CASE ~e.dead
    <3>1. f.status # Alive
      BY <1>3, <2>3, StatusFacts
    <3> QED BY <1>2, <1>3, <2>3, <3>1 DEF EntryOK, t
  <2> QED BY <2>2, <2>3
<1>6. VecOK(w, n, c)
  BY <1>1, <1>4, <1>5 DEF VecOK, t
<1> QED
  BY <1>3, <1>4, <1>6 DEF w, t

\* Only the entries and the clock of the last call matter, so taking the window changes
\* nothing of this.
LEMMA WindowOK ==
  ASSUME NEW n \in Idx, NEW c \in Nat, NEW v, VecOK(v, n, c)
  PROVE  LET w == infoVecGetWindow(v, c + Skew[n])
         IN  VecOK(w, n, c) /\ w.entry = v.entry
<1> DEFINE w == infoVecGetWindow(v, c + Skew[n])
<1>1. /\ w \in Vector /\ w.localIndex = v.localIndex /\ w.prevTime = v.prevTime
      /\ w.entry = v.entry
  BY GetWindowEffect DEF VecOK
<1> HIDE DEF w
<1>2. VecOK(w, n, c)
  BY <1>1 DEF VecOK
<1> QED
  BY <1>1, <1>2 DEF w

\* Time passes: what was right stays right.
LEMMA LaterOK ==
  ASSUME NEW n \in Idx, NEW c \in Nat, NEW v, VecOK(v, n, c)
  PROVE  VecOK(v, n, c + 1)
<1>1. v \in Vector /\ v.prevTime \in Nat /\ Skew[n] \in Nat
  BY GossipConstants DEF VecOK, Vector
<1>2. v.prevTime <= (c + 1) + Skew[n]
  BY <1>1 DEF VecOK
<1>3. ASSUME NEW i \in Idx
      PROVE  EntryOK(v.entry[i], Skew[n], c + 1, MaxDelay = 0 \/ i = n)
  <2>1. EntryOK(v.entry[i], Skew[n], c, MaxDelay = 0 \/ i = n)
    BY DEF VecOK
  <2>2. v.entry[i].time \in Nat
    BY <1>1, EntryFields
  <2>3. v.entry[i].time <= (c + 1) + Skew[n]
    BY <1>1, <2>1, <2>2 DEF EntryOK
  <2> QED BY <2>1, <2>3 DEF EntryOK
<1> QED
  BY <1>2, <1>3 DEF VecOK

\* A node that starts is right, and holds everyone, itself included, for dead.
LEMMA StartOK ==
  ASSUME NEW n \in Idx, now \in Nat
  PROVE  /\ VecOK(info_setup(n), n, now)
         /\ \A i \in Idx : info_setup(n).entry[i].dead
<1> DEFINE t == now + Skew[n]
           v == infoVecInit(n, t)
           w == infoVecPunish(v, n, DeadProvider, t)
<1>1. t \in Nat /\ Skew[n] \in Nat /\ Skew[n] <= t
  BY GossipConstants
<1>2. /\ v \in Vector /\ v.localIndex = n /\ v.prevTime = t
      /\ \A i \in Idx : /\ v.entry[i].dead /\ v.entry[i].status \in DeadCauses
                        /\ v.entry[i].data = NoData /\ v.entry[i].time = t
  BY <1>1, InitVector
<1> HIDE DEF v
<1>3. VecOK(v, n, now)
  <2>1. \A i \in Idx : v.entry[i].status # Alive
    BY <1>2, StatusFacts
  <2> QED BY <1>1, <1>2, <2>1 DEF VecOK, EntryOK
<1>4. DeadProvider \in DeadCauses
  BY DEF DeadCauses
<1>5. /\ VecOK(w, n, now) /\ w.entry[n].dead
      /\ \A j \in Idx \ {n} : w.entry[j] = v.entry[j]
  BY <1>3, <1>4, PunishOK
<1>6. info_setup(n) = w
  BY DEF info_setup, Clock, v
<1> QED
  BY <1>2, <1>5, <1>6

\* Asked for a reading, the provider gives one made now or the node is marked dead; what is
\* known of the others stays.
LEMMA RefreshedOK ==
  ASSUME NEW n \in Idx, now \in 0 .. MaxClock, VecOK(vec[n], n, now), NEW w \in Refreshed(n)
  PROVE  /\ VecOK(w, n, now)
         /\ w.entry[n].dead \/ w.entry[n].data = now
         /\ \A i \in Idx \ {n} : w.entry[i] = vec[n].entry[i]
<1> DEFINE v == vec[n]
           t == now + Skew[n]
           u == [index |-> n, time |-> t, status |-> Alive, data |-> now, prio |-> 0]
           x == infoVecUpdate(v, u, t)
<1>1. /\ t \in Nat /\ Skew[n] \in Nat /\ Skew[n] <= t /\ now \in Nat
      /\ now + Skew[n] = t /\ Clock(n) = t
  BY GossipConstants DEF Clock
<1>2. w \in {x, infoVecPunish(v, n, DeadProvider, t)}
  BY <1>1 DEF Refreshed
<1>3. CASE w = infoVecPunish(v, n, DeadProvider, t)
  <2>1. DeadProvider \in DeadCauses
    BY DEF DeadCauses
  <2> QED BY <1>1, <1>3, <2>1, PunishOK
<1>4. CASE w = x
  <2>1. u \in Record /\ u.index = n /\ u.time = t /\ u.status = Alive /\ u.data = now
    BY <1>1, StatusFacts, GossipAssumption DEF Record
  <2>2. now # NoData
    BY VecAssumption, GossipAssumption
  <2>3. n # Unknown
    BY VecAssumption DEF Idx, Unknown
  <2>4. v \in Vector /\ v.localIndex = n /\ v.prevTime <= t
        /\ \A i \in Idx : EntryOK(v.entry[i], Skew[n], now, MaxDelay = 0 \/ i = n)
    BY DEF VecOK
  <2>5. v.prevTime \in Nat
    BY <2>4 DEF Vector
  <2>6. v.entry[n].time < t => x.entry[n].time = t
    <3> HIDE DEF u, v, t
    <3> QED BY <1>1, <2>1, <2>3, <2>4, FreshStored
  <2> HIDE DEF u, x, t
  <2>7. /\ x \in Vector /\ x.localIndex = n /\ x.prevTime = t
        /\ WasReset(v, x, t) \/ TurnedAway(v, x, t) \/ Stored(v, x, u, t)
    BY <1>1, <2>1, <2>4, UpdateEffect DEF x
  <2> HIDE DEF v
  <2>8. CASE WasReset(v, x, t)
    BY <2>4, <2>5, <2>8, <1>1 DEF WasReset
  <2>9. CASE TurnedAway(v, x, t)
    <3>1. x.entry = v.entry
      BY <2>9 DEF TurnedAway
    <3>2. EntryOK(v.entry[n], Skew[n], now, TRUE)
      BY <2>4 DEF EntryOK
    <3>3. v.entry[n].time \in Nat /\ (v.entry[n].data # NoData => v.entry[n].data \in Nat)
      BY <2>4, EntryFields
    <3>4. v.entry[n].time = t
      <4>1. v.entry[n].time <= t
        BY <1>1, <3>2 DEF EntryOK
      <4> QED BY <1>1, <2>6, <3>1, <3>3, <4>1
    <3>5. v.entry[n].dead \/ v.entry[n].data = now
      BY <1>1, <3>2, <3>3, <3>4 DEF EntryOK
    <3>6. VecOK(x, n, now)
      BY <1>1, <2>4, <2>7, <3>1 DEF VecOK
    <3> QED BY <1>4, <3>1, <3>5, <3>6 DEF v
  <2>10. CASE Stored(v, x, u, t)
    <3>1. /\ \A j \in Idx \ {n} : x.entry[j] = v.entry[j]
          /\ x.entry[n].time = t /\ x.entry[n].status = Alive /\ x.entry[n].data = now
          /\ x.entry[n].dead <=> Alive # Alive
      BY <2>1, <2>10 DEF Stored
    <3>2. EntryOK(x.entry[n], Skew[n], now, TRUE)
      BY <1>1, <2>2, <3>1 DEF EntryOK
    <3>3. \A i \in Idx : EntryOK(x.entry[i], Skew[n], now, MaxDelay = 0 \/ i = n)
      BY <2>4, <3>1, <3>2
    <3>4. VecOK(x, n, now)
      BY <1>1, <2>7, <3>3 DEF VecOK
    <3> QED BY <1>4, <3>1, <3>4 DEF v
  <2> QED BY <2>7, <2>8, <2>9, <2>10
<1> QED
  BY <1>2, <1>3, <1>4

\* The live records of m say what v holds for true.
Tells(v, m) ==
  \A r \in LiveRecords(m) :
    r.index \in Idx /\ ~v.entry[r.index].dead /\ r.data = v.entry[r.index].data

\* A window sent: the ages of its records are those of the entries, counted in common time.
LEMMA InfoOK ==
  ASSUME NEW n \in Idx, NEW p \in Idx, n # p, now \in 0 .. MaxClock, NEW v, VecOK(v, n, now)
  PROVE  MsgOK(Info(n, p, v), now) /\ Tells(v, Info(n, p, v))
<1> DEFINE t == now + Skew[n]
           msg == WindowMessage(v, t)
           m == Info(n, p, v)
<1>1. /\ t \in Nat /\ Skew[n] \in Nat /\ now \in Nat
      /\ now + Skew[n] = t /\ Clock(n) = t
  BY GossipConstants DEF Clock
<1>2. v \in Vector
  BY DEF VecOK
<1> HIDE DEF t
<1>3. /\ msg \in Seq(WireRecord)
      /\ \A r \in ToSet(msg) : \E i \in Idx, prio \in Nat : r = SentRecord(v, i, prio, t)
  BY <1>1, <1>2, MessageRecords
<1>4. /\ m.kind = "info" /\ m.from = n /\ m.to = p /\ m.sent = now /\ m.records = msg
      /\ m = [kind |-> "info", from |-> n, to |-> p, sent |-> now, records |-> msg]
  BY <1>1 DEF Info
<1> HIDE DEF msg, m
<1>5. m \in Message
  BY <1>3, <1>4 DEF Message
<1>6. ASSUME NEW r \in ToSet(msg)
      PROVE  /\ RecordOK(r, now)
             /\ r.status = Alive =>
                  r.index \in Idx /\ ~v.entry[r.index].dead /\ r.data = v.entry[r.index].data
  <2>1. PICK i \in Idx, prio \in Nat : r = SentRecord(v, i, prio, t)
    BY <1>3
  <2> DEFINE e == v.entry[i]
  <2>2. r.index = i /\ r.age = compute_age(e.time, t) /\ r.status = e.status /\ r.data = e.data
    BY <2>1 DEF SentRecord
  <2>3. /\ e.time \in Nat /\ e.dead \in BOOLEAN
        /\ e.data # NoData => e.data \in Nat
    BY <1>2, EntryFields
  <2>4. EntryOK(e, Skew[n], now, MaxDelay = 0 \/ i = n)
    BY DEF VecOK
  <2> HIDE DEF e
  <2>5. t - e.time \in 0 .. now
    BY <1>1, <2>3, <2>4 DEF EntryOK
  <2>6. compute_age(e.time, t) = t - e.time
    <3> DEFINE a == t - e.time
    <3>1. a \in Nat /\ a < AgeWrap /\ AgeWrap \in Nat
      BY <1>1, <2>5, GossipConstants
    <3> HIDE DEF a
    <3>2. a % AgeWrap = a
      BY <3>1
    <3> QED BY <3>2 DEF compute_age, a
  <2>7. RecordOK(r, now)
    BY <1>1, <2>2, <2>3, <2>4, <2>5, <2>6 DEF EntryOK, RecordOK
  <2>8. r.status = Alive => ~e.dead
    BY <2>2, <2>4 DEF EntryOK
  <2> QED BY <2>2, <2>7, <2>8 DEF e
<1>7. MsgOK(m, now)
  BY <1>1, <1>4, <1>5, <1>6 DEF MsgOK
<1>8. Tells(v, m)
  BY <1>4, <1>6 DEF Tells, LiveRecords
<1> QED
  BY <1>7, <1>8 DEF m

\* A request for a window carries nothing.
LEMMA PullOK ==
  ASSUME NEW n \in Idx, NEW p \in Idx, n # p, now \in 0 .. MaxClock, NEW v
  PROVE  MsgOK(Pull(n, p), now) /\ Tells(v, Pull(n, p))
<1> DEFINE m == Pull(n, p)
<1>1. now \in Nat /\ <<>> \in Seq(WireRecord) /\ ToSet(<<>>) = {}
  BY GossipConstants DEF ToSet
<1>2. /\ m.kind = "pull" /\ m.from = n /\ m.to = p /\ m.sent = now /\ m.records = <<>>
      /\ m \in Message
  BY <1>1 DEF Pull, Message
<1> HIDE DEF m
<1>3. MsgOK(m, now) /\ Tells(v, m)
  BY <1>1, <1>2 DEF MsgOK, Tells, LiveRecords
<1> QED
  BY <1>3 DEF m

\* A window received: nothing is thought older than it is, and what changes is newer news,
\* never on the receiver itself.
LEMMA HeardOK ==
  ASSUME NEW m, MsgOK(m, now), now \in 0 .. MaxClock, NEW v, VecOK(v, m.to, now)
  PROVE  LET n == m.to
             w == infoVecUseRemoteWindow(v, m.records, Clock(n))
         IN  /\ VecOK(w, n, now)
             /\ \A i \in Idx : \/ w.entry[i] = v.entry[i]
                               \/ /\ i # n
                                  /\ \E r \in ToSet(m.records) :
                                       r.index = i /\ Learnt(v.entry[i], w.entry[i], r, Clock(n))
<1> DEFINE n == m.to
           t == Clock(n)
           w == infoVecUseRemoteWindow(v, m.records, t)
<1>1. m.records \in Seq(WireRecord) /\ n \in Idx /\ m.sent \in 0 .. MaxClock
  BY DEF MsgOK, Message
<1>2. /\ t \in Nat /\ Skew[n] \in Nat /\ now \in Nat /\ now <= t
      /\ t = now + Skew[n]
  BY <1>1, GossipConstants DEF Clock
<1>3. m.sent \in Nat /\ m.sent <= now /\ (MaxDelay = 0 => m.sent = now)
      /\ \A r \in ToSet(m.records) : RecordOK(r, m.sent)
  BY <1>1, GossipConstants DEF MsgOK
<1>4. \A r \in ToSet(m.records) : r \in WireRecord
  BY <1>1 DEF ToSet
<1>5. \A r \in ToSet(m.records) : r.age <= t
  BY <1>2, <1>3, <1>4 DEF RecordOK, WireRecord
<1>6. v \in Vector /\ v.localIndex = n /\ v.prevTime <= t
      /\ \A i \in Idx : EntryOK(v.entry[i], Skew[n], now, MaxDelay = 0 \/ i = n)
  BY <1>2 DEF VecOK
<1> HIDE DEF n, t, w
<1>7. /\ w \in Vector /\ w.localIndex = n /\ w.prevTime <= t
      /\ \A i \in Idx : \/ w.entry[i] = v.entry[i]
                        \/ /\ i # n
                           /\ \E r \in ToSet(m.records) :
                                r.index = i /\ Learnt(v.entry[i], w.entry[i], r, t)
  <2>1. WindowUsed(v, m.records, t, w)
    BY <1>1, <1>2, <1>5, <1>6, UseWindowEffect DEF w
  <2> QED BY <1>6, <2>1 DEF WindowUsed
<1>8. ASSUME NEW i \in Idx
      PROVE  EntryOK(w.entry[i], Skew[n], now, MaxDelay = 0 \/ i = n)
  <2>1. CASE w.entry[i] = v.entry[i]
    BY <1>6, <2>1
  <2>2. CASE w.entry[i] # v.entry[i]
    <3>1. PICK r \in ToSet(m.records) :
            i # n /\ r.index = i /\ Learnt(v.entry[i], w.entry[i], r, t)
      BY <1>7, <2>2
    <3> DEFINE f == w.entry[i]
    <3>2. /\ f.time = t - r.age /\ f.status = r.status /\ f.data = r.data
          /\ f.dead <=> f.status # Alive
      BY <3>1 DEF Learnt
    <3>3. RecordOK(r, m.sent) /\ r.age \in Nat
      BY <1>3, <1>4 DEF WireRecord
    <3>4. f.data # NoData => f.data \in Nat
      BY <1>7, EntryFields
    <3> HIDE DEF f
    <3>5. EntryOK(f, Skew[n], now, MaxDelay = 0)
      BY <1>2, <1>3, <3>2, <3>3, <3>4 DEF EntryOK, RecordOK
    <3> QED BY <3>1, <3>5 DEF f
  <2> QED BY <2>1, <2>2
<1>9. VecOK(w, n, now)
  BY <1>2, <1>7, <1>8 DEF VecOK
<1> QED
  BY <1>7, <1>9 DEF w, t, n

\* No gossip algorithm picks the node itself for a partner.
LEMMA PartnerOK ==
  ASSUME NEW n \in Idx, NEW v, v.localIndex = n, NEW t, NEW cycle \in BOOLEAN,
         NEW c \in AlgoStep(v, t, cycle)
  PROVE  /\ c.kind \in {"info", "pull"} /\ c.cycle \in BOOLEAN
         /\ c.to \in (Idx \ {n}) \cup {NoOne}
<1>1. \A kind \in {"info", "pull"}, S \in SUBSET (Idx \ {n}), b \in BOOLEAN :
        \A d \in Choice(kind, S, b) :
          /\ d.kind \in {"info", "pull"} /\ d.cycle \in BOOLEAN
          /\ d.to \in (Idx \ {n}) \cup {NoOne}
  BY DEF Choice
<1>2. ivec_get_any_rand(v) \in SUBSET (Idx \ {n})
  BY DEF ivec_get_any_rand
<1>3. ivec_get_rand_active(v) \in SUBSET (Idx \ {n})
  BY <1>2 DEF ivec_get_rand_active, AliveIdx
<1>4. infoVecOldestNode(v, t) \in SUBSET (Idx \ {n})
  BY DEF infoVecOldestNode, AliveIdx
<1>5. \E kind \in {"info", "pull"}, b \in BOOLEAN,
         S \in {ivec_get_any_rand(v), ivec_get_rand_active(v), infoVecOldestNode(v, t)} :
        c \in Choice(kind, S, b)
  <2>1. AlgoStep(v, t, cycle) \in {gossipAlgoRegular_step(v, cycle),
                                   gossipAlgoMinDead_step(v, cycle),
                                   gossipAlgoPushPull_step(v, t, cycle)}
    BY DEF AlgoStep
  <2>2. c \in gossipAlgoRegular_step(v, cycle) \/ c \in gossipAlgoMinDead_step(v, cycle)
        \/ c \in gossipAlgoPushPull_step(v, t, cycle)
    BY <2>1
  <2> QED BY <2>2 DEF gossipAlgoRegular_step, gossipAlgoMinDead_step, gossipAlgoPushPull_step
<1> QED
  BY <1>1, <1>2, <1>3, <1>4, <1>5

-----------------------------------------------------------------------------
(***************************************************************************)
(* What a step does to the vectors and to the network.                     *)
(***************************************************************************)

\* Messages leave the network, or one enters it that says what v holds and comes from n.
NetGains(old, new, v, n) ==
  \/ new \subseteq old
  \/ \E m : /\ new \subseteq old \cup {m} /\ IsFiniteSet(new) /\ Cardinality(new) <= MaxMsgs
            /\ MsgOK(m, now) /\ Tells(v, m)

\* The network stays right.
LEMMA NetStays ==
  ASSUME NEW new, NEW v, NEW n, NetOK(net, now), NetGains(net, new, v, n)
  PROVE  NetOK(new, now)
<1>1. CASE new \subseteq net
  <2>1. IsFiniteSet(new) /\ Cardinality(new) <= Cardinality(net)
    BY <1>1, FS_Subset DEF NetOK
  <2>2. Cardinality(new) \in Nat /\ Cardinality(net) \in Nat /\ MaxMsgs \in Nat
    BY <2>1, FS_CardinalityType, GossipConstants DEF NetOK
  <2> QED BY <1>1, <2>1, <2>2 DEF NetOK
<1>2. CASE ~(new \subseteq net)
  BY <1>2 DEF NetOK, NetGains
<1> QED
  BY <1>1, <1>2

\* doTimeStep: the node measures itself, may give others up, may send what it then holds.
LEMMA TimeStepEffect ==
  ASSUME IInv, NEW n \in Idx, NEW p \in Idx \cup {NoOne}, TimeStep(n, p)
  PROVE  \E w : /\ vec' = [vec EXCEPT ![n] = w]
                /\ VecOK(w, n, now) /\ Keeps(vec[n], w, n)
                /\ w.entry[n].dead \/ w.entry[n].data = now
                /\ NetGains(net, net', w, n)
                /\ pullCycle' \in [Idx -> BOOLEAN]
<1>1. VecOK(vec[n], n, now) /\ now \in 0 .. MaxClock /\ now \in Nat /\ pullCycle[n] \in BOOLEAN
      /\ NetOK(net, now) /\ Clock(n) = now + Skew[n]
  BY GossipConstants DEF IInv, Clock
<1> DEFINE W(v, c) == IF c.kind = "info" /\ p # NoOne THEN infoVecGetWindow(v, Clock(n)) ELSE v
           M(v, c) == IF c.kind = "info" THEN Info(n, p, v) ELSE Pull(n, p)
           X(v, c) == infoVecPunish(W(v, c), p, DeadConnect, Clock(n))
           Outcome(v, c) ==
             /\ c.to = p
             /\ pullCycle' = [pullCycle EXCEPT ![n] = c.cycle]
             /\ \/ p = NoOne /\ vec' = [vec EXCEPT ![n] = W(v, c)] /\ UNCHANGED net
                \/ /\ p # NoOne /\ Cardinality(net \cup {M(v, c)}) <= MaxMsgs
                   /\ vec' = [vec EXCEPT ![n] = W(v, c)]
                   /\ net' = net \cup {M(v, c)}
                \/ /\ p # NoOne /\ MayBeReportedDown(p)
                   /\ vec' = [vec EXCEPT ![n] = X(v, c)]
                   /\ UNCHANGED net
<1>2. PICK v \in Refreshed(n) : \E c \in AlgoStep(v, Clock(n), pullCycle[n]) : Outcome(v, c)
  BY Zenon DEF TimeStep
<1>3. PICK c \in AlgoStep(v, Clock(n), pullCycle[n]) : Outcome(v, c)
  BY <1>2, Zenon
<1> DEFINE w == W(v, c)
           m == M(v, c)
           x == X(v, c)
<1>4. /\ VecOK(v, n, now)
      /\ v.entry[n].dead \/ v.entry[n].data = now
      /\ \A i \in Idx \ {n} : v.entry[i] = vec[n].entry[i]
  BY <1>1, RefreshedOK
<1>5. VecOK(w, n, now) /\ w.entry = v.entry
  <2>1. LET u == infoVecGetWindow(v, Clock(n)) IN VecOK(u, n, now) /\ u.entry = v.entry
    BY <1>1, <1>4, WindowOK
  <2> QED BY <1>4, <2>1
<1>6. c.cycle \in BOOLEAN /\ p \in (Idx \ {n}) \cup {NoOne}
  <2>1. v.localIndex = n
    BY <1>4 DEF VecOK
  <2>2. c.cycle \in BOOLEAN /\ c.to \in (Idx \ {n}) \cup {NoOne}
    BY <1>1, <2>1, PartnerOK
  <2> QED BY <1>3, <2>2
<1>7. pullCycle' \in [Idx -> BOOLEAN]
  <2>1. pullCycle' = [pullCycle EXCEPT ![n] = c.cycle]
    BY <1>3
  <2> QED BY <1>6, <2>1 DEF IInv
<1>8. p # NoOne => p \in Idx /\ p # n /\ MsgOK(m, now) /\ Tells(w, m)
  <2> SUFFICES ASSUME p # NoOne PROVE p \in Idx /\ p # n /\ MsgOK(m, now) /\ Tells(w, m)
    OBVIOUS
  <2>1. p \in Idx /\ p # n
    BY <1>6
  <2>2. MsgOK(Info(n, p, v), now) /\ Tells(v, Info(n, p, v))
    BY <1>1, <1>4, <2>1, InfoOK
  <2>3. MsgOK(Pull(n, p), now) /\ Tells(v, Pull(n, p))
    BY <1>1, <2>1, PullOK
  <2>4. MsgOK(m, now) /\ Tells(v, m)
    BY <2>2, <2>3
  <2> HIDE DEF w, m
  <2> QED BY <1>5, <2>1, <2>4 DEF Tells
<1>9. \/ vec' = [vec EXCEPT ![n] = w] /\ net' = net
      \/ /\ p # NoOne /\ Cardinality(net \cup {m}) <= MaxMsgs
         /\ vec' = [vec EXCEPT ![n] = w] /\ net' = net \cup {m}
      \/ /\ p # NoOne
         /\ vec' = [vec EXCEPT ![n] = x] /\ net' = net
  BY <1>3
<1> HIDE DEF w, m, W, M
<1>10. Keeps(vec[n], w, n) /\ (w.entry[n].dead \/ w.entry[n].data = now)
  BY <1>4, <1>5 DEF Keeps
<1>11. CASE vec' = [vec EXCEPT ![n] = w] /\ net' = net
  BY <1>5, <1>7, <1>10, <1>11 DEF NetGains
<1>12. CASE /\ p # NoOne /\ Cardinality(net \cup {m}) <= MaxMsgs
            /\ vec' = [vec EXCEPT ![n] = w] /\ net' = net \cup {m}
  <2>1. IsFiniteSet(net \cup {m})
    BY <1>1, FS_AddElement DEF NetOK
  <2>2. NetGains(net, net', w, n)
    BY <1>8, <1>12, <2>1 DEF NetGains
  <2> QED BY <1>5, <1>7, <1>10, <1>12, <2>2
<1>13. CASE p # NoOne /\ vec' = [vec EXCEPT ![n] = x] /\ net' = net
  <2>1. DeadConnect \in DeadCauses
    BY DEF DeadCauses
  <2>2. /\ VecOK(x, n, now) /\ x.entry[p].dead
        /\ \A j \in Idx \ {p} : x.entry[j] = w.entry[j]
    <3>1. p \in Idx /\ x = infoVecPunish(w, p, DeadConnect, now + Skew[n])
      BY <1>1, <1>8, <1>13 DEF w
    <3> HIDE DEF x
    <3> QED BY <1>1, <1>5, <2>1, <3>1, PunishOK
  <2> HIDE DEF x
  <2>3. Keeps(vec[n], x, n) /\ (x.entry[n].dead \/ x.entry[n].data = now)
    BY <1>8, <1>10, <1>13, <2>2 DEF Keeps
  <2>4. NetGains(net, net', x, n)
    BY <1>13 DEF NetGains
  <2> QED BY <1>7, <1>13, <2>2, <2>3, <2>4
<1> QED
  BY <1>9, <1>11, <1>12, <1>13

\* What the holder of v may know of others after message m has reached it.
HearsFrom(v, w, n, m) ==
  \A i \in Idx : \/ w.entry[i] = v.entry[i]
                 \/ i # n /\ w.entry[i].dead
                 \/ /\ i # n
                    /\ \E r \in ToSet(m.records) :
                         r.index = i /\ Learnt(v.entry[i], w.entry[i], r, Clock(n))

\* handle_info and handle_info_pull.
LEMMA ReceiveEffect ==
  ASSUME IInv, NEW m \in net, Receive(m)
  PROVE  \E w : /\ vec' = [vec EXCEPT ![m.to] = w]
                /\ VecOK(w, m.to, now) /\ HearsFrom(vec[m.to], w, m.to, m)
                /\ NetGains(net, net', vec[m.to], m.to)
<1> DEFINE n == m.to
           v == vec[n]
           a == Info(n, m.from, v)
           x == infoVecUseRemoteWindow(v, m.records, Clock(n))
           y == infoVecGetWindow(v, Clock(n))
<1>1. /\ MsgOK(m, now) /\ now \in 0 .. MaxClock /\ now \in Nat /\ NetOK(net, now)
      /\ n \in Idx /\ m.from \in Idx /\ m.from # n
  <2>1. now \in 0 .. MaxClock /\ NetOK(net, now)
    BY DEF IInv
  <2>2. MsgOK(m, now)
    BY <2>1 DEF NetOK
  <2>3. n \in Idx /\ m.from \in Idx /\ m.from # n
    BY <2>2 DEF MsgOK, Message
  <2> QED BY <2>1, <2>2, <2>3, GossipConstants
<1>2. VecOK(v, n, now) /\ Clock(n) = now + Skew[n]
  BY <1>1 DEF IInv, Clock
<1>3. \/ vec' = [vec EXCEPT ![n] = x] /\ net' = net \ {m}
      \/ vec' = [vec EXCEPT ![n] = y] /\ net' = (net \ {m}) \cup {a}
  BY DEF Receive
<1> HIDE DEF v, a
<1>4. CASE vec' = [vec EXCEPT ![n] = x] /\ net' = net \ {m}
  <2>1. /\ VecOK(x, n, now)
        /\ \A i \in Idx : \/ x.entry[i] = v.entry[i]
                          \/ /\ i # n
                             /\ \E r \in ToSet(m.records) :
                                  r.index = i /\ Learnt(v.entry[i], x.entry[i], r, Clock(n))
    BY <1>1, <1>2, HeardOK
  <2> HIDE DEF x
  <2>2. HearsFrom(v, x, n, m)
    BY <2>1 DEF HearsFrom
  <2>3. NetGains(net, net', v, n)
    BY <1>4 DEF NetGains
  <2> QED BY <1>4, <2>1, <2>2, <2>3 DEF v
<1>5. CASE vec' = [vec EXCEPT ![n] = y] /\ net' = (net \ {m}) \cup {a}
  <2>1. VecOK(y, n, now) /\ y.entry = v.entry
    BY <1>1, <1>2, WindowOK
  <2> HIDE DEF y
  <2>2. HearsFrom(v, y, n, m)
    BY <2>1 DEF HearsFrom
  <2>3. MsgOK(a, now) /\ Tells(v, a)
    BY <1>1, <1>2, InfoOK DEF a
  <2>4. IsFiniteSet(net') /\ Cardinality(net') <= MaxMsgs
    <3>1. /\ IsFiniteSet(net \ {m}) /\ Cardinality(net \ {m}) = Cardinality(net) - 1
          /\ Cardinality(net) \in Nat
      BY <1>1, FS_RemoveElement, FS_CardinalityType DEF NetOK
    <3> DEFINE rest == net \ {m}
    <3> HIDE DEF rest
    <3>2. /\ IsFiniteSet(rest \cup {a})
          /\ Cardinality(rest \cup {a}) \in {Cardinality(rest), Cardinality(rest) + 1}
      BY <3>1, FS_AddElement DEF rest
    <3>3. Cardinality(net) <= MaxMsgs /\ MaxMsgs \in Nat
      BY <1>1, GossipConstants DEF NetOK
    <3>4. net' = rest \cup {a}
      BY <1>5 DEF rest
    <3>5. Cardinality(rest) = Cardinality(net) - 1
      BY <3>1 DEF rest
    <3>6. Cardinality(net') <= MaxMsgs
      BY <3>1, <3>2, <3>3, <3>4, <3>5
    <3> QED BY <3>2, <3>4, <3>6
  <2>5. NetGains(net, net', v, n)
    BY <1>5, <2>3, <2>4 DEF NetGains
  <2> QED BY <1>5, <2>1, <2>2, <2>5 DEF v
<1> QED
  BY <1>3, <1>4, <1>5

\* send_inpr_info, when a message is, or is only reported, lost.
LEMMA FailureEffect ==
  ASSUME IInv, NEW m \in net, SendFails(m) \/ SendStalls(m)
  PROVE  \E w : /\ vec' = [vec EXCEPT ![m.from] = w]
                /\ VecOK(w, m.from, now) /\ HearsFrom(vec[m.from], w, m.from, m)
                /\ net' \subseteq net
<1> DEFINE n == m.from
           v == vec[n]
           w == infoVecPunish(v, m.to, DeadConnect, Clock(n))
<1>1. /\ now \in Nat /\ n \in Idx /\ m.to \in Idx /\ m.to # n
  BY GossipConstants DEF IInv, NetOK, MsgOK, Message
<1>2. VecOK(v, n, now) /\ Clock(n) = now + Skew[n]
  BY <1>1 DEF IInv, Clock
<1>3. vec' = [vec EXCEPT ![n] = w] /\ net' \subseteq net
  BY DEF SendFails, SendStalls
<1>4. DeadConnect \in DeadCauses
  BY DEF DeadCauses
<1> HIDE DEF v
<1>5. /\ VecOK(w, n, now) /\ w.entry[m.to].dead
      /\ \A j \in Idx \ {m.to} : w.entry[j] = v.entry[j]
  BY <1>1, <1>2, <1>4, PunishOK
<1> HIDE DEF w
<1>6. HearsFrom(v, w, n, m)
  BY <1>1, <1>5 DEF HearsFrom
<1> QED
  BY <1>3, <1>5, <1>6 DEF v

-----------------------------------------------------------------------------
\* The invariant holds at the start.
LEMMA InvInit == Init => IInv
<1> SUFFICES ASSUME Init PROVE IInv
  OBVIOUS
<1>1. now = 0 /\ up = Idx /\ stepped = Idx /\ net = {} /\ 0 \in 0 .. MaxClock
      /\ vec = [n \in Idx |-> info_setup(n)] /\ pullCycle \in [Idx -> BOOLEAN]
  BY GossipConstants DEF Init
<1>2. \A n \in Idx : VecOK(info_setup(n), n, now)
  BY <1>1, StartOK
<1>3. \A n \in Idx : vec[n] = info_setup(n)
  BY <1>1
<1>4. \A n \in Idx : VecOK(vec[n], n, now)
  BY <1>2, <1>3
<1>5. vec \in [Idx -> Vector]
  <2>1. \A n \in Idx : vec[n] \in Vector
    BY <1>4 DEF VecOK
  <2>2. vec = [n \in Idx |-> vec[n]]
    BY <1>1
  <2> QED BY <2>1, <2>2
<1>6. NetOK(net, now)
  BY <1>1, FS_EmptySet, GossipConstants DEF NetOK
<1> QED
  BY <1>1, <1>4, <1>5, <1>6 DEF IInv

\* One node's vector is replaced by one that is right.
LEMMA OneVector ==
  ASSUME vec \in [Idx -> Vector], \A k \in Idx : VecOK(vec[k], k, now), NEW n \in Idx, NEW w,
         VecOK(w, n, now), vec' = [vec EXCEPT ![n] = w]
  PROVE  /\ vec' \in [Idx -> Vector] /\ \A k \in Idx : VecOK(vec'[k], k, now)
         /\ vec'[n] = w /\ \A k \in Idx \ {n} : vec'[k] = vec[k]
<1>1. w \in Vector
  BY DEF VecOK
<1>2. vec' \in [Idx -> Vector] /\ vec'[n] = w /\ \A k \in Idx \ {n} : vec'[k] = vec[k]
  BY <1>1
<1> QED
  BY <1>2

\* Every step keeps it.
LEMMA InvNext == IInv /\ [Next]_vars => IInv'
<1> SUFFICES ASSUME IInv, [Next]_vars PROVE IInv'
  OBVIOUS
<1> DEFINE VecsOK(f, c) == f \in [Idx -> Vector] /\ \A k \in Idx : VecOK(f[k], k, c)
<1>1. /\ now \in 0 .. MaxClock /\ up \subseteq Idx /\ stepped \subseteq Idx
      /\ pullCycle \in [Idx -> BOOLEAN] /\ VecsOK(vec, now) /\ NetOK(net, now)
  BY DEF IInv
<1>2. /\ now' \in 0 .. MaxClock /\ up' \subseteq Idx /\ stepped' \subseteq Idx
      /\ pullCycle' \in [Idx -> BOOLEAN] /\ VecsOK(vec', now') /\ NetOK(net', now')
      => IInv'
  BY DEF IInv
<1>3. ASSUME NEW n \in Idx, NEW w, VecOK(w, n, now), vec' = [vec EXCEPT ![n] = w]
      PROVE  VecsOK(vec', now)
  BY <1>1, <1>3, OneVector
<1>4. ASSUME NEW n \in Idx, NEW p \in Idx \cup {NoOne}, TimeStep(n, p)
      PROVE  IInv'
  <2>1. PICK w : /\ vec' = [vec EXCEPT ![n] = w] /\ VecOK(w, n, now)
                 /\ NetGains(net, net', w, n) /\ pullCycle' \in [Idx -> BOOLEAN]
    BY <1>4, TimeStepEffect
  <2>2. VecsOK(vec', now) /\ NetOK(net', now)
    BY <1>1, <1>3, <2>1, NetStays
  <2>3. stepped' = stepped \cup {n} /\ up' = up /\ now' = now
    BY <1>4 DEF TimeStep
  <2> HIDE DEF VecsOK
  <2> QED BY <1>1, <1>2, <2>1, <2>2, <2>3
<1>5. ASSUME NEW m \in net, Receive(m)
      PROVE  IInv'
  <2>1. PICK w : /\ vec' = [vec EXCEPT ![m.to] = w] /\ VecOK(w, m.to, now)
                 /\ NetGains(net, net', vec[m.to], m.to)
    BY <1>5, ReceiveEffect
  <2>2. m.to \in Idx
    BY <1>1 DEF NetOK, MsgOK, Message
  <2>3. VecsOK(vec', now) /\ NetOK(net', now)
    BY <1>1, <1>3, <2>1, <2>2, NetStays
  <2>4. stepped' = stepped /\ up' = up /\ now' = now /\ pullCycle' = pullCycle
    BY <1>5 DEF Receive
  <2> HIDE DEF VecsOK
  <2> QED BY <1>1, <1>2, <2>3, <2>4
<1>6. ASSUME NEW m \in net, SendFails(m) \/ SendStalls(m)
      PROVE  IInv'
  <2>1. PICK w : /\ vec' = [vec EXCEPT ![m.from] = w] /\ VecOK(w, m.from, now)
                 /\ net' \subseteq net
    BY <1>6, FailureEffect
  <2>2. m.from \in Idx /\ NetGains(net, net', w, m.from)
    BY <1>1, <2>1 DEF NetOK, MsgOK, Message, NetGains
  <2>3. VecsOK(vec', now) /\ NetOK(net', now)
    BY <1>1, <1>3, <2>1, <2>2, NetStays
  <2>4. stepped' = stepped /\ up' = up /\ now' = now /\ pullCycle' = pullCycle
    BY <1>6 DEF SendFails, SendStalls
  <2> HIDE DEF VecsOK
  <2> QED BY <1>1, <1>2, <2>3, <2>4
<1>7. ASSUME NEW m \in net, Lose(m)
      PROVE  IInv'
  <2>1. /\ stepped' = stepped /\ up' = up /\ now' = now /\ pullCycle' = pullCycle
        /\ vec' = vec /\ net' \subseteq net
    BY <1>7 DEF Lose
  <2>2. NetOK(net', now)
    BY <1>1, <2>1, NetStays DEF NetGains
  <2> QED BY <1>1, <1>2, <2>1, <2>2
<1>8. CASE Tick
  <2>1. /\ now < MaxClock /\ now' = now + 1 /\ stepped' = {} /\ vec' = vec /\ up' = up
        /\ pullCycle' = pullCycle /\ net' = net
        /\ \A m \in net : m.sent + MaxDelay > now
    BY <1>8 DEF Tick
  <2>2. now \in Nat /\ now' \in 0 .. MaxClock
    BY <1>1, <2>1, GossipConstants
  <2>3. VecsOK(vec', now')
    BY <1>1, <2>1, <2>2, LaterOK
  <2>4. ASSUME NEW m \in net
        PROVE  MsgOK(m, now + 1)
    <3>0. MsgOK(m, now)
      BY <1>1 DEF NetOK
    <3>1. m.sent \in Nat /\ MsgOK(m, now)
      BY <3>0, GossipConstants DEF MsgOK, Message
    <3>2. m.sent + MaxDelay > now
      BY <2>1
    <3>3. m.sent <= now + 1 /\ MaxDelay # 0
      BY <2>2, <3>1, <3>2, GossipConstants DEF MsgOK
    <3> QED BY <3>1, <3>3 DEF MsgOK
  <2>5. NetOK(net', now')
    BY <1>1, <2>1, <2>4 DEF NetOK
  <2> HIDE DEF VecsOK
  <2> QED BY <1>1, <1>2, <2>1, <2>2, <2>3, <2>5
<1>9. ASSUME NEW n \in Idx, Crash(n)
      PROVE  IInv'
  BY <1>1, <1>2, <1>9 DEF Crash
<1>10. ASSUME NEW n \in Idx, Restart(n)
       PROVE  IInv'
  <2>1. /\ up' = up \cup {n} /\ vec' = [vec EXCEPT ![n] = info_setup(n)]
        /\ pullCycle' = [pullCycle EXCEPT ![n] = FALSE]
        /\ stepped' = stepped \cup {n} /\ net' = net /\ now' = now
    BY <1>10 DEF Restart
  <2>2. VecOK(info_setup(n), n, now)
    BY <1>1, StartOK, GossipConstants
  <2>3. VecsOK(vec', now)
    BY <1>3, <2>1, <2>2
  <2> HIDE DEF VecsOK
  <2>4. pullCycle' \in [Idx -> BOOLEAN]
    BY <1>1, <2>1
  <2> QED BY <1>1, <1>2, <2>1, <2>3, <2>4
<1>11. CASE UNCHANGED vars
  BY <1>1, <1>2, <1>11 DEF vars
<1> QED
  BY <1>4, <1>5, <1>6, <1>7, <1>8, <1>9, <1>10, <1>11 DEF Next

\* Every reachable state of the cluster satisfies it.
LEMMA InvAlways == Spec => []IInv
BY InvInit, InvNext, PTL DEF Spec

-----------------------------------------------------------------------------
\* The state of the cluster is well typed, and no more than MaxMsgs messages are under way.
THEOREM GossipTypeCorrect == Spec => []TypeOK
<1>1. IInv => TypeOK
  BY DEF IInv, TypeOK, NetOK, MsgOK
<1> QED
  BY <1>1, InvAlways, PTL

\* Whatever the clocks of the nodes say and however long messages take, no node thinks a
\* reading older than it is, nor made in the future; if messages take no time it knows exactly
\* when it was made (ivec_time2age, ivec_age2time).
THEOREM InfoAlwaysDated == Spec => []InfoDated
<1>1. IInv => InfoDated
  <2> SUFFICES ASSUME IInv, NEW n \in up, NEW i \in LiveEntries(n)
               PROVE  LET e == vec[n].entry[i]
                      IN  /\ e.data + Skew[n] <= e.time /\ e.time <= Clock(n)
                          /\ MaxDelay = 0 => e.time = e.data + Skew[n]
    BY DEF InfoDated
  <2>1. n \in Idx /\ VecOK(vec[n], n, now)
    BY DEF IInv
  <2>2. i \in Idx /\ ~vec[n].entry[i].dead
    BY DEF LiveEntries, AliveIdx
  <2>3. EntryOK(vec[n].entry[i], Skew[n], now, MaxDelay = 0 \/ i = n)
    BY <2>1, <2>2 DEF VecOK
  <2> QED BY <2>2, <2>3 DEF EntryOK, Clock
<1> QED
  BY <1>1, InvAlways, PTL

\* What a running node holds of another after a step: what it held, a verdict of death, or
\* what a record just delivered says.
LEMMA OthersMove ==
  ASSUME IInv, [Next]_vars, NEW n \in up \cap up', NEW i \in Idx \ {n}
  PROVE  LET old == vec[n].entry[i]
             new == vec'[n].entry[i]
         IN  \/ new = old \/ new.dead
             \/ \E m \in net : \E r \in ToSet(m.records) : Learnt(old, new, r, Clock(n))
<1> DEFINE Moves == LET old == vec[n].entry[i]
                        new == vec'[n].entry[i]
                    IN  \/ new = old \/ new.dead
                        \/ \E m \in net : \E r \in ToSet(m.records) : Learnt(old, new, r, Clock(n))
<1> SUFFICES Moves
  OBVIOUS
<1>1. /\ n \in Idx /\ i \in Idx /\ i # n /\ vec \in [Idx -> Vector]
      /\ \A k \in Idx : VecOK(vec[k], k, now)
  BY DEF IInv
<1>2. \A m \in net : m.to \in Idx /\ m.from \in Idx
  BY DEF IInv, NetOK, MsgOK, Message
<1>3. ASSUME NEW k \in Idx, NEW w, VecOK(w, k, now), vec' = [vec EXCEPT ![k] = w],
             \/ k # n \/ w.entry[i] = vec[n].entry[i] \/ w.entry[i].dead
             \/ \E m \in net : \E r \in ToSet(m.records) :
                  Learnt(vec[n].entry[i], w.entry[i], r, Clock(n))
      PROVE  Moves
  <2>1. vec'[k] = w /\ \A j \in Idx \ {k} : vec'[j] = vec[j]
    BY <1>1, <1>3, OneVector
  <2> QED BY <1>1, <1>3, <2>1
<1>4. vec' = vec => Moves
  OBVIOUS
<1> HIDE DEF Moves
<1>5. ASSUME NEW k \in Idx, NEW p \in Idx \cup {NoOne}, TimeStep(k, p)
      PROVE  Moves
  <2>1. PICK w : /\ vec' = [vec EXCEPT ![k] = w] /\ VecOK(w, k, now) /\ Keeps(vec[k], w, k)
    BY <1>5, TimeStepEffect
  <2>2. k # n \/ w.entry[i] = vec[n].entry[i] \/ w.entry[i].dead
    BY <1>1, <2>1 DEF Keeps
  <2> QED BY <1>3, <2>1, <2>2
<1>6. ASSUME NEW m \in net, NEW k \in Idx, NEW w, VecOK(w, k, now),
             vec' = [vec EXCEPT ![k] = w], HearsFrom(vec[k], w, k, m)
      PROVE  Moves
  <2>1. \/ k # n \/ w.entry[i] = vec[n].entry[i] \/ w.entry[i].dead
        \/ \E r \in ToSet(m.records) : Learnt(vec[n].entry[i], w.entry[i], r, Clock(n))
    BY <1>1, <1>6 DEF HearsFrom
  <2> QED BY <1>3, <1>6, <2>1
<1>7. ASSUME NEW m \in net, Receive(m)
      PROVE  Moves
  <2>1. PICK w : /\ vec' = [vec EXCEPT ![m.to] = w] /\ VecOK(w, m.to, now)
                 /\ HearsFrom(vec[m.to], w, m.to, m)
    BY <1>7, ReceiveEffect
  <2> QED BY <1>2, <1>6, <2>1
<1>8. ASSUME NEW m \in net, SendFails(m) \/ SendStalls(m)
      PROVE  Moves
  <2>1. PICK w : /\ vec' = [vec EXCEPT ![m.from] = w] /\ VecOK(w, m.from, now)
                 /\ HearsFrom(vec[m.from], w, m.from, m)
    BY <1>8, FailureEffect
  <2> QED BY <1>2, <1>6, <2>1
<1>9. ASSUME NEW m \in net, Lose(m)
      PROVE  Moves
  BY <1>4, <1>9 DEF Lose
<1>10. CASE Tick
  BY <1>4, <1>10 DEF Tick
<1>11. ASSUME NEW k \in Idx, Crash(k) \/ Restart(k)
       PROVE  Moves
  <2>1. CASE Crash(k)
    BY <1>4, <2>1 DEF Crash
  <2>2. CASE Restart(k)
    <3>1. k # n /\ vec' = [vec EXCEPT ![k] = info_setup(k)]
      BY <2>2 DEF Restart
    <3>2. now \in Nat
      BY GossipConstants DEF IInv
    <3> QED BY <1>3, <3>1, <3>2, StartOK
  <2> QED BY <1>11, <2>1, <2>2
<1>12. CASE UNCHANGED vars
  BY <1>4, <1>12 DEF vars
<1> QED
  BY <1>5, <1>7, <1>8, <1>9, <1>10, <1>11, <1>12 DEF Next

\* When messages take no time, a node that keeps running never replaces a reading by one made
\* before it, and never revives a dead node by a reading made before the verdict
\* (infoVecUpdate, "only if its creation time is newer").
THEOREM NewsAlwaysForward ==
  ASSUME MaxDelay = 0
  PROVE  Spec => NewsOnlyMovesForward
<1> DEFINE Forward ==
      \A n \in up \cap up' : \A i \in Idx \ {n} :
        LET old == vec[n].entry[i]
            new == vec'[n].entry[i]
        IN  ~new.dead => IF old.dead THEN new.data + Skew[n] >= old.time
                         ELSE new.data >= old.data
<1>1. IInv /\ [Next]_vars => [Forward]_vars
  <2> SUFFICES ASSUME IInv, [Next]_vars PROVE Forward
    OBVIOUS
  <2> SUFFICES ASSUME NEW n \in up \cap up', NEW i \in Idx \ {n}
               PROVE  LET old == vec[n].entry[i]
                          new == vec'[n].entry[i]
                      IN  ~new.dead => IF old.dead THEN new.data + Skew[n] >= old.time
                                       ELSE new.data >= old.data
    OBVIOUS
  <2> DEFINE old == vec[n].entry[i]
             new == vec'[n].entry[i]
  <2> SUFFICES ASSUME ~new.dead
               PROVE  IF old.dead THEN new.data + Skew[n] >= old.time ELSE new.data >= old.data
    OBVIOUS
  <2>1. n \in Idx /\ VecOK(vec[n], n, now) /\ Skew[n] \in Nat
    BY GossipConstants DEF IInv
  <2>2. VecOK(vec'[n], n, now')
    <3>1. IInv'
      BY InvNext
    <3> QED BY <2>1, <3>1 DEF IInv
  <2>3. EntryOK(old, Skew[n], now, TRUE)
    BY <2>1 DEF VecOK, EntryOK
  <2>4. EntryOK(new, Skew[n], now', TRUE)
    BY <2>2 DEF VecOK, EntryOK
  <2>5. /\ old.time \in Nat /\ new.time \in Nat
        /\ (old.data # NoData => old.data \in Nat) /\ (new.data # NoData => new.data \in Nat)
    BY <2>1, <2>2, EntryFields DEF VecOK
  <2>6. \/ new = old \/ new.dead
        \/ \E m \in net : \E r \in ToSet(m.records) : Learnt(old, new, r, Clock(n))
    BY OthersMove
  <2> HIDE DEF old, new
  <2>7. CASE new = old
    BY <2>3, <2>5, <2>7 DEF EntryOK
  <2>8. CASE old.time < new.time
    BY <2>1, <2>3, <2>4, <2>5, <2>8 DEF EntryOK
  <2> QED BY <2>6, <2>7, <2>8 DEF Learnt
<1> HIDE DEF IInv
<1> QED
  BY <1>1, InvAlways, PTL DEF Spec, NewsOnlyMovesForward

\* Nobody speaks for a node but itself: the own entry of a running node changes only when its
\* timer fires (infoVecUseRemoteWindow leaves the local entry out).
THEOREM OnlySelfEverSpeaks == Spec => OnlySelfSpeaks
<1> DEFINE Self(n) == vec'[n].entry[n] # vec[n].entry[n] =>
                         \/ n \notin stepped /\ n \in stepped'
                         \/ now = MaxClock
           Speaks == \A n \in up : Self(n)
<1>1. IInv /\ [Next]_vars => [Speaks]_vars
  <2> SUFFICES ASSUME IInv, [Next]_vars, NEW n \in up PROVE Self(n)
    OBVIOUS
  <2>1. /\ n \in Idx /\ vec \in [Idx -> Vector] /\ \A k \in Idx : VecOK(vec[k], k, now)
        /\ now \in Nat
    BY GossipConstants DEF IInv
  <2>2. \A m \in net : m.to \in Idx /\ m.from \in Idx
    BY DEF IInv, NetOK, MsgOK, Message
  <2>3. vec'[n] = vec[n] => Self(n)
    OBVIOUS
  <2> HIDE DEF Self
  <2>4. ASSUME NEW k \in Idx, NEW p \in Idx \cup {NoOne}, TimeStep(k, p)
        PROVE  Self(n)
    <3>1. PICK w : vec' = [vec EXCEPT ![k] = w]
      BY <2>4, TimeStepEffect
    <3>2. CASE k # n
      <4>1. vec'[n] = vec[n]
        BY <2>1, <3>1, <3>2
      <4> QED BY <2>3, <4>1
    <3>3. CASE k = n
      BY <2>4, <3>3 DEF TimeStep, TimerDue, Self
    <3> QED BY <3>2, <3>3
  <2>5. ASSUME NEW m \in net, NEW k \in Idx, NEW w, VecOK(w, k, now),
               vec' = [vec EXCEPT ![k] = w], HearsFrom(vec[k], w, k, m)
        PROVE  Self(n)
    <3>1. vec'[k] = w /\ \A j \in Idx \ {k} : vec'[j] = vec[j]
      BY <2>1, <2>5, OneVector
    <3>2. CASE k # n
      BY <2>1, <2>3, <3>1, <3>2
    <3>3. CASE k = n
      <4>1. w.entry[n] = vec[n].entry[n]
        BY <2>1, <2>5, <3>3 DEF HearsFrom
      <4> QED BY <3>1, <3>3, <4>1 DEF Self
    <3> QED BY <3>2, <3>3
  <2>6. ASSUME NEW m \in net, Receive(m)
        PROVE  Self(n)
    BY <2>2, <2>5, <2>6, ReceiveEffect
  <2>7. ASSUME NEW m \in net, SendFails(m) \/ SendStalls(m)
        PROVE  Self(n)
    BY <2>2, <2>5, <2>7, FailureEffect
  <2>8. ASSUME NEW m \in net, Lose(m)
        PROVE  Self(n)
    BY <2>3, <2>8 DEF Lose
  <2>9. Tick => Self(n)
    BY <2>3 DEF Tick
  <2>10. ASSUME NEW k \in Idx, Crash(k) \/ Restart(k)
         PROVE  Self(n)
    <3>1. CASE Crash(k)
      BY <2>3, <3>1 DEF Crash
    <3>2. CASE Restart(k)
      <4>1. k # n /\ vec' = [vec EXCEPT ![k] = info_setup(k)]
        BY <3>2 DEF Restart
      <4>2. vec'[n] = vec[n]
        BY <2>1, <4>1
      <4> QED BY <2>3, <4>2
    <3> QED BY <2>10, <3>1, <3>2
  <2>11. UNCHANGED vars => Self(n)
    BY <2>3 DEF vars
  <2> QED
    BY <2>4, <2>6, <2>7, <2>8, <2>9, <2>10, <2>11 DEF Next
<1> HIDE DEF IInv
<1> QED
  BY <1>1, InvAlways, PTL DEF Spec, OnlySelfSpeaks

-----------------------------------------------------------------------------
(***************************************************************************)
(* The cluster implements Hearsay.                                         *)
(***************************************************************************)

\* The claims a node that holds v could make.
Alleged(v) == {<<i, v.entry[i].data>> : i \in AliveIdx(v)}

\* What the vector v lets its node believe.
Believed(v) == [i \in Idx |-> IF v.entry[i].dead THEN NoData ELSE v.entry[i].data]

\* What the messages under way say after a step was said before it, or is said by v.
LEMMA CarriedGains ==
  ASSUME NEW v, NEW n, NetGains(net, net', v, n)
  PROVE  Carried' \subseteq Carried \cup Alleged(v)
<1> DEFINE Says(m) == {<<r.index, r.data>> : r \in LiveRecords(m)}
<1>1. Carried = UNION {Says(m) : m \in net} /\ Carried' = UNION {Says(m) : m \in net'}
  BY DEF Carried
<1>2. ASSUME NEW m, Tells(v, m)
      PROVE  Says(m) \subseteq Alleged(v)
  <2> SUFFICES ASSUME NEW r \in LiveRecords(m) PROVE <<r.index, r.data>> \in Alleged(v)
    OBVIOUS
  <2>1. r.index \in AliveIdx(v) /\ r.data = v.entry[r.index].data
    BY <1>2 DEF Tells, AliveIdx
  <2> QED BY <2>1 DEF Alleged
<1> HIDE DEF Says
<1>3. CASE net' \subseteq net
  BY <1>1, <1>3
<1>4. ASSUME NEW m, net' \subseteq net \cup {m}, Tells(v, m)
      PROVE  Carried' \subseteq Carried \cup Alleged(v)
  <2>1. Says(m) \subseteq Alleged(v)
    BY <1>2, <1>4
  <2>2. \A k \in net' : k \in net \/ k = m
    BY <1>4
  <2> QED BY <1>1, <2>1, <2>2
<1> QED
  BY <1>3, <1>4 DEF NetGains

\* In a vector that is right, the claims are what the beliefs of Hearsay give.
LEMMA AllegedClaims ==
  ASSUME NEW n \in Idx, NEW c, NEW v, VecOK(v, n, c)
  PROVE  /\ \A i \in Idx : Believed(v)[i] # NoData <=> ~v.entry[i].dead
         /\ Alleged(v) = {<<i, Believed(v)[i]>> : i \in {j \in Idx : Believed(v)[j] # NoData}}
<1>1. \A i \in Idx : Believed(v)[i] = IF v.entry[i].dead THEN NoData ELSE v.entry[i].data
  BY DEF Believed
<1>2. \A i \in Idx : ~v.entry[i].dead => v.entry[i].data # NoData
  BY DEF VecOK, EntryOK
<1>3. \A i \in Idx : Believed(v)[i] # NoData <=> ~v.entry[i].dead
  BY <1>1, <1>2
<1>4. AliveIdx(v) = {j \in Idx : Believed(v)[j] # NoData}
  BY <1>3 DEF AliveIdx
<1>5. \A i \in AliveIdx(v) : v.entry[i].data = Believed(v)[i]
  BY <1>1 DEF AliveIdx
<1> QED
  BY <1>3, <1>4, <1>5 DEF Alleged

\* What a node believes of one other.
LEMMA BelievedAt ==
  ASSUME NEW v, NEW i \in Idx
  PROVE  /\ v.entry[i].dead => Believed(v)[i] = NoData
         /\ ~v.entry[i].dead => Believed(v)[i] = v.entry[i].data
BY DEF Believed

\* The variable belief of Hearsay.
Beliefs == [n \in Idx |-> BeliefOf(n)]

\* The belief of a node is what its vector lets it believe, before a step and after it.
LEMMA BeliefsNow ==
  /\ \A n \in Idx : Beliefs[n] = Believed(vec[n])
  /\ \A n \in Idx : Beliefs'[n] = Believed(vec'[n])
BY DEF Beliefs, BeliefOf, Believed

\* When one vector changes, so do the beliefs of that node alone.
LEMMA OneBelief ==
  ASSUME IInv, NEW n \in Idx, NEW w, VecOK(w, n, now), vec' = [vec EXCEPT ![n] = w]
  PROVE  /\ Beliefs'[n] = Believed(w)
         /\ \A m \in Idx \ {n} : Beliefs'[m] = Beliefs[m]
<1>1. vec'[n] = w /\ \A k \in Idx \ {n} : vec'[k] = vec[k]
  BY OneVector DEF IInv
<1> QED
  BY <1>1, BeliefsNow

\* The start of the cluster is a start of Hearsay.
LEMMA StartsAsHearsay == Init => H!Init
<1> SUFFICES ASSUME Init PROVE H!Init
  OBVIOUS
<1>1. now = 0 /\ up = Idx /\ net = {} /\ vec = [n \in Idx |-> info_setup(n)]
  BY DEF Init
<1>2. now \in Nat /\ Carried = {}
  BY <1>1 DEF Carried
<1>3. \A n \in Idx : \A i \in Idx : vec[n].entry[i].dead
  BY <1>1, <1>2, StartOK
<1>4. \A n \in Idx : Believed(vec[n]) = [i \in Idx |-> NoData]
  BY <1>3 DEF Believed
<1>5. Beliefs = [n \in Idx |-> [i \in Idx |-> NoData]]
  BY <1>4 DEF Beliefs, BeliefOf, Believed
<1> QED
  BY <1>1, <1>2, <1>5 DEF H!Init, Beliefs

\* A timer that fires is a measurement, and perhaps a message.
LEMMA TimeStepIsMeasure ==
  ASSUME IInv, NEW n \in Idx, NEW p \in Idx \cup {NoOne}, TimeStep(n, p)
  PROVE  H!Measure(n)
<1>1. PICK w : /\ vec' = [vec EXCEPT ![n] = w]
               /\ VecOK(w, n, now) /\ Keeps(vec[n], w, n)
               /\ w.entry[n].dead \/ w.entry[n].data = now
               /\ NetGains(net, net', w, n)
  BY TimeStepEffect
<1>2. Beliefs'[n] = Believed(w) /\ \A m \in Idx \ {n} : Beliefs'[m] = Beliefs[m]
  BY <1>1, OneBelief
<1>3. Beliefs'[n][n] \in {now, NoData}
  BY <1>1, <1>2 DEF Believed
<1>4. \A i \in Idx \ {n} : Beliefs'[n][i] \in {Beliefs[n][i], NoData}
  <2>1. \A i \in Idx \ {n} : w.entry[i] = vec[n].entry[i] \/ w.entry[i].dead
    BY <1>1 DEF Keeps
  <2>2. Beliefs[n] = Believed(vec[n])
    BY BeliefsNow
  <2> SUFFICES ASSUME NEW i \in Idx \ {n} PROVE Beliefs'[n][i] \in {Beliefs[n][i], NoData}
    OBVIOUS
  <2>3. CASE w.entry[i].dead
    BY <1>2, <2>3, BelievedAt
  <2>4. CASE ~w.entry[i].dead
    <3>1. w.entry[i] = vec[n].entry[i]
      BY <2>1, <2>4
    <3>2. Believed(w)[i] = w.entry[i].data /\ Believed(vec[n])[i] = vec[n].entry[i].data
      BY <2>4, <3>1, BelievedAt
    <3> QED BY <1>2, <2>2, <3>1, <3>2
  <2> QED BY <2>3, <2>4
<1>5. Carried' \subseteq Carried \cup H!Claims(Beliefs', n)
  <2>1. Alleged(w) = {<<i, Believed(w)[i]>> : i \in {j \in Idx : Believed(w)[j] # NoData}}
    BY <1>1, AllegedClaims
  <2>2. Carried' \subseteq Carried \cup Alleged(w)
    BY <1>1, CarriedGains
  <2> QED BY <1>2, <2>1, <2>2, Zenon DEF H!Claims
<1>6. n \in up /\ now' = now /\ up' = up
  BY DEF TimeStep
<1> QED
  BY <1>2, <1>3, <1>4, <1>5, <1>6 DEF H!Measure, H!OthersUnmoved, Beliefs

\* A message that arrives, and a failure reported, are hearsay.
LEMMA HearsIsHear ==
  ASSUME IInv, NEW n \in up, NEW m \in net, NEW w, vec' = [vec EXCEPT ![n] = w],
         VecOK(w, n, now), HearsFrom(vec[n], w, n, m), NetGains(net, net', vec[n], n),
         now' = now, up' = up
  PROVE  H!Hear(n)
<1> DEFINE v == vec[n]
<1>1. n \in Idx /\ VecOK(v, n, now)
  BY DEF IInv
<1>2. /\ Beliefs'[n] = Believed(w) /\ Beliefs[n] = Believed(v)
      /\ \A k \in Idx \ {n} : Beliefs'[k] = Beliefs[k]
  BY <1>1, OneBelief, BeliefsNow
<1> HIDE DEF v
<1>3. Beliefs'[n][n] = Beliefs[n][n]
  <2>1. w.entry[n] = v.entry[n]
    BY <1>1 DEF HearsFrom, v
  <2>2. Believed(w)[n] = Believed(v)[n]
    BY <1>1, <2>1, BelievedAt
  <2> QED BY <1>2, <2>2
<1>4. ASSUME NEW i \in Idx \ {n}
      PROVE  Beliefs'[n][i] \in {Beliefs[n][i], NoData} \/ <<i, Beliefs'[n][i]>> \in Carried
  <2>1. \/ w.entry[i] = v.entry[i] \/ w.entry[i].dead
        \/ \E r \in ToSet(m.records) :
             r.index = i /\ Learnt(v.entry[i], w.entry[i], r, Clock(n))
    BY DEF HearsFrom, v
  <2>2. CASE w.entry[i] = v.entry[i] \/ w.entry[i].dead
    <3>1. Believed(w)[i] \in {Believed(v)[i], NoData}
      BY <2>2, BelievedAt
    <3> QED BY <1>2, <3>1
  <2>3. CASE ~w.entry[i].dead /\ \E r \in ToSet(m.records) :
               r.index = i /\ Learnt(v.entry[i], w.entry[i], r, Clock(n))
    <3>1. PICK r \in ToSet(m.records) : r.index = i /\ Learnt(v.entry[i], w.entry[i], r, Clock(n))
      BY <2>3
    <3>2. r \in LiveRecords(m) /\ r.data = w.entry[i].data
      BY <2>3, <3>1 DEF Learnt, LiveRecords
    <3>3. <<r.index, r.data>> \in Carried
      BY <3>2 DEF Carried
    <3>4. Beliefs'[n][i] = r.data
      BY <1>2, <2>3, <3>2 DEF Believed
    <3> QED BY <3>1, <3>3, <3>4
  <2> QED BY <2>1, <2>2, <2>3
<1>5. Carried' \subseteq Carried \cup H!Claims(Beliefs, n)
  <2>1. Alleged(v) = {<<i, Believed(v)[i]>> : i \in {j \in Idx : Believed(v)[j] # NoData}}
    BY <1>1, AllegedClaims
  <2>2. Carried' \subseteq Carried \cup Alleged(v)
    BY CarriedGains DEF v
  <2>3. H!Claims(Beliefs, n) = {<<i, Believed(v)[i]>> : i \in {j \in Idx : Believed(v)[j] # NoData}}
    <3>1. Beliefs[n] = Believed(v)
      BY <1>2
    <3> QED BY <3>1, Zenon DEF H!Claims
  <2> QED BY <2>1, <2>2, <2>3
<1> QED
  BY <1>2, <1>3, <1>4, <1>5 DEF H!Hear, H!OthersUnmoved, Beliefs

\* Every step of the cluster is a step of Hearsay, or none.
LEMMA StepsAsHearsay == IInv /\ [Next]_vars => [H!Next]_(H!hearsayVars)
<1> SUFFICES ASSUME IInv, [Next]_vars PROVE [H!Next]_(H!hearsayVars)
  OBVIOUS
<1>1. ASSUME NEW n \in Idx, NEW p \in Idx \cup {NoOne}, TimeStep(n, p)
      PROVE  H!Next
  BY <1>1, TimeStepIsMeasure DEF H!Next
<1>2. up \subseteq Idx /\ now \in Nat
  BY GossipConstants DEF IInv
<1>3. ASSUME NEW m \in net, Receive(m)
      PROVE  H!Next
  <2>1. m.to \in up /\ now' = now /\ up' = up
    BY <1>3 DEF Receive
  <2>2. H!Hear(m.to)
    BY <1>3, <2>1, ReceiveEffect, HearsIsHear
  <2> QED BY <1>2, <2>1, <2>2 DEF H!Next
<1>4. ASSUME NEW m \in net, SendFails(m) \/ SendStalls(m)
      PROVE  H!Next
  <2>1. m.from \in up /\ now' = now /\ up' = up
    BY <1>4 DEF SendFails, SendStalls
  <2>2. PICK w : /\ vec' = [vec EXCEPT ![m.from] = w]
                 /\ VecOK(w, m.from, now) /\ HearsFrom(vec[m.from], w, m.from, m)
                 /\ net' \subseteq net
    BY <1>4, FailureEffect
  <2>3. NetGains(net, net', vec[m.from], m.from)
    BY <2>2 DEF NetGains
  <2>4. H!Hear(m.from)
    BY <2>1, <2>2, <2>3, HearsIsHear
  <2> QED BY <1>2, <2>1, <2>4 DEF H!Next
<1>5. ASSUME NEW m \in net, Lose(m)
      PROVE  H!Next
  <2>1. net' \subseteq net /\ vec' = vec /\ up' = up /\ now' = now
    BY <1>5 DEF Lose
  <2>2. Carried' \subseteq Carried
    BY <2>1 DEF Carried
  <2>3. Beliefs' = Beliefs
    BY <2>1 DEF Beliefs, BeliefOf
  <2> QED BY <2>1, <2>2, <2>3 DEF H!Next, H!Forget, Beliefs
<1>6. ASSUME vec' = vec, net' = net
      PROVE  Beliefs' = Beliefs /\ Carried' = Carried
  BY <1>6 DEF Beliefs, BeliefOf, Carried
<1>7. ASSUME Tick PROVE H!Next
  <2>1. now' = now + 1 /\ up' = up /\ Beliefs' = Beliefs /\ Carried' = Carried
    BY <1>6, <1>7 DEF Tick
  <2> QED BY <2>1 DEF H!Next, H!Pass, Beliefs
<1>8. ASSUME NEW n \in Idx, Crash(n)
      PROVE  H!Next
  <2>1. up' = up \ {n} /\ now' = now /\ Beliefs' = Beliefs /\ Carried' = Carried
    BY <1>6, <1>8 DEF Crash
  <2> QED BY <2>1 DEF H!Next, H!Stop, Beliefs
<1>9. ASSUME NEW n \in Idx, Restart(n)
      PROVE  H!Next
  <2>1. /\ up' = up \cup {n} /\ now' = now /\ net' = net
        /\ vec' = [vec EXCEPT ![n] = info_setup(n)]
    BY <1>9 DEF Restart
  <2>2. VecOK(info_setup(n), n, now) /\ \A i \in Idx : info_setup(n).entry[i].dead
    BY <1>2, StartOK
  <2>3. Beliefs'[n] = Believed(info_setup(n)) /\ \A m \in Idx \ {n} : Beliefs'[m] = Beliefs[m]
    BY <2>1, <2>2, OneBelief
  <2>4. Beliefs'[n] = [i \in Idx |-> NoData]
    BY <2>2, <2>3 DEF Believed
  <2>5. Carried' = Carried
    BY <2>1 DEF Carried
  <2>6. H!Start(n)
    BY <2>1, <2>3, <2>4, <2>5 DEF H!Start, H!OthersUnmoved, Beliefs
  <2> QED BY <2>6 DEF H!Next
<1>10. CASE UNCHANGED vars
  <2>1. now' = now /\ up' = up /\ Beliefs' = Beliefs /\ Carried' = Carried
    BY <1>6, <1>10 DEF vars
  <2> QED BY <2>1 DEF H!hearsayVars, Beliefs
<1>11. ASSUME Next PROVE H!Next
  BY <1>1, <1>3, <1>4, <1>5, <1>7, <1>8, <1>9, <1>11 DEF Next
<1> QED
  BY <1>10, <1>11

\* Relays, echoes, late answers and respawns never make a node believe of another what that
\* other did not measure, what nobody told it, or what it held before it started.
THEOREM GossipIsHearsay == Spec => IsHearsay
BY StartsAsHearsay, StepsAsHearsay, InvAlways, PTL DEF Spec, IsHearsay, H!Spec

=============================================================================
