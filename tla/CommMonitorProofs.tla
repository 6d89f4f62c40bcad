--------------------------- MODULE CommMonitorProofs ---------------------------
(***************************************************************************)
(* Proofs about the transport, for every number of sockets, size of the    *)
(* tables, length of the messages and choice of the time limits; and about *)
(* the monitor, for every number of nodes, width of the screen and width   *)
(* of a number.                                                            *)
(*                                                                         *)
(* The handlers of the transport pass the three tables on as one record,   *)
(* so its inductive invariant, Sound, is a predicate of such a record.  In *)
(* the middle of a handler a socket may be open and in no table: Sound     *)
(* names those, and a handler starts and ends with none.                   *)
(***************************************************************************)
EXTENDS Comm, Monitor, NatLemmas, SequenceTheorems

CommState ==
  [send : SUBSET SendEntry, recv : SUBSET RecvEntry, closing : SUBSET CloseEntry,
   maxfd : Socks \cup {Listen}, open : SUBSET Socks, wait : 0 .. AdminWait, doubled : BOOLEAN]

Fits(table) == IsFiniteSet(table) /\ Cardinality(table) <= MaxInProgress

\* No socket is in two entries of one table.
OneEach(table) == \A e, f \in table : e.sock = f.sock => e = f

\* Nor in two tables.
Apart(c) ==
  /\ OneEach(c.send) /\ OneEach(c.recv) /\ OneEach(c.closing)
  /\ \A e \in c.send : \A f \in c.recv \cup c.closing : e.sock # f.sock
  /\ \A e \in c.recv : \A f \in c.closing : e.sock # f.sock

\* loose: the sockets the handler has in its hands.
Sound(c, loose) ==
  /\ c \in CommState
  /\ loose \subseteq Socks
  /\ Fits(c.send) /\ Fits(c.recv) /\ Fits(c.closing)
  /\ c.open \subseteq AllSocks(c) \cup loose
  /\ \A s \in AllSocks(c) : s <= c.maxfd
  /\ c.doubled \/ /\ AllSocks(c) \cup loose \subseteq c.open
                  /\ AllSocks(c) \cap loose = {}
                  /\ Apart(c)

-----------------------------------------------------------------------------
(***************************************************************************)
(* Entries leave and enter the tables.                                     *)
(***************************************************************************)

\* b is c but for the tables, the largest socket and the open ones.
Kept(c, b) == b \in CommState /\ b.doubled = c.doubled

Less(c, b, e) ==
  \/ e \in c.send /\ b.send = c.send \ {e} /\ b.recv = c.recv /\ b.closing = c.closing
  \/ e \in c.recv /\ b.recv = c.recv \ {e} /\ b.send = c.send /\ b.closing = c.closing
  \/ e \in c.closing /\ b.closing = c.closing \ {e} /\ b.send = c.send /\ b.recv = c.recv

More(c, b, e) ==
  \/ /\ HasRoom(c.send) /\ e \in SendEntry /\ b.send = c.send \cup {e}
     /\ b.recv = c.recv /\ b.closing = c.closing
  \/ /\ HasRoom(c.recv) /\ e \in RecvEntry /\ b.recv = c.recv \cup {e}
     /\ b.send = c.send /\ b.closing = c.closing
  \/ /\ HasRoom(c.closing) /\ e \in CloseEntry /\ b.closing = c.closing \cup {e}
     /\ b.send = c.send /\ b.recv = c.recv

\* The fields of such a record and the numbers of its sockets.
LEMMA StateFields ==
  ASSUME NEW c \in CommState
  PROVE  /\ c.send \subseteq SendEntry /\ c.recv \subseteq RecvEntry /\ c.closing \subseteq CloseEntry
         /\ c.maxfd \in Socks \cup {Listen} /\ c.open \subseteq Socks
         /\ c.wait \in 0 .. AdminWait /\ c.doubled \in BOOLEAN
         /\ AllSocks(c) \subseteq Socks
BY DEF CommState, AllSocks, SocksOf, SendEntry, RecvEntry, CloseEntry

\* The larger of the largest socket and another.
LEMMA MaxOfSocks ==
  ASSUME NEW c \in CommState, NEW s \in Socks
  PROVE  LET m == Max({c.maxfd, s})
         IN  m \in Socks \cup {Listen} /\ c.maxfd <= m /\ s <= m
<1>1. c.maxfd \in Socks \cup {Listen}
  BY DEF CommState
<1>2. Socks \subseteq Nat /\ Listen \in Nat
  BY CommAssumption DEF Listen
<1>3. c.maxfd \in Nat /\ s \in Nat
  BY <1>1, <1>2, Zenon
<1>4. IsFiniteSet({c.maxfd} \cup {s})
  BY FS_Singleton, FS_AddElement
<1>5. {c.maxfd, s} = {c.maxfd} \cup {s}
  OBVIOUS
<1>6. IsFiniteSet({c.maxfd, s}) /\ {c.maxfd, s} \in SUBSET Nat
  BY <1>3, <1>4, <1>5, Zenon
<1>7. Max({c.maxfd, s}) \in {c.maxfd, s} /\ \A y \in {c.maxfd, s} : y <= Max({c.maxfd, s})
  BY <1>6, MaxIsGreatest
<1> QED
  BY <1>1, <1>7, Zenon

\* A table with one entry less, or one more if it had room, still fits.
LEMMA TableFits ==
  ASSUME NEW table, Fits(table), NEW e
  PROVE  /\ Fits(table \ {e})
         /\ HasRoom(table) => Fits(table \cup {e})
<1>1. Cardinality(table) \in Nat /\ MaxInProgress \in Nat
  BY FS_CardinalityType, CommAssumption DEF Fits
<1>2. Fits(table \ {e})
  <2>1. IsFiniteSet(table \ {e})
        /\ Cardinality(table \ {e}) \in {Cardinality(table) - 1, Cardinality(table)}
    BY FS_RemoveElement DEF Fits
  <2> QED BY <1>1, <2>1 DEF Fits
<1>3. ASSUME HasRoom(table) PROVE Fits(table \cup {e})
  <2>1. IsFiniteSet(table \cup {e})
        /\ Cardinality(table \cup {e}) \in {Cardinality(table), Cardinality(table) + 1}
    BY FS_AddElement DEF Fits
  <2> QED BY <1>1, <1>3, <2>1 DEF Fits, HasRoom
<1> QED
  BY <1>2, <1>3

\* The same, for all tables and entries at once.
LEMMA FittingTables ==
  \A table, e : Fits(table) => /\ Fits(table \ {e})
                               /\ HasRoom(table) => Fits(table \cup {e})
BY TableFits

\* An entry replaced by another takes no more room.
LEMMA ReplacedFits ==
  ASSUME NEW table, Fits(table), NEW e \in table, NEW f
  PROVE  Fits((table \ {e}) \cup {f})
<1>1. Cardinality(table) \in Nat /\ MaxInProgress \in Nat
  BY FS_CardinalityType, CommAssumption DEF Fits
<1>2. IsFiniteSet(table \ {e}) /\ Cardinality(table \ {e}) = Cardinality(table) - 1
  BY FS_RemoveElement DEF Fits
<1> DEFINE t == table \ {e}
<1>3. IsFiniteSet(t \cup {f}) /\ Cardinality(t \cup {f}) \in {Cardinality(t), Cardinality(t) + 1}
  BY <1>2, FS_AddElement
<1> QED
  BY <1>1, <1>2, <1>3 DEF Fits

\* Some of the entries of a table fit.
LEMMA SubtableFits ==
  ASSUME NEW table, Fits(table), NEW t \in SUBSET table
  PROVE  Fits(t)
<1>1. Cardinality(table) \in Nat /\ MaxInProgress \in Nat
  BY FS_CardinalityType, CommAssumption DEF Fits
<1>2. IsFiniteSet(t) /\ Cardinality(t) <= Cardinality(table) /\ Cardinality(t) \in Nat
  BY FS_Subset, FS_CardinalityType DEF Fits
<1> QED
  BY <1>1, <1>2 DEF Fits

\* The socket of an entry that leaves its table is in the handler's hands.
LEMMA EntryLeaves ==
  ASSUME NEW c, NEW b, NEW e, Sound(c, {}), Kept(c, b), Less(c, b, e),
         b.open = c.open, b.maxfd = c.maxfd
  PROVE  Sound(b, {e.sock})
<1>1. Fits(b.send) /\ Fits(b.recv) /\ Fits(b.closing)
  <2>1. Fits(c.send) /\ Fits(c.recv) /\ Fits(c.closing)
    BY DEF Sound
  <2>2. Fits(c.send \ {e}) /\ Fits(c.recv \ {e}) /\ Fits(c.closing \ {e})
    BY <2>1, FittingTables
  <2> QED BY <2>1, <2>2, Zenon DEF Less
<1>2. e.sock \in Socks /\ e.sock \in AllSocks(c)
  BY DEF Sound, Less, CommState, SendEntry, RecvEntry, CloseEntry, AllSocks, SocksOf
<1>3. AllSocks(b) \subseteq AllSocks(c) /\ AllSocks(c) \subseteq AllSocks(b) \cup {e.sock}
  BY DEF Less, AllSocks, SocksOf
<1>4. ASSUME ~c.doubled PROVE Apart(b) /\ e.sock \notin AllSocks(b)
  <2>1. Apart(c)
    BY <1>4 DEF Sound
  <2> QED BY <2>1 DEF Apart, OneEach, Less, AllSocks, SocksOf
<1> QED
  BY <1>1, <1>2, <1>3, <1>4 DEF Sound, Kept

\* An entry for that socket brings it into a table again.
LEMMA EntryEnters ==
  ASSUME NEW c, NEW b, NEW e, Sound(c, {e.sock}), Kept(c, b), More(c, b, e),
         b.open = c.open, b.maxfd = Max({c.maxfd, e.sock})
  PROVE  Sound(b, {})
<1>1. Fits(b.send) /\ Fits(b.recv) /\ Fits(b.closing)
  <2>1. Fits(c.send) /\ Fits(c.recv) /\ Fits(c.closing)
    BY DEF Sound
  <2>2. /\ HasRoom(c.send) => Fits(c.send \cup {e})
        /\ HasRoom(c.recv) => Fits(c.recv \cup {e})
        /\ HasRoom(c.closing) => Fits(c.closing \cup {e})
    BY <2>1, FittingTables
  <2> QED BY <2>1, <2>2, Zenon DEF More
<1>2. e.sock \in Socks /\ c.maxfd \in Nat /\ e.sock \in Nat
  <2>1. c \in CommState /\ e.sock \in Socks
    BY DEF Sound
  <2>2. c.maxfd \in Socks \cup {Listen}
    BY <2>1 DEF CommState
  <2>3. Socks \subseteq Nat /\ Listen \in Nat
    BY CommAssumption DEF Listen
  <2> QED BY <2>1, <2>2, <2>3, Zenon
<1>3. AllSocks(b) = AllSocks(c) \cup {e.sock}
  BY DEF More, AllSocks, SocksOf
<1>4. b.maxfd \in Nat /\ c.maxfd <= b.maxfd /\ e.sock <= b.maxfd
  <2>1. c \in CommState /\ b \in CommState
    BY DEF Sound, Kept
  <2>2. b.maxfd \in Socks \cup {Listen} /\ Socks \subseteq Nat /\ Listen \in Nat
    BY <2>1, StateFields, CommAssumption DEF Listen
  <2> QED BY <1>2, <2>1, <2>2, MaxOfSocks, Zenon
<1>5. \A s \in AllSocks(b) : s <= b.maxfd
  <2> SUFFICES ASSUME NEW s \in AllSocks(c) PROVE s <= b.maxfd
    BY <1>3, <1>4
  <2>1. s <= c.maxfd /\ s \in Socks
    BY DEF Sound, AllSocks, SocksOf, CommState, SendEntry, RecvEntry, CloseEntry
  <2> QED BY <1>2, <1>4, <2>1, CommAssumption
<1>6. ASSUME ~c.doubled PROVE Apart(b)
  <2>1. Apart(c) /\ e.sock \notin AllSocks(c)
    BY <1>6 DEF Sound
  <2> QED BY <2>1 DEF Apart, OneEach, More, AllSocks, SocksOf
<1> QED
  BY <1>1, <1>3, <1>5, <1>6 DEF Sound, Kept

\* A socket in the handler's hands may be closed, even one that is in no entry.
LEMMA SocketClosed ==
  ASSUME NEW c, NEW s, Sound(c, {s})
  PROVE  Sound(CloseSock(c, s), {})
<1> DEFINE o == c.open \ {s}
           b == CloseSock(c, s)
<1>1. c \in CommState /\ b = [c EXCEPT !.open = o] /\ o \subseteq Socks
  BY DEF Sound, CloseSock, CommState
<1>2. o \subseteq c.open /\ s \notin o /\ \A x \in c.open : x # s => x \in o
  OBVIOUS
<1> HIDE DEF o, b
<1>3. /\ b \in CommState /\ b.send = c.send /\ b.recv = c.recv /\ b.closing = c.closing
      /\ b.maxfd = c.maxfd /\ b.open = o /\ b.doubled = c.doubled
  BY <1>1 DEF CommState
<1>4. AllSocks(b) = AllSocks(c) /\ (Apart(c) <=> Apart(b))
  BY <1>3 DEF AllSocks, Apart
<1>5. Fits(b.send) /\ Fits(b.recv) /\ Fits(b.closing)
  BY <1>3, Zenon DEF Sound
<1>6. Sound(b, {})
  BY <1>2, <1>3, <1>4, <1>5 DEF Sound
<1> QED
  BY <1>6 DEF b

\* The largest socket is found again when its holder leaves.
LEMMA Recalculated ==
  ASSUME NEW c, NEW s, NEW loose, Sound(c, loose)
  PROVE  Sound(RecalcIf(c, s), loose)
<1> DEFINE T == {Listen} \cup AllSocks(c)
           m == Max(T)
           b == comm_calc_inprogress_maxfd(c)
<1>1. c \in CommState /\ b = [c EXCEPT !.maxfd = m]
  BY DEF Sound, comm_calc_inprogress_maxfd
<1>2. T \in SUBSET Nat /\ IsFiniteSet(T) /\ T # {}
  <2>1. AllSocks(c) \subseteq Socks
    BY <1>1, StateFields
  <2>2. IsFiniteSet(AllSocks(c))
    BY <2>1, FS_Subset, CommAssumption
  <2>3. IsFiniteSet({Listen} \cup AllSocks(c))
    BY <2>2, FS_Singleton, FS_Union
  <2>4. Listen \in Nat /\ AllSocks(c) \subseteq Nat
    BY <2>1, CommAssumption DEF Listen
  <2> QED BY <2>3, <2>4
<1>3. m \in T /\ \A x \in T : x <= m
  BY <1>2, MaxIsGreatest
<1>4. m \in Socks \cup {Listen}
  BY <1>1, <1>3, StateFields
<1> HIDE DEF m, b
<1>5. /\ b \in CommState /\ b.send = c.send /\ b.recv = c.recv /\ b.closing = c.closing
      /\ b.maxfd = m /\ b.open = c.open /\ b.doubled = c.doubled
  BY <1>1, <1>4 DEF CommState
<1>6. AllSocks(b) = AllSocks(c) /\ (Apart(c) <=> Apart(b))
  BY <1>5 DEF AllSocks, Apart
<1>7. Fits(b.send) /\ Fits(b.recv) /\ Fits(b.closing)
  BY <1>5, Zenon DEF Sound
<1>8. Sound(b, loose)
  BY <1>3, <1>5, <1>6, <1>7 DEF Sound
<1> QED
  BY <1>8 DEF RecalcIf, b

\* The number the kernel hands out is free.
LEMMA SocketOpened ==
  ASSUME NEW c, Sound(c, {}), FreeSocks(c) # {}
  PROVE  LET b == Opened(c)
         IN  /\ Sound(b, {NewSock(c)}) /\ NewSock(c) \in Socks
             /\ b.send = c.send /\ b.recv = c.recv /\ b.maxfd = c.maxfd
<1> DEFINE s == NewSock(c)
           o == c.open \cup {s}
           b == Opened(c)
<1>1. s \in Socks /\ s \notin c.open
  <2>1. FreeSocks(c) \in SUBSET Nat
    BY CommAssumption DEF FreeSocks
  <2>2. s \in FreeSocks(c)
    BY <2>1, MinIsLeast DEF NewSock
  <2> QED BY <2>2 DEF FreeSocks
<1>2. c \in CommState /\ b = [c EXCEPT !.open = o]
  BY DEF Sound, Opened
<1> HIDE DEF s
<1>3. o \subseteq Socks
  BY <1>1, <1>2 DEF CommState
<1>4. c.open \subseteq o /\ s \in o /\ \A x \in o : x = s \/ x \in c.open
  OBVIOUS
<1> HIDE DEF o, b
<1>5. /\ b \in CommState /\ b.send = c.send /\ b.recv = c.recv /\ b.closing = c.closing
      /\ b.maxfd = c.maxfd /\ b.open = o /\ b.doubled = c.doubled
  BY <1>2, <1>3 DEF CommState
<1>6. AllSocks(b) = AllSocks(c) /\ (Apart(c) <=> Apart(b))
  BY <1>5 DEF AllSocks, Apart
<1>7. Fits(b.send) /\ Fits(b.recv) /\ Fits(b.closing)
  BY <1>5, Zenon DEF Sound
<1>8. Sound(b, {s})
  BY <1>1, <1>4, <1>5, <1>6, <1>7 DEF Sound
<1> QED
  BY <1>1, <1>5, <1>8 DEF b, s

-----------------------------------------------------------------------------
(***************************************************************************)
(* The operations.                                                         *)
(***************************************************************************)

\* comm_add_inprogress_send takes the socket in hand into its table, when that has room.
LEMMA AddedSend ==
  ASSUME NEW c, NEW s, Sound(c, {s}), NEW mv \in BOOLEAN, HasRoom(c.send)
  PROVE  Sound(comm_add_inprogress_send(c, s, mv), {})
<1> DEFINE e == [sock |-> s, sent |-> 0, mv2recv |-> mv, age |-> NoTimer]
           m == Max({c.maxfd, s})
           t == c.send \cup {e}
           b == comm_add_inprogress_send(c, s, mv)
<1>1. c \in CommState /\ s \in Socks /\ b = [c EXCEPT !.maxfd = m, !.send = t]
  BY Zenon DEF Sound, comm_add_inprogress_send, Raised
<1>2. e \in SendEntry /\ e.sock = s
  BY <1>1, CommAssumption DEF SendEntry
<1>3. m \in Socks \cup {Listen}
  BY <1>1, MaxOfSocks
<1> HIDE DEF e, m, b
<1>4. t \subseteq SendEntry
  BY <1>1, <1>2 DEF CommState
<1> HIDE DEF t
<1>5. /\ b \in CommState /\ b.send = t /\ b.recv = c.recv /\ b.closing = c.closing
      /\ b.maxfd = m /\ b.open = c.open /\ b.doubled = c.doubled
  BY <1>1, <1>3, <1>4 DEF CommState
<1>6. Kept(c, b) /\ More(c, b, e)
  BY <1>2, <1>5, Zenon DEF Kept, More, t
<1>7. Sound(b, {})
  BY <1>2, <1>5, <1>6, EntryEnters DEF m
<1> QED
  BY <1>7 DEF b

\* So does comm_add_inprogress_recv.
LEMMA AddedRecv ==
  ASSUME NEW c, NEW s, Sound(c, {s}), HasRoom(c.recv)
  PROVE  Sound(comm_add_inprogress_recv(c, s), {})
<1> DEFINE e == [sock |-> s, got |-> 0, age |-> 0]
           m == Max({c.maxfd, s})
           t == c.recv \cup {e}
           b == comm_add_inprogress_recv(c, s)
<1>1. c \in CommState /\ s \in Socks /\ b = [c EXCEPT !.maxfd = m, !.recv = t]
  BY Zenon DEF Sound, comm_add_inprogress_recv, Raised
<1>2. e \in RecvEntry /\ e.sock = s
  BY <1>1, CommAssumption DEF RecvEntry, Oldest
<1>3. m \in Socks \cup {Listen}
  BY <1>1, MaxOfSocks
<1> HIDE DEF e, m, b
<1>4. t \subseteq RecvEntry
  BY <1>1, <1>2 DEF CommState
<1> HIDE DEF t
<1>5. /\ b \in CommState /\ b.recv = t /\ b.send = c.send /\ b.closing = c.closing
      /\ b.maxfd = m /\ b.open = c.open /\ b.doubled = c.doubled
  BY <1>1, <1>3, <1>4 DEF CommState
<1>6. Kept(c, b) /\ More(c, b, e)
  BY <1>2, <1>5, Zenon DEF Kept, More, t
<1>7. Sound(b, {})
  BY <1>2, <1>5, <1>6, EntryEnters DEF m
<1> QED
  BY <1>7 DEF b

\* comm_add_close queues the socket, or closes it when the table is full.
LEMMA AddedClose ==
  ASSUME NEW c, NEW s, Sound(c, {s})
  PROVE  Sound(comm_add_close(c, s), {})
<1> DEFINE e == [sock |-> s, age |-> 0]
           m == Max({c.maxfd, s})
           t == c.closing \cup {e}
           b == comm_add_close(c, s)
<1>1. CASE ~HasRoom(c.closing)
  BY <1>1, SocketClosed DEF comm_add_close
<1>2. CASE HasRoom(c.closing)
  <2>1. c \in CommState /\ s \in Socks /\ b = [c EXCEPT !.maxfd = m, !.closing = t]
    BY <1>2, Zenon DEF Sound, comm_add_close, Raised
  <2>2. e \in CloseEntry /\ e.sock = s
    BY <2>1, CommAssumption DEF CloseEntry, Oldest
  <2>3. m \in Socks \cup {Listen}
    BY <2>1, MaxOfSocks
  <2> HIDE DEF e, m, b
  <2>4. t \subseteq CloseEntry
    BY <2>1, <2>2 DEF CommState
  <2> HIDE DEF t
  <2>5. /\ b \in CommState /\ b.closing = t /\ b.send = c.send /\ b.recv = c.recv
        /\ b.maxfd = m /\ b.open = c.open /\ b.doubled = c.doubled
    BY <2>1, <2>3, <2>4 DEF CommState
  <2>6. Kept(c, b) /\ More(c, b, e)
    BY <1>2, <2>2, <2>5, Zenon DEF Kept, More, t
  <2>7. Sound(b, {})
    BY <2>2, <2>5, <2>6, EntryEnters DEF m
  <2> QED BY <2>7 DEF b
<1> QED
  BY <1>1, <1>2

\* What stays of a record whose one table has lost an entry.
LEMMA SendLeaves ==
  ASSUME NEW c, Sound(c, {}), NEW e \in c.send
  PROVE  Sound(SendRemoved(c, e), {e.sock}) /\ SendRemoved(c, e).recv = c.recv
<1> DEFINE t == c.send \ {e}
           b == SendRemoved(c, e)
<1>1. c \in CommState /\ b = [c EXCEPT !.send = t] /\ t \subseteq SendEntry
  BY DEF Sound, SendRemoved, CommState
<1> HIDE DEF t, b
<1>2. /\ b \in CommState /\ b.send = t /\ b.recv = c.recv /\ b.closing = c.closing
      /\ b.maxfd = c.maxfd /\ b.open = c.open /\ b.doubled = c.doubled
  BY <1>1 DEF CommState
<1>3. Kept(c, b) /\ Less(c, b, e)
  BY <1>2, Zenon DEF Kept, Less, t
<1> QED
  BY <1>2, <1>3, EntryLeaves DEF b

\* The same for an entry of the receiving table ...
LEMMA RecvLeaves ==
  ASSUME NEW c, Sound(c, {}), NEW e \in c.recv
  PROVE  Sound([c EXCEPT !.recv = c.recv \ {e}], {e.sock})
<1> DEFINE t == c.recv \ {e}
           b == [c EXCEPT !.recv = t]
<1>1. c \in CommState /\ t \subseteq RecvEntry
  BY DEF Sound, CommState
<1> HIDE DEF t
<1>2. /\ b \in CommState /\ b.recv = t /\ b.send = c.send /\ b.closing = c.closing
      /\ b.maxfd = c.maxfd /\ b.open = c.open /\ b.doubled = c.doubled
  BY <1>1 DEF CommState
<1> HIDE DEF b
<1>3. Kept(c, b) /\ Less(c, b, e)
  BY <1>2, Zenon DEF Kept, Less, t
<1> QED
  BY <1>2, <1>3, EntryLeaves DEF b, t

\* ... and for one of those that wait to be closed.
LEMMA CloseLeaves ==
  ASSUME NEW c, Sound(c, {}), NEW e \in c.closing
  PROVE  Sound([c EXCEPT !.closing = c.closing \ {e}], {e.sock})
<1> DEFINE t == c.closing \ {e}
           b == [c EXCEPT !.closing = t]
<1>1. c \in CommState /\ t \subseteq CloseEntry
  BY DEF Sound, CommState
<1> HIDE DEF t
<1>2. /\ b \in CommState /\ b.closing = t /\ b.send = c.send /\ b.recv = c.recv
      /\ b.maxfd = c.maxfd /\ b.open = c.open /\ b.doubled = c.doubled
  BY <1>1 DEF CommState
<1> HIDE DEF b
<1>3. Kept(c, b) /\ Less(c, b, e)
  BY <1>2, Zenon DEF Kept, Less, t
<1> QED
  BY <1>2, <1>3, EntryLeaves DEF b, t

\* Closing a socket and taking its entry away may be done in either order.
LEMMA CloseCommutes ==
  ASSUME NEW c \in CommState, NEW s, NEW t
  PROVE  /\ [CloseSock(c, s) EXCEPT !.recv = t] = CloseSock([c EXCEPT !.recv = t], s)
         /\ [CloseSock(c, s) EXCEPT !.closing = t] = CloseSock([c EXCEPT !.closing = t], s)
BY DEF CommState, CloseSock

\* comm_send, comm_setup_connection and what follows a message received.
LEMMA SendSound ==
  ASSUME NEW c, Sound(c, {}), NEW mv \in BOOLEAN, NEW b \in comm_send(c, mv)
  PROVE  Sound(b, {})
<1>1. CASE b = c
  BY <1>1
<1>2. CASE /\ FreeSocks(c) # {} /\ HasRoom(c.send)
           /\ b = comm_add_inprogress_send(Opened(c), NewSock(c), mv)
  BY <1>2, SocketOpened, AddedSend
<1> QED
  BY <1>1, <1>2, Zenon DEF comm_send

\* comm_setup_connection: an accepted connection is taken into the receiving table, or
\* closed when there is no room.
LEMMA SetupSound ==
  ASSUME NEW c, Sound(c, {})
  PROVE  Sound(comm_setup_connection(c), {})
<1>1. CASE FreeSocks(c) # {} /\ HasRoom(c.recv)
  BY <1>1, SocketOpened, AddedRecv DEF comm_setup_connection
<1>2. CASE ~(FreeSocks(c) # {} /\ HasRoom(c.recv))
  BY <1>2 DEF comm_setup_connection
<1> QED
  BY <1>1, <1>2

\* Part of a message sent or received: the entry is replaced by one of the same socket.
LEMMA PartSound ==
  ASSUME NEW c, Sound(c, {})
  PROVE  /\ \A e \in c.send, n \in 0 .. Pieces : e.sent + n <= Pieces => Sound(PartSent(c, e, n), {})
         /\ \A e \in c.recv, n \in 0 .. Pieces : e.got + n <= Pieces => Sound(PartReceived(c, e, n), {})
<1>1. c \in CommState /\ c.send \subseteq SendEntry /\ c.recv \subseteq RecvEntry
  BY StateFields DEF Sound
<1>2. ASSUME NEW e \in c.send, NEW n \in 0 .. Pieces, e.sent + n <= Pieces
      PROVE  Sound(PartSent(c, e, n), {})
  <2> DEFINE k == e.sent + n
             f == [e EXCEPT !.sent = k, !.age = 0]
             t == (c.send \ {e}) \cup {f}
             b == PartSent(c, e, n)
  <2>1. b = [c EXCEPT !.send = t]
    BY Zenon DEF PartSent
  <2>2. e \in SendEntry
    BY <1>1
  <2>3. f \in SendEntry /\ f.sock = e.sock
    <3>1. e.sent \in 0 .. Pieces /\ 0 \in 0 .. Oldest
      BY <2>2, CommAssumption DEF SendEntry, Oldest
    <3>2. k \in 0 .. Pieces
      BY <1>2, <3>1, CommAssumption
    <3> HIDE DEF k
    <3> QED BY <2>2, <3>1, <3>2 DEF SendEntry
  <2> HIDE DEF f, b
  <2>4. t \subseteq SendEntry
    BY <1>1, <2>3
  <2>5. Fits(t)
    BY <2>2, ReplacedFits DEF Sound
  <2>6. SocksOf(t) = SocksOf(c.send) /\ (OneEach(c.send) => OneEach(t))
    BY <2>3 DEF SocksOf, OneEach
  <2> HIDE DEF t
  <2>7. /\ b \in CommState /\ b.send = t /\ b.recv = c.recv /\ b.closing = c.closing
        /\ b.maxfd = c.maxfd /\ b.open = c.open /\ b.doubled = c.doubled
    BY <1>1, <2>1, <2>4 DEF CommState
  <2>8. AllSocks(b) = AllSocks(c)
    BY <2>6, <2>7, Zenon DEF AllSocks
  <2>9. Apart(c) => Apart(b)
    BY <2>3, <2>6, <2>7 DEF Apart, t
  <2>10. Fits(b.send) /\ Fits(b.recv) /\ Fits(b.closing)
    BY <2>5, <2>7, Zenon DEF Sound
  <2>11. Sound(b, {})
    BY <2>7, <2>8, <2>9, <2>10 DEF Sound
  <2> QED BY <2>11 DEF b
<1>3. ASSUME NEW e \in c.recv, NEW n \in 0 .. Pieces, e.got + n <= Pieces
      PROVE  Sound(PartReceived(c, e, n), {})
  <2> DEFINE k == e.got + n
             f == [e EXCEPT !.got = k, !.age = 0]
             t == (c.recv \ {e}) \cup {f}
             b == PartReceived(c, e, n)
  <2>1. b = [c EXCEPT !.recv = t]
    BY Zenon DEF PartReceived
  <2>2. e \in RecvEntry
    BY <1>1
  <2>3. f \in RecvEntry /\ f.sock = e.sock
    <3>1. e.got \in 0 .. Pieces /\ 0 \in 0 .. Oldest
      BY <2>2, CommAssumption DEF RecvEntry, Oldest
    <3>2. k \in 0 .. Pieces
      BY <1>3, <3>1, CommAssumption
    <3> HIDE DEF k
    <3> QED BY <2>2, <3>1, <3>2 DEF RecvEntry
  <2> HIDE DEF f, b
  <2>4. t \subseteq RecvEntry
    BY <1>1, <2>3
  <2>5. Fits(t)
    BY <2>2, ReplacedFits DEF Sound
  <2>6. SocksOf(t) = SocksOf(c.recv) /\ (OneEach(c.recv) => OneEach(t))
    BY <2>3 DEF SocksOf, OneEach
  <2> HIDE DEF t
  <2>7. /\ b \in CommState /\ b.recv = t /\ b.send = c.send /\ b.closing = c.closing
        /\ b.maxfd = c.maxfd /\ b.open = c.open /\ b.doubled = c.doubled
    BY <1>1, <2>1, <2>4 DEF CommState
  <2>8. AllSocks(b) = AllSocks(c)
    BY <2>6, <2>7, Zenon DEF AllSocks
  <2>9. Apart(c) => Apart(b)
    BY <2>3, <2>6, <2>7 DEF Apart, t
  <2>10. Fits(b.send) /\ Fits(b.recv) /\ Fits(b.closing)
    BY <2>5, <2>7, Zenon DEF Sound
  <2>11. Sound(b, {})
    BY <2>7, <2>8, <2>9, <2>10 DEF Sound
  <2> QED BY <2>11 DEF b
<1> QED
  BY <1>2, <1>3

-----------------------------------------------------------------------------
(***************************************************************************)
(* What the handlers leave behind.                                         *)
(***************************************************************************)

\* comm_finish_send, whether it fails, finishes or sends a part.
LEMMA FinishSendSound ==
  ASSUME NEW c, Sound(c, {}), NEW e \in c.send, NEW b \in comm_finish_send(c, e)
  PROVE  Sound(b, {})
<1> DEFINE gone == SendRemoved(c, e)
           s == e.sock
<1>1. Sound(gone, {s}) /\ gone.recv = c.recv
  BY SendLeaves
<1>2. e \in SendEntry /\ e.sent \in 0 .. Pieces /\ e.mv2recv \in BOOLEAN
  BY StateFields DEF Sound, SendEntry
<1> HIDE DEF gone, s
<1>3. CASE b = BadSend(c, e)
  <2>1. Sound(CloseSock(gone, s), {})
    BY <1>1, SocketClosed
  <2> QED BY <1>3, <2>1, Recalculated DEF BadSend, gone, s
<1>4. CASE b = GoodSend(c, e)
  <2>1. CASE ~e.mv2recv
    BY <1>1, <1>4, <2>1, AddedClose DEF GoodSend, gone, s
  <2>2. CASE e.mv2recv /\ HasRoom(c.recv)
    <3>1. HasRoom(gone.recv)
      BY <1>1, <2>2, Zenon
    <3>2. Sound(comm_add_inprogress_recv(gone, s), {})
      BY <1>1, <3>1, AddedRecv
    <3> QED BY <1>4, <2>2, <3>2 DEF GoodSend, gone, s
  <2>3. CASE e.mv2recv /\ ~HasRoom(c.recv)
    <3> DEFINE x == CloseSock(gone, s)
               y == [x EXCEPT !.doubled = TRUE]
    <3>1. Sound(x, {}) /\ s \in Socks
      BY <1>1, SocketClosed DEF Sound
    <3>2. x \in CommState
      BY <3>1 DEF Sound
    <3> HIDE DEF x
    <3>3. /\ y \in CommState /\ y.send = x.send /\ y.recv = x.recv /\ y.closing = x.closing
          /\ y.maxfd = x.maxfd /\ y.open = x.open /\ y.doubled
      BY <3>2 DEF CommState
    <3> HIDE DEF y
    <3>4. AllSocks(y) = AllSocks(x)
      BY <3>3, Zenon DEF AllSocks
    <3>5. Fits(y.send) /\ Fits(y.recv) /\ Fits(y.closing)
      BY <3>1, <3>3, Zenon DEF Sound
    <3>6. Sound(y, {s})
      BY <3>1, <3>3, <3>4, <3>5 DEF Sound
    <3>7. Sound(comm_add_close(y, s), {})
      BY <3>6, AddedClose
    <3> QED BY <1>4, <2>3, <3>7 DEF GoodSend, gone, s, x, y
  <2> QED BY <1>2, <2>1, <2>2, <2>3
<1>5. ASSUME NEW n \in (IF e.age = NoTimer THEN 0 ELSE 1) .. Pieces - e.sent - 1,
             b = PartSent(c, e, n)
      PROVE  Sound(b, {})
  <2>1. n \in 0 .. Pieces /\ e.sent + n <= Pieces
    BY <1>2, CommAssumption
  <2> QED BY <1>5, <2>1, PartSound
<1> QED
  BY <1>3, <1>4, <1>5, Zenon DEF comm_finish_send

\* comm_recv and handle_msg.
LEMMA RecvSound ==
  ASSUME NEW c, Sound(c, {}), NEW e \in c.recv, NEW b \in comm_recv(c, e)
  PROVE  Sound(b, {})
<1> DEFINE gone == [c EXCEPT !.recv = c.recv \ {e}]
           s == e.sock
<1>1. Sound(gone, {s})
  BY RecvLeaves
<1>2. e \in RecvEntry /\ e.got \in 0 .. Pieces
  BY StateFields DEF Sound, RecvEntry
<1>3. c \in CommState
  BY DEF Sound
<1>4. CASE b = RecvFailed(c, e)
  <2>1. [CloseSock(c, s) EXCEPT !.recv = c.recv \ {e}] = CloseSock(gone, s)
    BY <1>3, CloseCommutes
  <2>2. CloseSock(c, s).recv = c.recv
    BY <1>3 DEF CloseSock, CommState
  <2>3. b = RecalcIf([CloseSock(c, s) EXCEPT !.recv = CloseSock(c, s).recv \ {e}], s)
    BY <1>4, Zenon DEF RecvFailed
  <2>4. b = RecalcIf(CloseSock(gone, s), s)
    BY <2>1, <2>2, <2>3, Zenon
  <2>5. Sound(CloseSock(gone, s), {})
    BY <1>1, SocketClosed
  <2> QED BY <2>4, <2>5, Recalculated, Zenon
<1>5. CASE b \in handle_msg(RecvRemoved(c, e), s)
  <2> DEFINE r == RecvRemoved(c, e)
  <2>1. r = RecalcIf(gone, s)
    BY Zenon DEF RecvRemoved
  <2>2. Sound(r, {s})
    BY <1>1, <2>1, Recalculated, ZenonT(30)
  <2> HIDE DEF r
  <2>3. CASE b = CloseSock(r, s)
    BY <2>2, <2>3, SocketClosed
  <2>4. CASE b = comm_send_on_socket(r, s)
    BY <2>2, <2>4, SocketClosed, AddedSend DEF comm_send_on_socket
  <2>5. b \in handle_msg(r, s)
    BY <1>5 DEF r
  <2>6. b = CloseSock(r, s) \/ b = comm_send_on_socket(r, s)
    BY <2>5 DEF handle_msg
  <2> QED BY <2>3, <2>4, <2>6
<1>6. ASSUME NEW n \in 1 .. Pieces - e.got - 1, b = PartReceived(c, e, n) PROVE Sound(b, {})
  <2>1. n \in 0 .. Pieces /\ e.got + n <= Pieces
    BY <1>2, CommAssumption
  <2> QED BY <1>6, <2>1, PartSound
<1> QED
  BY <1>4, <1>5, <1>6, Zenon DEF comm_recv

\* comm_close_on_socket.
LEMMA CloseSound ==
  ASSUME NEW c, Sound(c, {}), NEW e \in c.closing
  PROVE  Sound(comm_close_on_socket(c, e), {})
<1> DEFINE gone == [c EXCEPT !.closing = c.closing \ {e}]
           s == e.sock
           b == comm_close_on_socket(c, e)
<1>1. Sound(gone, {s}) /\ c \in CommState
  BY CloseLeaves DEF Sound
<1>2. [CloseSock(c, s) EXCEPT !.closing = c.closing \ {e}] = CloseSock(gone, s)
  BY <1>1, CloseCommutes
<1>3. CloseSock(c, s).closing = c.closing
  BY <1>1 DEF CloseSock, CommState
<1>4. b = RecalcIf([CloseSock(c, s) EXCEPT !.closing = CloseSock(c, s).closing \ {e}], s)
  BY Zenon DEF comm_close_on_socket
<1>5. b = RecalcIf(CloseSock(gone, s), s)
  BY <1>2, <1>3, <1>4, Zenon
<1>6. Sound(CloseSock(gone, s), {})
  BY <1>1, SocketClosed
<1> QED
  BY <1>5, <1>6, Recalculated, Zenon

\* comm_admin closes the socket of every entry it gives up, and of no other.
LEMMA SweepSound ==
  ASSUME NEW c, Sound(c, {}), NEW off
  PROVE  Sound(Sweep(c, off), {})
<1> DEFINE oldSend  == Swept(c.send, c.open, Timeout, off)
           open1    == c.open \ SocksOf(oldSend)
           oldRecv  == Swept(c.recv, open1, Timeout, off)
           open2    == open1 \ SocksOf(oldRecv)
           oldClose == Swept(c.closing, open2, CloseWait, off)
           se == c.send \ oldSend
           re == c.recv \ oldRecv
           cl == c.closing \ oldClose
           o == open2 \ SocksOf(oldClose)
           b == [c EXCEPT !.send = se, !.recv = re, !.closing = cl, !.open = o, !.wait = AdminWait]
<1>1. Sweep(c, off) \in {b, comm_calc_inprogress_maxfd(b)}
  BY Zenon DEF Sweep
<1>2. c \in CommState /\ AdminWait \in 0 .. AdminWait
  BY CommAssumption DEF Sound
<1>3. oldSend \subseteq c.send /\ oldRecv \subseteq c.recv /\ oldClose \subseteq c.closing
  BY DEF Swept
<1>4. o = c.open \ (SocksOf(oldSend) \cup SocksOf(oldRecv) \cup SocksOf(oldClose))
  OBVIOUS
<1> HIDE DEF oldSend, oldRecv, oldClose, open1, open2, o
<1>5. se \subseteq c.send /\ re \subseteq c.recv /\ cl \subseteq c.closing
  OBVIOUS
<1> HIDE DEF se, re, cl
<1>6. /\ se \subseteq SendEntry /\ re \subseteq RecvEntry /\ cl \subseteq CloseEntry
      /\ o \subseteq Socks
  BY <1>2, <1>4, <1>5, StateFields
<1>7. /\ b \in CommState /\ b.send = se /\ b.recv = re /\ b.closing = cl
      /\ b.maxfd = c.maxfd /\ b.open = o /\ b.doubled = c.doubled
  BY <1>2, <1>6 DEF CommState
<1> HIDE DEF b
<1>8. Fits(b.send) /\ Fits(b.recv) /\ Fits(b.closing)
  <2>1. Fits(se) /\ Fits(re) /\ Fits(cl)
    BY <1>5, SubtableFits DEF Sound
  <2> QED BY <1>7, <2>1, Zenon
<1>9. AllSocks(b) \subseteq AllSocks(c)
  BY <1>5, <1>7 DEF AllSocks, SocksOf
<1>10. b.open \subseteq AllSocks(b)
  <2> SUFFICES ASSUME NEW s \in o PROVE s \in AllSocks(b)
    BY <1>7
  <2>1. s \in AllSocks(c)
    BY <1>4 DEF Sound
  <2>2. s \notin SocksOf(oldSend) /\ s \notin SocksOf(oldRecv) /\ s \notin SocksOf(oldClose)
    BY <1>4
  <2>3. s \in SocksOf(se) \cup SocksOf(re) \cup SocksOf(cl)
    BY <2>1, <2>2 DEF AllSocks, SocksOf, se, re, cl
  <2> QED BY <1>7, <2>3, Zenon DEF AllSocks
<1>11. ASSUME ~c.doubled PROVE AllSocks(b) \subseteq b.open /\ Apart(b)
  <2>1. AllSocks(c) \subseteq c.open /\ Apart(c)
    BY <1>11 DEF Sound
  <2>2. Apart(b)
    BY <1>5, <1>7, <2>1 DEF Apart, OneEach
  <2>3. ASSUME NEW s \in SocksOf(se) \cup SocksOf(re) \cup SocksOf(cl)
        PROVE  s \notin SocksOf(oldSend) \cup SocksOf(oldRecv) \cup SocksOf(oldClose)
    BY <1>3, <2>1 DEF Apart, OneEach, SocksOf, se, re, cl
  <2>4. AllSocks(b) = SocksOf(se) \cup SocksOf(re) \cup SocksOf(cl)
    BY <1>7, Zenon DEF AllSocks
  <2>5. AllSocks(b) \subseteq o
    BY <1>4, <1>9, <2>1, <2>3, <2>4
  <2> QED BY <1>7, <2>2, <2>5
<1>12. Sound(b, {})
  BY <1>7, <1>8, <1>9, <1>10, <1>11 DEF Sound
<1>13. Sound(comm_calc_inprogress_maxfd(b), {})
  BY <1>12, Recalculated DEF RecalcIf
<1> QED
  BY <1>1, <1>12, <1>13

\* A second passes: no entry changes its socket or leaves, and none is more than Oldest old.
LEMMA OlderKeeps ==
  ASSUME NEW table, Fits(table)
  PROVE  /\ Fits(Older(table)) /\ SocksOf(Older(table)) = SocksOf(table)
         /\ OneEach(table) => OneEach(Older(table))
         /\ table \subseteq SendEntry => Older(table) \subseteq SendEntry
         /\ table \subseteq RecvEntry => Older(table) \subseteq RecvEntry
         /\ table \subseteq CloseEntry => Older(table) \subseteq CloseEntry
<1> DEFINE g(e) == [e EXCEPT !.age = IF e.age \in {NoTimer, Oldest} THEN e.age ELSE e.age + 1]
           f == [e \in table |-> g(e)]
           T == {f[e] : e \in table}
<1>1. Older(table) = T
  <2>1. Older(table) = {g(e) : e \in table}
    BY Zenon DEF Older
  <2>2. \A e \in table : f[e] = g(e)
    OBVIOUS
  <2> HIDE DEF g, f
  <2> QED BY <2>1, <2>2
<1>2. \A e \in table : f[e].sock = e.sock
  <2> SUFFICES ASSUME NEW e \in table PROVE g(e).sock = e.sock
    OBVIOUS
  <2> QED OBVIOUS
<1>3. Oldest \in Nat
  BY CommAssumption DEF Oldest
<1>4. ASSUME NEW e \in SendEntry PROVE g(e) \in SendEntry
  <2> DEFINE a == IF e.age \in {NoTimer, Oldest} THEN e.age ELSE e.age + 1
  <2>1. a \in {NoTimer} \cup 0 .. Oldest
    BY <1>3 DEF SendEntry, NoTimer
  <2> HIDE DEF a
  <2>2. [e EXCEPT !.age = a] \in SendEntry
    BY <2>1 DEF SendEntry
  <2> QED BY <2>2 DEF a
<1>5. ASSUME NEW e \in RecvEntry PROVE g(e) \in RecvEntry
  <2> DEFINE a == IF e.age \in {NoTimer, Oldest} THEN e.age ELSE e.age + 1
  <2>1. a \in 0 .. Oldest
    BY <1>3 DEF RecvEntry, NoTimer
  <2> HIDE DEF a
  <2>2. [e EXCEPT !.age = a] \in RecvEntry
    BY <2>1 DEF RecvEntry
  <2> QED BY <2>2 DEF a
<1>6. ASSUME NEW e \in CloseEntry PROVE g(e) \in CloseEntry
  <2> DEFINE a == IF e.age \in {NoTimer, Oldest} THEN e.age ELSE e.age + 1
  <2>1. a \in 0 .. Oldest
    BY <1>3 DEF CloseEntry, NoTimer
  <2> HIDE DEF a
  <2>2. [e EXCEPT !.age = a] \in CloseEntry
    BY <2>1 DEF CloseEntry
  <2> QED BY <2>2 DEF a
<1>7. \A e \in table : f[e] = g(e)
  OBVIOUS
<1> HIDE DEF g, f
<1>8. /\ table \subseteq SendEntry => T \subseteq SendEntry
      /\ table \subseteq RecvEntry => T \subseteq RecvEntry
      /\ table \subseteq CloseEntry => T \subseteq CloseEntry
  BY <1>4, <1>5, <1>6, <1>7
<1>9. SocksOf(T) = SocksOf(table) /\ (OneEach(table) => OneEach(T))
  BY <1>2 DEF SocksOf, OneEach
<1>10. Fits(T)
  <2>1. IsFiniteSet(T) /\ Cardinality(T) <= Cardinality(table)
    BY ImageNoLarger DEF Fits
  <2>2. Cardinality(T) \in Nat /\ Cardinality(table) \in Nat /\ MaxInProgress \in Nat
    BY <2>1, FS_CardinalityType, CommAssumption DEF Fits
  <2> QED BY <2>1, <2>2 DEF Fits
<1> HIDE DEF T
<1> QED
  BY <1>1, <1>8, <1>9, <1>10

-----------------------------------------------------------------------------
(***************************************************************************)
(* The theorems.                                                           *)
(***************************************************************************)

Inv == Sound(comm, {})

\* The variables take the values of the record a handler returns.
LEMMA BecomesSound ==
  ASSUME NEW c, Sound(c, {}), Becomes(c)
  PROVE  Inv'
<1>1. c \in CommState
  BY DEF Sound
<1>2. c = [send |-> send', recv |-> recv', closing |-> closing', maxfd |-> maxfd',
           open |-> open', wait |-> wait', doubled |-> doubled']
  BY <1>1 DEF CommState, Becomes
<1>3. comm' = c
  BY <1>2, Zenon DEF comm
<1> QED
  BY <1>3, Zenon DEF Inv

\* A round of the main loop: the event, comm_admin and the time step.
LEMMA RoundSound ==
  ASSUME NEW outcomes, \A c \in outcomes : Sound(c, {}), Iteration(outcomes)
  PROVE  Inv'
<1>1. PICK c \in outcomes : \E done \in TimeStep(comm_admin(c)) : Becomes(done)
  BY DEF Iteration
<1>2. PICK done \in TimeStep(comm_admin(c)) : Becomes(done)
  BY <1>1
<1>3. Sound(comm_admin(c), {})
  BY <1>1, SweepSound DEF comm_admin
<1>4. Sound(done, {})
  BY <1>2, <1>3, SendSound, Zenon DEF TimeStep
<1> QED
  BY <1>2, <1>4, BecomesSound

\* Every step keeps the tables sound.
LEMMA StepSound == Inv /\ [Next]_vars => Inv'
<1> SUFFICES ASSUME Inv, [Next]_vars PROVE Inv'
  OBVIOUS
<1>1. Sound(comm, {}) /\ comm.send = send /\ comm.recv = recv /\ comm.closing = closing
  BY DEF Inv, comm
<1> DEFINE c == comm
<1>2. CASE SelectError
  <2>1. PICK off \in -Oldest .. Oldest : Becomes(Sweep(c, off))
    BY <1>2 DEF SelectError
  <2> QED BY <1>1, <2>1, SweepSound, BecomesSound
<1>3. CASE NewConnection
  BY <1>1, <1>3, SetupSound, RoundSound DEF NewConnection
<1>4. ASSUME NEW e \in send, FinishSend(e) PROVE Inv'
  BY <1>1, <1>4, FinishSendSound, RoundSound DEF FinishSend
<1>5. ASSUME NEW e \in recv, Receive(e) PROVE Inv'
  BY <1>1, <1>5, RecvSound, RoundSound DEF Receive
<1>6. ASSUME NEW e \in closing, CloseOnSocket(e) PROVE Inv'
  BY <1>1, <1>6, CloseSound, RoundSound DEF CloseOnSocket
<1>7. CASE NoEvent
  BY <1>1, <1>7, RoundSound DEF NoEvent
<1>8. CASE Tick
  <2>1. c \in CommState /\ Fits(send) /\ Fits(recv) /\ Fits(closing)
    BY <1>1, Zenon DEF Sound
  <2> DEFINE w == IF wait = 0 THEN 0 ELSE wait - 1
             b == [send |-> Older(send), recv |-> Older(recv), closing |-> Older(closing),
                   maxfd |-> maxfd, open |-> open, wait |-> w, doubled |-> doubled]
  <2>2. /\ send \subseteq SendEntry /\ recv \subseteq RecvEntry /\ closing \subseteq CloseEntry
        /\ maxfd \in Socks \cup {Listen} /\ open \subseteq Socks
        /\ wait \in 0 .. AdminWait /\ doubled \in BOOLEAN
    BY <2>1, StateFields DEF comm
  <2>3. w \in 0 .. AdminWait
    BY <2>2, CommAssumption
  <2>4. /\ Older(send) \subseteq SendEntry /\ Older(recv) \subseteq RecvEntry
        /\ Older(closing) \subseteq CloseEntry
        /\ Fits(Older(send)) /\ Fits(Older(recv)) /\ Fits(Older(closing))
        /\ SocksOf(Older(send)) = SocksOf(send) /\ SocksOf(Older(recv)) = SocksOf(recv)
        /\ SocksOf(Older(closing)) = SocksOf(closing)
        /\ OneEach(send) => OneEach(Older(send))
        /\ OneEach(recv) => OneEach(Older(recv))
        /\ OneEach(closing) => OneEach(Older(closing))
    BY <2>1, <2>2, OlderKeeps
  <2>5. Becomes(b)
    BY <1>8 DEF Tick, Becomes
  <2> HIDE DEF w
  <2>6. b \in CommState
    BY <2>2, <2>3, <2>4 DEF CommState
  <2>7. AllSocks(b) = AllSocks(c)
    BY <2>4 DEF AllSocks, comm
  <2>8. Apart(c) => Apart(b)
    <3> SUFFICES ASSUME Apart(c) PROVE Apart(b)
      OBVIOUS
    <3>1. /\ OneEach(send) /\ OneEach(recv) /\ OneEach(closing)
          /\ SocksOf(send) \cap (SocksOf(recv) \cup SocksOf(closing)) = {}
          /\ SocksOf(recv) \cap SocksOf(closing) = {}
      BY DEF Apart, comm, SocksOf
    <3>2. /\ OneEach(b.send) /\ OneEach(b.recv) /\ OneEach(b.closing)
          /\ SocksOf(b.send) \cap (SocksOf(b.recv) \cup SocksOf(b.closing)) = {}
          /\ SocksOf(b.recv) \cap SocksOf(b.closing) = {}
      BY <2>4, <3>1
    <3> QED BY <3>2 DEF Apart, SocksOf
  <2>9. Sound(b, {})
    BY <1>1, <2>4, <2>6, <2>7, <2>8 DEF Sound, comm
  <2> QED BY <2>5, <2>9, BecomesSound
<1>9. CASE UNCHANGED vars
  BY <1>9 DEF vars, Inv, comm
<1> QED
  BY <1>2, <1>3, <1>4, <1>5, <1>6, <1>7, <1>8, <1>9 DEF Next, Loop

\* The three tables begin empty.
LEMMA InitSound == Init => Inv
<1> SUFFICES ASSUME Init PROVE Inv
  OBVIOUS
<1>1. /\ send = {} /\ recv = {} /\ closing = {} /\ maxfd = Listen /\ open = {}
      /\ wait = AdminWait /\ doubled = FALSE
  BY DEF Init, comm_init
<1>2. comm \in CommState
  <2>1. /\ send \subseteq SendEntry /\ recv \subseteq RecvEntry /\ closing \subseteq CloseEntry
        /\ maxfd \in Socks \cup {Listen} /\ open \subseteq Socks /\ doubled \in BOOLEAN
    BY <1>1, Zenon
  <2>2. wait \in 0 .. AdminWait
    BY <1>1, CommAssumption
  <2> QED BY <2>1, <2>2 DEF comm, CommState
<1>3. Fits({})
  BY FS_EmptySet, CommAssumption DEF Fits
<1>4. AllSocks(comm) = {} /\ Apart(comm)
  BY <1>1 DEF comm, AllSocks, SocksOf, Apart, OneEach
<1> QED
  BY <1>1, <1>2, <1>3, <1>4 DEF Inv, Sound, comm

\* No socket is ever in hand between two handlers, and every one has one owner.
LEMMA AlwaysSound == Spec => []Inv
<1> QED
  BY InitSound, StepSound, PTL DEF Spec

\* A table whose entries have a socket each has as many sockets as entries.
LEMMA SocksCounted ==
  ASSUME NEW table, IsFiniteSet(table), OneEach(table)
  PROVE  IsFiniteSet(SocksOf(table)) /\ Cardinality(SocksOf(table)) = Cardinality(table)
<1> DEFINE f == [e \in table |-> e.sock]
           T == {f[e] : e \in table}
<1>1. SocksOf(table) = T
  BY DEF SocksOf
<1>2. \A x, y \in table : f[x] = f[y] => x = y
  BY DEF OneEach
<1> HIDE DEF f
<1>3. IsFiniteSet(T) /\ Cardinality(T) = Cardinality(table)
  BY <1>2, ImageNoLarger, InjectiveImage
<1> QED
  BY <1>1, <1>3, Zenon

\* Two sets without a common element count together.
LEMMA DisjointUnion ==
  ASSUME NEW S, NEW T, IsFiniteSet(S), IsFiniteSet(T), S \cap T = {}
  PROVE  /\ IsFiniteSet(S \cup T)
         /\ Cardinality(S \cup T) = Cardinality(S) + Cardinality(T)
<1>1. IsFiniteSet(S \cup T)
      /\ Cardinality(S \cup T) = Cardinality(S) + Cardinality(T) - Cardinality(S \cap T)
  BY FS_Union
<1>2. Cardinality(S \cap T) = 0
  BY FS_EmptySet, Zenon
<1>3. Cardinality(S) \in Nat /\ Cardinality(T) \in Nat
  BY FS_CardinalityType
<1> QED
  BY <1>1, <1>2, <1>3

\* The tables hold what the code says they hold.
THEOREM CommTypeCorrect == Spec => []TypeOK
<1>1. Inv => TypeOK
  <2> SUFFICES ASSUME Inv PROVE TypeOK
    OBVIOUS
  <2>1. comm \in CommState
    BY DEF Inv, Sound
  <2> QED BY <2>1, StateFields DEF comm, TypeOK
<1> QED
  BY <1>1, AlwaysSound, PTL

\* select is told of every socket in the tables, even while a socket closed twice is there.
THEOREM MaxFdAlwaysCovers == Spec => []MaxFdCovers
<1>1. Inv => MaxFdCovers
  BY DEF Inv, Sound, MaxFdCovers, comm
<1> QED
  BY <1>1, AlwaysSound, PTL

\* However many sockets and places there are: no socket is left open outside the tables,
\* no table outgrows its array, and while no socket was closed twice no two entries
\* share one and every entry's socket is open.
THEOREM SocketsAlwaysOwned == Spec => []SocketsOwned
<1>1. Inv => SocketsOwned
  <2> SUFFICES ASSUME Inv PROVE SocketsOwned
    OBVIOUS
  <2>1. Sound(comm, {})
    BY DEF Inv
  <2>2. NoLeak
    BY <2>1 DEF Sound, NoLeak, Fits, comm
  <2>3. ASSUME ~doubled
        PROVE  Cardinality(send) + Cardinality(recv) + Cardinality(closing)
                 = Cardinality(AllSocks(comm))
    <3>1. Apart(comm) /\ IsFiniteSet(send) /\ IsFiniteSet(recv) /\ IsFiniteSet(closing)
      BY <2>1, <2>3 DEF Sound, Fits, comm
    <3>2. /\ OneEach(send) /\ OneEach(recv) /\ OneEach(closing)
          /\ SocksOf(send) \cap SocksOf(recv) = {}
          /\ (SocksOf(send) \cup SocksOf(recv)) \cap SocksOf(closing) = {}
      BY <3>1 DEF Apart, comm, SocksOf
    <3>3. /\ IsFiniteSet(SocksOf(send)) /\ Cardinality(SocksOf(send)) = Cardinality(send)
          /\ IsFiniteSet(SocksOf(recv)) /\ Cardinality(SocksOf(recv)) = Cardinality(recv)
          /\ IsFiniteSet(SocksOf(closing)) /\ Cardinality(SocksOf(closing)) = Cardinality(closing)
      BY <3>1, <3>2, SocksCounted
    <3>4. /\ IsFiniteSet(SocksOf(send) \cup SocksOf(recv))
          /\ Cardinality(SocksOf(send) \cup SocksOf(recv)) = Cardinality(send) + Cardinality(recv)
      BY <3>2, <3>3, DisjointUnion
    <3>5. Cardinality((SocksOf(send) \cup SocksOf(recv)) \cup SocksOf(closing))
            = (Cardinality(send) + Cardinality(recv)) + Cardinality(closing)
      BY <3>2, <3>3, <3>4, DisjointUnion
    <3>6. AllSocks(comm) = (SocksOf(send) \cup SocksOf(recv)) \cup SocksOf(closing)
      BY DEF AllSocks, comm
    <3> QED BY <3>5, <3>6, Zenon
  <2>4. OneOwner
    BY <2>1, <2>3 DEF Sound, OneOwner, comm
  <2> QED BY <2>2, <2>4 DEF SocketsOwned
<1> QED
  BY <1>1, AlwaysSound, PTL

(***************************************************************************)
(* The monitor.  Its columns are blocks, one for each node, of a run of    *)
(* the nodes shown: first moving the view, then      *)
(* fetching, building it, and last the keys.                               *)
(***************************************************************************)

\* Column j of the k-th node, and how many columns n nodes take.
Place(k, j, size) == (k - 1) * size + j
Columns(n, size) == n * size

\* The columns are those of the nodes of e, size of them for each.
InBlocks(bars, e, size) ==
  /\ Len(bars) = Columns(Len(e), size)
  /\ \A k \in 1 .. Len(e), j \in 1 .. size : bars[Place(k, j, size)] = e[k]

\* The nodes of e are those of shown from the first to the last of them, in order.
IsRun(e, shown) ==
  /\ \A k \in 1 .. Len(e) : e[k] \in shown
  /\ \A j, k \in 1 .. Len(e) : j < k => e[j] < e[k]
  /\ \A j, k \in 1 .. Len(e), p \in shown : e[j] <= p /\ p <= e[k] => \E i \in 1 .. Len(e) : p = e[i]

\* The columns are numbered through, no two of them alike.
LEMMA PlacesAre ==
  ASSUME NEW n \in Nat, NEW size \in Nat \ {0}
  PROVE  /\ Columns(n, size) \in Nat /\ (n = 0 <=> Columns(n, size) = 0)
         /\ \A k \in 1 .. n, j \in 1 .. size :
              /\ Place(k, j, size) \in 1 .. Columns(n, size)
              /\ k < n => Place(k + 1, j, size) = Place(k, j, size) + size
              /\ k = 1 => Place(k, j, size) = j
              /\ k = n => Place(k, j, size) = Columns(n, size) - size + j
         /\ \A i \in 1 .. Columns(n, size) : \E k \in 1 .. n, j \in 1 .. size : i = Place(k, j, size)
<1>1. Columns(n, size) \in Nat /\ (n = 0 <=> Columns(n, size) = 0)
  <2>1. CASE n = 0
    BY <2>1 DEF Columns
  <2>2. CASE n # 0
    <3>1. n - 1 \in Nat /\ n - 1 + 1 = n /\ n - 1 <= n
      BY <2>2
    <3>2. n * size = (n - 1) * size + size /\ (n - 1) * size \in Nat
      BY <3>1, LaterBlock
    <3> DEFINE a == (n - 1) * size
               b == n * size
    <3>3. a \in Nat /\ b = a + size
      BY <3>2
    <3>4. b \in Nat /\ b # 0
      <4> HIDE DEF a, b
      <4> QED BY <3>3
    <3> QED BY <2>2, <3>4 DEF Columns
  <2> QED BY <2>1, <2>2
<1>2. ASSUME NEW k \in 1 .. n, NEW j \in 1 .. size
      PROVE  /\ Place(k, j, size) \in 1 .. Columns(n, size)
             /\ k < n => Place(k + 1, j, size) = Place(k, j, size) + size
             /\ k = 1 => Place(k, j, size) = j
             /\ k = n => Place(k, j, size) = Columns(n, size) - size + j
  <2>1. k - 1 \in Nat /\ k - 1 <= n /\ k - 1 + 1 = k /\ k \in Nat /\ k <= n
    OBVIOUS
  <2> DEFINE a == (k - 1) * size
             b == k * size
             c == n * size
  <2>2. a \in Nat /\ b = a + size /\ b \in Nat /\ c \in Nat /\ b <= c
    <3>1. (k - 1) * size \in Nat /\ (k - 1 + 1) * size = (k - 1) * size + size
      BY <2>1, LaterBlock
    <3>2. k * size \in Nat /\ n * size \in Nat /\ k * size <= n * size
      BY <2>1, LaterBlock
    <3> QED BY <2>1, <3>1, <3>2
  <2>3. Place(k, j, size) = a + j /\ Place(k + 1, j, size) = b + j /\ Columns(n, size) = c
    <3>1. k + 1 - 1 = k
      BY <2>1
    <3> QED BY <3>1 DEF Place, Columns
  <2>4. k = 1 => a = 0
    OBVIOUS
  <2>5. k = n => b = c
    OBVIOUS
  <2> HIDE DEF a, b, c
  <2> QED BY <2>2, <2>3, <2>4, <2>5
<1>3. ASSUME NEW i \in 1 .. Columns(n, size)
      PROVE  \E k \in 1 .. n, j \in 1 .. size : i = Place(k, j, size)
  <2>1. i \in 1 .. n * size
    BY DEF Columns
  <2> QED BY <2>1, InOneBlock DEF Place
<1> QED
  BY <1>1, <1>2, <1>3

\* What InBlocks says of the bars.
LEMMA BlocksAre ==
  ASSUME NEW e \in Seq(Nat), NEW size \in Nat \ {0}, NEW bars \in Seq(Nat), InBlocks(bars, e, size)
  PROVE  /\ \A i \in 1 .. Len(bars) : \E k \in 1 .. Len(e), j \in 1 .. size :
              i = Place(k, j, size) /\ bars[i] = e[k]
         /\ \A k \in 1 .. Len(e), j \in 1 .. size : Place(k, j, size) \in 1 .. Len(bars)
         /\ bars # <<>> => /\ Len(e) # 0 /\ Len(bars) # 0 /\ size <= Len(bars)
                           /\ bars[1] = e[1] /\ bars[Len(bars)] = e[Len(e)]
<1> DEFINE n == Len(e)
           b == Len(bars)
<1>1. n \in Nat /\ b \in Nat /\ b = Columns(n, size) /\ \A k \in 1 .. n, j \in 1 .. size : bars[Place(k, j, size)] = e[k]
  <2>1. n \in Nat /\ b \in Nat
    OBVIOUS
  <2>2. b = Columns(n, size)
    BY DEF InBlocks
  <2>3. \A k \in 1 .. n, j \in 1 .. size : bars[Place(k, j, size)] = e[k]
    BY DEF InBlocks
  <2> QED BY <2>1, <2>2, <2>3
<1>2. bars # <<>> => b # 0
  OBVIOUS
<1> HIDE DEF n, b
<1>3. \A i \in 1 .. b : \E k \in 1 .. n, j \in 1 .. size : i = Place(k, j, size) /\ bars[i] = e[k]
  <2> SUFFICES ASSUME NEW i \in 1 .. b
               PROVE  \E k \in 1 .. n, j \in 1 .. size : i = Place(k, j, size) /\ bars[i] = e[k]
    OBVIOUS
  <2>1. i \in 1 .. Columns(n, size)
    BY <1>1
  <2>2. PICK k \in 1 .. n, j \in 1 .. size : i = Place(k, j, size)
    <3>1. \A p \in 1 .. Columns(n, size) : \E k \in 1 .. n, j \in 1 .. size : p = Place(k, j, size)
      <4>1. n \in Nat
        BY <1>1
      <4> QED BY ONLY <4>1, size \in Nat \ {0}, PlacesAre, SMTT(30)
    <3> QED BY <2>1, <3>1
  <2> QED BY <1>1, <2>2
<1>4. \A k \in 1 .. n, j \in 1 .. size : Place(k, j, size) \in 1 .. b
  BY <1>1, PlacesAre
<1>5. ASSUME b # 0
      PROVE  n # 0 /\ size <= b /\ bars[1] = e[1] /\ bars[b] = e[n]
  <2>1. n # 0 /\ n \in 1 .. n /\ 1 \in 1 .. n /\ size \in 1 .. size /\ 1 \in 1 .. size
    BY <1>1, <1>5, PlacesAre
  <2>2. Place(1, 1, size) = 1 /\ Place(n, size, size) = b - size + size /\ Place(n, 1, size) \in 1 .. b /\ Place(n, 1, size) = b - size + 1
    BY <1>1, <2>1, PlacesAre
  <2>3. b - size + size = b /\ size <= b
    BY <1>1, <2>2
  <2> QED BY <1>1, <2>1, <2>2, <2>3
<1> QED
  BY <1>2, <1>3, <1>4, <1>5 DEF n, b

\* The view moves on: the first node leaves it, and node m comes after the last.
BarsRight(bars, size, m) ==
  [i \in DOMAIN bars |-> IF i <= Len(bars) - size THEN bars[i + size]
                         ELSE bars[i] + (m - bars[Len(bars)])]
NodesRight(e, m) == [k \in 1 .. Len(e) |-> IF k < Len(e) THEN e[k + 1] ELSE m]

\* Moving the view on leaves it one of blocks.
LEMMA ShiftRight ==
  ASSUME NEW e \in Seq(Nat), NEW size \in Nat \ {0}, NEW bars \in Seq(Nat), InBlocks(bars, e, size),
         bars # <<>>, NEW m \in Nat
  PROVE  LET g == BarsRight(bars, size, m)
             f == NodesRight(e, m)
         IN  /\ f \in Seq(Nat) /\ Len(f) = Len(e)
             /\ g \in Seq(Nat) /\ Len(g) = Len(bars) /\ InBlocks(g, f, size)
<1> DEFINE g == BarsRight(bars, size, m)
           f == NodesRight(e, m)
<1>0. /\ g = [i \in DOMAIN bars |-> IF i <= Len(bars) - size THEN bars[i + size]
                                    ELSE bars[i] + (m - bars[Len(bars)])]
      /\ f = [k \in 1 .. Len(e) |-> IF k < Len(e) THEN e[k + 1] ELSE m]
  BY DEF BarsRight, NodesRight
<1> HIDE DEF f, g
<1> DEFINE n == Len(e)
           b == Len(bars)
<1>1. /\ n \in Nat \ {0} /\ b \in Nat \ {0} /\ b = Columns(n, size) /\ size <= b /\ bars[b] = e[n]
      /\ \A k \in 1 .. n, j \in 1 .. size : Place(k, j, size) \in 1 .. b /\ bars[Place(k, j, size)] = e[k]
      /\ \A i \in 1 .. b : \E k \in 1 .. n, j \in 1 .. size : i = Place(k, j, size)
  <2>1. b = Columns(n, size) /\ n \in Nat /\ b \in Nat /\ \A k \in 1 .. n, j \in 1 .. size : bars[Place(k, j, size)] = e[k]
    BY DEF InBlocks
  <2>2. /\ n # 0 /\ b # 0 /\ size <= b /\ bars[b] = e[n]
        /\ \A k \in 1 .. n, j \in 1 .. size : Place(k, j, size) \in 1 .. b
    BY BlocksAre
  <2>3. \A i \in 1 .. b : \E k \in 1 .. n, j \in 1 .. size : i = Place(k, j, size)
    BY BlocksAre
  <2> HIDE DEF n, b
  <2> QED BY <2>1, <2>2, <2>3
<1>2. /\ f \in Seq(Nat) /\ Len(f) = n /\ f = [k \in 1 .. n |-> IF k < n THEN e[k + 1] ELSE m]
      /\ \A k \in 1 .. n : e[k] \in Nat /\ f[k] \in Nat
  <2>1. \A k \in 1 .. n : e[k] \in Nat
    OBVIOUS
  <2>2. \A k \in 1 .. n : (IF k < n THEN e[k + 1] ELSE m) \in Nat
    BY <2>1, <1>1
  <2>3. f \in [1 .. n -> Nat]
    BY <2>2, <1>0
  <2>4. Len(f) = n /\ f \in Seq(Nat)
    <3>1. n \in Nat
      BY <1>1
    <3> HIDE DEF n
    <3> QED BY ONLY <2>3, <3>1
  <2> QED BY <2>1, <2>3, <2>4, <1>0
<1>3. DOMAIN bars = 1 .. b /\ g = [i \in 1 .. b |-> IF i <= b - size THEN bars[i + size] ELSE bars[i] + (m - bars[b])]
  BY <1>0
<1> HIDE DEF n, b
<1>4. ASSUME NEW k \in 1 .. n, NEW j \in 1 .. size
      PROVE  g[Place(k, j, size)] = f[k]
  <2> DEFINE a == Place(k, j, size)
  <2>1. a \in 1 .. b /\ bars[a] = e[k] /\ e[k] \in Nat
    BY <1>1, <1>2
  <2>2. CASE k < n
    <3>1. k + 1 \in 1 .. n
      BY <2>2, <1>1
    <3>2. Place(k + 1, j, size) = a + size /\ Place(k + 1, j, size) \in 1 .. b /\ bars[Place(k + 1, j, size)] = e[k + 1]
      <4>1. Place(k + 1, j, size) = a + size
        BY <2>2, <1>1, PlacesAre
      <4> HIDE DEF a
      <4> QED BY <3>1, <1>1, <4>1
    <3>3. Place(n, j, size) = b - size + j
      BY <1>1, PlacesAre
    <3> HIDE DEF a
    <3>4. a + size <= b /\ a \in Nat
      BY <2>1, <3>2, <1>1
    <3>5. a <= b - size
      BY <3>4, <1>1
    <3>6. g[a] = e[k + 1]
      BY <1>3, <2>1, <3>2, <3>5
    <3>7. f[k] = e[k + 1]
      BY <1>2, <2>2
    <3> QED BY <3>6, <3>7 DEF a
  <2>3. CASE k = n
    <3>1. a = b - size + j
      BY <1>1, <2>3, PlacesAre
    <3> HIDE DEF a
    <3>2. ~(a <= b - size)
      BY <3>1, <1>1
    <3>3. g[a] = e[k] + (m - e[k])
      BY <1>1, <1>3, <2>1, <2>3, <3>2
    <3>4. e[k] + (m - e[k]) = m
      BY <2>1
    <3>5. f[k] = m
      BY <1>2, <2>3
    <3> QED BY <3>3, <3>4, <3>5 DEF a
  <2> QED BY <2>2, <2>3, <1>1
<1>5. ASSUME NEW i \in 1 .. b PROVE g[i] \in Nat
  <2>1. PICK k \in 1 .. n, j \in 1 .. size : i = Place(k, j, size)
    BY <1>1
  <2>2. f[k] \in Nat
    BY <1>2
  <2> QED BY <1>4, <2>1, <2>2
<1>6. g \in [1 .. b -> Nat]
  BY <1>3, <1>5
<1>7. g \in Seq(Nat) /\ Len(g) = b
  <2>1. b \in Nat
    BY <1>1
  <2> QED BY ONLY <2>1, <1>6
<1> QED
  BY <1>1, <1>2, <1>4, <1>7 DEF n, b, InBlocks, f, g

\* The view moves back: the last node leaves it, and node m comes before the first.
BarsLeft(bars, size, m) ==
  [i \in DOMAIN bars |-> IF i <= size THEN bars[i] - (bars[1] - m) ELSE bars[i - size]]
NodesLeft(e, m) == [k \in 1 .. Len(e) |-> IF k > 1 THEN e[k - 1] ELSE m]

\* Moving the view back leaves it one of blocks.
LEMMA ShiftLeft ==
  ASSUME NEW e \in Seq(Nat), NEW size \in Nat \ {0}, NEW bars \in Seq(Nat), InBlocks(bars, e, size),
         bars # <<>>, NEW m \in Nat
  PROVE  LET g == BarsLeft(bars, size, m)
             f == NodesLeft(e, m)
         IN  /\ f \in Seq(Nat) /\ Len(f) = Len(e)
             /\ g \in Seq(Nat) /\ Len(g) = Len(bars) /\ InBlocks(g, f, size)
<1> DEFINE g == BarsLeft(bars, size, m)
           f == NodesLeft(e, m)
<1>0. /\ g = [i \in DOMAIN bars |-> IF i <= size THEN bars[i] - (bars[1] - m) ELSE bars[i - size]]
      /\ f = [k \in 1 .. Len(e) |-> IF k > 1 THEN e[k - 1] ELSE m]
  BY DEF BarsLeft, NodesLeft
<1> HIDE DEF f, g
<1> DEFINE n == Len(e)
           b == Len(bars)
<1>1. /\ n \in Nat \ {0} /\ b \in Nat \ {0} /\ b = Columns(n, size) /\ size <= b /\ bars[1] = e[1]
      /\ \A k \in 1 .. n, j \in 1 .. size : Place(k, j, size) \in 1 .. b /\ bars[Place(k, j, size)] = e[k]
      /\ \A i \in 1 .. b : \E k \in 1 .. n, j \in 1 .. size : i = Place(k, j, size)
  <2>1. b = Columns(n, size) /\ n \in Nat /\ b \in Nat /\ \A k \in 1 .. n, j \in 1 .. size : bars[Place(k, j, size)] = e[k]
    BY DEF InBlocks
  <2>2. /\ n # 0 /\ b # 0 /\ size <= b /\ bars[1] = e[1]
        /\ \A k \in 1 .. n, j \in 1 .. size : Place(k, j, size) \in 1 .. b
    BY BlocksAre
  <2>3. \A i \in 1 .. b : \E k \in 1 .. n, j \in 1 .. size : i = Place(k, j, size)
    BY BlocksAre
  <2> HIDE DEF n, b
  <2> QED BY <2>1, <2>2, <2>3
<1>2. /\ f \in Seq(Nat) /\ Len(f) = n /\ f = [k \in 1 .. n |-> IF k > 1 THEN e[k - 1] ELSE m]
      /\ \A k \in 1 .. n : e[k] \in Nat /\ f[k] \in Nat
  <2>1. \A k \in 1 .. n : e[k] \in Nat
    OBVIOUS
  <2>2. \A k \in 1 .. n : (IF k > 1 THEN e[k - 1] ELSE m) \in Nat
    BY <2>1, <1>1
  <2>3. f \in [1 .. n -> Nat]
    BY <2>2, <1>0
  <2>4. Len(f) = n /\ f \in Seq(Nat)
    <3>1. n \in Nat
      BY <1>1
    <3> HIDE DEF n
    <3> QED BY ONLY <2>3, <3>1
  <2> QED BY <2>1, <2>3, <2>4, <1>0
<1>3. DOMAIN bars = 1 .. b /\ g = [i \in 1 .. b |-> IF i <= size THEN bars[i] - (bars[1] - m) ELSE bars[i - size]]
  BY <1>0
<1> HIDE DEF n, b
<1>4. ASSUME NEW k \in 1 .. n, NEW j \in 1 .. size
      PROVE  g[Place(k, j, size)] = f[k]
  <2>1. Place(k, j, size) \in 1 .. b /\ bars[Place(k, j, size)] = e[k] /\ e[k] \in Nat
    BY <1>1, <1>2
  <2>2. CASE k > 1
    <3> DEFINE a == Place(k - 1, j, size)
    <3>1. k - 1 \in 1 .. n /\ k - 1 < n /\ k - 1 + 1 = k
      BY <2>2, <1>1
    <3>2. Place(k, j, size) = a + size /\ a \in 1 .. b /\ bars[a] = e[k - 1]
      <4>1. Place(k - 1 + 1, j, size) = a + size
        BY <3>1, <1>1, PlacesAre
      <4>2. a \in 1 .. b /\ bars[a] = e[k - 1]
        BY <3>1, <1>1
      <4> HIDE DEF a
      <4> QED BY <3>1, <4>1, <4>2
    <3> HIDE DEF a
    <3>3. ~(a + size <= size) /\ a + size - size = a
      BY <3>2
    <3>4. g[a + size] = e[k - 1]
      BY <1>3, <2>1, <3>2, <3>3
    <3>5. f[k] = e[k - 1]
      BY <1>2, <2>2
    <3> QED BY <3>2, <3>4, <3>5
  <2>3. CASE k = 1
    <3>1. Place(k, j, size) = j
      BY <1>1, <2>3, PlacesAre
    <3>2. j <= size /\ j \in 1 .. b /\ bars[j] = e[1]
      BY <2>1, <2>3, <3>1
    <3>3. g[j] = e[1] - (e[1] - m)
      BY <1>1, <1>3, <3>2
    <3>4. e[1] - (e[1] - m) = m
      BY <2>1, <2>3
    <3>5. f[k] = m
      BY <1>2, <2>3
    <3> QED BY <3>1, <3>3, <3>4, <3>5
  <2> QED BY <2>2, <2>3
<1>5. ASSUME NEW i \in 1 .. b PROVE g[i] \in Nat
  <2>1. PICK k \in 1 .. n, j \in 1 .. size : i = Place(k, j, size)
    BY <1>1
  <2>2. f[k] \in Nat
    BY <1>2
  <2> QED BY <1>4, <2>1, <2>2
<1>6. g \in [1 .. b -> Nat]
  BY <1>3, <1>5
<1>7. g \in Seq(Nat) /\ Len(g) = b
  <2>1. b \in Nat
    BY <1>1
  <2> QED BY ONLY <2>1, <1>6
<1> QED
  BY <1>1, <1>2, <1>4, <1>7 DEF n, b, InBlocks, f, g

\* The next of the nodes shown is taken in after the last, or before the first.
LEMMA RunRight ==
  ASSUME NEW shown \in SUBSET Nat, NEW e \in Seq(Nat), IsRun(e, shown), Len(e) # 0,
         NEW m \in shown, m > e[Len(e)], \A p \in shown : p > e[Len(e)] /\ p <= m => p = m,
         NEW f \in Seq(Nat), Len(f) = Len(e), \A k \in 1 .. Len(e) : f[k] = IF k < Len(e) THEN e[k + 1] ELSE m
  PROVE  IsRun(f, shown)
<1> DEFINE n == Len(e)
<1>1. /\ n \in Nat \ {0} /\ \A k \in 1 .. n : e[k] \in Nat /\ e[k] \in shown
      /\ \A j, k \in 1 .. n : j < k => e[j] < e[k]
      /\ \A j, k \in 1 .. n, p \in shown : e[j] <= p /\ p <= e[k] => \E i \in 1 .. n : p = e[i]
      /\ m > e[n] /\ \A p \in shown : p > e[n] /\ p <= m => p = m
      /\ Len(f) = n /\ \A k \in 1 .. n : f[k] = IF k < n THEN e[k + 1] ELSE m
  BY SMTT(30) DEF IsRun
<1> HIDE DEF n
<1>2. \A k \in 1 .. n : k < n => k + 1 \in 1 .. n
  BY <1>1
<1>3. \A k \in 1 .. n : e[k] <= e[n]
  <2> SUFFICES ASSUME NEW k \in 1 .. n, k # n PROVE e[k] <= e[n]
    BY <1>1
  <2>1. k < n /\ n \in 1 .. n
    BY <1>1
  <2> QED BY <1>1, <2>1, SMTT(30)
<1>4. \A k \in 1 .. n : f[k] \in shown /\ f[k] \in Nat
  BY <1>1, <1>2
<1>5. ASSUME NEW j \in 1 .. n, NEW k \in 1 .. n, j < k PROVE f[j] < f[k]
  <2>1. j < n /\ j + 1 \in 1 .. n /\ f[j] = e[j + 1]
    BY <1>1, <1>5
  <2>2. CASE k < n
    <3>1. k + 1 \in 1 .. n /\ f[k] = e[k + 1] /\ j + 1 < k + 1
      BY SMTT(30), <1>1, <1>5, <2>2
    <3> QED BY <1>1, <2>1, <3>1
  <2>3. CASE ~(k < n)
    <3>1. f[k] = m
      BY <1>1, <2>3
    <3>2. e[j + 1] <= e[n] /\ e[j + 1] \in Nat /\ e[n] \in Nat /\ m \in Nat
      BY SMTT(30), <1>1, <1>3, <2>1
    <3> QED BY <1>1, <2>1, <3>1, <3>2, SMTT(30)
  <2> QED BY <2>2, <2>3
<1>6. ASSUME NEW j \in 1 .. n, NEW k \in 1 .. n, NEW p \in shown, f[j] <= p, p <= f[k]
      PROVE  \E i \in 1 .. n : p = f[i]
  <2>0. p \in Nat /\ m \in Nat /\ e[1] \in Nat /\ e[n] \in Nat /\ n \in 1 .. n /\ 1 \in 1 .. n /\ f[n] = m
    BY <1>1
  <2>1. p <= m
    <3>1. CASE k < n
      <4>1. k + 1 \in 1 .. n /\ f[k] = e[k + 1]
        BY <1>1, <3>1
      <4>2. e[k + 1] \in Nat /\ e[k + 1] <= e[n]
        BY <1>1, <1>3, <4>1
      <4>3. e[n] < m /\ p <= e[k + 1]
        BY <1>1, <1>6, <4>1
      <4> QED BY <2>0, <4>2, <4>3, SMTT(30)
    <3>2. CASE ~(k < n)
      BY <1>1, <1>6, <3>2
    <3> QED BY <3>1, <3>2
  <2>2. e[1] < p
    <3>1. e[1] < f[j]
      <4>1. CASE j < n
        <5>1. f[j] = e[j + 1] /\ j + 1 \in 1 .. n /\ 1 < j + 1
          BY <1>1, <4>1
        <5> QED BY <1>1, <2>0, <5>1
      <4>2. CASE ~(j < n)
        <5>1. f[j] = m
          BY <1>1, <4>2
        <5>2. e[1] <= e[n]
          BY <1>3, <2>0
        <5> QED BY <1>1, <2>0, <5>1, <5>2
      <4> QED BY <4>1, <4>2
    <3>2. f[j] \in Nat
      BY <1>4
    <3> QED BY <1>6, <2>0, <3>1, <3>2
  <2>3. CASE p > e[n]
    BY <1>1, <2>0, <2>1, <2>3
  <2>4. CASE p <= e[n]
    <3>1. e[1] <= p
      BY <2>0, <2>2
    <3>2. PICK i \in 1 .. n : p = e[i]
      BY <1>1, <2>0, <2>4, <3>1
    <3>3. i # 1
      BY <2>0, <2>2, <3>2
    <3>4. i - 1 \in 1 .. n /\ i - 1 < n /\ i - 1 + 1 = i
      BY <1>1, <3>3
    <3>5. f[i - 1] = e[i]
      BY <1>1, <3>4
    <3> QED BY <3>2, <3>4, <3>5
  <2> QED BY <2>0, <2>3, <2>4
<1> QED
  BY <1>1, <1>4, <1>5, <1>6 DEF IsRun

\* The same before the first.
LEMMA RunLeft ==
  ASSUME NEW shown \in SUBSET Nat, NEW e \in Seq(Nat), IsRun(e, shown), Len(e) # 0,
         NEW m \in shown, m < e[1], \A p \in shown : p < e[1] /\ p >= m => p = m,
         NEW f \in Seq(Nat), Len(f) = Len(e), \A k \in 1 .. Len(e) : f[k] = IF k > 1 THEN e[k - 1] ELSE m
  PROVE  IsRun(f, shown)
<1> DEFINE n == Len(e)
<1>1. /\ n \in Nat \ {0} /\ \A k \in 1 .. n : e[k] \in Nat /\ e[k] \in shown
      /\ \A j, k \in 1 .. n : j < k => e[j] < e[k]
      /\ \A j, k \in 1 .. n, p \in shown : e[j] <= p /\ p <= e[k] => \E i \in 1 .. n : p = e[i]
      /\ m < e[1] /\ \A p \in shown : p < e[1] /\ p >= m => p = m
      /\ Len(f) = n /\ \A k \in 1 .. n : f[k] = IF k > 1 THEN e[k - 1] ELSE m
  BY SMTT(30) DEF IsRun
<1> HIDE DEF n
<1>2. \A k \in 1 .. n : k > 1 => k - 1 \in 1 .. n
  BY <1>1
<1>3. \A k \in 1 .. n : e[1] <= e[k]
  <2> SUFFICES ASSUME NEW k \in 1 .. n, k # 1 PROVE e[1] <= e[k]
    BY <1>1
  <2>1. 1 < k /\ 1 \in 1 .. n
    BY <1>1
  <2> QED BY SMTT(30), <1>1, <2>1
<1>4. \A k \in 1 .. n : f[k] \in shown /\ f[k] \in Nat
  BY SMTT(30), <1>1, <1>2
<1>5. ASSUME NEW j \in 1 .. n, NEW k \in 1 .. n, j < k PROVE f[j] < f[k]
  <2>1. k > 1 /\ k - 1 \in 1 .. n /\ f[k] = e[k - 1]
    BY <1>1, <1>5
  <2>2. CASE j > 1
    <3>1. j - 1 \in 1 .. n /\ f[j] = e[j - 1] /\ j - 1 < k - 1
      BY <1>1, <1>5, <2>2
    <3> QED BY <1>1, <2>1, <3>1
  <2>3. CASE ~(j > 1)
    <3>1. f[j] = m
      BY <1>1, <2>3
    <3>2. e[1] <= e[k - 1] /\ e[k - 1] \in Nat /\ e[1] \in Nat /\ m \in Nat
      BY SMTT(30), <1>1, <1>3, <2>1
    <3> QED BY <1>1, <2>1, <3>1, <3>2, SMTT(30)
  <2> QED BY <2>2, <2>3
<1>6. ASSUME NEW j \in 1 .. n, NEW k \in 1 .. n, NEW p \in shown, f[j] <= p, p <= f[k]
      PROVE  \E i \in 1 .. n : p = f[i]
  <2>0. p \in Nat /\ m \in Nat /\ e[1] \in Nat /\ e[n] \in Nat /\ n \in 1 .. n /\ 1 \in 1 .. n /\ f[1] = m
    BY <1>1
  <2>1. m <= p
    <3>1. CASE j > 1
      <4>1. j - 1 \in 1 .. n /\ f[j] = e[j - 1]
        BY <1>1, <3>1
      <4>2. e[j - 1] \in Nat /\ e[1] <= e[j - 1]
        BY <1>1, <1>3, <4>1
      <4>3. m < e[1] /\ e[j - 1] <= p
        BY <1>1, <1>6, <4>1
      <4> QED BY <2>0, <4>2, <4>3, SMTT(30)
    <3>2. CASE ~(j > 1)
      BY <1>1, <1>6, <3>2
    <3> QED BY <3>1, <3>2
  <2>2. p < e[n]
    <3>1. f[k] < e[n]
      <4>1. CASE k > 1
        <5>1. f[k] = e[k - 1] /\ k - 1 \in 1 .. n /\ k - 1 < n
          BY <1>1, <4>1
        <5> QED BY <1>1, <2>0, <5>1
      <4>2. CASE ~(k > 1)
        <5>1. f[k] = m
          BY <1>1, <4>2
        <5>2. e[1] <= e[n]
          BY <1>3, <2>0
        <5> QED BY <1>1, <2>0, <5>1, <5>2
      <4> QED BY <4>1, <4>2
    <3>2. f[k] \in Nat
      BY <1>4
    <3> QED BY SMTT(30), <1>6, <2>0, <3>1, <3>2
  <2>3. CASE p < e[1]
    BY <1>1, <2>0, <2>1, <2>3
  <2>4. CASE p >= e[1]
    <3>1. p <= e[n]
      BY <2>0, <2>2
    <3>2. PICK i \in 1 .. n : p = e[i]
      BY <1>1, <2>0, <2>4, <3>1
    <3>3. i # n
      BY <2>0, <2>2, <3>2
    <3>4. i + 1 \in 1 .. n /\ i + 1 > 1 /\ i + 1 - 1 = i
      BY <1>1, <3>3
    <3>5. f[i + 1] = e[i]
      BY SMTT(30), <1>1, <3>4
    <3> QED BY <3>2, <3>4, <3>5
  <2> QED BY <2>0, <2>3, <2>4
<1> QED
  BY <1>1, <1>4, <1>5, <1>6 DEF IsRun

\* The nodes the view may be a run of.
Visible(x) == IF x.dead THEN 0 .. MaxNodes - 1 ELSE Shown(x)

\* How many nodes of those shown there is room for.
Fit(x) == Min({Cols \div x.size, Cardinality(Shown(x))})

\* The view is that of the nodes of e, which are a run of those shown unless it is to be rebuilt.
ViewIs(x, e) ==
  /\ InBlocks(x.bars, e, x.size)
  /\ ~x.recount /\ (x.dead \/ x.fresh) => IsRun(e, Visible(x))
  /\ ~x.recount /\ x.fresh => Len(e) = Fit(x)

\* A display without a mistake in it: its types hold, what is on view is in memory, and the
\* view is one of blocks, of a run of the nodes shown unless it is to be rebuilt.
Good(x) ==
  /\ x \in Display /\ Len(x.bars) <= Cols
  /\ x.alive # NoMemory => x.count <= Len(x.alive)
  /\ \A i \in 1 .. Len(x.bars) : x.bars[i] < Len(x.alive)
  /\ \E e \in Seq(Nat) : ViewIs(x, e)

\* Every column is of a node.
LEMMA BarsAreNodes ==
  ASSUME NEW e \in Seq(Nat), NEW size \in Nat \ {0}, NEW bars \in Seq(Nat), InBlocks(bars, e, size)
  PROVE  \A i \in 1 .. Len(bars) : \E k \in 1 .. Len(e) : bars[i] = e[k]
<1>1. \A i \in 1 .. Len(bars) : \E k \in 1 .. Len(e), j \in 1 .. size :
        i = Place(k, j, size) /\ bars[i] = e[k]
  BY BlocksAre
<1> QED
  BY ONLY <1>1

\* The types of the fields of a display.
LEMMA DisplayIs ==
  ASSUME NEW x \in Display
  PROVE  /\ x.alive \in Answers \cup {NoMemory} /\ x.count \in 0 .. MaxNodes
         /\ x.bars \in Seq(0 .. MaxNodes - 1) /\ x.bars \in Seq(Nat)
         /\ x.size \in 1 .. NumWidth + 1 /\ x.size \in Nat \ {0} /\ x.wmode \in 1 .. 3
         /\ x.dead \in BOOLEAN /\ x.recount \in BOOLEAN /\ x.fresh \in BOOLEAN
         /\ x.excused \in BOOLEAN /\ x.crashed \in BOOLEAN
<1>1. /\ x.alive \in Answers \cup {NoMemory} /\ x.count \in 0 .. MaxNodes
      /\ x.bars \in Seq(0 .. MaxNodes - 1) /\ x.size \in 1 .. NumWidth + 1 /\ x.wmode \in 1 .. 3
      /\ x.dead \in BOOLEAN /\ x.recount \in BOOLEAN /\ x.fresh \in BOOLEAN
      /\ x.excused \in BOOLEAN /\ x.crashed \in BOOLEAN
  BY DEF Display
<1>2. x.bars \in Seq(Nat)
  <2>1. 0 .. MaxNodes - 1 \subseteq Nat
    BY MonitorAssumption
  <2> QED BY ONLY <1>1, <2>1, SeqWider
<1>3. x.size \in Nat \ {0}
  BY <1>1, MonitorAssumption
<1> QED
  BY <1>1, <1>2, <1>3

\* The answer in memory is a sequence of one status for each node.
LEMMA AliveIs ==
  ASSUME NEW a \in Answers \cup {NoMemory}
  PROVE  /\ Len(a) \in 0 .. MaxNodes /\ a \in Seq(BOOLEAN)
         /\ a \in Answers <=> a # NoMemory
         /\ a \in Answers => Len(a) \in 1 .. MaxNodes
<1>1. CASE a = NoMemory
  <2>1. a = <<>> /\ Len(a) = 0
    BY <1>1 DEF NoMemory
  <2>2. a \notin Answers
    <3> SUFFICES ASSUME NEW n \in 1 .. MaxNodes, a \in [1 .. n -> BOOLEAN] PROVE FALSE
      BY DEF Answers
    <3>1. 1 \in DOMAIN a
      OBVIOUS
    <3> QED BY <2>1, <3>1
  <2> QED BY <2>1, <2>2, <1>1, MonitorAssumption
<1>2. CASE a \in Answers
  <2>1. PICK n \in 1 .. MaxNodes : a \in [1 .. n -> BOOLEAN]
    BY <1>2 DEF Answers
  <2>2. n \in Nat /\ a \in Seq(BOOLEAN) /\ Len(a) = n
    BY <2>1
  <2>3. a # NoMemory
    BY <2>1, <2>2 DEF NoMemory
  <2> QED BY <2>1, <2>2, <2>3, <1>2
<1> QED
  BY <1>1, <1>2

\* The nodes shown are some of the positions of the answer.
LEMMA ShownIs ==
  ASSUME NEW x, x.count \in Nat
  PROVE  /\ Shown(x) \in SUBSET Nat /\ IsFiniteSet(Shown(x)) /\ Cardinality(Shown(x)) \in Nat
         /\ \A p \in Shown(x) : p \in 0 .. x.count - 1
<1>1. Shown(x) \subseteq 0 .. x.count - 1
  BY DEF Shown, Nodes
<1>2. IsFiniteSet(0 .. x.count - 1)
  BY FS_Interval
<1>3. IsFiniteSet(Shown(x))
  BY <1>1, <1>2, FS_Subset
<1> QED
  BY <1>1, <1>3, FS_CardinalityType

\* A display with another view: of the nodes of f, as good as what there is in memory.
LEMMA ViewGood ==
  ASSUME NEW x \in Display, x.alive # NoMemory => x.count <= Len(x.alive),
         NEW g \in Seq(Nat), NEW f \in Seq(Nat), InBlocks(g, f, x.size), Len(g) <= Cols,
         \A k \in 1 .. Len(f) : f[k] < Len(x.alive),
         NEW y \in Display, y.bars = g, y.alive = x.alive, y.count = x.count, y.size = x.size,
         ViewIs(y, f)
  PROVE  Good(y)
<1>1. x.size \in Nat \ {0}
  BY DisplayIs
<1>2. \A i \in 1 .. Len(g) : \E k \in 1 .. Len(f) : g[i] = f[k]
  BY <1>1, BarsAreNodes
<1>3. \A i \in 1 .. Len(g) : g[i] < Len(x.alive)
  BY <1>2
<1> QED
  BY <1>3 DEF Good

\* y is x with its view moved, and good.
Moved(x, y) == Good(y) /\ y.bars # NoMemory /\ y = [x EXCEPT !.bars = y.bars]

\* A view shifted by a whole node is as good as it was.
LEMMA ShiftGood ==
  ASSUME NEW x, Good(x), NEW e \in Seq(Nat), ViewIs(x, e), x.bars # NoMemory,
         NEW f \in Seq(Nat), Len(f) = Len(e), NEW g \in Seq(Nat), Len(g) = Len(x.bars),
         InBlocks(g, f, x.size), \A k \in 1 .. Len(f) : f[k] < Len(x.alive),
         IsRun(e, Visible(x)) => IsRun(f, Visible(x))
  PROVE  Moved(x, [x EXCEPT !.bars = g])
<1> DEFINE y == [x EXCEPT !.bars = g]
<1>1. x \in Display /\ Len(x.bars) <= Cols /\ (x.alive # NoMemory => x.count <= Len(x.alive))
  BY DEF Good
<1>2. x.alive \in Answers \cup {NoMemory} /\ x.size \in Nat \ {0} /\ Len(x.alive) \in 0 .. MaxNodes
  BY <1>1, DisplayIs, AliveIs
<1>3. g \in Seq(0 .. MaxNodes - 1)
  <2>1. \A i \in 1 .. Len(g) : \E k \in 1 .. Len(f) : g[i] = f[k]
    BY <1>2, BarsAreNodes
  <2>2. \A k \in 1 .. Len(f) : f[k] \in 0 .. MaxNodes - 1
    BY SMTT(30), <1>2, MonitorAssumption
  <2>3. \A i \in 1 .. Len(g) : g[i] \in 0 .. MaxNodes - 1
    BY <2>1, <2>2
  <2> QED BY <2>3, SeqByEntries
<1>4. y \in Display
  BY <1>1, <1>3 DEF Display
<1>5. /\ y.bars = g /\ y.alive = x.alive /\ y.count = x.count /\ y.size = x.size /\ y.dead = x.dead
      /\ y.recount = x.recount /\ y.fresh = x.fresh
  BY <1>1 DEF Display
<1>6. y = [x EXCEPT !.bars = y.bars]
  BY <1>5
<1> HIDE DEF y
<1>7. Shown(y) = Shown(x)
  BY <1>5 DEF Shown, Nodes, IsAlive
<1>8. Visible(y) = Visible(x) /\ Fit(y) = Fit(x)
  BY <1>5, <1>7 DEF Visible, Fit
<1>9. ViewIs(y, f)
  BY <1>5, <1>8 DEF ViewIs
<1>10. Good(y)
  BY <1>1, <1>2, <1>4, <1>5, <1>9, ViewGood
<1>11. y.bars # NoMemory
  <2>1. Len(x.bars) # 0
    BY <1>1, DisplayIs DEF NoMemory
  <2> QED BY <1>5, <2>1 DEF NoMemory
<1> QED
  BY <1>6, <1>10, <1>11 DEF Moved, y

\* What is known of a display with a view.
LEMMA ViewKnown ==
  ASSUME NEW x, Good(x), x.bars # NoMemory
  PROVE  /\ x \in Display /\ x.bars \in Seq(Nat) /\ x.size \in Nat \ {0} /\ x.count \in Nat
         /\ x.count <= Len(x.alive) /\ Len(x.alive) \in 1 .. MaxNodes /\ x.alive # NoMemory
         /\ Len(x.bars) \in Nat \ {0} /\ Len(x.bars) <= Cols
         /\ Head(x.bars) = x.bars[1] /\ Last(x.bars) = x.bars[Len(x.bars)]
         /\ \A e \in Seq(Nat) : ViewIs(x, e) =>
              /\ InBlocks(x.bars, e, x.size) /\ Len(e) \in Nat \ {0}
              /\ x.bars[1] = e[1] /\ x.bars[Len(x.bars)] = e[Len(e)] /\ x.size <= Len(x.bars)
              /\ \A k \in 1 .. Len(e) : e[k] \in Nat /\ e[k] < Len(x.alive)
<1>1. x \in Display /\ Len(x.bars) <= Cols /\ (x.alive # NoMemory => x.count <= Len(x.alive))
  BY DEF Good
<1>2. /\ x.bars \in Seq(Nat) /\ x.size \in Nat \ {0} /\ x.count \in Nat
      /\ x.alive \in Answers \cup {NoMemory} /\ x.count \in 0 .. MaxNodes
  BY <1>1, DisplayIs, MonitorAssumption
<1>3. Len(x.bars) \in Nat \ {0}
  BY <1>2 DEF NoMemory
<1>4. Len(x.alive) \in 0 .. MaxNodes /\ x.bars[1] < Len(x.alive) /\ x.bars[1] \in Nat
  <2>1. 1 \in 1 .. Len(x.bars)
    BY <1>3
  <2>2. x.bars[1] < Len(x.alive)
    BY <2>1 DEF Good
  <2> QED BY <1>2, <1>3, <2>1, <2>2, AliveIs
<1>5. x.alive # NoMemory /\ Len(x.alive) \in 1 .. MaxNodes
  <2>1. Len(x.alive) # 0
    BY <1>4
  <2>2. Len(<<>>) = 0
    OBVIOUS
  <2> QED BY <1>4, <2>1, <2>2 DEF NoMemory
<1>6. Head(x.bars) = x.bars[1] /\ Last(x.bars) = x.bars[Len(x.bars)]
  BY <1>2, <1>3 DEF Last
<1>7. ASSUME NEW e \in Seq(Nat), ViewIs(x, e)
      PROVE  /\ InBlocks(x.bars, e, x.size) /\ Len(e) \in Nat \ {0}
             /\ x.bars[1] = e[1] /\ x.bars[Len(x.bars)] = e[Len(e)] /\ x.size <= Len(x.bars)
             /\ \A k \in 1 .. Len(e) : e[k] \in Nat /\ e[k] < Len(x.alive)
  <2>1. InBlocks(x.bars, e, x.size)
    BY <1>7 DEF ViewIs
  <2>2. /\ Len(e) # 0 /\ x.size <= Len(x.bars)
        /\ x.bars[1] = e[1] /\ x.bars[Len(x.bars)] = e[Len(e)]
        /\ \A k \in 1 .. Len(e), j \in 1 .. x.size : Place(k, j, x.size) \in 1 .. Len(x.bars)
    BY <1>2, <2>1, BlocksAre DEF NoMemory
  <2>3. ASSUME NEW k \in 1 .. Len(e) PROVE e[k] < Len(x.alive)
    <3>1. 1 \in 1 .. x.size
      BY <1>2
    <3>2. Place(k, 1, x.size) \in 1 .. Len(x.bars) /\ x.bars[Place(k, 1, x.size)] = e[k]
      BY <2>1, <2>2, <3>1 DEF InBlocks
    <3> QED BY <3>2 DEF Good
  <2> QED BY <2>1, <2>2, <2>3
<1> QED
  BY <1>1, <1>2, <1>3, <1>5, <1>6, <1>7

\* move_right leaves a good view, whatever is hidden (mmon.c:939).
LEMMA MoveRightGood ==
  ASSUME NEW x, Good(x), x.bars # NoMemory
  PROVE  Moved(x, move_right(x))
<1> DEFINE after == {p \in Last(x.bars) + 1 .. x.count - 1 : x.dead \/ IsAlive(x, p)}
           m == Min(after)
           b == Len(x.bars)
           g == BarsRight(x.bars, x.size, m)
<1>1. PICK e \in Seq(Nat) : ViewIs(x, e)
  BY DEF Good
<1>2. /\ x \in Display /\ x.bars \in Seq(Nat) /\ x.size \in Nat \ {0} /\ x.count \in Nat
      /\ x.count <= Len(x.alive) /\ Len(x.alive) \in 1 .. MaxNodes /\ x.alive # NoMemory
      /\ b \in Nat \ {0} /\ b <= Cols /\ Last(x.bars) = x.bars[b]
      /\ InBlocks(x.bars, e, x.size) /\ Len(e) \in Nat \ {0}
      /\ x.bars[b] = e[Len(e)]
      /\ \A k \in 1 .. Len(e) : e[k] \in Nat /\ e[k] < Len(x.alive)
  BY <1>1, ViewKnown
<1>3. CASE after = {}
  <2>1. move_right(x) = x
    BY <1>3 DEF move_right
  <2>2. x = [x EXCEPT !.bars = x.bars]
    BY <1>2 DEF Display
  <2> QED BY <2>1, <2>2 DEF Moved
<1>4. CASE after # {}
  <2> DEFINE n == Len(e)
             f == NodesRight(e, m)
  <2>1. move_right(x) = [x EXCEPT !.bars = g]
    BY <1>2, <1>4 DEF move_right, BarsRight
  <2>2. e[n] \in Nat /\ n \in 1 .. n
    BY <1>2
  <2>3. after \in SUBSET Nat
    BY <1>2, <2>2
  <2>4. /\ m \in Nat /\ m > e[n] /\ m < x.count /\ (x.dead \/ IsAlive(x, m))
        /\ \A p \in after : m <= p
    <3>1. m \in after /\ \A p \in after : m <= p
      <4> HIDE DEF after
      <4> QED BY <1>4, <2>3, MinIsLeast
    <3> QED BY SMTT(30), <1>2, <2>2, <3>1
  <2>6. \A p \in Nat : p > e[n] /\ p < x.count /\ (x.dead \/ IsAlive(x, p)) => p \in after
    BY <1>2, <2>2
  <2> HIDE DEF after, m
  <2>7. f \in Seq(Nat) /\ Len(f) = Len(e) /\ g \in Seq(Nat) /\ Len(g) = Len(x.bars) /\ InBlocks(g, f, x.size)
    <3>3. x.bars # <<>>
      BY DEF NoMemory
    <3>4. x.bars \in Seq(Nat) /\ x.size \in Nat \ {0} /\ InBlocks(x.bars, e, x.size) /\ m \in Nat
      BY <1>2, <2>4
    <3> QED BY ONLY <3>3, <3>4, e \in Seq(Nat), ShiftRight
  <2>8. \A k \in 1 .. n : f[k] = IF k < n THEN e[k + 1] ELSE m
    BY DEF NodesRight
  <2> HIDE DEF f, g
  <2>9. \A k \in 1 .. Len(f) : f[k] < Len(x.alive)
    <3> SUFFICES ASSUME NEW k \in 1 .. n PROVE f[k] < Len(x.alive)
      BY <2>7
    <3>1. CASE k < n
      <4>1. k + 1 \in 1 .. n /\ f[k] = e[k + 1]
        BY <1>2, <2>8, <3>1
      <4> QED BY <1>2, <4>1
    <3>2. CASE ~(k < n)
      BY <1>2, <2>4, <2>8, <3>2
    <3> QED BY <3>1, <3>2
  <2>10. ASSUME IsRun(e, Visible(x)) PROVE IsRun(f, Visible(x))
    <3>1. Visible(x) \in SUBSET Nat
      BY <1>2, ShownIs, MonitorAssumption DEF Visible
    <3>2. m \in Visible(x)
      <4>1. m \in Shown(x)
        BY <1>2, <2>4 DEF Shown, Nodes
      <4>2. m \in 0 .. MaxNodes - 1
        BY <1>2, <2>4, MonitorAssumption
      <4> QED BY <4>1, <4>2 DEF Visible
    <3>3. ASSUME NEW p \in Visible(x), p > e[n], p <= m PROVE p = m
      <4>1. p \in Nat /\ p < x.count
        BY <1>2, <2>4, <3>1, <3>3
      <4>2. x.dead \/ IsAlive(x, p)
        BY DEF Visible, Shown
      <4> QED BY <2>4, <2>6, <3>3, <4>1, <4>2
    <3> QED BY <1>2, <2>4, <2>7, <2>8, <2>10, <3>1, <3>2, <3>3, RunRight
  <2>11. IsRun(e, Visible(x)) => IsRun(f, Visible(x))
    BY <2>10
  <2>12. Moved(x, [x EXCEPT !.bars = g])
    BY <1>1, <2>7, <2>9, <2>11, ShiftGood
  <2> QED BY <2>1, <2>12 DEF g
<1> QED
  BY <1>3, <1>4

\* So does move_left (mmon.c:909).
LEMMA MoveLeftGood ==
  ASSUME NEW x, Good(x), x.bars # NoMemory
  PROVE  Moved(x, move_left(x))
<1> DEFINE before == {p \in 0 .. Head(x.bars) - 1 : x.dead \/ IsAlive(x, p)}
           m == Max(before)
           g == BarsLeft(x.bars, x.size, m)
<1>1. PICK e \in Seq(Nat) : ViewIs(x, e)
  BY DEF Good
<1>2. /\ x \in Display /\ x.bars \in Seq(Nat) /\ x.size \in Nat \ {0} /\ x.count \in Nat
      /\ x.count <= Len(x.alive) /\ Len(x.alive) \in 1 .. MaxNodes /\ x.alive # NoMemory
      /\ Head(x.bars) = x.bars[1]
      /\ InBlocks(x.bars, e, x.size) /\ Len(e) \in Nat \ {0}
      /\ x.bars[1] = e[1]
      /\ \A k \in 1 .. Len(e) : e[k] \in Nat /\ e[k] < Len(x.alive)
  BY <1>1, ViewKnown
<1>3. CASE before = {}
  <2>1. move_left(x) = x
    BY <1>3 DEF move_left
  <2>2. x = [x EXCEPT !.bars = x.bars]
    BY <1>2 DEF Display
  <2> QED BY <2>1, <2>2 DEF Moved
<1>4. CASE before # {}
  <2> DEFINE n == Len(e)
             f == NodesLeft(e, m)
  <2>1. move_left(x) = [x EXCEPT !.bars = g]
    BY <1>2, <1>4 DEF move_left, BarsLeft
  <2>2. e[1] \in Nat /\ 1 \in 1 .. n /\ e[1] < Len(x.alive)
    BY <1>2
  <2>3. before \in SUBSET Nat /\ IsFiniteSet(before)
    <3>0. Head(x.bars) = e[1]
      BY <1>2
    <3>5. before \subseteq 0 .. Head(x.bars) - 1
      OBVIOUS
    <3>1. before \subseteq 0 .. e[1] - 1 /\ IsFiniteSet(0 .. e[1] - 1)
      <4>1. before \subseteq 0 .. e[1] - 1
        <5> HIDE DEF before
        <5> QED BY <3>0, <3>5
      <4>2. e[1] - 1 \in Int
        BY <2>2
      <4> DEFINE h == e[1] - 1
      <4>3. before \subseteq 0 .. h /\ h \in Int
        BY <4>1, <4>2
      <4>4. IsFiniteSet(0 .. h)
        <5> HIDE DEF h, before
        <5> QED BY ONLY <4>3, FS_Interval
      <4> QED BY <4>1, <4>4
    <3>2. 0 .. e[1] - 1 \subseteq Nat
      BY <2>2
    <3> HIDE DEF before
    <3> QED BY <3>1, <3>2, FS_Subset
  <2>4. /\ m \in Nat /\ m < e[1] /\ (x.dead \/ IsAlive(x, m))
        /\ \A p \in before : p <= m
    <3>1. m \in before /\ \A p \in before : p <= m
      <4> HIDE DEF before
      <4> QED BY <1>4, <2>3, MaxIsGreatest
    <3> QED BY SMTT(30), <1>2, <2>2, <3>1
  <2>6. \A p \in Nat : p < e[1] /\ (x.dead \/ IsAlive(x, p)) => p \in before
    BY <1>2, <2>2
  <2> HIDE DEF before, m
  <2>7. f \in Seq(Nat) /\ Len(f) = Len(e) /\ g \in Seq(Nat) /\ Len(g) = Len(x.bars) /\ InBlocks(g, f, x.size)
    <3>3. x.bars # <<>>
      BY DEF NoMemory
    <3>4. x.bars \in Seq(Nat) /\ x.size \in Nat \ {0} /\ InBlocks(x.bars, e, x.size) /\ m \in Nat
      BY <1>2, <2>4
    <3> QED BY ONLY <3>3, <3>4, e \in Seq(Nat), ShiftLeft
  <2>8. \A k \in 1 .. n : f[k] = IF k > 1 THEN e[k - 1] ELSE m
    BY DEF NodesLeft
  <2> HIDE DEF f, g
  <2>9. \A k \in 1 .. Len(f) : f[k] < Len(x.alive)
    <3> SUFFICES ASSUME NEW k \in 1 .. n PROVE f[k] < Len(x.alive)
      BY <2>7
    <3>1. CASE k > 1
      <4>1. k - 1 \in 1 .. n /\ f[k] = e[k - 1]
        BY <1>2, <2>8, <3>1
      <4> QED BY <1>2, <4>1
    <3>2. CASE ~(k > 1)
      BY <1>2, <2>2, <2>4, <2>8, <3>2
    <3> QED BY <3>1, <3>2
  <2>10. ASSUME IsRun(e, Visible(x)) PROVE IsRun(f, Visible(x))
    <3>1. Visible(x) \in SUBSET Nat
      BY <1>2, ShownIs, MonitorAssumption DEF Visible
    <3>2. m \in Visible(x)
      <4>1. CASE x.dead
        BY <1>2, <2>2, <2>4, <4>1, MonitorAssumption DEF Visible
      <4>2. CASE ~x.dead
        <5>1. e[1] \in Shown(x)
          BY <2>2, <2>10, <4>2 DEF IsRun, Visible
        <5>2. e[1] \in 0 .. x.count - 1
          BY <1>2, <5>1, ShownIs
        <5>3. m \in 0 .. x.count - 1
          BY <1>2, <2>2, <2>4, <5>2
        <5> QED BY <2>4, <4>2, <5>3 DEF Visible, Shown, Nodes
      <4> QED BY <4>1, <4>2
    <3>3. ASSUME NEW p \in Visible(x), p < e[1], p >= m PROVE p = m
      <4>1. p \in Nat
        BY <3>1
      <4>2. x.dead \/ IsAlive(x, p)
        BY DEF Visible, Shown
      <4> QED BY <2>4, <2>6, <3>3, <4>1, <4>2
    <3> QED BY <1>2, <2>4, <2>7, <2>8, <2>10, <3>1, <3>2, <3>3, RunLeft
  <2>11. IsRun(e, Visible(x)) => IsRun(f, Visible(x))
    BY <2>10
  <2>12. Moved(x, [x EXCEPT !.bars = g])
    BY <1>1, <2>7, <2>9, <2>11, ShiftGood
  <2> QED BY <2>1, <2>12 DEF g
<1> QED
  BY <1>3, <1>4

\* A display that is to be rebuilt needs no more than blocks.
LEMMA RecountGood ==
  ASSUME NEW x, Good(x), NEW y \in Display, y.alive = x.alive, y.count = x.count, y.bars = x.bars,
         y.size = x.size \/ y.size = 1, y.recount
  PROVE  Good(y)
<1>1. x \in Display /\ Len(x.bars) <= Cols /\ (x.alive # NoMemory => x.count <= Len(x.alive))
      /\ \A i \in 1 .. Len(x.bars) : x.bars[i] < Len(x.alive)
  BY DEF Good
<1>2. \E e \in Seq(Nat) : InBlocks(y.bars, e, y.size)
  <2>1. CASE y.size = x.size
    BY <2>1 DEF Good, ViewIs
  <2>2. CASE y.size = 1
    <3>1. y.bars \in Seq(Nat)
      BY DisplayIs
    <3>2. Len(y.bars) = Columns(Len(y.bars), 1)
      BY <3>1 DEF Columns
    <3>3. \A k \in 1 .. Len(y.bars), j \in 1 .. 1 : Place(k, j, 1) = k
      BY <3>1 DEF Place
    <3>4. InBlocks(y.bars, y.bars, 1)
      BY <3>2, <3>3 DEF InBlocks
    <3> QED BY <2>2, <3>1, <3>4
  <2> QED BY <2>1, <2>2
<1>3. \E e \in Seq(Nat) : ViewIs(y, e)
  BY <1>2 DEF ViewIs
<1> QED
  BY <1>1, <1>3 DEF Good

\* So does one without a view.
LEMMA EmptyGood ==
  ASSUME NEW y \in Display, y.bars = NoMemory, y.recount, y.alive # NoMemory => y.count <= Len(y.alive)
  PROVE  Good(y)
<1>1. <<>> \in Seq(Nat) /\ Len(<<>>) = 0 /\ y.bars = <<>>
  BY DEF NoMemory
<1>2. y.size \in Nat \ {0}
  BY DisplayIs
<1>3. Columns(0, y.size) = 0
  BY <1>2, PlacesAre
<1>4. InBlocks(<<>>, <<>>, y.size)
  BY <1>1, <1>3 DEF InBlocks
<1>5. ViewIs(y, <<>>)
  BY <1>1, <1>4 DEF ViewIs
<1> QED
  <2>1. \E e \in Seq(Nat) : ViewIs(y, e)
    BY <1>1, <1>5
  <2>2. Len(y.bars) = 0 /\ 0 <= Cols
    BY <1>1, MonitorAssumption
  <2>3. \A i \in 1 .. Len(y.bars) : FALSE
    BY <2>2
  <2> QED BY <2>1, <2>2, <2>3 DEF Good

\* Nothing is wrong with the memory of a program that is gone.
LEMMA CrashGood ==
  ASSUME NEW x \in Display
  PROVE  /\ Good(Started) /\ Good(Crash(x)) /\ Crash(x).crashed /\ (x.excused <=> Crash(x).excused)
         /\ ~Started.crashed /\ ~Started.excused
<1>1. /\ NoMemory \in Answers \cup {NoMemory} /\ 0 \in 0 .. MaxNodes /\ NoMemory \in Seq(0 .. MaxNodes - 1)
      /\ 1 \in 1 .. NumWidth + 1
  BY MonitorAssumption DEF NoMemory
<1>2. Started \in Display /\ Crash(x) \in Display
  <2>1. Started \in Display
    BY <1>1 DEF Started, Display
  <2>2. Crash(x) = [Started EXCEPT !.crashed = TRUE, !.excused = x.excused]
    BY DEF Crash
  <2>3. x.excused \in BOOLEAN
    BY DisplayIs
  <2> QED BY <2>1, <2>2, <2>3 DEF Display
<1>3. /\ Started.bars = NoMemory /\ Started.recount /\ Started.alive = NoMemory
      /\ Crash(x).bars = NoMemory /\ Crash(x).recount /\ Crash(x).alive = NoMemory
      /\ Crash(x).crashed /\ (x.excused <=> Crash(x).excused) /\ ~Started.crashed /\ ~Started.excused
  BY DEF Started, Crash
<1> QED
  BY <1>2, <1>3, EmptyGood

-----------------------------------------------------------------------------

\* An answer, and what is behind it of the first one.
LEMMA OverwrittenIs ==
  ASSUME NEW a \in Answers \cup {NoMemory}, NEW reply \in Answers,
         a # NoMemory => Len(reply) <= Len(a)
  PROVE  LET b == reply \o SubSeq(a, Len(reply) + 1, Len(a))
         IN  /\ b \in Answers /\ b # NoMemory /\ Len(reply) <= Len(b) /\ Len(a) <= Len(b)
             /\ \A i \in 1 .. Len(reply) : b[i] = reply[i]
<1> DEFINE n == Len(reply)
           m == Len(a)
           rest == SubSeq(a, n + 1, m)
           b == reply \o rest
<1>1. reply \in Seq(BOOLEAN) /\ n \in 1 .. MaxNodes /\ a \in Seq(BOOLEAN) /\ m \in 0 .. MaxNodes
  BY AliveIs
<1>2. n \in Nat /\ m \in Nat /\ n + 1 \in Nat
  BY <1>1, MonitorAssumption
<1>3. rest \in Seq(BOOLEAN) /\ Len(rest) = IF n + 1 <= m THEN m - n ELSE 0
  <2>1. \A i \in n + 1 .. m : a[i] \in BOOLEAN
    BY <1>1, <1>2
  <2> HIDE DEF n, m
  <2>2. Len(rest) = IF n + 1 <= m THEN m - (n + 1) + 1 ELSE 0
    BY <1>1, <1>2, SubSeqProperties
  <2>3. rest \in Seq(BOOLEAN)
    BY <1>1, <1>2, <2>1, SubSeqProperties
  <2>4. n + 1 <= m => m - (n + 1) + 1 = m - n
    BY <1>2
  <2> QED BY <2>2, <2>3, <2>4
<1> HIDE DEF rest
<1>4. b \in Seq(BOOLEAN) /\ Len(b) = n + Len(rest) /\ \A i \in 1 .. n : b[i] = reply[i]
  <2>1. b \in Seq(BOOLEAN) /\ Len(b) = n + Len(rest)
        /\ \A i \in 1 .. n + Len(rest) : b[i] = IF i <= n THEN reply[i] ELSE rest[i - n]
    BY <1>1, <1>3, ConcatProperties
  <2>2. Len(rest) \in Nat
    BY <1>3
  <2> HIDE DEF b, n
  <2>3. ASSUME NEW i \in 1 .. n PROVE b[i] = reply[i]
    <3>1. i \in 1 .. n + Len(rest) /\ i <= n
      BY <1>2, <2>2
    <3> QED BY <2>1, <3>1
  <2> QED BY <2>1, <2>3
<1>5. n <= m \/ m = 0
  BY AliveIs DEF NoMemory
<1>6. n <= Len(b) /\ m <= Len(b) /\ Len(b) \in 1 .. MaxNodes
  <2> HIDE DEF n, m, b
  <2> QED BY <1>1, <1>2, <1>3, <1>4, <1>5
<1>7. b \in [1 .. Len(b) -> BOOLEAN]
  <2>1. b \in Seq(BOOLEAN)
    BY <1>4
  <2> HIDE DEF b
  <2> QED BY ONLY <2>1
<1>8. b \in Answers
  BY <1>6, <1>7 DEF Answers
<1> HIDE DEF b
<1>9. b # NoMemory
  BY <1>8, AliveIs
<1> QED
  BY <1>4, <1>6, <1>8, <1>9 DEF b, rest

\* What a display keeps when an answer is fetched.
Fetched(x, y) ==
  /\ y.bars = x.bars /\ y.size = x.size /\ y.wmode = x.wmode /\ y.dead = x.dead
  /\ y.recount = x.recount /\ y.excused = x.excused /\ y.crashed = x.crashed

\* Storing an answer leaves the display good: what is on view stays within memory.
LEMMA StoredGood ==
  ASSUME NEW x, Good(x), NEW reply \in Answers, x.alive # NoMemory => Len(reply) <= Len(x.alive)
  PROVE  LET y == Stored(x, reply)
         IN  Good(y) /\ y.alive # NoMemory /\ Fetched(x, y)
<1> DEFINE y == Stored(x, reply)
           a == reply \o SubSeq(x.alive, Len(reply) + 1, Len(x.alive))
<1>1. x \in Display /\ Len(x.bars) <= Cols /\ (x.alive # NoMemory => x.count <= Len(x.alive))
      /\ \A i \in 1 .. Len(x.bars) : x.bars[i] < Len(x.alive)
  BY DEF Good
<1>2. /\ x.alive \in Answers \cup {NoMemory} /\ x.count \in 0 .. MaxNodes /\ x.count \in Nat
      /\ x.bars \in Seq(Nat) /\ x.fresh \in BOOLEAN /\ Len(x.alive) \in Nat
      /\ Len(reply) \in 1 .. MaxNodes /\ Len(reply) \in Nat
  BY <1>1, DisplayIs, AliveIs, MonitorAssumption
<1>3. /\ a \in Answers /\ a # NoMemory /\ Len(reply) <= Len(a) /\ Len(x.alive) <= Len(a)
      /\ Len(a) \in Nat /\ \A i \in 1 .. Len(reply) : a[i] = reply[i]
  <2>1. /\ a \in Answers /\ a # NoMemory /\ Len(reply) <= Len(a) /\ Len(x.alive) <= Len(a)
        /\ \A i \in 1 .. Len(reply) : a[i] = reply[i]
    BY <1>2, OverwrittenIs
  <2> HIDE DEF a
  <2>2. Len(a) \in 0 .. MaxNodes
    BY <2>1, AliveIs
  <2> QED BY <2>1, <2>2
<1>4. /\ y = [x EXCEPT !.alive = a, !.count = Len(reply), !.fresh = x.fresh /\ Data(x) = reply]
  BY <1>1 DEF Stored, Display
<1> HIDE DEF a
<1>5. Len(reply) \in 0 .. MaxNodes /\ (x.fresh /\ Data(x) = reply) \in BOOLEAN
  BY <1>2
<1>6. /\ y \in Display /\ y.alive = a /\ y.count = Len(reply) /\ (y.fresh => x.fresh /\ Data(x) = reply)
      /\ Fetched(x, y)
  BY <1>1, <1>3, <1>4, <1>5 DEF Display, Fetched
<1> HIDE DEF y
<1>7. ASSUME y.fresh PROVE Shown(y) = Shown(x)
  <2>1. x.alive # NoMemory /\ reply = SubSeq(x.alive, 1, x.count)
    <3>1. reply # Down
      BY <1>2 DEF Down
    <3> QED BY <1>6, <1>7, <3>1 DEF Data
  <2>2. x.count <= Len(x.alive) /\ x.alive \in Seq(BOOLEAN)
    BY <1>1, <1>2, <2>1, AliveIs
  <2>3. \A i \in 1 .. x.count : x.alive[i] \in BOOLEAN
    BY <1>2, <2>2
  <2>4. Len(reply) = x.count /\ \A i \in 1 .. x.count : reply[i] = x.alive[i]
    <3>1. Len(SubSeq(x.alive, 1, x.count)) = x.count
          /\ \A i \in 1 .. x.count : SubSeq(x.alive, 1, x.count)[i] = x.alive[i]
      BY <1>2, <2>2
    <3> QED BY <2>1, <3>1
  <2>5. y.count = x.count /\ y.dead = x.dead /\ \A p \in 0 .. x.count - 1 : y.alive[p + 1] = x.alive[p + 1]
    <3>1. \A p \in 0 .. x.count - 1 : p + 1 \in 1 .. x.count
      BY <1>2
    <3> QED BY <1>3, <1>6, <2>4, <3>1 DEF Fetched
  <2> QED BY <2>5 DEF Shown, Nodes, IsAlive
<1>8. PICK e \in Seq(Nat) : ViewIs(x, e)
  BY DEF Good
<1>9. ViewIs(y, e)
  <2>1. y.fresh => Visible(y) = Visible(x) /\ Fit(y) = Fit(x)
    BY <1>6, <1>7 DEF Visible, Fit, Fetched
  <2>2. y.dead => Visible(y) = Visible(x)
    BY <1>6 DEF Visible, Fetched
  <2> QED BY <1>6, <1>8, <2>1, <2>2 DEF ViewIs, Fetched
<1>10. \A i \in 1 .. Len(y.bars) : y.bars[i] < Len(y.alive)
  <2> SUFFICES ASSUME NEW i \in 1 .. Len(x.bars) PROVE x.bars[i] < Len(a)
    BY <1>6 DEF Fetched
  <2>1. x.bars[i] \in Nat /\ x.bars[i] < Len(x.alive)
    BY <1>1, <1>2
  <2>2. Len(a) \in Nat
    BY <1>3, AliveIs, MonitorAssumption
  <2> QED BY <1>2, <1>3, <2>1, <2>2
<1>11. Good(y)
  BY <1>1, <1>3, <1>6, <1>9, <1>10 DEF Good, Fetched
<1> QED
  BY <1>3, <1>6, <1>11 DEF y

\* An answer is stored, or infod was silent, or the answer was too long.
LEMMA FetchGood ==
  ASSUME NEW x, Good(x), NEW reply \in Replies, ~x.crashed
  PROVE  LET y == get_nodes_to_display(x, reply)
         IN  /\ Good(y) /\ (x.excused => y.excused) /\ (y.crashed => y.excused)
             /\ ~y.excused => y.alive # NoMemory /\ reply # Down /\ ~y.crashed
             /\ ~y.crashed => /\ y.bars = x.bars /\ y.recount = x.recount
                              /\ reply # Down => y.alive # NoMemory
<1> DEFINE y == get_nodes_to_display(x, reply)
           z == [x EXCEPT !.excused = TRUE]
<1>1. x \in Display
  BY DEF Good
<1>2. z \in Display /\ z.excused /\ z.bars = x.bars /\ z.recount = x.recount /\ ~z.crashed
      /\ z.alive = x.alive /\ z.count = x.count /\ z.size = x.size /\ z.dead = x.dead /\ z.fresh = x.fresh
  BY <1>1 DEF Display
<1>3. CASE reply = Down
  <2>1. y = z
    BY <1>3 DEF get_nodes_to_display
  <2> HIDE DEF y, z
  <2>2. Shown(z) = Shown(x)
    BY <1>2 DEF Shown, Nodes, IsAlive
  <2>3. Visible(z) = Visible(x) /\ Fit(z) = Fit(x)
    BY <1>2, <2>2 DEF Visible, Fit
  <2>4. PICK e \in Seq(Nat) : ViewIs(x, e)
    BY DEF Good
  <2>5. ViewIs(z, e)
    BY <1>2, <2>3, <2>4 DEF ViewIs
  <2>6. Good(z)
    BY <1>2, <2>5 DEF Good
  <2> QED BY <1>2, <1>3, <2>1, <2>6 DEF y
<1>4. CASE reply # Down /\ x.alive # NoMemory /\ Len(reply) > Len(x.alive)
  <2>1. y = Crash(z)
    BY <1>4 DEF get_nodes_to_display
  <2>2. z.excused \in BOOLEAN /\ z.excused
    BY <1>2
  <2> HIDE DEF y, z
  <2>3. Good(Crash(z)) /\ Crash(z).crashed /\ (z.excused <=> Crash(z).excused)
    BY <1>2, CrashGood
  <2>4. Good(y) /\ y.crashed /\ y.excused
    BY <2>1, <2>2, <2>3
  <2> QED BY <2>4 DEF y
<1>5. CASE reply # Down /\ ~(x.alive # NoMemory /\ Len(reply) > Len(x.alive))
  <2>1. y = Stored(x, reply)
    BY <1>5 DEF get_nodes_to_display
  <2>2. reply \in Answers
    BY <1>5 DEF Replies
  <2>3. x.alive # NoMemory => Len(reply) <= Len(x.alive)
    <3>1. x.alive \in Answers \cup {NoMemory}
      BY <1>1, DisplayIs
    <3>2. Len(reply) \in Nat /\ Len(x.alive) \in Nat
      BY <2>2, <3>1, AliveIs, MonitorAssumption
    <3> QED BY <1>5, <3>2
  <2>4. Good(y) /\ y.alive # NoMemory /\ Fetched(x, y)
    BY <2>1, <2>2, <2>3, StoredGood
  <2> HIDE DEF y
  <2> QED BY <1>5, <2>4 DEF Fetched, y
<1> QED
  BY <1>3, <1>4, <1>5

\* The first nodes shown are a run of them.
LEMMA FirstAreRun ==
  ASSUME NEW x \in Display, NEW fit \in Nat, fit <= Cardinality(Shown(x)),
         NEW e \in Seq(Nat), Len(e) = fit, \A k \in 1 .. fit : e[k] = InOrder(Shown(x))[k]
  PROVE  IsRun(e, Visible(x)) /\ \A k \in 1 .. fit : e[k] \in Nat /\ e[k] < x.count
<1> DEFINE S == Shown(x)
           n == Cardinality(S)
           s == InOrder(S)
<1>1. /\ x.count \in Nat /\ x.count <= MaxNodes /\ S \in SUBSET Nat /\ IsFiniteSet(S) /\ n \in Nat
      /\ \A p \in S : p \in 0 .. x.count - 1
  <2>1. x.count \in 0 .. MaxNodes /\ x.count \in Nat
    BY DisplayIs, MonitorAssumption
  <2> QED BY <2>1, ShownIs
<1>2. /\ s \in [1 .. n -> S]
      /\ \A i, j \in 1 .. n : i < j => s[i] < s[j]
      /\ \A p \in S : \E i \in 1 .. n : s[i] = p
  BY <1>1, InOrderIs
<1>3. fit <= n /\ \A k \in 1 .. fit : e[k] = s[k]
  OBVIOUS
<1>4. \A p \in Visible(x) : p \in Nat /\ (p < x.count => p \in S)
  BY <1>1, MonitorAssumption DEF Visible, Shown, Nodes
<1>5. \A p \in S : p \in Visible(x)
  BY <1>1, MonitorAssumption DEF Visible
<1> HIDE DEF S, n, s
<1>6. \A k \in 1 .. fit : k \in 1 .. n /\ e[k] = s[k] /\ s[k] \in S /\ e[k] \in Nat /\ e[k] < x.count
  <2> SUFFICES ASSUME NEW k \in 1 .. fit
               PROVE  k \in 1 .. n /\ e[k] = s[k] /\ s[k] \in S /\ e[k] \in Nat /\ e[k] < x.count
    OBVIOUS
  <2>1. k \in 1 .. n
    BY <1>1, <1>3
  <2>2. s[k] \in S /\ e[k] = s[k]
    BY <1>2, <1>3, <2>1
  <2>3. s[k] \in 0 .. x.count - 1
    BY <1>1, <2>2
  <2> QED BY <1>1, <2>1, <2>2, <2>3
<1>7. \A j, k \in 1 .. fit : j < k => e[j] < e[k]
  BY <1>2, <1>6
<1>8. ASSUME NEW j \in 1 .. fit, NEW k \in 1 .. fit, NEW p \in Visible(x), e[j] <= p, p <= e[k]
      PROVE  \E i \in 1 .. fit : p = e[i]
  <2>1. p \in Nat /\ e[k] \in Nat /\ e[k] < x.count
    BY <1>4, <1>6
  <2>2. p \in S
    BY <1>1, <1>4, <1>8, <2>1
  <2>3. PICK i \in 1 .. n : s[i] = p
    BY <1>2, <2>2
  <2>4. ~(k < i)
    <3> SUFFICES ASSUME k < i PROVE FALSE
      OBVIOUS
    <3>1. s[k] < s[i] /\ e[k] = s[k]
      BY <1>2, <1>6
    <3> QED BY <1>8, <2>1, <2>3, <3>1
  <2>5. i \in 1 .. fit
    BY <1>1, <2>4
  <2> QED BY <1>6, <2>3, <2>5
<1> QED
  BY <1>5, <1>6, <1>7, <1>8 DEF IsRun

\* The columns of the first nodes, so many for each.
BarsOf(s, fit, size) == [i \in 1 .. fit * size |-> s[(i - 1) \div size + 1]]

\* Those columns are blocks.
LEMMA SpreadIs ==
  ASSUME NEW fit \in Nat, NEW size \in Nat \ {0}, NEW e \in Seq(Nat), Len(e) = fit,
         NEW s, \A k \in 1 .. fit : s[k] = e[k]
  PROVE  LET g == BarsOf(s, fit, size)
         IN  g \in Seq(Nat) /\ Len(g) = fit * size /\ InBlocks(g, e, size)
<1> DEFINE c == fit * size
           g == [i \in 1 .. c |-> s[(i - 1) \div size + 1]]
<1>1. c \in Nat /\ c = Columns(fit, size)
  BY PlacesAre DEF Columns
<1>2. ASSUME NEW k \in 1 .. fit, NEW j \in 1 .. size PROVE g[Place(k, j, size)] = e[k] /\ Place(k, j, size) \in 1 .. c
  <2>1. Place(k, j, size) \in 1 .. c
    BY <1>1, PlacesAre
  <2>2. (Place(k, j, size) - 1) \div size + 1 = k
    <3>1. k - 1 \in Nat
      OBVIOUS
    <3>2. ((k - 1) * size + j - 1) \div size = k - 1
      BY <3>1, BlockNumber
    <3> QED BY <3>1, <3>2 DEF Place
  <2> HIDE DEF c
  <2> QED BY <2>1, <2>2
<1> HIDE DEF c
<1>3. ASSUME NEW i \in 1 .. c PROVE g[i] \in Nat
  <2>1. \A p \in 1 .. Columns(fit, size) : \E k \in 1 .. fit, j \in 1 .. size : p = Place(k, j, size)
    BY SMTT(30), PlacesAre
  <2>2. PICK k \in 1 .. fit, j \in 1 .. size : i = Place(k, j, size)
    BY <1>1, <2>1
  <2>3. e[k] \in Nat
    OBVIOUS
  <2> HIDE DEF g
  <2> QED BY <1>2, <2>2, <2>3
<1>4. g = [i \in 1 .. c |-> g[i]]
  OBVIOUS
<1>5. g \in Seq(Nat) /\ Len(g) = c
  <2> HIDE DEF g
  <2>1. g \in [1 .. c -> Nat]
    BY <1>3, <1>4
  <2> QED BY ONLY <1>1, <2>1
<1>6. InBlocks(g, e, size)
  <2> HIDE DEF g
  <2> QED BY <1>1, <1>2, <1>5 DEF InBlocks
<1> QED
  BY <1>5, <1>6 DEF c, g, BarsOf

\* y is x after a rebuild: memory as it was, and a view unless the screen or the list was empty.
Viewed(x, y) ==
  /\ y.alive = x.alive /\ y.count = x.count /\ ~y.recount /\ y.crashed = x.crashed
  /\ (x.excused => y.excused) /\ (~y.excused => y.bars # NoMemory)

\* displayRedraw builds a good view, and one with a node on it unless there is no room or no node.
LEMMA RebuiltGood ==
  ASSUME NEW x, Good(x), ~(x.count > 0 /\ x.alive = NoMemory)
  PROVE  Good(Rebuilt(x)) /\ Viewed(x, Rebuilt(x))
<1> DEFINE S == Shown(x)
           n == Cardinality(S)
           size == 1 + Padding(x)
           fit == Min({Cols \div size, n})
           s == InOrder(S)
           e == [k \in 1 .. fit |-> s[k]]
           g == BarsOf(s, fit, size)
           y == Rebuilt(x)
<1>1. x \in Display /\ Len(x.bars) <= Cols /\ (x.alive # NoMemory => x.count <= Len(x.alive))
  BY DEF Good
<1>2. /\ x.count \in Nat /\ x.count <= MaxNodes /\ S \in SUBSET Nat /\ IsFiniteSet(S) /\ n \in Nat
      /\ \A p \in S : p \in 0 .. x.count - 1
  <2>1. x.count \in 0 .. MaxNodes /\ x.count \in Nat
    BY <1>1, DisplayIs, MonitorAssumption
  <2> QED BY <2>1, ShownIs
<1>3. size \in 1 .. NumWidth + 1 /\ size \in Nat \ {0}
  <2>1. x.wmode \in 1 .. 3
    BY <1>1, DisplayIs
  <2>2. Padding(x) \in 0 .. NumWidth
    <3>1. x.wmode = 1 \/ x.wmode = 2 \/ x.wmode = 3
      BY <2>1
    <3> QED BY <3>1, MonitorAssumption DEF Padding
  <2> QED BY <2>2, MonitorAssumption
<1>4. x.count <= Len(x.alive) /\ Len(x.alive) \in Nat
  <2>1. x.alive \in Answers \cup {NoMemory} /\ Len(x.alive) \in 0 .. MaxNodes
    BY <1>1, DisplayIs, AliveIs
  <2>2. CASE x.alive = NoMemory
    <3>1. x.count = 0
      BY <1>2, <2>2
    <3> QED BY <2>1, <3>1, MonitorAssumption
  <2> QED BY <1>1, <2>1, <2>2, MonitorAssumption
<1>5. y = [x EXCEPT !.size = size, !.bars = g, !.recount = FALSE, !.fresh = TRUE,
                    !.excused = x.excused \/ fit = 0]
  <2>1. Len(s) = n
    <3>1. s \in [1 .. n -> S]
      BY <1>2, InOrderIs
    <3> HIDE DEF n, s
    <3> QED BY <1>2, <3>1
  <2> QED BY <1>1, <2>1 DEF Rebuilt, Display, BarsOf
<1> HIDE DEF size
<1>6. fit \in Nat /\ fit <= n /\ fit <= Cols \div size
  <2>1. Cols \div size \in Nat
    BY <1>3, DivIs, MonitorAssumption
  <2> HIDE DEF n
  <2> QED BY <1>2, <2>1, MinOfTwo
<1>7. s \in [1 .. n -> S]
  BY <1>2, InOrderIs
<1> HIDE DEF fit, n
<1>8. e \in Seq(Nat) /\ Len(e) = fit /\ \A k \in 1 .. fit : e[k] = s[k]
  <2> HIDE DEF s
  <2>1. \A k \in 1 .. fit : k \in 1 .. n
    BY <1>2, <1>6
  <2>2. \A k \in 1 .. fit : s[k] \in Nat
    BY <1>2, <1>7, <2>1
  <2>3. e \in [1 .. fit -> Nat]
    BY <2>2
  <2> QED BY <1>6, <2>3
<1> HIDE DEF e
<1>9. IsRun(e, Visible(x)) /\ \A k \in 1 .. fit : e[k] \in Nat /\ e[k] < x.count
  BY <1>1, <1>6, <1>8, FirstAreRun DEF n
<1>10. g \in Seq(Nat) /\ Len(g) = fit * size /\ InBlocks(g, e, size)
  <2> HIDE DEF s
  <2> QED BY <1>3, <1>6, <1>8, SpreadIs
<1>11. Len(g) <= Cols /\ Len(g) = Columns(fit, size)
  <2>1. (Cols \div size) * size <= Cols /\ Cols \div size \in Nat
    BY <1>3, DivIs, MonitorAssumption
  <2> DEFINE q == Cols \div size
  <2>2. fit * size <= q * size /\ fit * size \in Nat /\ q * size \in Nat
    <3>1. q \in Nat /\ fit <= q
      BY <1>6, <2>1
    <3> HIDE DEF q
    <3> QED BY <1>3, <1>6, <3>1, LaterBlock
  <2> DEFINE b == fit * size
             c == q * size
  <2>3. b <= c /\ b \in Nat /\ c \in Nat /\ c <= Cols /\ Len(g) = b
    BY <1>10, <2>1, <2>2
  <2>4. b <= Cols
    <3> HIDE DEF b, c
    <3> QED BY <2>3, MonitorAssumption
  <2> QED BY <2>3, <2>4 DEF Columns
<1> HIDE DEF g, s
<1>12. \A i \in 1 .. Len(g) : g[i] \in Nat /\ g[i] < x.count
  <2>1. \A i \in 1 .. Len(g) : \E k \in 1 .. Len(e) : g[i] = e[k]
    BY <1>3, <1>8, <1>10, BarsAreNodes
  <2> QED BY <1>8, <1>9, <2>1
<1>13. g \in Seq(0 .. MaxNodes - 1)
  <2>1. \A i \in 1 .. Len(g) : g[i] \in 0 .. MaxNodes - 1
    BY <1>2, <1>12, MonitorAssumption
  <2> QED BY <1>10, <2>1, SeqByEntries
<1>14. (x.excused \/ fit = 0) \in BOOLEAN
  OBVIOUS
<1>15. /\ y \in Display /\ y.alive = x.alive /\ y.count = x.count /\ y.dead = x.dead
       /\ y.bars = g /\ y.size = size /\ y.recount = FALSE /\ y.fresh = TRUE /\ y.crashed = x.crashed
       /\ (y.excused <=> x.excused \/ fit = 0)
  <2> HIDE DEF y
  <2> QED BY <1>1, <1>3, <1>5, <1>13, <1>14 DEF Display
<1> HIDE DEF y
<1>16. Shown(y) = S /\ Visible(y) = Visible(x) /\ Fit(y) = fit
  <2>1. Shown(y) = Shown(x)
    BY <1>15 DEF Shown, Nodes, IsAlive
  <2> QED BY <1>15, <2>1 DEF Visible, Fit, fit, n
<1>17. ViewIs(y, e)
  BY <1>8, <1>9, <1>10, <1>15, <1>16 DEF ViewIs
<1>18. \A i \in 1 .. Len(y.bars) : y.bars[i] < Len(y.alive)
  BY <1>2, <1>4, <1>12, <1>15
<1>19. Good(y)
  BY <1>1, <1>8, <1>11, <1>15, <1>17, <1>18 DEF Good
<1>20. ~y.excused => y.bars # NoMemory
  <2> SUFFICES ASSUME ~y.excused PROVE Len(g) # 0
    BY <1>15 DEF NoMemory
  <2>1. fit # 0
    BY <1>15
  <2> QED BY <1>3, <1>6, <1>11, <2>1, PlacesAre
<1> QED
  BY <1>15, <1>19, <1>20 DEF Viewed, y

\* What displayRedraw leaves, to be rebuilt or not.
LEMMA RedrawGood ==
  ASSUME NEW x, Good(x), ~x.crashed
  PROVE  LET y == displayRedraw(x)
         IN  /\ Good(y) /\ (x.excused => y.excused)
             /\ x.alive # NoMemory =>
                  /\ y.alive # NoMemory /\ ~y.recount /\ ~y.crashed
                  /\ ~y.excused => (x.recount \/ x.bars # NoMemory => y.bars # NoMemory)
             /\ y.crashed => x.alive = NoMemory
<1> DEFINE y == displayRedraw(x)
<1>1. CASE ~x.recount
  BY <1>1 DEF displayRedraw
<1>2. CASE x.recount /\ x.count > 0 /\ x.alive = NoMemory
  <2>1. y = Crash(x)
    BY <1>2 DEF displayRedraw
  <2>2. x \in Display
    BY DEF Good
  <2>3. Good(Crash(x)) /\ (x.excused <=> Crash(x).excused)
    BY <2>2, CrashGood
  <2> QED BY <1>2, <2>1, <2>3
<1>3. CASE x.recount /\ ~(x.count > 0 /\ x.alive = NoMemory)
  <2>1. y = Rebuilt(x)
    BY <1>3 DEF displayRedraw
  <2>2. Good(Rebuilt(x)) /\ Viewed(x, Rebuilt(x))
    BY <1>3, RebuiltGood
  <2> HIDE DEF y
  <2>3. Good(y) /\ Viewed(x, y)
    BY <2>1, <2>2
  <2> QED BY <2>3 DEF Viewed, y
<1> QED
  BY <1>1, <1>2, <1>3

\* A view that is moved is moved again.
LEMMA MovedAgain ==
  ASSUME NEW x \in Display, NEW y, Moved(x, y), NEW z, Moved(y, z)
  PROVE  Moved(x, z) /\ z \in Display
<1>1. y = [x EXCEPT !.bars = y.bars] /\ z = [y EXCEPT !.bars = z.bars]
  BY DEF Moved
<1>2. z \in Display /\ y \in Display
  BY DEF Moved, Good
<1>3. z = [x EXCEPT !.bars = z.bars]
  BY <1>1, <1>2 DEF Display
<1> QED
  BY <1>2, <1>3 DEF Moved

\* However often.
LEMMA RightTimesGood ==
  ASSUME NEW x, Good(x), x.bars # NoMemory, NEW n \in Nat
  PROVE  Moved(x, Times(n, move_right, x))
<1> DEFINE S == {y \in Display : Moved(x, y)}
           F == [p \in S \X Nat |-> move_right(p[1])]
           Value(g, k) == IF k = 0 THEN x ELSE move_right(g[k - 1])
           it == CHOOSE g : g = [k \in 0 .. n |-> Value(g, k)]
<1>1. x \in S
  <2>1. x \in Display
    BY DEF Good
  <2>2. x = [x EXCEPT !.bars = x.bars]
    BY <2>1 DEF Display
  <2> QED BY <2>1, <2>2 DEF Moved
<1>2. ASSUME NEW y \in S PROVE move_right(y) \in S
  BY MovedAgain, MoveRightGood DEF Moved
<1>3. F \in [S \X Nat -> S]
  BY <1>2
<1>4. Times(n, move_right, x) = it[n]
  BY DEF Times
<1>5. \E g : g = [k \in 0 .. n |-> Value(g, k)]
  <2> HIDE DEF S, F
  <2>1. PICK f \in [0 .. n -> S] : Iterates(f, x, F, n)
    BY <1>1, <1>3, IterationExists
  <2>2. ASSUME NEW k \in 1 .. n PROVE f[k] = move_right(f[k - 1])
    <3>1. k - 1 \in 0 .. n /\ k \in Nat
      OBVIOUS
    <3>2. <<f[k - 1], k>> \in S \X Nat
      BY <2>1, <3>1
    <3>3. f[k] = F[<<f[k - 1], k>>]
      BY <2>1 DEF Iterates
    <3> QED BY <3>2, <3>3 DEF F
  <2>3. f[0] = x
    BY <2>1 DEF Iterates
  <2>4. \A k \in 0 .. n : f[k] = Value(f, k)
    BY <2>2, <2>3
  <2>5. f = [k \in 0 .. n |-> f[k]]
    BY <2>1
  <2> HIDE DEF Value
  <2>6. f = [k \in 0 .. n |-> Value(f, k)]
    BY <2>4, <2>5
  <2> QED BY <2>6
<1> HIDE DEF Value
<1>6. it = [k \in 0 .. n |-> Value(it, k)]
  BY <1>5
<1> HIDE DEF it
<1>7. \A k \in 0 .. n : it[k] = Value(it, k)
  BY <1>6, Zenon
<1>8. it[0] = x /\ \A k \in 1 .. n : it[k] = move_right(it[k - 1])
  <2>1. 0 \in 0 .. n
    OBVIOUS
  <2>2. \A k \in 1 .. n : k \in 0 .. n /\ k # 0
    OBVIOUS
  <2> QED BY <1>7, <2>1, <2>2 DEF Value
<1>9. \A k \in 0 .. n : it[k] \in S
  <2>1. ASSUME NEW k \in 1 .. n, it[k - 1] \in S PROVE it[k] \in S
    <3>1. move_right(it[k - 1]) \in S
      BY <2>1, <1>2
    <3> QED BY <1>8, <3>1
  <2>2. it[0] \in S
    BY <1>1, <1>8
  <2> HIDE DEF S
  <2> QED BY <2>1, <2>2, IterationStays
<1> QED
  BY <1>4, <1>9

\* And back.
LEMMA LeftTimesGood ==
  ASSUME NEW x, Good(x), x.bars # NoMemory, NEW n \in Nat
  PROVE  Moved(x, Times(n, move_left, x))
<1> DEFINE S == {y \in Display : Moved(x, y)}
           F == [p \in S \X Nat |-> move_left(p[1])]
           Value(g, k) == IF k = 0 THEN x ELSE move_left(g[k - 1])
           it == CHOOSE g : g = [k \in 0 .. n |-> Value(g, k)]
<1>1. x \in S
  <2>1. x \in Display
    BY DEF Good
  <2>2. x = [x EXCEPT !.bars = x.bars]
    BY <2>1 DEF Display
  <2> QED BY <2>1, <2>2 DEF Moved
<1>2. ASSUME NEW y \in S PROVE move_left(y) \in S
  BY MovedAgain, MoveLeftGood DEF Moved
<1>3. F \in [S \X Nat -> S]
  BY <1>2
<1>4. Times(n, move_left, x) = it[n]
  BY DEF Times
<1>5. \E g : g = [k \in 0 .. n |-> Value(g, k)]
  <2> HIDE DEF S, F
  <2>1. PICK f \in [0 .. n -> S] : Iterates(f, x, F, n)
    BY <1>1, <1>3, IterationExists
  <2>2. ASSUME NEW k \in 1 .. n PROVE f[k] = move_left(f[k - 1])
    <3>1. k - 1 \in 0 .. n /\ k \in Nat
      OBVIOUS
    <3>2. <<f[k - 1], k>> \in S \X Nat
      BY <2>1, <3>1
    <3>3. f[k] = F[<<f[k - 1], k>>]
      BY <2>1 DEF Iterates
    <3> QED BY <3>2, <3>3 DEF F
  <2>3. f[0] = x
    BY <2>1 DEF Iterates
  <2>4. \A k \in 0 .. n : f[k] = Value(f, k)
    BY <2>2, <2>3
  <2>5. f = [k \in 0 .. n |-> f[k]]
    BY <2>1
  <2> HIDE DEF Value
  <2>6. f = [k \in 0 .. n |-> Value(f, k)]
    BY <2>4, <2>5
  <2> QED BY <2>6
<1> HIDE DEF Value
<1>6. it = [k \in 0 .. n |-> Value(it, k)]
  BY <1>5
<1> HIDE DEF it
<1>7. \A k \in 0 .. n : it[k] = Value(it, k)
  BY <1>6, Zenon
<1>8. it[0] = x /\ \A k \in 1 .. n : it[k] = move_left(it[k - 1])
  <2>1. 0 \in 0 .. n
    OBVIOUS
  <2>2. \A k \in 1 .. n : k \in 0 .. n /\ k # 0
    OBVIOUS
  <2> QED BY <1>7, <2>1, <2>2 DEF Value
<1>9. \A k \in 0 .. n : it[k] \in S
  <2>1. ASSUME NEW k \in 1 .. n, it[k - 1] \in S PROVE it[k] \in S
    <3>1. move_left(it[k - 1]) \in S
      BY <2>1, <1>2
    <3> QED BY <1>8, <3>1
  <2>2. it[0] \in S
    BY <1>1, <1>8
  <2> HIDE DEF S
  <2> QED BY <2>1, <2>2, IterationStays
<1> QED
  BY <1>4, <1>9

\* A display with a view, moved any number of times.
LEMMA MovedIs ==
  ASSUME NEW x \in Display, NEW y, Moved(x, y)
  PROVE  /\ Good(y) /\ y.bars # NoMemory /\ y.alive = x.alive /\ y.count = x.count
         /\ y.recount = x.recount /\ y.excused = x.excused /\ y.crashed = x.crashed
<1>1. y = [x EXCEPT !.bars = y.bars] /\ Good(y) /\ y.bars # NoMemory
  BY DEF Moved
<1> QED
  BY <1>1 DEF Display

\* All is there to be moved, or all but the view, which is to be rebuilt.
OnView(x) == x.alive # NoMemory /\ x.bars # NoMemory /\ ~x.recount
InWork(x) == x.alive # NoMemory /\ (x.bars # NoMemory \/ x.recount)

\* As long as nothing excuses it a view is on the screen whenever a key is awaited.
MonitorInv ==
  /\ infod \in Replies /\ Good(d) /\ res \in BOOLEAN /\ turn \in {"key", "draw"}
  /\ d.crashed => d.excused
  /\ ~d.excused => /\ res
                   /\ turn = "key" => OnView(d)
                   /\ turn = "draw" => d = Started \/ InWork(d)

\* What a key may make of the display.
Keeps(x, y) ==
  /\ Good(y) /\ (x.excused => y.excused) /\ (y.crashed => y.excused)
  /\ ~y.excused => InWork(y)

\* A key after which the display is kept well keeps the invariant.
LEMMA PressKeeps ==
  ASSUME MonitorInv, NEW x, Press(x), Keeps(d, x)
  PROVE  MonitorInv'
<1>1. d' = x /\ turn' = "draw" /\ infod' = infod /\ res' = res /\ turn = "key"
  BY DEF Press
<1>2. Good(x) /\ (x.crashed => x.excused) /\ (~x.excused => InWork(x) /\ res)
  BY DEF Keeps, MonitorInv
<1>3. infod \in Replies /\ res \in BOOLEAN
  BY DEF MonitorInv
<1> QED
  BY <1>1, <1>2, <1>3 DEF MonitorInv

\* Where a key is pressed.
AtKey == MonitorInv /\ turn = "key" /\ ~d.crashed

\* What is known of the display where a key is pressed.
LEMMA AtKeyIs ==
  ASSUME AtKey
  PROVE  /\ Good(d) /\ d \in Display /\ ~d.crashed /\ infod \in Replies
         /\ d.alive # NoMemory => d.count <= Len(d.alive)
         /\ ~d.excused => OnView(d)
BY DEF AtKey, MonitorInv, Good

\* The keys one by one: a display type is fetched and moved back to where the view was.
LEMMA PressTypeGood ==
  AtKey /\ PressType => MonitorInv'
<1> SUFFICES ASSUME AtKey, PressType PROVE MonitorInv'
  OBVIOUS
<1> DEFINE x0 == [d EXCEPT !.size = 1, !.recount = TRUE]
           y == get_nodes_to_display(x0, infod)
           x == IF d.bars = NoMemory THEN Crash(d)
                ELSE Goes(y, Times(Head(d.bars), move_right, y))
<1>1. Press(x)
  BY DEF PressType
<1>2. Good(d) /\ d \in Display /\ ~d.crashed /\ infod \in Replies /\ (~d.excused => OnView(d))
  BY AtKeyIs
<1>3. Keeps(d, x)
  <2>1. CASE d.bars = NoMemory
    <3>1. x = Crash(d)
      BY <2>1
    <3>2. Good(Crash(d)) /\ (d.excused <=> Crash(d).excused)
      BY <1>2, CrashGood
    <3>3. d.excused
      BY <1>2, <2>1 DEF OnView
    <3> HIDE DEF x
    <3> QED BY <3>1, <3>2, <3>3 DEF Keeps
  <2>2. CASE d.bars # NoMemory
    <3>1. x = Goes(y, Times(Head(d.bars), move_right, y))
      BY <2>2
    <3>2. 1 \in 1 .. NumWidth + 1
      BY MonitorAssumption
    <3>3. /\ x0 \in Display /\ x0.alive = d.alive /\ x0.count = d.count /\ x0.bars = d.bars /\ x0.size = 1
          /\ x0.recount /\ ~x0.crashed /\ (d.excused => x0.excused)
      BY <1>2, <3>2 DEF Display
    <3> HIDE DEF x0, x
    <3>4. Good(x0)
      BY <1>2, <3>3, RecountGood
    <3>5. /\ Good(y) /\ (x0.excused => y.excused) /\ (y.crashed => y.excused)
          /\ ~y.excused => y.alive # NoMemory /\ ~y.crashed
          /\ ~y.crashed => y.bars = x0.bars /\ y.recount = x0.recount
      BY <1>2, <3>3, <3>4, FetchGood
    <3> HIDE DEF y
    <3>6. CASE y.crashed
      BY <3>1, <3>3, <3>5, <3>6 DEF Goes, Keeps
    <3>7. CASE ~y.crashed
      <4> DEFINE n == Head(d.bars)
                 z == Times(n, move_right, y)
      <4>1. n \in Nat
        BY <1>2, <2>2, DisplayIs DEF NoMemory
      <4>2. y.bars # NoMemory /\ y.recount /\ y \in Display
        BY <2>2, <3>3, <3>5, <3>7 DEF Good
      <4> HIDE DEF n
      <4>3. Moved(y, z)
        BY <3>5, <4>1, <4>2, RightTimesGood
      <4>4. x = z
        BY <3>1, <3>7 DEF Goes, n
      <4> HIDE DEF z
      <4>5. /\ Good(z) /\ z.alive = y.alive /\ z.recount = y.recount /\ z.excused = y.excused
            /\ z.crashed = y.crashed
        BY <4>2, <4>3, MovedIs
      <4> QED BY <3>3, <3>5, <4>2, <4>4, <4>5 DEF Keeps, InWork
    <3> QED BY <3>6, <3>7
  <2> QED BY <2>1, <2>2
<1> HIDE DEF x
<1> QED
  BY <1>1, <1>3, PressKeeps DEF AtKey

\* What is built anew.
LEMMA RebuildGood ==
  ASSUME AtKey, NEW x \in Display, x.alive = d.alive, x.count = d.count, x.bars = d.bars, x.size = d.size,
         d.excused => x.excused, ~x.crashed, ~d.excused => ~x.excused
  PROVE  Keeps(d, Rebuild(x))
<1> DEFINE y == [x EXCEPT !.recount = TRUE]
<1>1. Good(d) /\ (~d.excused => OnView(d))
  BY AtKeyIs
<1>2. /\ y \in Display /\ y.alive = d.alive /\ y.count = d.count /\ y.bars = d.bars /\ y.size = d.size
      /\ y.recount /\ ~y.crashed /\ (d.excused <=> y.excused)
  BY DEF Display
<1>3. Rebuild(x) = displayRedraw(y)
  BY DEF Rebuild
<1> HIDE DEF y
<1>4. Good(y)
  BY <1>1, <1>2, RecountGood
<1>5. LET z == displayRedraw(y)
      IN  /\ Good(z) /\ (y.excused => z.excused)
          /\ y.alive # NoMemory =>
               /\ z.alive # NoMemory /\ ~z.recount /\ ~z.crashed
               /\ ~z.excused => (y.recount \/ y.bars # NoMemory => z.bars # NoMemory)
          /\ z.crashed => y.alive = NoMemory
  BY <1>2, <1>4, RedrawGood
<1> QED
  BY <1>1, <1>2, <1>3, <1>5 DEF Keeps, InWork, OnView

\* The width of the legend.
LEMMA PressWidthGood ==
  AtKey /\ PressWidth => MonitorInv'
<1> SUFFICES ASSUME AtKey, PressWidth PROVE MonitorInv'
  OBVIOUS
<1> DEFINE x == [d EXCEPT !.wmode = IF @ = 3 THEN 1 ELSE @ + 1]
<1>1. d \in Display /\ ~d.crashed /\ d.wmode \in 1 .. 3
  BY AtKeyIs, DisplayIs
<1>2. /\ x \in Display /\ x.alive = d.alive /\ x.count = d.count /\ x.bars = d.bars /\ x.size = d.size
      /\ (d.excused <=> x.excused) /\ ~x.crashed
  <2>1. (IF d.wmode = 3 THEN 1 ELSE d.wmode + 1) \in 1 .. 3
    BY <1>1
  <2> QED BY <1>1, <2>1 DEF Display
<1>3. Press(Rebuild(x))
  BY DEF PressWidth
<1> HIDE DEF x
<1> QED
  BY <1>2, <1>3, RebuildGood, PressKeeps DEF AtKey

\* The dead shown or hidden.
LEMMA PressDeadGood ==
  AtKey /\ PressDead => MonitorInv'
<1> SUFFICES ASSUME AtKey, PressDead PROVE MonitorInv'
  OBVIOUS
<1> DEFINE x == [d EXCEPT !.dead = ~@]
<1>1. d \in Display /\ ~d.crashed
  BY AtKeyIs
<1>2. /\ x \in Display /\ x.alive = d.alive /\ x.count = d.count /\ x.bars = d.bars /\ x.size = d.size
      /\ (d.excused <=> x.excused) /\ ~x.crashed
  BY <1>1 DEF Display
<1>3. Press(Rebuild(x))
  BY DEF PressDead
<1> HIDE DEF x
<1> QED
  BY <1>2, <1>3, RebuildGood, PressKeeps DEF AtKey

\* Enter.
LEMMA PressEnterGood ==
  AtKey /\ PressEnter => MonitorInv'
<1> SUFFICES ASSUME AtKey, PressEnter PROVE MonitorInv'
  OBVIOUS
<1>1. d \in Display /\ ~d.crashed
  BY AtKeyIs
<1>2. Press(Rebuild(d))
  BY DEF PressEnter
<1> QED
  BY <1>1, <1>2, RebuildGood, PressKeeps DEF AtKey

\* The view is moved by keys, or stays as it is.
LEMMA MovedKeeps ==
  ASSUME AtKey, NEW x, Moved(d, x)
  PROVE  Keeps(d, x)
<1>1. d \in Display /\ ~d.crashed /\ (~d.excused => OnView(d))
  BY AtKeyIs
<1>2. /\ Good(x) /\ x.bars # NoMemory /\ x.alive = d.alive
      /\ x.recount = d.recount /\ x.excused = d.excused /\ x.crashed = d.crashed
  BY <1>1, MovedIs
<1> QED
  BY <1>1, <1>2 DEF Keeps, InWork, OnView

\* A display left alone is kept.
LEMMA SameKeeps ==
  ASSUME AtKey
  PROVE  Keeps(d, d)
BY AtKeyIs DEF Keeps, InWork, OnView

\* The arrows.
LEMMA PressArrowGood ==
  AtKey /\ PressArrow => MonitorInv'
<1> SUFFICES ASSUME AtKey, PressArrow PROVE MonitorInv'
  OBVIOUS
<1>1. d.bars # NoMemory /\ (Press(move_left(d)) \/ Press(move_right(d)))
  BY DEF PressArrow
<1>2. Moved(d, move_left(d)) /\ Moved(d, move_right(d))
  BY <1>1, AtKeyIs, MoveLeftGood, MoveRightGood
<1>3. Keeps(d, move_left(d)) /\ Keeps(d, move_right(d))
  BY <1>2, MovedKeeps
<1> QED
  BY <1>1, <1>3, PressKeeps DEF AtKey

\* No step of zero nodes changes the view.
LEMMA NoMoves ==
  ASSUME NEW x
  PROVE  Times(0, move_left, x) = x /\ Times(0, move_right, x) = x
<1>1. \E g : g = [k \in 0 .. 0 |-> IF k = 0 THEN x ELSE move_left(g[k - 1])]
  <2>1. [k \in 0 .. 0 |-> x] = [k \in 0 .. 0 |-> IF k = 0 THEN x ELSE move_left([i \in 0 .. 0 |-> x][k - 1])]
    OBVIOUS
  <2> QED BY <2>1
<1>2. \E g : g = [k \in 0 .. 0 |-> IF k = 0 THEN x ELSE move_right(g[k - 1])]
  <2>1. [k \in 0 .. 0 |-> x] = [k \in 0 .. 0 |-> IF k = 0 THEN x ELSE move_right([i \in 0 .. 0 |-> x][k - 1])]
    OBVIOUS
  <2> QED BY <2>1
<1> DEFINE left == CHOOSE g : g = [k \in 0 .. 0 |-> IF k = 0 THEN x ELSE move_left(g[k - 1])]
           right == CHOOSE g : g = [k \in 0 .. 0 |-> IF k = 0 THEN x ELSE move_right(g[k - 1])]
<1>3. left = [k \in 0 .. 0 |-> IF k = 0 THEN x ELSE move_left(left[k - 1])]
  BY <1>1
<1>4. right = [k \in 0 .. 0 |-> IF k = 0 THEN x ELSE move_right(right[k - 1])]
  BY <1>2
<1>5. Times(0, move_left, x) = left[0] /\ Times(0, move_right, x) = right[0]
  BY DEF Times
<1> HIDE DEF left, right
<1>6. left[0] = x /\ right[0] = x
  BY <1>3, <1>4
<1> QED
  BY <1>5, <1>6

\* A page is as many steps as there are nodes on view.
LEMMA PressPageGood ==
  AtKey /\ PressPage => MonitorInv'
<1> SUFFICES ASSUME AtKey, PressPage PROVE MonitorInv'
  OBVIOUS
<1> DEFINE n == Len(d.bars) \div d.size
<1>1. Press(Times(n, move_left, d)) \/ Press(Times(n, move_right, d))
  BY DEF PressPage
<1>2. d \in Display /\ Good(d)
  BY AtKeyIs
<1>3. d.bars \in Seq(Nat) /\ d.size \in Nat \ {0}
  BY <1>2, DisplayIs
<1>4. CASE d.bars = NoMemory
  <2>1. Len(d.bars) = 0
    BY <1>4 DEF NoMemory
  <2>2. n = 0
    BY <1>3, <2>1
  <2> HIDE DEF n
  <2>3. Times(n, move_left, d) = d /\ Times(n, move_right, d) = d
    BY <2>2, NoMoves
  <2> QED BY <1>1, <2>3, SameKeeps, PressKeeps DEF AtKey
<1>5. CASE d.bars # NoMemory
  <2>1. n \in Nat
    BY <1>3, DivIs
  <2> HIDE DEF n
  <2>2. Moved(d, Times(n, move_left, d)) /\ Moved(d, Times(n, move_right, d))
    BY <1>2, <1>5, <2>1, LeftTimesGood, RightTimesGood
  <2>3. Keeps(d, Times(n, move_left, d)) /\ Keeps(d, Times(n, move_right, d))
    BY <2>2, MovedKeeps
  <2> QED BY <1>1, <2>3, PressKeeps DEF AtKey
<1> QED
  BY <1>4, <1>5

\* Another cluster: the memory goes, the view goes, and both are made anew before the next key.
LEMMA PressClusterGood ==
  AtKey /\ PressCluster => MonitorInv'
<1> SUFFICES ASSUME AtKey, PressCluster PROVE MonitorInv'
  OBVIOUS
<1> DEFINE y == WithoutView(d)
           x == IF d.count > 0 THEN displayFreeData(y) ELSE y
           x0 == [x EXCEPT !.recount = TRUE]
           z == get_nodes_to_display(x0, infod)
<1>1. Press(Goes(x, z))
  BY DEF PressCluster
<1>2. /\ Good(d) /\ d \in Display /\ ~d.crashed /\ infod \in Replies
      /\ d.alive # NoMemory => d.count <= Len(d.alive)
      /\ ~d.excused => OnView(d)
  BY AtKeyIs
<1>3. /\ y \in Display /\ y.bars = NoMemory /\ y.alive = d.alive /\ y.count = d.count /\ ~y.crashed
      /\ (y.excused <=> d.excused)
  <2>1. NoMemory \in Seq(0 .. MaxNodes - 1)
    BY DEF NoMemory
  <2> QED BY <1>2, <2>1 DEF WithoutView, Display
<1>4. Keeps(d, Goes(x, z))
  <2>1. CASE d.count > 0 /\ d.alive = NoMemory
    <3>1. x = Crash(y)
      BY <1>3, <2>1 DEF displayFreeData
    <3> HIDE DEF x, y
    <3>2. Good(Crash(y)) /\ Crash(y).crashed /\ (y.excused <=> Crash(y).excused)
      BY <1>3, CrashGood
    <3>3. Goes(x, z) = Crash(y)
      BY <3>1, <3>2 DEF Goes
    <3>4. d.excused
      BY <1>2, <2>1 DEF OnView
    <3> QED BY <1>3, <3>2, <3>3, <3>4 DEF Keeps
  <2>2. CASE ~(d.count > 0 /\ d.alive = NoMemory)
    <3>1. /\ x \in Display /\ x.bars = NoMemory /\ (x.alive # NoMemory => x.count <= Len(x.alive))
          /\ ~x.crashed /\ (x.excused <=> d.excused)
      <4>1. CASE d.count > 0
        <5>1. x = [y EXCEPT !.alive = NoMemory]
          BY <1>3, <2>2, <4>1 DEF displayFreeData
        <5> HIDE DEF x, y
        <5> QED BY <1>3, <5>1 DEF Display
      <4>2. CASE ~(d.count > 0)
        <5>1. x = y
          BY <4>2
        <5> HIDE DEF x, y
        <5> QED BY <1>2, <1>3, <5>1
      <4> QED BY <4>1, <4>2
    <3> HIDE DEF x, y
    <3>2. /\ x0 \in Display /\ x0.bars = NoMemory /\ x0.recount
          /\ (x0.alive # NoMemory => x0.count <= Len(x0.alive))
          /\ ~x0.crashed /\ (x0.excused <=> d.excused)
      BY <3>1 DEF Display
    <3> HIDE DEF x0
    <3>3. Good(x0)
      BY <3>2, EmptyGood
    <3>4. /\ Good(z) /\ (x0.excused => z.excused) /\ (z.crashed => z.excused)
          /\ ~z.excused => z.alive # NoMemory /\ ~z.crashed
          /\ ~z.crashed => z.bars = x0.bars /\ z.recount = x0.recount
      BY <1>2, <3>2, <3>3, FetchGood
    <3> HIDE DEF z
    <3>5. Goes(x, z) = z
      BY <3>1 DEF Goes
    <3> QED BY <3>2, <3>4, <3>5 DEF Keeps, InWork
  <2> QED BY <2>1, <2>2
<1> HIDE DEF x, y, z
<1> QED
  BY <1>1, <1>4, PressKeeps DEF AtKey

\* Another list of hosts.
LEMMA NewHostGood ==
  AtKey /\ new_host => MonitorInv'
<1> SUFFICES ASSUME AtKey, new_host PROVE MonitorInv'
  OBVIOUS
<1> DEFINE y == WithoutView(d)
           x == IF d.count > 0 /\ d.alive # NoMemory THEN displayFreeData(y) ELSE y
           x0 == [x EXCEPT !.count = 0, !.recount = TRUE]
           z == get_nodes_to_display(x0, infod)
           w == IF infod = Down THEN z ELSE Goes(z, displayRedraw(z))
<1>1. Press(w)
  BY DEF new_host
<1>2. /\ Good(d) /\ d \in Display /\ ~d.crashed /\ infod \in Replies
      /\ d.alive # NoMemory => d.count <= Len(d.alive)
      /\ ~d.excused => OnView(d)
  BY AtKeyIs
<1>3. /\ y \in Display /\ y.bars = NoMemory /\ y.alive = d.alive /\ y.count = d.count /\ ~y.crashed
      /\ (y.excused <=> d.excused)
  <2>1. NoMemory \in Seq(0 .. MaxNodes - 1)
    BY DEF NoMemory
  <2> QED BY <1>2, <2>1 DEF WithoutView, Display
<1>4. x \in Display /\ x.bars = NoMemory /\ ~x.crashed /\ (x.excused <=> d.excused)
  <2>1. CASE d.count > 0 /\ d.alive # NoMemory
    <3>1. x = [y EXCEPT !.alive = NoMemory]
      BY <1>3, <2>1 DEF displayFreeData
    <3> HIDE DEF x, y
    <3> QED BY <1>3, <3>1 DEF Display
  <2>2. CASE ~(d.count > 0 /\ d.alive # NoMemory)
    <3>1. x = y
      BY <2>2
    <3> HIDE DEF x, y
    <3> QED BY <1>3, <3>1
  <2> QED BY <2>1, <2>2
<1> HIDE DEF x, y
<1>5. /\ x0 \in Display /\ x0.bars = NoMemory /\ x0.recount /\ x0.count <= Len(x0.alive)
      /\ ~x0.crashed /\ (x0.excused <=> d.excused)
  <2>1. 0 \in 0 .. MaxNodes
    BY MonitorAssumption
  <2>2. /\ x0 \in Display /\ x0.bars = NoMemory /\ x0.recount /\ x0.count = 0
        /\ ~x0.crashed /\ (x0.excused <=> d.excused)
    BY <1>4, <2>1 DEF Display
  <2> HIDE DEF x0
  <2>3. Len(x0.alive) \in 0 .. MaxNodes
    BY <2>2, DisplayIs, AliveIs
  <2> QED BY <2>2, <2>3, MonitorAssumption
<1> HIDE DEF x0
<1>6. Good(x0)
  BY <1>5, EmptyGood
<1>7. /\ Good(z) /\ (x0.excused => z.excused) /\ (z.crashed => z.excused)
      /\ ~z.excused => z.alive # NoMemory /\ infod # Down /\ ~z.crashed
      /\ ~z.crashed => z.bars = x0.bars /\ z.recount = x0.recount /\ (infod # Down => z.alive # NoMemory)
  BY <1>2, <1>5, <1>6, FetchGood
<1> HIDE DEF z
<1>8. Keeps(d, w)
  <2>1. CASE infod = Down
    BY <1>5, <1>7, <2>1 DEF Keeps, InWork
  <2>2. CASE infod # Down /\ z.crashed
    BY <1>5, <1>7, <2>2 DEF Keeps, InWork, Goes
  <2>3. CASE infod # Down /\ ~z.crashed
    <3>1. w = displayRedraw(z)
      BY <2>3 DEF Goes
    <3>2. z.alive # NoMemory /\ z.recount
      BY <1>5, <1>7, <2>3
    <3>3. LET u == displayRedraw(z)
          IN  /\ Good(u) /\ (z.excused => u.excused)
              /\ z.alive # NoMemory =>
                   /\ u.alive # NoMemory /\ ~u.recount /\ ~u.crashed
                   /\ ~u.excused => (z.recount \/ z.bars # NoMemory => u.bars # NoMemory)
              /\ u.crashed => z.alive = NoMemory
      BY <1>7, <2>3, RedrawGood
    <3> HIDE DEF w
    <3> QED BY <1>5, <1>7, <3>1, <3>2, <3>3 DEF Keeps, InWork
  <2> QED BY <2>1, <2>2, <2>3
<1> HIDE DEF w
<1> QED
  BY <1>1, <1>8, PressKeeps DEF AtKey

\* The main loop draws what it fetched, or has failed before and never draws again.
LEMMA RedrawStep ==
  MonitorInv /\ mmon_redraw => MonitorInv'
<1> SUFFICES ASSUME MonitorInv, mmon_redraw PROVE MonitorInv'
  OBVIOUS
<1> DEFINE x == get_nodes_to_display(d, infod)
<1>1. /\ turn = "draw" /\ ~d.crashed /\ turn' = "key" /\ infod' = infod
      /\ IF res THEN /\ d' = IF infod = Down THEN x ELSE Goes(x, displayRedraw(x))
                     /\ res' = (infod # Down)
                ELSE d' = d /\ res' = res
  BY DEF mmon_redraw
<1>2. /\ infod \in Replies /\ Good(d) /\ res \in BOOLEAN
      /\ ~d.excused => res /\ (d = Started \/ InWork(d))
  BY <1>1 DEF MonitorInv
<1>3. CASE ~res
  <2>1. d.excused
    BY <1>2, <1>3
  <2> QED BY <1>1, <1>2, <1>3, <2>1 DEF MonitorInv
<1>4. CASE res
  <2>1. /\ Good(x) /\ (d.excused => x.excused) /\ (x.crashed => x.excused)
        /\ ~x.excused => x.alive # NoMemory /\ infod # Down /\ ~x.crashed
        /\ ~x.crashed => x.bars = d.bars /\ x.recount = d.recount /\ (infod # Down => x.alive # NoMemory)
    BY <1>1, <1>2, FetchGood
  <2>2. d' = (IF infod = Down THEN x ELSE Goes(x, displayRedraw(x))) /\ res' = (infod # Down)
    BY <1>1, <1>4
  <2> HIDE DEF x
  <2>3. CASE infod = Down \/ x.crashed
    <3>1. d' = x
      BY <2>2, <2>3 DEF Goes
    <3>2. x.excused
      BY <2>1, <2>3
    <3>3. res' \in BOOLEAN
      BY <2>2
    <3> QED BY <1>1, <1>2, <2>1, <3>1, <3>2, <3>3 DEF MonitorInv
  <2>4. CASE infod # Down /\ ~x.crashed
    <3> DEFINE y == displayRedraw(x)
    <3>1. d' = y /\ res'
      BY <2>2, <2>4 DEF Goes
    <3>2. x.alive # NoMemory /\ x.bars = d.bars /\ x.recount = d.recount
      BY <2>1, <2>4
    <3>3. /\ Good(y) /\ (x.excused => y.excused)
          /\ y.alive # NoMemory /\ ~y.recount /\ ~y.crashed
          /\ ~y.excused => (x.recount \/ x.bars # NoMemory => y.bars # NoMemory)
      BY <2>1, <2>4, <3>2, RedrawGood
    <3>4. ~y.excused => x.recount \/ x.bars # NoMemory
      <4>1. Started.recount
        BY DEF Started
      <4>2. ~y.excused => ~d.excused
        BY <2>1, <3>3
      <4> QED BY <1>2, <3>2, <4>1, <4>2 DEF InWork
    <3> HIDE DEF y
    <3>5. Good(d') /\ ~d'.crashed /\ (~d'.excused => OnView(d'))
      BY <3>1, <3>3, <3>4 DEF OnView
    <3>6. res' = TRUE
      BY <2>2, <2>4
    <3> QED BY <1>1, <1>2, <3>5, <3>6 DEF MonitorInv
  <2> QED BY <2>3, <2>4
<1> QED
  BY <1>2, <1>3, <1>4

\* The invariant holds before the first redraw.
LEMMA MonitorInvInit == MonitorInit => MonitorInv
<1> SUFFICES ASSUME MonitorInit PROVE MonitorInv
  OBVIOUS
<1>1. infod \in Replies /\ d = Started /\ res = TRUE /\ turn = "draw"
  BY DEF MonitorInit
<1>2. Started \in Display
  <2>1. /\ NoMemory \in Answers \cup {NoMemory} /\ 0 \in 0 .. MaxNodes
        /\ NoMemory \in Seq(0 .. MaxNodes - 1) /\ 1 \in 1 .. NumWidth + 1
    BY MonitorAssumption DEF NoMemory
  <2> QED BY <2>1 DEF Started, Display
<1>3. Good(Started) /\ ~Started.crashed /\ ~Started.excused
  BY <1>2, CrashGood
<1> QED
  BY <1>1, <1>3 DEF MonitorInv

\* Every key, redraw and change of infod keeps it.
LEMMA MonitorInvStep == MonitorInv /\ [MonitorNext]_monitorVars => MonitorInv'
<1> SUFFICES ASSUME MonitorInv, [MonitorNext]_monitorVars PROVE MonitorInv'
  OBVIOUS
<1>1. ASSUME Key PROVE MonitorInv'
  <2>1. AtKey
    BY <1>1 DEF AtKey, Key, PressType, PressWidth, PressDead, PressEnter, PressArrow, PressPage,
      PressCluster, new_host, NoKey, Press
  <2>2. CASE PressType
    BY <2>1, <2>2, PressTypeGood
  <2>3. CASE PressWidth
    BY <2>1, <2>3, PressWidthGood
  <2>4. CASE PressDead
    BY <2>1, <2>4, PressDeadGood
  <2>5. CASE PressEnter
    BY <2>1, <2>5, PressEnterGood
  <2>6. CASE PressArrow
    BY <2>1, <2>6, PressArrowGood
  <2>7. CASE PressPage
    BY <2>1, <2>7, PressPageGood
  <2>8. CASE PressCluster
    BY <2>1, <2>8, PressClusterGood
  <2>9. CASE new_host
    BY <2>1, <2>9, NewHostGood
  <2>10. CASE NoKey
    BY <2>1, <2>10, SameKeeps, PressKeeps DEF NoKey
  <2> QED BY <1>1, <2>2, <2>3, <2>4, <2>5, <2>6, <2>7, <2>8, <2>9, <2>10 DEF Key
<1>2. CASE mmon_redraw
  BY <1>2, RedrawStep
<1>3. CASE InfodChanges
  <2>1. infod' \in Replies /\ d' = d /\ res' = res /\ turn' = turn
    BY <1>3 DEF InfodChanges
  <2> QED BY <2>1 DEF MonitorInv
<1>4. CASE UNCHANGED monitorVars
  BY <1>4 DEF monitorVars, MonitorInv
<1> QED
  BY <1>1, <1>2, <1>3, <1>4 DEF MonitorNext

\* So it always holds.
LEMMA MonitorInvHolds == MonitorSpec => []MonitorInv
<1> QED
  BY MonitorInvInit, MonitorInvStep, PTL DEF MonitorSpec

\* The monitor's variables keep their types and the view never has more columns than the
\* screen (display.c:1236).
THEOREM MonitorTypeCorrect == MonitorSpec => []MonitorTypeOK
<1>1. MonitorInv => MonitorTypeOK
  BY DEF MonitorInv, MonitorTypeOK, Good
<1> QED
  BY <1>1, MonitorInvHolds, PTL

\* No order of keys, answers and redraws makes the monitor follow a bad pointer, unless infod
\* fell silent, outgrew its first answer or left nothing to show (Survives; input.c, display.c).
THEOREM MonitorSurvives == MonitorSpec => []Survives
<1>1. MonitorInv => Survives
  <2> SUFFICES ASSUME MonitorInv PROVE Survives
    OBVIOUS
  <2>1. d.bars \in Seq(Nat)
    BY DisplayIs DEF MonitorInv, Good
  <2>2. DOMAIN d.bars = 1 .. Len(d.bars)
    BY <2>1
  <2> QED BY <2>2 DEF MonitorInv, Good, Survives
<1> QED
  BY <1>1, MonitorInvHolds, PTL

\* What a view that is a run of the nodes shown looks like.
LEMMA RunIsSeen ==
  ASSUME Good(d), ~d.recount, d.dead \/ d.fresh
  PROVE  LET onView == {d.bars[i] : i \in DOMAIN d.bars}
         IN  /\ onView = {p \in Visible(d) : \E a, b \in onView : a <= p /\ p <= b}
             /\ \A i \in DOMAIN d.bars \ {1} : d.bars[i - 1] <= d.bars[i]
             /\ Len(d.bars) = Cardinality(onView) * d.size
             /\ d.fresh => Cardinality(onView) = Fit(d)
<1> DEFINE bars == d.bars
           size == d.size
           V == Visible(d)
<1>1. PICK e \in Seq(Nat) : ViewIs(d, e)
  BY DEF Good
<1> DEFINE n == Len(e)
           I == {e[k] : k \in 1 .. n}
           Between(X) == {p \in V : \E a, b \in X : a <= p /\ p <= b}
<1>2. bars \in Seq(Nat) /\ size \in Nat \ {0} /\ d.count \in Nat
  BY DisplayIs, MonitorAssumption DEF Good
<1>3. InBlocks(bars, e, size) /\ IsRun(e, V) /\ (d.fresh => n = Fit(d)) /\ n \in Nat
  BY <1>1 DEF ViewIs
<1>4. DOMAIN bars = 1 .. Len(bars)
  BY <1>2
<1>5. \A i \in 1 .. Len(bars) : \E k \in 1 .. n : bars[i] = e[k]
  BY <1>2, <1>3, BarsAreNodes
<1>6. \A k \in 1 .. n : \E i \in 1 .. Len(bars) : bars[i] = e[k]
  <2> SUFFICES ASSUME NEW k \in 1 .. n PROVE \E i \in 1 .. Len(bars) : bars[i] = e[k]
    OBVIOUS
  <2>1. 1 \in 1 .. size
    BY <1>2
  <2>2. Place(k, 1, size) \in 1 .. Len(bars)
    BY <1>2, <1>3, <2>1, BlocksAre
  <2>3. bars[Place(k, 1, size)] = e[k]
    BY <1>3, <2>1 DEF InBlocks
  <2> QED BY <2>2, <2>3
<1>7. {bars[i] : i \in DOMAIN bars} = I
  <2> DEFINE D == 1 .. Len(bars)
             K == 1 .. n
  <2>1. \A i \in D : \E k \in K : bars[i] = e[k]
    BY <1>5
  <2>2. \A k \in K : \E i \in D : bars[i] = e[k]
    BY <1>6
  <2> HIDE DEF D, K, n, bars
  <2>3. ASSUME NEW p \in {bars[i] : i \in D} PROVE p \in {e[k] : k \in K}
    BY <2>1
  <2>4. ASSUME NEW p \in {e[k] : k \in K} PROVE p \in {bars[i] : i \in D}
    BY <2>2
  <2>5. {bars[i] : i \in D} = {e[k] : k \in K}
    BY <2>3, <2>4
  <2> QED BY <1>4, <2>5 DEF D, K
<1>8. I = Between(I)
  <2>1. V \in SUBSET Nat
    BY <1>2, ShownIs, MonitorAssumption DEF Visible
  <2>2. ASSUME NEW p \in I PROVE p \in V /\ \E a, b \in I : a <= p /\ p <= b
    <3>1. PICK k \in 1 .. n : p = e[k]
      BY <2>2
    <3>2. p \in V
      BY <1>3, <3>1 DEF IsRun
    <3>3. p \in Nat /\ p <= p
      <4> HIDE DEF V, I
      <4> QED BY <2>1, <3>2
    <3> HIDE DEF V, I
    <3> QED BY <2>2, <3>2, <3>3
  <2>3. ASSUME NEW p \in V, NEW a \in I, NEW b \in I, a <= p, p <= b PROVE p \in I
    BY <1>3, <2>3 DEF IsRun
  <2> HIDE DEF I
  <2> QED BY <2>2, <2>3
<1>9. \A i \in 1 .. Len(bars) : i # 1 => bars[i - 1] <= bars[i]
  <2> SUFFICES ASSUME NEW i \in 1 .. Len(bars), i # 1 PROVE bars[i - 1] <= bars[i]
    OBVIOUS
  <2>1. PICK k \in 1 .. n, j \in 1 .. size : i = Place(k, j, size) /\ bars[i] = e[k]
    BY ZenonT(30), <1>2, <1>3, BlocksAre
  <2>2. bars[i] \in Nat
    BY SMTT(30), <1>2
  <2>3. CASE j > 1
    <3>1. j - 1 \in 1 .. size
      BY <1>2, <2>3
    <3>2. Place(k, j - 1, size) = i - 1
      <4>1. k \in Nat /\ size \in Nat /\ j \in Nat /\ (k - 1) * size \in Int
        BY <1>2, <1>3
      <4> DEFINE a == (k - 1) * size
      <4>2. i = a + j /\ Place(k, j - 1, size) = a + (j - 1) /\ a \in Int
        BY <2>1, <4>1 DEF Place
      <4> HIDE DEF a
      <4> QED BY <4>1, <4>2
    <3>3. bars[Place(k, j - 1, size)] = e[k]
      BY <1>3, <3>1 DEF InBlocks
    <3> QED BY <2>1, <2>2, <3>2, <3>3
  <2>4. CASE ~(j > 1)
    <3>1. j = 1 /\ k # 1
      <4>1. j = 1
        BY <1>2, <2>4
      <4>2. k = 1 => Place(k, 1, size) = 1
        <5> SUFFICES ASSUME k = 1 PROVE Place(1, 1, size) = 1
          OBVIOUS
        <5>1. (1 - 1) * size = 0
          BY <1>2
        <5> QED BY <1>2, <5>1 DEF Place
      <4> QED BY <2>1, <4>1, <4>2
    <3>2. k - 1 \in 1 .. n /\ k - 1 < k /\ k - 1 < n /\ k - 1 + 1 = k /\ size \in 1 .. size
      BY <1>2, <1>3, <3>1
    <3>3. Place(k - 1, size, size) = i - 1
      <4>1. k \in Nat /\ size \in Nat /\ k - 1 - 1 \in Nat /\ k - 1 - 1 + 1 = k - 1
        BY <1>2, <1>3, <3>2
      <4> DEFINE a == (k - 1 - 1) * size
      <4>2. (k - 1 - 1 + 1) * size = (k - 1 - 1) * size + size /\ a \in Nat
        BY <4>1, LaterBlock, SMTT(30)
      <4>3. i = a + size + 1 /\ Place(k - 1, size, size) = a + size /\ a \in Nat
        BY <2>1, <3>1, <4>1, <4>2 DEF Place
      <4> HIDE DEF a
      <4> QED BY <4>1, <4>3
    <3>4. bars[Place(k - 1, size, size)] = e[k - 1]
      BY <1>3, <3>2 DEF InBlocks
    <3>5. e[k - 1] < e[k] /\ e[k - 1] \in Nat /\ e[k] \in Nat
      <4>1. e[k - 1] < e[k]
        BY <1>3, <3>2 DEF IsRun
      <4> QED BY <3>2, <4>1
    <3> QED BY <2>1, <3>3, <3>4, <3>5
  <2> QED BY <2>3, <2>4
<1>10. Cardinality(I) = n
  <2> DEFINE K == 1 .. n
             J == {e[k] : k \in K}
  <2>1. IsFiniteSet(K) /\ Cardinality(K) = n
    <3>1. IsFiniteSet(1 .. n) /\ Cardinality(1 .. n) = n
      <4> HIDE DEF n
      <4>1. n - 1 + 1 = n /\ (1 > n => n = 0)
        BY <1>3
      <4> QED BY <1>3, <4>1, FS_Interval
    <3> QED BY <3>1
  <2>2. \A j, k \in K : e[j] = e[k] => j = k
    <3> SUFFICES ASSUME NEW j \in K, NEW k \in K, e[j] = e[k], j # k PROVE FALSE
      OBVIOUS
    <3>1. e[j] \in Nat
      OBVIOUS
    <3>2. j < k \/ k < j
      BY <1>3
    <3>3. e[j] < e[k] \/ e[k] < e[j]
      BY <1>3, <3>2 DEF IsRun
    <3> QED BY <3>1, <3>3
  <2> HIDE DEF K
  <2>3. Cardinality(J) = Cardinality(K)
    BY <2>1, <2>2, InjectiveImage, Zenon
  <2> QED BY <2>1, <2>3 DEF K
<1>11. Len(bars) = n * size
  BY <1>3 DEF InBlocks, Columns
<1> DEFINE onView == {bars[i] : i \in DOMAIN bars}
<1>12. onView = Between(onView)
  <2>1. onView = I
    BY <1>7
  <2> HIDE DEF I, onView, Between
  <2> QED BY <1>8, <2>1
<1>13. \A i \in DOMAIN bars \ {1} : bars[i - 1] <= bars[i]
  BY <1>4, <1>9
<1>14. Len(bars) = Cardinality(onView) * size /\ Cardinality(onView) = n
  <2> HIDE DEF I, bars, n
  <2> QED BY <1>7, <1>10, <1>11
<1>15. d.fresh => Cardinality(onView) = Fit(d)
  <2> HIDE DEF bars
  <2> QED BY <1>3, <1>14
<1> QED
  BY <1>12, <1>13, <1>14, <1>15

\* Between two rebuilds the view is a full run of the nodes to be shown, however it was moved
\* (ViewContiguous; move_left, move_right, displayRedraw).
THEOREM ViewAlwaysContiguous == MonitorSpec => []ViewContiguous
<1>1. MonitorInv => ViewContiguous
  <2> SUFFICES ASSUME Good(d), ~d.recount, d.dead \/ d.fresh PROVE ViewContiguous
    BY DEF MonitorInv, ViewContiguous
  <2> QED BY RunIsSeen DEF ViewContiguous, Visible, Fit
<1> QED
  BY <1>1, MonitorInvHolds, PTL
=============================================================================
