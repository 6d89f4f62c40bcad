--------------------------------- MODULE Comm ---------------------------------
(***************************************************************************)
(* The transport of an infod: the three tables of connections that         *)
(* src/libutil/comm.c keeps (messages being sent, messages being received, *)
(* connections waiting to be closed), as the main loop of                  *)
(* src/infod/infod.c drives them.  A socket number is a small integer the  *)
(* kernel hands out again, lowest first, as soon as it is closed.          *)
(*                                                                         *)
(* A table is a set of entries: the code looks for the first one that is   *)
(* ready, and any of them may be.  Two entries of a table alike in every   *)
(* field act as one.                                                       *)
(***************************************************************************)
EXTENDS Integers, FiniteSets, FiniteSetsExt

CONSTANTS
  Socks,         \* the numbers the kernel has for connections
  MaxInProgress, \* entries a table takes, COMM_MAX_INPROGRESS - 1
  Pieces,        \* the most pieces a message travels in; a header is the first
  Timeout,       \* seconds without progress after which a message is given up
  CloseWait,     \* seconds a connection waits to be closed, CLOSE_WAIT_TIME
  AdminWait      \* seconds between two rounds of comm_admin, COMM_ADMIN_WAIT

ASSUME CommAssumption ==
  /\ Socks \subseteq Nat \ {0} /\ IsFiniteSet(Socks)
  /\ MaxInProgress \in Nat \ {0} /\ Pieces \in Nat \ {0}
  /\ Timeout \in Nat \ {0} /\ CloseWait \in 1 .. Timeout /\ AdminWait \in Nat

VARIABLES
  send,     \* comm_inpr_send
  recv,     \* comm_inpr_recv
  closing,  \* comm_close
  maxfd,    \* comm_maxfd
  open,     \* the sockets the kernel has open
  wait,     \* seconds until next_admin
  doubled   \* history: a socket was closed and then queued to be closed

vars == <<send, recv, closing, maxfd, open, wait, doubled>>

Listen == 0            \* the largest of comm_sock
NoTimer == -1          \* the time of a send that has not started is cleared
Oldest == Timeout      \* seconds are counted up to here

SendEntry == [sock : Socks, sent : 0 .. Pieces, mv2recv : BOOLEAN, age : {NoTimer} \cup 0 .. Oldest]
RecvEntry == [sock : Socks, got : 0 .. Pieces, age : 0 .. Oldest]
CloseEntry == [sock : Socks, age : 0 .. Oldest]

TypeOK ==
  /\ send \subseteq SendEntry /\ recv \subseteq RecvEntry /\ closing \subseteq CloseEntry
  /\ maxfd \in Socks \cup {Listen} /\ open \subseteq Socks
  /\ wait \in 0 .. AdminWait /\ doubled \in BOOLEAN

\* The tables are handed from one function to the next as one record.
comm == [send |-> send, recv |-> recv, closing |-> closing, maxfd |-> maxfd,
         open |-> open, wait |-> wait, doubled |-> doubled]

SocksOf(table) == {e.sock : e \in table}
AllSocks(c) == SocksOf(c.send) \cup SocksOf(c.recv) \cup SocksOf(c.closing)

comm_init ==
  [send |-> {}, recv |-> {}, closing |-> {}, maxfd |-> Listen, open |-> {},
   wait |-> AdminWait, doubled |-> FALSE]

-----------------------------------------------------------------------------
(***************************************************************************)
(* Adding and removing entries                                             *)
(***************************************************************************)
Raised_Not(c, s) == c   \* mutant: the new socket is not compared with the largest

Raised(c, s) == [c EXCEPT !.maxfd = Max({@, s})]

HasRoom(table) == Cardinality(table) < MaxInProgress

comm_add_inprogress_send(c, s, mv) ==
  [Raised(c, s) EXCEPT
     !.send = @ \cup {[sock |-> s, sent |-> 0, mv2recv |-> mv, age |-> NoTimer]}]

comm_add_inprogress_recv(c, s) ==
  [Raised(c, s) EXCEPT !.recv = @ \cup {[sock |-> s, got |-> 0, age |-> 0]}]

CloseSock(c, s) == [c EXCEPT !.open = @ \ {s}]

\* A full table has the socket closed at once.
comm_add_close(c, s) ==
  IF HasRoom(c.closing)
  THEN [Raised(c, s) EXCEPT !.closing = @ \cup {[sock |-> s, age |-> 0]}]
  ELSE CloseSock(c, s)

comm_calc_inprogress_maxfd(c) == [c EXCEPT !.maxfd = Max({Listen} \cup AllSocks(c))]

RecalcIf(c, s) == IF c.maxfd = s THEN comm_calc_inprogress_maxfd(c) ELSE c

-----------------------------------------------------------------------------
(***************************************************************************)
(* Opening connections                                                     *)
(***************************************************************************)
FreeSocks(c) == Socks \ c.open

\* The kernel hands out the lowest free number.
NewSock(c) == Min(FreeSocks(c))

Opened(c) == [c EXCEPT !.open = @ \cup {NewSock(c)}]

\* What comm_send may leave: nothing when there is no socket, the connection
\* is refused at once or the table is full, else one more message under way.
comm_send(c, mv) ==
  {c} \cup {comm_add_inprogress_send(Opened(c), NewSock(c), mv) :
              x \in IF FreeSocks(c) # {} /\ HasRoom(c.send) THEN {c} ELSE {}}

\* A connection that finds the table full, or no free number, is dropped.
comm_setup_connection(c) ==
  IF FreeSocks(c) # {} /\ HasRoom(c.recv)
  THEN comm_add_inprogress_recv(Opened(c), NewSock(c)) ELSE c

-----------------------------------------------------------------------------
(***************************************************************************)
(* Sending                                                                 *)
(***************************************************************************)
SendRemoved(c, e) == [c EXCEPT !.send = @ \ {e}]

\* The connection or the send failed.
BadSend(c, e) == RecalcIf(CloseSock(SendRemoved(c, e), e.sock), e.sock)

\* The last piece is out: a pull waits for its answer on the same connection,
\* unless the table of receives is full; then the socket is closed and its
\* number still queued to be closed.
GoodSend(c, e) ==
  LET gone == SendRemoved(c, e) IN
  IF ~e.mv2recv THEN comm_add_close(gone, e.sock)
  ELSE IF HasRoom(c.recv) THEN comm_add_inprogress_recv(gone, e.sock)
  ELSE comm_add_close([CloseSock(gone, e.sock) EXCEPT !.doubled = TRUE], e.sock)

\* Part of the message went out, or (n = 0) the kernel had no room after all,
\* which happens at most once on a connection.
PartSent(c, e, n) ==
  [c EXCEPT !.send = (@ \ {e}) \cup {[e EXCEPT !.sent = @ + n, !.age = 0]}]

\* comm_finish_send on the ready entry e.
comm_finish_send(c, e) ==
  {BadSend(c, e), GoodSend(c, e)} \cup {PartSent(c, e, n) : n \in (IF e.age = NoTimer THEN 0 ELSE 1) .. Pieces - e.sent - 1}

-----------------------------------------------------------------------------
(***************************************************************************)
(* Receiving.  handle_msg closes the connection of a message it has no     *)
(* answer for, and otherwise queues the answer on the connection.          *)
(***************************************************************************)
RecvRemoved(c, e) == RecalcIf([c EXCEPT !.recv = @ \ {e}], e.sock)

RecvFailed(c, e) == RecalcIf([CloseSock(c, e.sock) EXCEPT !.recv = @ \ {e}], e.sock)

PartReceived(c, e, n) ==
  [c EXCEPT !.recv = (@ \ {e}) \cup {[e EXCEPT !.got = @ + n, !.age = 0]}]

comm_send_on_socket(c, s) ==
  IF HasRoom(c.send) THEN comm_add_inprogress_send(c, s, FALSE) ELSE CloseSock(c, s)

handle_msg_ClosesToo(c, s) ==   \* mutant: the connection is closed after every message
  {CloseSock(c, s), CloseSock(comm_send_on_socket(c, s), s)}

handle_msg(c, s) == {CloseSock(c, s), comm_send_on_socket(c, s)}

\* comm_recv on the ready entry e.
comm_recv(c, e) ==
  {RecvFailed(c, e)} \cup handle_msg(RecvRemoved(c, e), e.sock)
  \cup {PartReceived(c, e, n) : n \in 1 .. Pieces - e.got - 1}

\* Out-of-band data or the like on a connection waiting to be closed.
comm_close_on_socket(c, e) ==
  RecalcIf([CloseSock(c, e.sock) EXCEPT !.closing = @ \ {e}], e.sock)

-----------------------------------------------------------------------------
(***************************************************************************)
(* comm_admin gives up what has expired and what the kernel no longer      *)
(* knows, table by table.  off is how far the time it reads is from the    *)
(* true one: 0, except after an error in select, when the variable it      *)
(* compares with was never set.                                            *)
(***************************************************************************)
Overdue(e, limit, off) == e.age # NoTimer /\ e.age + off >= limit

Swept_NoFcntl(table, opened, limit, off) == {e \in table : Overdue(e, limit, off)}   \* mutant: no fcntl

Swept(table, opened, limit, off) == {e \in table : Overdue(e, limit, off) \/ e.sock \notin opened}

Sweep(c, off) ==
  LET oldSend  == Swept(c.send, c.open, Timeout, off)
      open1    == c.open \ SocksOf(oldSend)
      oldRecv  == Swept(c.recv, open1, Timeout, off)
      open2    == open1 \ SocksOf(oldRecv)
      oldClose == Swept(c.closing, open2, CloseWait, off)
      swept    == [c EXCEPT !.send = @ \ oldSend, !.recv = @ \ oldRecv,
                            !.closing = @ \ oldClose, !.open = open2 \ SocksOf(oldClose),
                            !.wait = AdminWait]
  IN IF c.maxfd \in SocksOf(oldSend) \cup SocksOf(oldRecv) \cup SocksOf(oldClose)
     THEN comm_calc_inprogress_maxfd(swept) ELSE swept

comm_admin(c) == IF c.wait > 0 THEN c ELSE Sweep(c, 0)

-----------------------------------------------------------------------------
(***************************************************************************)
(* The main loop: one event, then comm_admin, then perhaps a time step,    *)
(* which pushes or pulls.                                                  *)
(***************************************************************************)
Becomes(c) ==
  /\ send' = c.send /\ recv' = c.recv /\ closing' = c.closing /\ maxfd' = c.maxfd
  /\ open' = c.open /\ wait' = c.wait /\ doubled' = c.doubled

TimeStep(c) == {c} \cup comm_send(c, FALSE) \cup comm_send(c, TRUE)

Iteration(outcomes) ==
  \E c \in outcomes : \E done \in TimeStep(comm_admin(c)) : Becomes(done)

BadSocks == AllSocks(comm) \ open

\* select refuses a set that holds a closed socket, so nothing is handled.
SelectError ==
  /\ BadSocks # {}
  /\ \E off \in -Oldest .. Oldest : Becomes(Sweep(comm, off))

SelectOK == BadSocks = {}

NewConnection == SelectOK /\ Iteration({comm_setup_connection(comm)})
FinishSend(e) == SelectOK /\ Iteration(comm_finish_send(comm, e))
Receive(e) == SelectOK /\ Iteration(comm_recv(comm, e))
CloseOnSocket(e) == SelectOK /\ Iteration({comm_close_on_socket(comm, e)})
NoEvent == SelectOK /\ Iteration({comm})

Loop ==
  \/ SelectError
  \/ NewConnection
  \/ \E e \in send : FinishSend(e)
  \/ \E e \in recv : Receive(e)
  \/ \E e \in closing : CloseOnSocket(e)
  \/ NoEvent

Older(table) ==
  {[e EXCEPT !.age = IF @ \in {NoTimer, Oldest} THEN @ ELSE @ + 1] : e \in table}

Tick ==
  /\ send' = Older(send) /\ recv' = Older(recv) /\ closing' = Older(closing)
  /\ wait' = IF wait = 0 THEN 0 ELSE wait - 1
  /\ UNCHANGED <<maxfd, open, doubled>>

Init ==
  /\ send = comm_init.send /\ recv = comm_init.recv /\ closing = comm_init.closing
  /\ maxfd = comm_init.maxfd /\ open = comm_init.open
  /\ wait = comm_init.wait /\ doubled = comm_init.doubled
Next == Loop \/ Tick

Spec == Init /\ [][Next]_vars

Begun == {e \in send : e.age # NoTimer}

\* The loop keeps running (its comm_admin alone always has a next round to do)
\* and time keeps passing.
FairSpec == Spec /\ []<><<Loop>>_vars /\ WF_vars(Tick)

-----------------------------------------------------------------------------
(***************************************************************************)
(* Properties                                                              *)
(***************************************************************************)
\* Whatever fails, and when the tables are full, no connection is forgotten
\* open: an open socket is always in one of the tables, which never hold more
\* than they have room for (the close of every error path, and handle_msg's).
NoLeak ==
  /\ open \subseteq AllSocks(comm)
  /\ \A table \in {send, recv, closing} : Cardinality(table) <= MaxInProgress

\* Every entry has its socket to itself and the socket is open, so that no
\* close or write reaches somebody else's connection; only once the table of
\* receives was full when a pull went out (comm.c:617) may it be otherwise.
OneOwner ==
  doubled \/ /\ AllSocks(comm) \subseteq open
             /\ Cardinality(send) + Cardinality(recv) + Cardinality(closing)
                  = Cardinality(AllSocks(comm))

\* Sockets and entries of the tables belong to each other.
SocketsOwned == NoLeak /\ OneOwner

\* select watches every socket of the tables: maxfd, recalculated only when
\* its holder leaves, never falls below one of them.
MaxFdCovers == \A s \in AllSocks(comm) : s <= maxfd

\* Once select fails no more, a connection being read or waiting to be closed
\* goes away, and a message some of which was sent is finished or given up,
\* whatever the peers do and however busy the loop is: the timers alone see to
\* it.  (While it fails again and again, the time it is compared with is
\* arbitrary and each failure puts off the next true sweep.)  And a socket
\* closed twice makes select fail only for a while: the sweep that follows
\* forgets it.
ConnectionsSettle ==
  /\ <>[]SelectOK =>
       \A s \in Socks :
         /\ s \in SocksOf(recv) ~> s \notin SocksOf(recv)
         /\ s \in SocksOf(closing) ~> s \notin SocksOf(closing)
         /\ s \in SocksOf(Begun) ~> s \notin SocksOf(Begun)
  /\ BadSocks # {} ~> BadSocks = {}
================================================================================
