-------------------------------- MODULE Kcomm --------------------------------
(***************************************************************************)
(* The channel between infod and an external provider of local information *)
(* (src/infod/provider.c): one connection at a time over a byte stream,    *)
(* authenticated by its first byte, and messages to the provider that wait *)
(* in a heap (src/infod/prioHeap.c) while one is being sent.  What is      *)
(* received is cut into messages by parse_msg, whose only implementation   *)
(* (mosix_sf_parse_msg in src/infod/linuxMosixProvider.c) takes whatever   *)
(* there is for one whole message.                                         *)
(*                                                                         *)
(* A message is two units of the stream, each <<connection, message, half>>*)
(***************************************************************************)
EXTENDS PrioHeap

CONSTANTS
  MaxIn,     \* messages the provider sends on a connection
  MaxOut,    \* messages infod sends on a connection
  Conns,     \* connections the provider makes
  BuffSize,  \* units the receive buffer holds (KCOMM_BUFF_SZ; the one it is copied to holds more)
  HeapLen    \* the length given to heap_init; one place is not used

ASSUME KcommAssumption ==
  /\ MaxIn \in Nat /\ MaxOut \in Nat /\ Conns \in Nat
  /\ BuffSize \in Nat \ {0} /\ HeapLen \in Nat \ {0}

VARIABLES
  status,     \* kcomm_status
  conn,       \* the connection under way, or the last one
  fed,        \* units the provider has sent
  read,       \* units infod has read
  hungUp,     \* the provider has closed its end
  handed,     \* the first and the last unit of what was handed to
              \* kcomm_handle_msg last on this connection
  asked,      \* messages infod wanted to send on this connection
  accepted,   \* those kcomm_send took
  pending,    \* inpr_send_data; empty when kcomm_inprsend is 0
  heap,       \* kcomm_send_heap
  out,        \* units the provider was sent
  garbled     \* history: an amount sent was miscounted

inVars == <<fed, read, hungUp, handed>>
outVars == <<asked, accepted, pending, heap, out, garbled>>
kcommVars == <<status, conn, inVars, outVars>>

Unit == (1 .. Conns) \X (0 .. MaxIn + MaxOut) \X {1, 2}
Halves(c, m) == <<<<c, m, 1>>, <<c, m, 2>>>>
Junk == <<1, 0, 1>>   \* a byte from before the buffer

KcommTypeOK ==
  /\ status \in {"new", "unauth", "up"} /\ conn \in 0 .. Conns
  /\ fed \in 0 .. 2 * MaxIn /\ read \in 0 .. fed /\ hungUp \in BOOLEAN
  /\ handed \in (0 .. read) \X (0 .. read)
  /\ asked \in 0 .. MaxOut /\ accepted \subseteq 1 .. MaxOut
  /\ pending \in Seq(Unit) /\ out \in Seq(Unit)
  /\ heap \in Seq([prio : {1}, data : 1 .. MaxOut])
  /\ garbled \in BOOLEAN

-----------------------------------------------------------------------------
(***************************************************************************)
(* The connection                                                          *)
(***************************************************************************)
\* Nothing received is in progress between two calls of kcomm_recv.
kcomm_reset == status' = "new" /\ pending' = <<>> /\ heap' = <<>>

ResetOnly ==
  kcomm_reset /\ UNCHANGED <<conn, inVars, asked, accepted, out, garbled>>

kcomm_setup_connection ==
  /\ status = "new" /\ conn < Conns
  /\ status' = "unauth" /\ conn' = conn + 1
  /\ fed' = 0 /\ read' = 0 /\ hungUp' = FALSE /\ handed' = <<0, 0>>
  /\ asked' = 0 /\ accepted' = {} /\ out' = <<>> /\ garbled' = FALSE
  /\ UNCHANGED <<pending, heap>>

\* The first byte and the credentials are right, or the connection is reset.
kcomm_recv_auth ==
  /\ status = "unauth"
  /\ \/ status' = "up" /\ UNCHANGED <<conn, inVars, outVars>>
     \/ ResetOnly

kcomm_exception == status # "new" /\ ResetOnly

-----------------------------------------------------------------------------
(***************************************************************************)
(* Receiving                                                               *)
(***************************************************************************)
Readable == read < fed \/ hungUp

\* How much of what was read is the first message: all of it.  Nothing is ever
\* missing or left over, since the parser that told messages apart is commented
\* out, so that the next call starts with an empty buffer: a message that comes in
\* two reads is handed on as two, and messages that come in one read as one.
mosix_sf_parse_msg(len) == len

\* Nothing to read counts as a closed connection.
ReadNothing == read = fed /\ ResetOnly

\* All there is, as far as the buffer takes it.
Read ==
  LET n == IF fed - read < BuffSize THEN fed - read ELSE BuffSize
  IN  /\ read < fed
      /\ read' = read + n
      /\ handed' = <<read + 1, read + mosix_sf_parse_msg(n)>>
      /\ UNCHANGED <<status, conn, fed, hungUp, outVars>>

kcomm_recv == status = "up" /\ Readable /\ (ReadNothing \/ Read)

-----------------------------------------------------------------------------
(***************************************************************************)
(* Sending                                                                 *)
(***************************************************************************)
\* All messages have the same priority.
Queued(m) == [prio |-> 1, data |-> m]

\* What is put aside after n units of msg were sent: when errno still holds
\* the EAGAIN of an earlier call, everything.
PutAside(msg, n) ==
  \/ pending' = SubSeq(msg, n + 1, Len(msg)) /\ UNCHANGED garbled
  \/ n > 0 /\ pending' = msg /\ garbled' = TRUE

SendNow(m) ==
  \E n \in 0 .. 2 :
    /\ out' = out \o SubSeq(Halves(conn, m), 1, n)
    /\ IF n = 2 THEN UNCHANGED <<pending, garbled>> ELSE PutAside(Halves(conn, m), n)
    /\ UNCHANGED heap

SendLater(m) ==
  /\ heap' = heap_insert(heap, Queued(m), HeapLen)
  /\ UNCHANGED <<out, pending, garbled>>

SendOrQueue(m) == IF pending = <<>> THEN SendNow(m) ELSE SendLater(m)

\* A control command or the periodic work of the provider module.
kcomm_send ==
  /\ status = "up" /\ asked < MaxOut
  /\ asked' = asked + 1
  /\ IF pending # <<>> /\ HeapFull(heap, HeapLen)
     THEN UNCHANGED <<accepted, pending, heap, out, garbled>>
     ELSE SendOrQueue(asked + 1) /\ accepted' = accepted \cup {asked + 1}
  /\ UNCHANGED <<status, conn, inVars>>

kcomm_send_Broken ==
  /\ status = "up" /\ asked < MaxOut /\ pending = <<>>
  /\ ResetOnly

\* send is tried only when nothing is to be received.
MayFinish == status = "up" /\ pending # <<>> /\ ~Readable

FinishWhole_HeapLater ==   \* mutant: what is queued waits for the next event
  /\ MayFinish /\ out' = out \o pending /\ pending' = <<>>
  /\ UNCHANGED <<status, conn, inVars, asked, accepted, heap, garbled>>

\* The heap is emptied as far as the socket takes it: n messages whole, in the
\* order of extraction, then perhaps a part of one more.
FinishWhole ==
  LET left[k \in 0 .. Len(heap)] == IF k = 0 THEN heap ELSE heap_extract_max(left[k - 1])
      msg(k) == Halves(conn, left[k - 1][1].data)
      sent(n) == out \o pending \o [i \in 1 .. 2 * n |-> msg((i + 1) \div 2)[2 - (i % 2)]]
  IN  /\ MayFinish
      /\ \E n \in 0 .. Len(heap) :
           IF n = Len(heap)
           THEN heap' = <<>> /\ out' = sent(n) /\ pending' = <<>> /\ UNCHANGED garbled
           ELSE \E cut \in {0, 1} :
                  /\ heap' = left[n + 1]
                  /\ out' = sent(n) \o SubSeq(msg(n + 1), 1, cut)
                  /\ PutAside(msg(n + 1), cut)
      /\ UNCHANGED <<status, conn, inVars, asked, accepted>>

FinishPart_NotMoved ==   \* mutant: only the number of the bytes left is changed
  /\ MayFinish
  /\ \E n \in 1 .. Len(pending) - 1 :
       /\ out' = out \o SubSeq(pending, 1, n)
       /\ pending' = SubSeq(pending, 1, Len(pending) - n)
  /\ UNCHANGED <<status, conn, inVars, asked, accepted, heap, garbled>>

FinishPart ==
  /\ MayFinish
  /\ \E n \in 1 .. Len(pending) - 1 :
       /\ out' = out \o SubSeq(pending, 1, n)
       /\ pending' = SubSeq(pending, n + 1, Len(pending))
  /\ UNCHANGED <<status, conn, inVars, asked, accepted, heap, garbled>>

\* The socket takes nothing after all (once per connection, the bound): -1 is
\* subtracted from what is left to send, and the bytes are moved up by one.
FinishNothing ==
  /\ MayFinish /\ ~garbled
  /\ garbled' = TRUE /\ pending' = <<Junk>> \o pending
  /\ UNCHANGED <<status, conn, inVars, asked, accepted, heap, out>>

kcomm_finish_send == FinishWhole \/ FinishPart \/ FinishNothing

kcomm_finish_send_Broken == MayFinish /\ ResetOnly

-----------------------------------------------------------------------------
(***************************************************************************)
(* The provider                                                            *)
(***************************************************************************)
ProviderSends ==
  /\ status = "up" /\ ~hungUp /\ fed < 2 * MaxIn
  /\ fed' = fed + 1
  /\ UNCHANGED <<status, conn, read, hungUp, handed, outVars>>

ProviderHangsUp ==
  /\ status # "new" /\ ~hungUp /\ hungUp' = TRUE
  /\ UNCHANGED <<status, conn, fed, read, handed, outVars>>

KcommInit ==
  /\ status = "new" /\ conn = 0 /\ fed = 0 /\ read = 0 /\ hungUp = FALSE
  /\ handed = <<0, 0>>
  /\ asked = 0 /\ accepted = {} /\ pending = <<>> /\ heap = <<>> /\ out = <<>>
  /\ garbled = FALSE

KcommNext ==
  \/ kcomm_setup_connection \/ kcomm_recv_auth \/ kcomm_exception
  \/ kcomm_recv \/ kcomm_send \/ kcomm_send_Broken
  \/ kcomm_finish_send \/ kcomm_finish_send_Broken
  \/ ProviderSends \/ ProviderHangsUp

\* The main loop keeps asking select, and the provider reads what it is sent.
KcommFairness ==
  /\ WF_kcommVars(kcomm_recv) /\ WF_kcommVars(kcomm_recv_auth)
  /\ WF_kcommVars(FinishWhole \/ FinishPart)

KcommSpec == KcommInit /\ [][KcommNext]_kcommVars
KcommFairSpec == KcommSpec /\ KcommFairness

-----------------------------------------------------------------------------
MessagesOut(s) == {s[i][2] : i \in DOMAIN s}

\* As long as no amount was miscounted, the provider is sent whole messages,
\* one after the other, none of them twice, although messages are sent while
\* others are pending or queued; and one that was accepted went out, is being
\* sent or is queued until the connection is reset, while the queue never grows
\* into the place it leaves free.
SentWhole ==
  /\ ~garbled => \A i \in DOMAIN out :
       IF i % 2 = 1 THEN out[i][3] = 1 /\ \A j \in 1 .. i - 1 : out[j] # out[i]
       ELSE out[i] = <<out[i - 1][1], out[i - 1][2], 2>>
  /\ status = "up" /\ ~garbled =>
       accepted = MessagesOut(out \o pending) \cup {q.data : q \in ToSet(heap)}
  /\ Len(heap) < HeapLen

\* While the connection lasts, what is pending goes out, and with it what is
\* queued.
Drains == pending # <<>> ~> (pending = <<>> /\ heap = <<>>)

AnyHeapSorts == HeapRight(HeapLen + 1, 1 .. 3)

\* Whatever waits to be sent, and whatever the priorities, the heap gives the
\* lowest and loses nothing.  (heapify, heap_insert, heap_extract_max, heap_delete)
HeapSorts == heap # <<>> => AnyHeapSorts
==============================================================================
