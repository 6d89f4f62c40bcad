-------------------------------- MODULE Client --------------------------------
(***************************************************************************)
(* A question to infod and the way back of the answer: what infod packs    *)
(* (handle_client_request of src/infod/infod.c, infoVecPackQueryReplay of  *)
(* src/infod/infoVec.c), how the client's library reads it off the socket  *)
(* (src/libinfo/infolib.c, comm_recv_hdr of src/libutil/comm.c) and walks  *)
(* over it (src/libinfo/info_iter.c).  Monitor takes an answer as a whole, *)
(* or none; this module checks the way there.                              *)
(*                                                                         *)
(* A message is a sequence of units <<kind, which, size>>.  The socket     *)
(* hands them over in any pieces, and may stop at any of them: infod dies  *)
(* or hangs, a timer expires.                                              *)
(***************************************************************************)
EXTENDS Integers, Sequences, FiniteSets

LOCAL INSTANCE SequencesExt
LOCAL INSTANCE FiniteSetsExt

CONSTANTS
  HdrLen,      \* units of a comm_hdr_t
  Fsizes,      \* units the information on a node may take, hdr.fsize
  TextLen,     \* units of the description, and of the statistics
  MaxSignals   \* bound on the signals that arrive while an answer is read

ASSUME ClientAssumption ==
  /\ HdrLen \in Nat \ {0} /\ Fsizes \subseteq Nat
  /\ TextLen \in Nat \ {0} /\ MaxSignals \in Nat

Header == 0
Count == 1
DeadEntry == 2
LiveEntry == 3
Detail == 4
Character == 5

Refused == <<>>   \* infod closes the connection

-----------------------------------------------------------------------------
(***************************************************************************)
(* Infod                                                                   *)
(***************************************************************************)
\* An entry and its information, the last entry beginning with its own size.
infoVecPackQueryReplay(entries) ==
  LET Pack(i) ==
        <<<<IF entries[i].alive THEN LiveEntry ELSE DeadEntry, i, entries[i].fsize + 1>>>>
          \o [k \in 1 .. entries[i].fsize |-> <<Detail, i, k>>]
  IN  <<<<Count, Len(entries), 0>>>> \o FlattenSeq([i \in DOMAIN entries |-> Pack(i)])

Text == [k \in 1 .. TextLen |-> <<Character, k, 0>>]

\* entries are those of the vector, or of its window.  The requests for names, ranges,
\* sets of nodes and ages are not served any more.
handle_client_request(request, entries) ==
  CASE request \in {"all", "window"} -> infoVecPackQueryReplay(entries)
    [] request \in {"stats", "desc"} -> Text
    [] OTHER -> Refused

\* comm_send_on_socket puts a header in front.
Message(body) ==
  IF body = Refused THEN <<>> ELSE [k \in 1 .. HdrLen |-> <<Header, k, Len(body)>>] \o body

-----------------------------------------------------------------------------
(***************************************************************************)
(* The library: what is read goes to where num_read, times the size of     *)
(* what the pointer points to (stride), says, which is or is not where the *)
(* last piece ended.                                                       *)
(***************************************************************************)
Reader(rest, size, signals) ==
  [num_read |-> 0, num2read |-> size, rest |-> rest, buff |-> <<>>,
   signals |-> signals, misplaced |-> FALSE]

Piece(r, k, stride) ==
  [r EXCEPT !.num_read = @ + k, !.num2read = @ - k, !.rest = SubSeq(@, k + 1, Len(@)),
            !.buff = @ \o SubSeq(r.rest, 1, k),
            !.misplaced = @ \/ r.num_read * stride # Len(r.buff)]

\* recv returns -1, which is added like any other amount.
Interrupted(r) == [r EXCEPT !.num_read = @ - 1, !.num2read = @ + 1, !.signals = @ - 1]

Reads(r, stride) ==
  IF r.num2read = 0 THEN {}
  ELSE {Piece(r, k, stride) : k \in 1 .. Min({r.num2read, Len(r.rest)})}
         \cup (IF r.signals > 0 THEN {Interrupted(r)} ELSE {})

\* The readers that have got all they want, whatever the pieces.
Filled(reader, stride) ==
  LET More(sofar, n) == sofar \cup UNION {Reads(r, stride) : r \in sofar}
      steps == [n \in 1 .. reader.num2read + 2 * reader.signals |-> n]
  IN  {r \in FoldLeft(More, {reader}, steps) : r.num2read = 0}

\* A select before each recv: a signal or the timer ends the reading.
comm_recv_hdr(stream) == Filled(Reader(stream, HdrLen, 0), HdrLen)

NoAnswer == [body |-> <<>>, misplaced |-> FALSE]

Taken(r) ==
  [body |-> IF r.misplaced THEN <<>> ELSE r.buff, misplaced |-> r.misplaced]

\* What may be returned to the caller.
Received(stream, stride, signals) ==
  LET Rest(hdr) ==
        [Reader(hdr.rest, hdr.buff[1][3], signals) EXCEPT !.misplaced = hdr.misplaced]
  IN  {NoAnswer} \cup UNION {{Taken(r) : r \in Filled(Rest(hdr), stride)} : hdr \in comm_recv_hdr(stream)}

\* The first waits in select; the others go on when a signal interrupts them.
infolib_recv_info(stream) == Received(stream, 1, 0)
infolib_recv_names(stream) == Received(stream, 1, MaxSignals)
infolib_recv_stats(stream) == Received(stream, TextLen, MaxSignals)

Requests ==
  {"all", "window", "cont_pes", "subst_pes", "names", "age", "get_names", "desc", "stats"}

\* What a request may get, of an infod that answers with this stream.
infolib_request(request, stream) ==
  CASE request \in {"get_names", "desc"} -> infolib_recv_names(stream)
    [] request = "stats" -> infolib_recv_stats(stream)
    [] OTHER -> infolib_recv_info(stream)

-----------------------------------------------------------------------------
(***************************************************************************)
(* The iterator over an answer, whose first unit counts the entries.       *)
(***************************************************************************)
Nil == 0

idata_iter_init(body) == [index |-> 0, cur |-> IF body[1][2] = 0 THEN Nil ELSE 2]

idata_iter_next_Whole(body, iter) ==   \* mutant: entries are all as long as the first
  [index |-> IF iter.index # body[1][2] THEN iter.index + 1 ELSE iter.index,
   cur |-> IF iter.index < body[1][2] - 1 THEN iter.cur + body[2][3] ELSE Nil]

\* The next entry is where this one's size says.
idata_iter_next(body, iter) ==
  [index |-> IF iter.index # body[1][2] THEN iter.index + 1 ELSE iter.index,
   cur |-> IF iter.index < body[1][2] - 1 THEN iter.cur + body[iter.cur][3] ELSE Nil]

\* The entries a caller gets: init, and next until there is none.
Walk(body) ==
  LET iter[n \in Nat] ==
        IF n = 0 THEN idata_iter_init(body) ELSE idata_iter_next(body, iter[n - 1])
      end == CHOOSE n \in 0 .. Len(body) : iter[n].cur = Nil /\ \A k \in 0 .. n - 1 : iter[k].cur # Nil
  IN  [k \in 1 .. end |-> body[iter[k - 1].cur]]

-----------------------------------------------------------------------------
\* The answer in full is among what may be received, and whatever else is received is no
\* answer, unless a piece was put in the wrong place.
ExactOrNone(received, body) ==
  /\ [body |-> body, misplaced |-> FALSE] \in received
  /\ \A r \in received : r.misplaced \/ r.body \in {Refused, body}

\* Of an infod that knows this of the nodes asked for.
FetchesExactly(alive, fsize) ==
  LET entries == [i \in DOMAIN alive |-> [alive |-> alive[i], fsize |-> fsize[i]]]
  IN  /\ \A request \in Requests :
           LET body == handle_client_request(request, entries)
           IN  ExactOrNone(infolib_request(request, Message(body)), body)
      /\ Walk(handle_client_request("all", entries)) =
           [i \in DOMAIN alive |-> <<IF alive[i] THEN LiveEntry ELSE DeadEntry, i, fsize[i] + 1>>]
==============================================================================
