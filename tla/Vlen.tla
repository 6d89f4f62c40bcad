--------------------------------- MODULE Vlen ---------------------------------
(***************************************************************************)
(* How the items of a node's information are put behind its fixed part and *)
(* found there again (src/libinfo/info_reader.c): their number, then item  *)
(* after item the lengths of data and name, the name and the data.  The    *)
(* memory is a function from places to units; a number takes one unit, a   *)
(* name or datum as many as its length, of which the first one, a number   *)
(* too, says what it is.  The buffer is used again and is never cleared.   *)
(*                                                                         *)
(* No length here is beyond what a short holds (the buffers the data comes *)
(* from are smaller), and whether an item fits is asked nowhere.           *)
(***************************************************************************)
EXTENDS Integers, SequencesExt

NoPlace == -1   \* a NULL

IS_VLEN_INFO(n) == n.fsize > n.psize

getVlenDataSize(n, ptr) == n.mem[ptr]
getVlenName(n, ptr) == IF ptr = NoPlace THEN NoPlace ELSE ptr + 2
getVlenData(n, ptr) ==
  IF ptr = NoPlace \/ n.mem[ptr + 1] <= 0 THEN NoPlace ELSE ptr + 2 + n.mem[ptr + 1]

nextVlenInfo(n, ptr) ==
  IF ptr = NoPlace \/ n.mem[ptr] <= 0 \/ n.mem[ptr + 1] <= 0 THEN NoPlace
  ELSE ptr + 2 + n.mem[ptr] + n.mem[ptr + 1]

\* Written over what was there.
setVlenInfo(mem, ptr, item) ==
  [mem EXCEPT ![ptr] = item.size, ![ptr + 1] = item.nameLen,
              ![ptr + 2] = item.name, ![ptr + 2 + item.nameLen] = item.data]

vlenSize(item) == 2 + item.nameLen + item.size

\* The place behind the items there are, or of the first, behind their number.
Behind(n) ==
  IF IS_VLEN_INFO(n)
  THEN FoldLeft(LAMBDA ptr, k : nextVlenInfo(n, ptr), n.psize + 1, [k \in 1 .. n.mem[n.psize] |-> k])
  ELSE n.psize + 1

add_vlen_info(n, item) ==
  IF item.size <= 0 THEN n
  ELSE [n EXCEPT !.mem = [setVlenInfo(@, Behind(n), item) EXCEPT
                            ![n.psize] = IF IS_VLEN_INFO(n) THEN @ + 1 ELSE 1],
                 !.fsize = @ + vlenSize(item) + IF IS_VLEN_INFO(n) THEN 0 ELSE 1]

\* The name of the item after the last is read too, and may be an old one.
get_vlen_info(n, name) ==
  LET look(s, k) ==
        IF n.mem[getVlenName(n, s.ptr)] = name THEN s
        ELSE [ptr |-> nextVlenInfo(n, s.ptr), passed |-> s.passed + 1]
      end == FoldLeft(look, [ptr |-> n.psize + 1, passed |-> 0], [k \in 1 .. n.mem[n.psize] |-> k])
  IN  IF ~IS_VLEN_INFO(n) \/ n.mem[n.psize] <= 0 \/ end.passed = n.mem[n.psize] THEN <<>>
      ELSE <<getVlenDataSize(n, end.ptr), n.mem[getVlenData(n, end.ptr)]>>

-----------------------------------------------------------------------------
EmptyBuffer(room) == [psize |-> 0, fsize |-> 0, mem |-> [k \in 0 .. room |-> 0]]

\* kcomm_get_info starts again from the fixed part.
Filled(n, items) == FoldLeft(add_vlen_info, [n EXCEPT !.fsize = n.psize], items)

\* Whatever the buffer held before, a name finds the first item that was added under it,
\* or nothing, and the length told to other nodes is that of what was added.
FoundAsAdded(before, items, room) ==
  LET n == Filled(Filled(EmptyBuffer(room), before), items)
      real == SelectSeq(items, LAMBDA it : it.size > 0)
      total == FoldLeft(LAMBDA sum, it : sum + vlenSize(it), 0, real)
  IN  /\ n.fsize = total + IF real = <<>> THEN 0 ELSE 1
      /\ \A name \in {it.name : it \in ToSet(before) \cup ToSet(items)} :
           LET first == SelectInSeq(real, LAMBDA it : it.name = name)
           IN  get_vlen_info(n, name) =
                 IF first = 0 THEN <<>> ELSE <<real[first].size, real[first].data>>

===============================================================================
