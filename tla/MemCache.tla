------------------------------- MODULE MemCache -------------------------------
(***************************************************************************)
(* The store the ranges of a map are taken from                            *)
(* (src/libutil/mem_cache.c): size entries of entrySize units in one       *)
(* block, the addresses of those that are free on a stack.                 *)
(***************************************************************************)
EXTENDS Integers, Sequences, FiniteSets

LOCAL INSTANCE SequencesExt

Null == -1

mem_cache_create(size, entrySize) ==
  [size |-> size, entrySize |-> entrySize, nextAlloc |-> size - 1,
   ptrArr |-> [i \in 0 .. size - 1 |-> i * entrySize],
   allocArr |-> [i \in 0 .. size - 1 |-> FALSE]]

get_ptr_pos(c, ptr) == ptr \div c.entrySize

\* The address after the block passes too.
is_ptr_leagal(c, ptr) == ptr >= 0 /\ ptr <= c.size * c.entrySize /\ ptr % c.entrySize = 0

Allocated(c) == IF c.nextAlloc < 0 THEN Null ELSE c.ptrArr[c.nextAlloc]

mem_cache_alloc(c) ==
  IF c.nextAlloc < 0 THEN c
  ELSE [c EXCEPT !.nextAlloc = @ - 1, !.allocArr[get_ptr_pos(c, Allocated(c))] = TRUE]

mem_cache_free(c, ptr) ==
  IF ~is_ptr_leagal(c, ptr) \/ ~c.allocArr[get_ptr_pos(c, ptr)] THEN c
  ELSE [c EXCEPT !.allocArr[get_ptr_pos(c, ptr)] = FALSE,
                 !.nextAlloc = @ + 1, !.ptrArr[c.nextAlloc + 1] = ptr]

mem_cache_free_size(c) == c.nextAlloc + 1
mem_cache_taken_size(c) == c.size - c.nextAlloc - 1

mem_cache_revalidate(c) ==
  /\ Cardinality({i \in DOMAIN c.allocArr : c.allocArr[i]}) = mem_cache_taken_size(c)
  /\ \A i \in 0 .. c.nextAlloc : is_ptr_leagal(c, c.ptrArr[i])
  /\ \A i, j \in 0 .. c.nextAlloc : c.ptrArr[i] = c.ptrArr[j] => i = j

-----------------------------------------------------------------------------
\* One call: -1 takes an entry, another number frees the one there.  held is who has what.
CacheStep(s, op) ==
  IF op = Null
  THEN [c |-> mem_cache_alloc(s.c),
        held |-> s.held \cup ({Allocated(s.c)} \ {Null}),
        ok |-> s.ok /\ Allocated(s.c) \notin s.held
                    /\ (Allocated(s.c) = Null <=> Cardinality(s.held) = s.c.size)]
  ELSE [c |-> mem_cache_free(s.c, op),
        held |-> s.held \ {op},
        ok |-> s.ok /\ (op \notin s.held => mem_cache_free(s.c, op) = s.c)]

\* Whatever is taken and freed, also twice or within an entry, no entry is given to two,
\* none is lost, and the store finds itself in order.
CacheRight(size, entrySize, n) ==
  \A ops \in [1 .. n -> {Null} \cup 0 .. size * entrySize - 1] :
    LET step(s, i) == CacheStep(s, ops[i])
        end == FoldLeft(step, [c |-> mem_cache_create(size, entrySize), held |-> {}, ok |-> TRUE],
                        [i \in 1 .. n |-> i])
    IN  /\ end.ok /\ mem_cache_revalidate(end.c)
        /\ end.held = {end.c.entrySize * i : i \in {j \in DOMAIN end.c.allocArr : end.c.allocArr[j]}}
        /\ mem_cache_free_size(end.c) + Cardinality(end.held) = size

===============================================================================
