------------------------------ MODULE Monitor ------------------------------
(***************************************************************************)
(* One screen of the monitor (src/mmon): what it fetches from an infod     *)
(* (infoMethods.c), the part of it that is on view (display.c), the keys   *)
(* that move or rebuild the view (input.c) and the main loop (mmon.c).     *)
(*                                                                         *)
(* The nodes of an answer are sorted by number, so a node is its position, *)
(* and what is known of it is whether it is alive.  Basic mode only: a     *)
(* legend of one type and its padding.  Drawing, dialogs, side windows and *)
(* split screens are left out.                                             *)
(***************************************************************************)
EXTENDS Integers, SequencesExt, Orders

CONSTANTS
  MaxNodes,   \* the most nodes an infod reports
  Cols,       \* columns the view has
  NumWidth    \* columns a node number takes, the padding of the wide mode

ASSUME MonitorAssumption ==
  MaxNodes \in Nat \ {0} /\ Cols \in Nat \ {0} /\ NumWidth \in Nat \ {0}

VARIABLES
  infod,   \* what the infod of the current cluster would answer
  d,       \* the display
  res,     \* of main: every redraw of the main loop has succeeded
  turn     \* where the main loop is: at the "key" or at the "draw"

monitorVars == <<infod, d, res, turn>>

Down == <<>>      \* no answer
NoMemory == <<>>  \* a NULL pointer
Answers == UNION {[1 .. n -> BOOLEAN] : n \in 1 .. MaxNodes}
Replies == Answers \cup {Down}

Display ==
  [alive : Answers \cup {NoMemory},  \* alive_arr (and raw_data), as long as it was allocated
   count : 0 .. MaxNodes,      \* nodes_count
   bars : Seq(0 .. MaxNodes - 1),  \* displayed_bars_data: each column's node
   size : 1 .. NumWidth + 1,   \* legend_size, columns per node
   wmode : 1 .. 3,             \* super vertical, vertical, wide
   dead : BOOLEAN,             \* show_dead
   recount : BOOLEAN,
   fresh : BOOLEAN,            \* history: nothing new since the view was built
   excused : BOOLEAN,          \* history: an infod was silent, or nothing was on view
   crashed : BOOLEAN]          \* a pointer was followed that leads nowhere

MonitorTypeOK ==
  /\ infod \in Replies /\ d \in Display /\ Len(d.bars) <= Cols
  /\ res \in BOOLEAN /\ turn \in {"key", "draw"}

-----------------------------------------------------------------------------
Nodes(x) == 0 .. x.count - 1
IsAlive(x, p) == x.alive[p + 1]
Shown(x) == {p \in Nodes(x) : x.dead \/ IsAlive(x, p)}
Data(x) == IF x.alive = NoMemory THEN Down ELSE SubSeq(x.alive, 1, x.count)

\* displayInit
Started ==
  [alive |-> NoMemory, count |-> 0, bars |-> NoMemory, size |-> 1, wmode |-> 2,
   dead |-> TRUE, recount |-> TRUE, fresh |-> FALSE, excused |-> FALSE, crashed |-> FALSE]

\* A program that is gone has no memory.
Crash(x) == [Started EXCEPT !.crashed = TRUE, !.excused = x.excused]

\* A handler goes on with y unless x ended the program.
Goes(x, y) == IF x.crashed THEN x ELSE y

(***************************************************************************)
(* Fetching.  The memory is allocated once, for the first answer; what a   *)
(* longer one overwrites is unknown, and ends the model.                   *)
(***************************************************************************)
Stored(x, reply) ==
  [x EXCEPT !.alive = reply \o SubSeq(@, Len(reply) + 1, Len(@)),
            !.count = Len(reply),
            !.fresh = @ /\ Data(x) = reply]

get_nodes_to_display_Lazy(x, reply) ==   \* mutant: what is in memory is not fetched again
  IF reply = Down THEN [x EXCEPT !.excused = TRUE]
  ELSE IF x.alive # NoMemory /\ Len(reply) > Len(x.alive) THEN Crash([x EXCEPT !.excused = TRUE])
  ELSE IF x.alive # NoMemory THEN x
  ELSE Stored(x, reply)

get_nodes_to_display(x, reply) ==
  IF reply = Down THEN [x EXCEPT !.excused = TRUE]
  ELSE IF x.alive # NoMemory /\ Len(reply) > Len(x.alive) THEN Crash([x EXCEPT !.excused = TRUE])
  ELSE Stored(x, reply)

(***************************************************************************)
(* Building the view                                                       *)
(***************************************************************************)
\* The widest number is looked up on the old view.
Padding(x) ==
  CASE x.wmode = 1 -> 0
    [] x.wmode = 2 -> 1
    [] x.wmode = 3 -> IF x.bars = NoMemory THEN 0 ELSE NumWidth

Rebuilt(x) ==
  LET shown == InOrder(Shown(x))
      size  == 1 + Padding(x)
      fit   == Min({Cols \div size, Len(shown)})
  IN  [x EXCEPT !.size = size,
                !.bars = [i \in 1 .. fit * size |-> shown[(i - 1) \div size + 1]],
                !.recount = FALSE, !.fresh = TRUE,
                !.excused = @ \/ fit = 0]

displayRedraw(x) ==
  IF ~x.recount THEN x
  ELSE IF x.count > 0 /\ x.alive = NoMemory THEN Crash(x)
  ELSE Rebuilt(x)

Rebuild(x) == displayRedraw([x EXCEPT !.recount = TRUE])

(***************************************************************************)
(* Moving the view by one node                                             *)
(***************************************************************************)
move_left_ByOne(x) ==   \* mutant: a hidden node is not jumped over
  LET before == {p \in 0 .. Head(x.bars) - 1 : x.dead \/ IsAlive(x, p)}
  IN  IF before = {} THEN x
      ELSE [x EXCEPT !.bars =
              [i \in DOMAIN @ |-> IF i <= x.size THEN @[i] - 1 ELSE @[i - x.size]]]

move_left(x) ==
  LET before == {p \in 0 .. Head(x.bars) - 1 : x.dead \/ IsAlive(x, p)}
      offset == Head(x.bars) - Max(before)
  IN  IF before = {} THEN x
      ELSE [x EXCEPT !.bars =
              [i \in DOMAIN @ |-> IF i <= x.size THEN @[i] - offset ELSE @[i - x.size]]]

move_right(x) ==
  LET after  == {p \in Last(x.bars) + 1 .. x.count - 1 : x.dead \/ IsAlive(x, p)}
      offset == Min(after) - Last(x.bars)
      kept   == Len(x.bars) - x.size
  IN  IF after = {} THEN x
      ELSE [x EXCEPT !.bars =
              [i \in DOMAIN @ |-> IF i <= kept THEN @[i + x.size] ELSE @[i] + offset]]

Times(n, Move(_), x) ==
  LET after[i \in 0 .. n] == IF i = 0 THEN x ELSE Move(after[i - 1]) IN after[n]

-----------------------------------------------------------------------------
(***************************************************************************)
(* The keys                                                                *)
(***************************************************************************)
Press(x) ==
  /\ turn = "key" /\ ~d.crashed
  /\ d' = x /\ turn' = "draw"
  /\ UNCHANGED <<infod, res>>

\* A display type: the legend loses its padding, and the view is moved to
\* where it was, before it is rebuilt.
PressType ==
  Press(IF d.bars = NoMemory THEN Crash(d)
        ELSE LET x == get_nodes_to_display([d EXCEPT !.size = 1, !.recount = TRUE], infod)
             IN  Goes(x, Times(Head(d.bars), move_right, x)))

PressWidth == Press(Rebuild([d EXCEPT !.wmode = IF @ = 3 THEN 1 ELSE @ + 1]))

PressDead == Press(Rebuild([d EXCEPT !.dead = ~@]))

PressEnter == Press(Rebuild(d))

PressArrow ==
  d.bars # NoMemory /\ (Press(move_left(d)) \/ Press(move_right(d)))

PressPage ==
  LET n == Len(d.bars) \div d.size
  IN  Press(Times(n, move_left, d)) \/ Press(Times(n, move_right, d))

\* What modules store behind the raw data is freed first, there or not.
displayFreeData(x) == IF x.alive = NoMemory THEN Crash(x) ELSE [x EXCEPT !.alive = NoMemory]

WithoutView(x) == [x EXCEPT !.bars = NoMemory]

PressCluster_KeepsView ==   \* mutant: the view is not marked to be rebuilt
  LET y == WithoutView(d)
      x == IF d.count > 0 THEN displayFreeData(y) ELSE y
  IN  Press(Goes(x, get_nodes_to_display(x, infod)))

\* The next cluster or the previous one.  The number of nodes is kept.
PressCluster ==
  LET y == WithoutView(d)
      x == IF d.count > 0 THEN displayFreeData(y) ELSE y
  IN  Press(Goes(x, get_nodes_to_display([x EXCEPT !.recount = TRUE], infod)))

\* A new list of hosts; unlike a switch of clusters it forgets the number of
\* nodes, and rebuilds the view if the host answers.
new_host ==
  LET y == WithoutView(d)
      x == IF d.count > 0 /\ d.alive # NoMemory THEN displayFreeData(y) ELSE y
      z == get_nodes_to_display([x EXCEPT !.count = 0, !.recount = TRUE], infod)
  IN  Press(IF infod = Down THEN z ELSE Goes(z, displayRedraw(z)))

NoKey == Press(d)

Key ==
  \/ PressType \/ PressWidth \/ PressDead \/ PressEnter
  \/ PressArrow \/ PressPage \/ PressCluster \/ new_host \/ NoKey

(***************************************************************************)
(* The main loop: a redraw that failed is the last one.                    *)
(***************************************************************************)
mmon_redraw ==
  LET x == get_nodes_to_display(d, infod)
  IN  /\ turn = "draw" /\ ~d.crashed
      /\ turn' = "key" /\ UNCHANGED infod
      /\ IF res THEN /\ d' = IF infod = Down THEN x ELSE Goes(x, displayRedraw(x))
                     /\ res' = (infod # Down)
                ELSE UNCHANGED <<d, res>>

\* Nodes come, go, die and return, and so does the infod that is asked; of
\* another cluster, the infod may answer anything else.
InfodChanges ==
  /\ \E reply \in Replies : infod' = reply
  /\ UNCHANGED <<d, res, turn>>

MonitorInit ==
  /\ infod \in Replies
  /\ d = Started
  /\ res = TRUE /\ turn = "draw"

MonitorNext == Key \/ mmon_redraw \/ InfodChanges

MonitorSpec == MonitorInit /\ [][MonitorNext]_monitorVars

\* The loop waits for a key for a second at most.
MonitorFairSpec == MonitorSpec /\ WF_monitorVars(NoKey) /\ WF_monitorVars(mmon_redraw)

-----------------------------------------------------------------------------
(***************************************************************************)
(* Properties                                                              *)
(***************************************************************************)
\* No order of keys makes the monitor follow a pointer to freed memory, to
\* another answer's, or to none, as long as infod answers, its map does not
\* grow beyond the first answer and something is left on view (the comment
\* "no fear of segmentation fault" of displayRedraw).
Survives ==
  /\ d.crashed => d.excused
  /\ ~d.crashed => \A i \in DOMAIN d.bars : d.bars[i] < Len(d.alive)

\* Between two rebuilds, however the view was moved, it is a run of the nodes
\* to be shown: none missing, repeated or hidden, all columns of a node side by
\* side; and it is as full as it can be.  With the dead hidden this holds for
\* as long as the answers stay the same.
ViewContiguous ==
  LET onView == {d.bars[i] : i \in DOMAIN d.bars}
      shown  == IF d.dead THEN 0 .. MaxNodes - 1 ELSE Shown(d)
  IN  ~d.recount /\ ~d.crashed /\ (d.dead \/ d.fresh) =>
        /\ onView = {p \in shown : \E a, b \in onView : a <= p /\ p <= b}
        /\ \A i \in DOMAIN d.bars \ {1} : d.bars[i - 1] <= d.bars[i]
        /\ Len(d.bars) = Cardinality(onView) * d.size
        /\ d.fresh => Cardinality(onView) = Min({Cols \div d.size, Cardinality(Shown(d))})

\* As long as infod answers, each change of it is on the screen in the end,
\* whatever keys are pressed.
Refreshes == infod # Data(d) ~> infod = Data(d) \/ d.excused

==============================================================================
