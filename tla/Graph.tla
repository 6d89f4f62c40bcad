-------------------------------- MODULE Graph --------------------------------
(***************************************************************************)
(* The bars of a display (mmon/display.c, mmon.c, drawHelper.c), drawn     *)
(* over the blocks of Cells.  The legend says which kinds of information a *)
(* node's columns show; with a side window open the user edits it key by   *)
(* key, at a cursor the arrows move.  The first kind that is not a space   *)
(* has the axis and its scale, last_max, which grows at once with the data *)
(* but shrinks only after it was too large for max_val_reset_timeout       *)
(* drawings; every other kind is scaled by what is on view at that moment. *)
(***************************************************************************)
EXTENDS Cells

CONSTANTS
  Scalars,               \* the kinds of information that are drawn as bars
  Parts,                 \* those of them drawn as a part of a total
  MaxLegend,             \* bound: the kinds in the legend
  Value,                 \* Value[kind][n][t]: what node n says of it at time t, a total and a part
  Rows,                  \* the rows above the lowest one
  max_val_reset_timeout

ASSUME GraphAssumption ==
  /\ Parts \subseteq Scalars /\ Rows \in Nat \ {0} /\ max_val_reset_timeout \in Nat
  /\ MaxLegend \in Nat \ {0} /\ "load" \in Scalars
  /\ \A s \in Scalars, n \in Node, t \in Stamp :
       Value[s][n][t].total \in Nat /\ Value[s][n][t].part \in 0..Value[s][n][t].total

VARIABLES
  legend,         \* the kinds shown for every node
  last_max,       \* the scale of the axis, 0 - 1 before the first drawing
  last_max_type,  \* the kind it was measured for
  max_counter     \* how many drawings it has been kept for

gvars == <<legend, last_max, last_max_type, max_counter>>
graphVars == <<cvars, gvars>>

Unset == 0 - 1

-----------------------------------------------------------------------------
(* The columns: the kinds of the legend for one node after the other.      *)
Columns == 1..(count * Len(legend))
BlockOf(k) == raw[((k - 1) \div Len(legend)) + 1]
Living(k) == alive[((k - 1) \div Len(legend)) + 1]
Kind(k) == legend[((k - 1) % Len(legend)) + 1]
At(kind, k) == Value[kind][BlockOf(k).data[1]][BlockOf(k).data[2]]

\* the kind of the axis, the first of the legend that is not a space
AxisKind == legend[SelectInSeq(legend, LAMBDA s : s # "space")]
HasAxis == \E i \in DOMAIN legend : legend[i] # "space"

scalar_div_x(kind, k) == At(kind, k).total

\* mutant: the first living column alone gives the maximum
get_max_First(kind) ==
  IF kind \notin Scalars \/ \A k \in Columns : ~Living(k) THEN 0
  ELSE scalar_div_x(kind, CHOOSE k \in Columns : Living(k) /\ \A j \in Columns : Living(j) => k <= j)
\* the largest value of a kind among the living columns that show it, and the
\* first living one, whatever that one shows
get_max(kind) ==
  IF kind \notin Scalars \/ \A k \in Columns : ~Living(k) THEN 0
  ELSE LET first == CHOOSE k \in Columns : Living(k) /\ \A j \in Columns : Living(j) => k <= j
       IN  Max({scalar_div_x(kind, k) : k \in {first} \union {j \in Columns : Living(j) /\ Kind(j) = kind}})

\* a load is never scaled by less than one
Measured == LET max == get_max(AxisKind) IN IF AxisKind = "load" /\ max < 1 THEN 1 ELSE max

\* mutant: the wait is never counted
displayManageMax_NoCount ==
  IF \/ max_counter >= max_val_reset_timeout \/ Measured > last_max
     \/ last_max = Unset \/ last_max_type # AxisKind
  THEN last_max' = Measured /\ last_max_type' = AxisKind /\ max_counter' = 0
  ELSE UNCHANGED <<last_max, last_max_type, max_counter>>
\* too small a scale grows at once, too large a one waits
displayManageMax ==
  IF \/ max_counter >= max_val_reset_timeout \/ Measured > last_max
     \/ last_max = Unset \/ last_max_type # AxisKind
  THEN last_max' = Measured /\ last_max_type' = AxisKind /\ max_counter' = 0
  ELSE max_counter' = max_counter + 1 /\ UNCHANGED <<last_max, last_max_type>>

\* the drawing of all columns, when there is something to draw
displayRedrawGraph ==
  /\ HasAxis /\ raw # <<>> /\ count > 0
  /\ UNCHANGED <<legend, cvars>>
  /\ displayManageMax

\* the scale a column is drawn with, and the rows a value takes in it
ScaleOf(k) == IF Kind(k) = AxisKind THEN last_max' ELSE get_max(Kind(k))
RowsOf(value, max) == (Rows * value) \div max

\* an item added at the end of the legend, or (action 0) removed from there
toggle_disp_type(item, action) ==
  IF legend # <<>> /\ Last(legend) = item /\ action = 0 THEN Front(legend)
  ELSE IF legend # <<>> /\ item = "space" /\ action = 0 THEN legend
  ELSE Append(legend, item)

\* a key of the legend fetches afterwards, and the fetch may fail
Refetched == (\E entries \in Answers : get_nodes_to_display(entries)) \/ UNCHANGED cvars

\* the key of a kind: it replaces the one under the cursor, or is added
PressKind ==
  /\ \E kind \in Scalars \union {"space"} :
       \/ \E cursor \in DOMAIN legend : legend' = [legend EXCEPT ![cursor] = kind]
       \/ Len(legend) < MaxLegend /\ legend' = toggle_disp_type(kind, 1)
  /\ Refetched
  /\ UNCHANGED <<last_max, last_max_type, max_counter>>

\* backspace removes the last kind
PressBackspace ==
  /\ legend # <<>> /\ legend' = toggle_disp_type(Last(legend), 0)
  /\ Refetched
  /\ UNCHANGED <<last_max, last_max_type, max_counter>>

-----------------------------------------------------------------------------
GraphInit == /\ CellsInit /\ legend = <<"load">>
             /\ last_max = Unset /\ last_max_type = "space" /\ max_counter = 0

GraphNext == \/ \E entries \in Answers : get_nodes_to_display(entries) /\ UNCHANGED gvars
             \/ displayFreeData /\ UNCHANGED gvars
             \/ new_user /\ UNCHANGED gvars
             \/ displayRedrawGraph
             \/ PressKind
             \/ PressBackspace

\* the main loop draws at least once a second
GraphSpec == GraphInit /\ [][GraphNext]_graphVars /\ WF_graphVars(displayRedrawGraph)

-----------------------------------------------------------------------------
\* Every bar ends inside the graph, and a part never passes its total: the
\* scale a bar is drawn with is at least its value, although the scale of the
\* axis is older than the data and that of the other kinds is not.
BarsFit ==
  [][displayRedrawGraph =>
       \A k \in Columns : Living(k) /\ Kind(k) # "space" /\ ScaleOf(k) > 0 =>
         LET total == RowsOf(At(Kind(k), k).total, ScaleOf(k))
             part == RowsOf(At(Kind(k), k).part, ScaleOf(k))
         IN  total <= Rows /\ (Kind(k) \in Parts => part <= total)]_graphVars

\* A scale that has become too large comes down: however the data keeps
\* changing, the axis shows the true maximum again and again, never the peak of
\* a time long gone.
ScaleComesBack == []<>(count = 0 \/ ~HasAxis \/ last_max = Measured)
=============================================================================
