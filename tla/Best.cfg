\* Three runs, one or two processes each; constraints hold for one tick.
SPECIFICATION Spec
CONSTANTS
  n1 = n1
  n2 = n2
  r1 = r1
  r2 = r2
  r3 = r3
  Runs <- MCRuns
  Nodes <- MCNodes
  Load <- MCLoad
  Cost <- MCCost
  FreeMem <- MCFreeMem
  Demands <- MCDemands
  EqualLoadDiff = 1
  Duration = 1
  FileRoom = 5
  MaxTime = 3
SYMMETRY Symmetry
INVARIANTS
  ReservationsKept
  NoBetterMove
CHECK_DEADLOCK FALSE
