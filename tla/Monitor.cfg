CONSTANTS
  MaxNodes = 3
  Cols = 4
  NumWidth = 2
  HdrLen = 2
  Fsizes = {0, 2}
  TextLen = 3
  MaxSignals = 1
SPECIFICATION MonitorFairSpec
INVARIANTS Survives ViewContiguous FetchedExactly
PROPERTY Refreshes
