CONSTANTS
  Nodes = 3
  Number <- MCNumber
  ClusterOf <- MCClusterOf
  Size <- MCSize
  Room = 2
  Letters = 3
  Cleared = 2
  Lost = {2}
  Filter = {1, 2, 3}
  Scalars = {"load", "mem"}
  Parts = {"mem"}
  MaxLegend = 2
  Value <- MCValue
  Rows = 5
  max_val_reset_timeout = 1
  Word = 8
  Plugins <- MCPlugins
SPECIFICATION GraphSpec
INVARIANTS ShownIsFetched ItemsRight
PROPERTIES BarsFit ScaleComesBack
