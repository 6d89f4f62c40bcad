CONSTANTS
  VSize = 3
  WinType = "uptoage"
  WinParam = 1
  MsgRoom = 5
  MaxAge = 1
  Milli = 2
  AgeWrap = 100
  DeadStartPrio = 2
  LogSize = 1
  ForwardCopy = FALSE
  Readings = {1}
  NoData = 0
  Local = 0
  MaxClock = 3
  MaxPrio = 2
  RemoteCauses = {"connect"}
  AgesAsked = {2}
  ClockGoesBack = FALSE
SPECIFICATION Spec
INVARIANTS WindowSound LiveInWindow
PROPERTIES PriorityDecays FreshnessMonotone
