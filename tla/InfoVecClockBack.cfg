CONSTANTS
  VSize = 3
  WinType = "fixed"
  WinParam = 1
  MsgRoom = 5
  MaxAge = 1
  Milli = 2
  AgeWrap = 100
  DeadStartPrio = 2
  LogSize = 1
  ForwardCopy = FALSE
  Readings = {1}
  NoData = 0
  Local = 0
  MaxClock = 2
  MaxPrio = 2
  RemoteCauses = {"connect"}
  AgesAsked = {1}
  ClockGoesBack = TRUE
SPECIFICATION Spec
INVARIANTS NumAliveExact DeadMarksAgree LiveNotAhead
PROPERTY DeathEntersWindow
