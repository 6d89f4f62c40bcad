CONSTANTS
  VSize = 3
  WinType = "fixed"
  WinParam = 2
  MsgRoom = 5
  MaxAge = 5
  Milli = 1
  AgeWrap = 100
  DeadStartPrio = 1
  LogSize = 1
  ForwardCopy = FALSE
  Readings <- MCReadings
  NoData <- MCNoData
  GossipAlgo = "reg"
  Skew <- MCSkew
  MaxDelay = 1
  MaxClock = 3
  MaxMsgs = 1
  Mortal = {}
  NetFaults = FALSE
SPECIFICATION Spec
INVARIANTS InfoDated
