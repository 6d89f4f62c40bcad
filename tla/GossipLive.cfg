CONSTANTS
  VSize = 3
  WinType = "fixed"
  WinParam = 2
  MsgRoom = 5
  MaxAge = 5
  Milli = 1
  AgeWrap = 100
  DeadStartPrio = 1
  LogSize = 1
  ForwardCopy = FALSE
  Readings <- MCReadings
  NoData <- MCNoData
  GossipAlgo = "mindead"
  Skew <- MCSkew
  MaxDelay = 0
  MaxClock = 2
  MaxMsgs = 1
  Mortal = {2}
  NetFaults = FALSE
SPECIFICATION FairSpec
PROPERTIES NewsOnlyMovesForward Converges IsHearsay
