CONSTANTS
  VSize = 2
  WinType = "fixed"
  WinParam = 2
  MsgRoom = 5
  MaxAge = 5
  Milli = 1
  AgeWrap = 100
  DeadStartPrio = 1
  LogSize = 1
  ForwardCopy = FALSE
  Readings <- MCReadings
  NoData <- MCNoData
  GossipAlgo = "pushpull"
  Skew <- MCSkew
  MaxDelay = 1
  MaxClock = 3
  MaxMsgs = 2
  Mortal = {1}
  NetFaults = TRUE
SPECIFICATION Spec
PROPERTIES OnlySelfSpeaks
