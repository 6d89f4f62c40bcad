CONSTANTS
  Socks = {1, 2, 3}
  MaxInProgress = 1
  Pieces = 2
  Timeout = 2
  CloseWait = 1
  AdminWait = 1
SPECIFICATION FairSpec
PROPERTY ConnectionsSettle
INVARIANTS SocketsOwned MaxFdCovers
