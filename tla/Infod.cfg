\* The host is 2 or 7, which the smaller map does not list; addresses are of
\* four bits, 2, 7 and 13 in no order, 13 the mirror image of 7.
SPECIFICATION FairSpec
CONSTANTS
  home = 2
  away = 7
  Ips <- MCIps
  Maps <- MCMaps
  MaxCrash = 1
  AllowNoMap = FALSE
  AddrBits = 4
  NodeBits = 3
  ClusterBits = 2
  Numbers = {0, 1, 2, 3, 7, 8}
  Addresses = {0, 2, 3, 5, 7, 13, 14, 15}
  Counts = {0, 1, 2}
  MaxLines = 3
  HalfBits = 2
  PartnerLines <- MCPartnerLines
  PartnerInfos <- MCPartnerInfos
  BadInfo = "bad"
  MaxClusters = 2
  MaxRanges = 2
INVARIANTS
  VectorFollowsMap
  MapIsItsSet
  LookupsRight
PROPERTIES
  MapSettles
  OrphanDies
  Recovers
