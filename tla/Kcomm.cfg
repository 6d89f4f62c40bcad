\* Two connections; a buffer of a message and a half; room for three queued messages.
\* The provider connects a bounded number of times, so the system stops.
SPECIFICATION KcommFairSpec
CONSTANTS
  MaxIn = 2
  MaxOut = 5
  Conns = 2
  BuffSize = 3
  HeapLen = 4
INVARIANTS
  SentWhole
  HeapSorts
PROPERTY
  Drains
CHECK_DEADLOCK FALSE
