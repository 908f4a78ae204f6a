SPECIFICATION FairSpec
CONSTANTS
  Procs = {p1, p2}
  NoProc = NoProc
  NBUF = 2
  Blocks = {k1, k2, k3}
  NoBlock = NoBlock
  Data = {0, 1}
  MaxPinned = 1
  BadBlocks = {k1}
INVARIANTS BuffersAccounted ReadsLatest
PROPERTY RequestServed
CHECK_DEADLOCK FALSE
