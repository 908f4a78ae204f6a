SPECIFICATION Spec
CONSTANTS
  Procs = {p1, p2}
  Readers = {p1, p2}
  Blocks = {b1, b2}
  Data = {d1, d2}
  NoData = NoData
  NoProc = NoProc
  LOGSIZE = 6
  MAXOPBLOCKS = 3
  nlog = 6
  OpBlocks = 2
INVARIANT CommitAlone
PROPERTIES ImplementsTxnDisk DurableAtReturn
