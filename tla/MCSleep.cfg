SPECIFICATION MCSpec
CONSTANTS
  Procs = {p1, p2, p3}
  NoProc = NoProc
  Sleepers = {s1, s2}
  UINT = 5
  SleepArgs = {1, 3}
  MaxLate = 1
  Readers = {}
  Blocks = {b1, b2}
  Data = {d1}
  NoData = NoData
  LOGSIZE = 4
  MAXOPBLOCKS = 2
  nlog = 5
  OpBlocks = 2
INVARIANT SleepsInTime
PROPERTIES ImplementsMutex SleeperWakes SleeperReturns BeginWakes
