SPECIFICATION FairSpec
CONSTANTS
  Readers = {r1}
  Writers = {w1, w2}
  PIPESIZE = 2
  UINT = 4
  Bytes = {0, 1}
  Chunks <- MCChunks
  ReadSizes = {1, 2}
  Killable = {r1, w1}
  NCPU = 1
INVARIANTS SleepsWithReason NotUsedAfterFree
PROPERTIES ImplementsFifo CallsReturn
