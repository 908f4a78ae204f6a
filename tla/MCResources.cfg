SPECIFICATION MCSpec
CONSTANTS
  Procs = {p1, p2}
  NFILE = 3
  NOFILE = 2
  Opens = {f1, f2}
  BSIZE = 2
  NDIRECT = 1
  NINDIRECT = 3
  FIRST = 1
  FSSIZE = 7
  BPB = 1
  MAXOPBLOCKS = 10
  Writes = {1, 3, 7}
  Reads = {3}
  MaxIO = 4
  NLOG = 2
  NINODES = 6
  IPB = 4
  BLOCK = 4
  DIRENT = 2
  NDIR = 1
  NIND = 3
  NFS = 30
  BITS = 40
  FileSizes = {0, 1, 4, 5, 8, 9, 16}
  NPROC = 2
  NFRAME = 14
  PGSIZE = 2
  NPTE = 2
  KERNBASE = 16
  Deltas <- MCDeltas
  Stores = {1}
  Programs <- MCPrograms
  ArgSizes = {1, 3}
  MaxCalls = 5
  HEADER = 2
  NMORE = 4
  LIMIT = 9
  Requests = {0, 3, 8}
  Gaps = {1}
  Readers = {r1, r2}
  Chars = {a}
  NL = nl
  EOF = eof
  INPUT_BUF = 3
  UINT = 6
  ReadSizes = {2}
INVARIANTS NothingLeaks WriteFits ImageConsistent PagesOwned HeapSound ReaderSleeps
PROPERTIES ImplementsByteFile ImplementsAddrSpace ImplementsLineFifo
