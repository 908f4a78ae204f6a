SPECIFICATION Spec
CONSTANTS
  NPROC = 2
  NREC = 10
  MaxPid = 14
  MaxTicks = 0
INVARIANT PageTableThere
