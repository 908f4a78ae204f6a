SPECIFICATION Spec
CONSTANTS
  Procs = {p1, p2}
  NoProc = NoProc
  Names = {a, b}
  NINODES = 2
  NINODE = 2
  Blocks = {k1, k2}
  MaxBlocks = 1
INVARIANT NoDeadlock
