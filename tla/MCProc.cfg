SPECIFICATION FairSpec
CONSTANTS
  NPROC = 3
  CPUs = {c1}
  Chans = {disk}
  NoChan = NoChan
  MaxPid = 4
  KillPids = {2}
  AllocMayFail = TRUE
INVARIANTS EmbryoOwned ParentAlive NoMissedExit
PROPERTY KilledExits
CHECK_DEADLOCK FALSE
