SPECIFICATION FairSpec
CONSTANTS
  NPROC = 3
  Policies = {"DEFAULT", "FRR", "FCFS"}
  QUANTA = 3
  MaxPid = 4
  MaxTicks = 2
INVARIANTS ChargedTimeFits QuantumBound
PROPERTY NoStarvation
