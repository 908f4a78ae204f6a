SPECIFICATION MCSpec
CONSTANTS
  WordChars = {"c"}
  MAXARGS = 3
  NPROC = 6
  NPIPE = 2
  PIPESIZE = 1
  Typed <- MCTyped
  MaxLines = 1
  MaxLine = 5
  Patterns <- MCPatterns
  Inputs <- MCInputs
  BUF = 4
  MEM = 5
  BYTE = 3
  WORD = 2
  INT = 32
INVARIANTS LineParsed ForegroundDone GrepPrints LibraryRight
PROPERTY EveryProcessReaped
CHECK_DEADLOCK FALSE
