SPECIFICATION ASpec
CONSTANTS
  MaxRun = 3
  MaxOut = 10
  Files <- MCFiles
INVARIANTS DecodesToFile
CHECK_DEADLOCK FALSE
