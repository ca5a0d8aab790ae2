SPECIFICATION ASpec
CONSTANTS
  MaxRun = 3
  MaxOut = 10
  Files <- MCFiles
INVARIANTS ATypeOK DecodesButAfterFullRuns StaysInStep CountsWhatIsLeft
CHECK_DEADLOCK FALSE
