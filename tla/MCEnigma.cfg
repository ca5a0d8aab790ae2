SPECIFICATION Spec
CONSTANTS
  W = 5
  LowBits = 2
  FlagBits = 1
  CountBits = 2
  Files <- MCFiles
INVARIANTS ReadsWhatWasWritten TakesItsWords DecodesToFile StopsAtTerminator
PROPERTIES UsesStreamProperly
CHECK_DEADLOCK FALSE
