SPECIFICATION CodecSpec
CONSTANTS
  Adaptors <- MCKosinski
  Inputs <- MCRunAmongLiterals
  Distances = {}
  Places = {}
  Outputs = {}
INVARIANTS BestPossibleSize
CHECK_DEADLOCK FALSE
