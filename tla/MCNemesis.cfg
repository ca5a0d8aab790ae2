SPECIFICATION Spec
CONSTANTS
  CodeMax = 3
  Reserved = 2
  CountBits = 2
  NibbleBits = 2
  ByteBits = 2
  LineNibbles = 2
  Lines = 2
  Files <- MCFiles
INVARIANTS CodesArePrefixFree LengthsAreOptimal EstimateIsFileSize DecodesToFile
CHECK_DEADLOCK FALSE
