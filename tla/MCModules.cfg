SPECIFICATION Spec
CONSTANTS
  ModuleSize = 4
  SizeLimit = 10
  Formats <- MCFormats
  FileSizes = {1, 3, 4, 5, 8, 9, 10, 13, 14}
  BitCounts = {17, 24, 31, 32, 40}
INVARIANTS DecodesToFile StopsAtWrittenSize KeepsItsPlace
CHECK_DEADLOCK FALSE
