SPECIFICATION Spec
CONSTANTS
  ModuleSize = 4
  SizeLimit = 10
  Formats <- MCEarly
  FileSizes = {8}
  BitCounts = {17, 24, 31, 32, 40}
INVARIANTS SkipsOnlyPadding
CHECK_DEADLOCK FALSE
