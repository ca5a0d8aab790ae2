SPECIFICATION MSpec
CONSTANTS
  Streams <- MCStreams
  Length <- MCLength
  Dests <- MCDests
  RamAddrs <- MCRam
  QueueSize = 2
  MaxRequests = 50
  Archives <- MCArchives
  ArchiveSize <- MCArchiveSize
  ModuleStart <- MCModuleStart
  VramDests <- MCVramDests
  Buffer = 0
  DirectStreams <- MCDirect
  ModuleSlots = 2
  MaxArchives = 2
  MaxDirect = 1
  Polite = FALSE
INVARIANTS SourceIsNextModule
CHECK_DEADLOCK FALSE
