SPECIFICATION FairSpec
CONSTANTS
  Streams <- MCStreams
  Length <- MCLength
  Dests <- MCDests
  RamAddrs <- MCRam
  QueueSize = 2
  MaxRequests = 3
INVARIANTS TypeOK ParkedIsResumable SlotsArePending IInv
PROPERTIES DecodeStaysInPlace ImplementsFifo EventuallyServed
CHECK_DEADLOCK FALSE
