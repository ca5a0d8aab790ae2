SPECIFICATION CodecSpec
CONSTANTS
  Adaptors <- MCScaled
  Inputs <- MCFiles
  Distances <- MCDistances
  Places <- MCPlaces
  Outputs <- MCOutputs
INVARIANTS WindowsFollowNode EdgesAreGenuine DecodesToFile StaysInStep CostIsWrittenSize BestOfConsidered EveryMatchReadsBack ReadsInLaterModules
CHECK_DEADLOCK FALSE
