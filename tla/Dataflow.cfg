SPECIFICATION Spec
CONSTANTS
  Lowerings <- SmallFunctions
  MaxOrigins = 3
  WorkFactor = 1
  MaxRewrites = 3
  MaxRefs = 1
  NumBlocks = 3
  Programs <- SmallPrograms
  VisitFactor = 2
  MaxStores = 2
  MaxLocations = 2
  Bytes = {0, 1, 2}
  Bases = {"global", "sp", "fp"}
  Frames <- Placements
  Binaries <- SmallBinaries
  LimitSets <- SmallLimits
  MaxInputs = 8
INVARIANTS CompleteOrFlagged LoadSound CompleteClosed EdgesHonest LimitsHold
PROPERTIES EvidenceKept AnalysesReturn
CHECK_DEADLOCK FALSE
