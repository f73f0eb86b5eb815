SPECIFICATION Spec
CONSTANTS
  Cfgs <- SmallCfgs
  MaxStructureDepth = 256
  MaxTests = 4
  Images <- SmallImages
INVARIANTS DominatorsExact BehaviourKept SummariesExact
PROPERTIES GraphPassesReturn
CHECK_DEADLOCK FALSE
