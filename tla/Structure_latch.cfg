SPECIFICATION Spec
CONSTANTS
  Cfgs <- OneLoop
  MaxStructureDepth = 256
  MaxTests = 4
  Images <- NoImages
INVARIANTS LatchTestsExit
CHECK_DEADLOCK FALSE
