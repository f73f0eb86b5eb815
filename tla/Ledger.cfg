SPECIFICATION FairSpec
CONSTANTS
  Procs = {p1, p2}
  Bundles <- TwoRevisions
  MaxOps = 3
  MaxRev = 4
  MayFail = TRUE
  None = None
INVARIANTS Chain AckedStays RefusedChangesNothing
PROPERTIES Implements CommandsReturn
CHECK_DEADLOCK FALSE
