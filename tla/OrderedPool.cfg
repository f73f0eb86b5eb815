SPECIFICATION FairSpec
CONSTANTS
  Count = 4
  Workers = {w1, w2, w3}
  Results = {ok, timedOut}
  None = None
INVARIANTS EmittedInOrder ReturnedComplete NeverBlocksOnReady
PROPERTIES Implements PoolEnds
CHECK_DEADLOCK FALSE
