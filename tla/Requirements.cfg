SPECIFICATION DSpec
CONSTANTS
  card = card
  slice = slice
  failed = failed
  f = f
  g = g
  Records <- MCRecords
  Kind <- MCKind
  Func <- MCFunc
  Failed <- MCFailed
  Nodes <- MCNodes
  NoBoundary = NoBoundary
  Texts = {q1, q2}
  AnyFunction = AnyFunction
  Required <- MCRequired
  MaxCited = 1
  MaxRevisions = 4
INVARIANTS EveryRequirementMet
