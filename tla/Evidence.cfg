SPECIFICATION MCSpec
CONSTANTS
  Procs = {p1, p2}
  Stores = {s1, s2}
  Refs <- ChainOfThree
  SplitStores = FALSE
  MaxOps = 6
  MayFail = TRUE
  None = None
  card = card
  slice = slice
  failed = failed
  f = f
  g = g
  Records <- MCRecords
  Kind <- MCKind
  Func <- MCFunc
  Failed <- MCFailed
  Nodes <- MCNodes
  NoBoundary = NoBoundary
  Texts = {q1, q2}
  AnyFunction = AnyFunction
  Required <- MCRequired
  MaxCited = 1
  MaxRevisions = 4
INVARIANTS RefsResolve CitedHeld ExportVerifies AlwaysValid
PROPERTIES AnswersFit NothingForgotten
CHECK_DEADLOCK FALSE
SYMMETRY Symmetry
