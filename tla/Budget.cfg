SPECIFICATION Spec
CONSTANTS
  Limits <- MCLimits
  Amounts = {1, 2}
  MaxU = 3
  MaxNow = 2
  MaxDepth = 3
  None = None
INVARIANTS WithinLimits GuardsRestored
PROPERTIES Accounting
