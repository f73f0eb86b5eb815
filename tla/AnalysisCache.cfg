SPECIFICATION Spec
CONSTANTS
  Procs = {p1, p2}
  Versions = {1, 2, 3}
  Initial = {1}
  Changes <- Fresh
  Stamp <- LengthAndTime
  MaxChanges = 2
  MaxReads = 3
  None = None
SYMMETRY Symmetry
INVARIANTS EntryMatchesIdentity OnlyCompleteStored
