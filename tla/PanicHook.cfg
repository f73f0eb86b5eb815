SPECIFICATION Spec
CONSTANTS
  Threads = {t1, t2}
  Deadline = TRUE
INVARIANT SilentOnlyDuringEqsat
