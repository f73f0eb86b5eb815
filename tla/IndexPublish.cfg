SPECIFICATION Spec
CONSTANTS
  Writers = {w1, w2}
  Readers = {r1}
  Gens = {g1, g2}
  Builds = {b1, b2}
  N = 2
  Absent = Absent
  Torn = Torn
  Nothing = Nothing
INVARIANTS PublishedWhole NeverRejected AckedSurvives
PROPERTIES Implements
