SPECIFICATION Spec
CONSTANTS
  Messages <- Session
  MaxLines = 3
  MaxEmits = 2
  Threads = {t1, t2}
  Paths = {a, b}
  MaxVersions = 2
  MaxGets = 2
INVARIANTS OneAnswerEach OwnDocuments NeverOlder
PROPERTIES RequestsEnd
CHECK_DEADLOCK FALSE
