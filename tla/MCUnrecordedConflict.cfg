SPECIFICATION Spec
CONSTANTS
  Epochs = {e1, e2}
  Attempts = {a1}
  NoEpoch = noEpoch
  Procs = {p1, p2}
  NoProc = noProc
  NoAttempt = noAttempt
  MaxRecorded = 1
  Calls = {h1, h2}
  Kinds = {"system"}
  Faults = {"edit"}
PROPERTIES
  AnsweredConflictIsRecorded
CHECK_DEADLOCK FALSE
