SPECIFICATION FairSpec
CONSTANTS
  Epochs = {e1}
  Attempts = {a1, a2}
  NoEpoch = noEpoch
  Procs = {p1, p2}
  NoProc = noProc
  NoAttempt = noAttempt
  MaxRecorded = 1
  Calls = {h1, h2}
  Faults = {"crash", "close", "revert", "disable", "retarget"}
PROPERTIES
  InterruptionIsNoticed
  UncertaintyIsClosed
CHECK_DEADLOCK FALSE
