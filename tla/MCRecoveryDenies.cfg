SPECIFICATION Spec
CONSTANTS
  Epochs = {e1}
  Attempts = {a1, a2}
  NoEpoch = noEpoch
  Procs = {p1}
  NoProc = noProc
  NoAttempt = noAttempt
  MaxRecorded = 2
  Calls = {h1, h2}
  Faults = {"lapse", "edit", "disable"}
SYMMETRY Symmetry
PROPERTIES
  RecoveryDeniesOnlyWithProof
