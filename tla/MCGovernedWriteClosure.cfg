SPECIFICATION Spec
CONSTANTS
  Epochs = {e1, e2}
  Attempts = {a1, a2}
  NoEpoch = noEpoch
  Procs = {p1}
  NoProc = noProc
  NoAttempt = noAttempt
  MaxRecorded = 2
  Calls = {h1, h2}
  Faults = {"timeout", "lapse", "rotate", "edit", "writefail", "unload", "lose", "quit"}
SYMMETRY Symmetry
INVARIANTS
  TypeOK
  ClosedPlanIsDead
  FirstRefusalIsTrue
  AtMostOneEffect
PROPERTIES
  ImplementsOutcome
  OnlyOwnerRefuses
  LiveOwnerKeepsPlan
