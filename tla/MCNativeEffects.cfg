SPECIFICATION Spec
CONSTANTS
  Epochs = {e1, e2}
  Attempts = {a1}
  NoEpoch = noEpoch
  Procs = {p1, p2}
  NoProc = noProc
  NoAttempt = noAttempt
  MaxRecorded = 1
  Calls = {h1, h2}
  Kinds = {"system", "move"}
  Faults = {"crash", "close", "lapse", "lose", "timeout", "effectfail", "unload", "quit", "rotate", "settings", "retarget", "edit", "busy", "evict"}
SYMMETRY Symmetry
INVARIANTS
  TypeOK
  RefusedPlanIsDead
PROPERTIES
  ImplementsOutcome
  LiveOwnerKeepsPlan
CHECK_DEADLOCK FALSE
