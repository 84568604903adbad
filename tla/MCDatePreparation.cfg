SPECIFICATION PrepSpec
CONSTANTS
  Attempts = {p1, p2}
  Plans = {c1, c2}
  NoAttempt = NoAttempt
  Handlers = {}
  MaxEpochs = 2
  MaxAttempts = 2
  MaxRetained = 1
SYMMETRY PrepSymmetry
INVARIANTS
  PrepTypeOK
  EffectHoldsItsLock
  UnverifiedKeepsItsLock
  LateWriteHoldsItsLock
  UnstartedDidNothing
