SPECIFICATION Spec
CONSTANTS
  Attempts = {a1, a2}
  Handlers = {h1}
  MaxEpochs = 2
  MaxAttempts = 2
  MaxRetained = 1
SYMMETRY AttemptSymmetry
INVARIANTS
  TypeOK
  RevokedVerdictIsFinal
  QuiescenceIsProof
PROPERTIES
  ImplementsContract
