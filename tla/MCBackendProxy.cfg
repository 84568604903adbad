SPECIFICATION FairSpec
CONSTANTS
  c1 = c1
  c2 = c2
  Calls = {c1, c2}
  Governed = {c1}
  Annotations <- AllOrNothing
  MaxGenerations = 3
CHECK_DEADLOCK FALSE
INVARIANTS
  TypeOK
  MutationIsNotReplayed
  OutcomeIsHonest
PROPERTIES
  EveryCallEnds
