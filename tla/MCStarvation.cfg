SPECIFICATION FairSpec
CONSTANTS
  i1 = i1
  i2 = i2
  i3 = i3
  r1 = r1
  r2 = r2
  r3 = r3
  r4 = r4
  r5 = r5
  Identities = {i1, i2, i3}
  Requests = {r1, r2, r3, r4, r5}
  Owner <- Owners
  Limit <- Ceilings
  LimitPerIdentity <- CeilingsPerIdentity
  MaxQueued = 4
  MaxQueuedPerIdentity = 2
  Calls <- MutationCalls
  Events = {}
PROPERTIES
  EveryoneIsServed
