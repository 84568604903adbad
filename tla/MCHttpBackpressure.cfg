SPECIFICATION FairSpec
CONSTANTS
  i1 = i1
  i2 = i2
  i3 = i3
  r1 = r1
  r2 = r2
  r3 = r3
  r4 = r4
  r5 = r5
  Identities = {i1, i2, i3}
  Requests = {r1, r2, r3, r4}
  Owner <- Owners
  Limit <- Ceilings
  LimitPerIdentity <- CeilingsPerIdentity
  MaxQueued = 3
  MaxQueuedPerIdentity = 2
  Calls <- MixedCalls
  Events = {"giveup"}
INVARIANTS
  TypeOK
  LeasesFit
  NoIdleCapacity
  NoRequestIsLost
PROPERTIES
  ServedInOrder
  StandardIsServed
