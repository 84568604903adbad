SPECIFICATION FairSpec
CONSTANTS
  p1 = p1
  p2 = p2
  s1 = s1
  Paths = {p1, p2}
  Streams = {s1}
  MaxVersion = 2
  MaxWrites = 2
  Faults = {"read", "list", "stream", "overlap", "tool", "restart"}
  MaxFaults = 1
  MaxPending = 1
  BatchSize = 1
INVARIANTS
  TypeOK
  CompleteMeansObserved
  FreshReportIsTrue
PROPERTIES
  CacheConverges
