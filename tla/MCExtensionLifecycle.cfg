SPECIFICATION FairSpec
CONSTANTS
  p1 = p1
  p2 = p2
  p3 = p3
  NoProvider = NoProvider
  Providers = {p1, p2, p3}
  MaxFailures = 3
INVARIANTS
  TypeOK
  OneMount
  ReportIsTrue
PROPERTIES
  MountedInTheEnd
