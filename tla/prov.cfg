SPECIFICATION FairSpec
CONSTANTS
  Credentials <- TwoNetworks
  Working <- OneWorks
  MAXIMUM_RETRY = 1
  MaxStarts = 2
  MaxQueue = 1
  Default = p2
  NULL = NULL
  n1 = n1
  n2 = n2
  p1 = p1
  p2 = p2
INVARIANTS
  TypeOK
  StaModeWorks
PROPERTY WaitEnds
