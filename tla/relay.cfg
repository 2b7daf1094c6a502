SPECIFICATION FairSpec
CONSTANTS
  RelaySeq <- OneRelay
  ActiveLow = {2}
  Schedules = {s1}
  Plans <- OnOffPlan
  NULL = NULL
  s1 = s1
  s2 = s2
INVARIANTS
  TypeOK
  PinFollowsStatus
  LockHolderSends
PROPERTIES
  ViewFollowsDriver
  RoundsEnd
