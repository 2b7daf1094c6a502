SPECIFICATION FairSpec
CONSTANTS
  Days = 2
  Minutes = 2
  Seconds = 3
  Offset = 3
  RETRY_COUNT = 3
  WAIT = 1
  RelaySeq <- TwoRelays
  Plans <- SomePlans
  COUNT = 1
  Slack = 1
  NULL = NULL
INVARIANT TypeOK
PROPERTIES
  DrivesOnTime
  MinuteServed
  OnceLetsGo
  OnceEnds
  ClockStays
  ObtainReturns
