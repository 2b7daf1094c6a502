SPECIFICATION FairSpec
CONSTANTS
  WRAP = 24
  Interval = 2
  Smart = 4
  Config = 8
  Slack = 1
  MaxDown = 12
  MaxLag = 5
INVARIANT TypeOK
PROPERTIES
  HoldsAreMeasured
  OneEventPerPress
  PressesAreSeen
  ListensAgain
