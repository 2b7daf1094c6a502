SPECIFICATION Spec
CONSTANTS
  RelaySeq <- OneRelay
  ActiveLow = {2}
  Schedules = {s1}
  Plans <- OnPlan
  NULL = NULL
  s1 = s1
  s2 = s2
PROPERTY UpdateAnswersStatus
