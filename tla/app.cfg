SPECIFICATION AppFairSpec
CONSTANTS
  ClientTasks = {c1, c2}
  Reconnectors = {r1, r2}
  Main = main
  NULL = NULL
  SAMPLES_PER_SECOND = 2
  Limit = 1500
  Currents <- AroundLimit
  c1 = c1
  c2 = c2
  r1 = r1
  r2 = r2
  main = main
INVARIANTS
  AppTypeOK
  OneClientTask
  SamplesKept
  OvercurrentOpens
PROPERTIES
  LinkComesBack
  ProtectionStarts
  MeasuresOn
