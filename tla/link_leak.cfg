SPECIFICATION FairSpec
CONSTANTS
  ClientTasks = {c1, c2}
  Reconnectors = {r1, r2, r3}
  Main = main
  NULL = NULL
  c1 = c1
  c2 = c2
  c3 = c3
  r1 = r1
  r2 = r2
  r3 = r3
  main = main
PROPERTY ReconnectorsEnd
