SPECIFICATION SerialSpec
CONSTANTS
  Ids = {a, b}
  Info <- AOnceBWeekly
  MAX_TASKS = 2
  Handles = {h1, h2}
  WsTasks = {ws}
  HttpTasks = {}
  Main = main
  NULL = NULL
  Garbage <- None
  a = a
  b = b
  h1 = h1
  h2 = h2
  h3 = h3
  ws = ws
  http = http
  main = main
PROPERTY BootLoadsSaved
