SPECIFICATION Overlapping
CONSTANTS
  Ids = {a, b}
  Info <- AOnce
  MAX_TASKS = 2
  Handles = {h1, h2}
  WsTasks = {}
  HttpTasks = {http}
  Main = main
  NULL = NULL
  Garbage <- None
  a = a
  b = b
  h1 = h1
  h2 = h2
  h3 = h3
  ws = ws
  http = http
  main = main
 
PROPERTY CallsReturn
