SPECIFICATION Spec
CONSTANTS
  p = p
  q = q
  w1 = w1
  w2 = w2
  main = main
  Jobs = {1, 2, 3}
  Paths <- MCPaths
  Inputs <- LinkFirst
  Threads <- MCThreads
  Now = 9
\* "done" and "failed" are the end
CHECK_DEADLOCK FALSE
INVARIANT
  LastEntryWins
