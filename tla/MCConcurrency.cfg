SPECIFICATION LayersSpec
CONSTANTS
  p = p
  q = q
  w1 = w1
  w2 = w2
  main = main
  Jobs = {1, 2, 3}
  Paths <- MCPaths
  Inputs <- MCInputs
  Threads <- MCThreads
  Now = 9
  Indices = {0, 1, 2, 4, 5}
  MaxLength = 5
\* "done" and "failed" are the end; once every ticket is gone and every result
\* out, nothing is left to do
CHECK_DEADLOCK FALSE
INVARIANTS
  MutualExclusion
  RegistrationOrder
  AllInOrder
  SameAsSequential
  NothingHalfWritten
  NewestStays
PROPERTIES
  ExtractTerminates
  TicketsPass
