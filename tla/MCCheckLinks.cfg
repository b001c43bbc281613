SPECIFICATION LayersSpec
CONSTANTS
  Alphabet <- MCAlphabet
  Writers = {w1, w2}
  Temps = {t1, t2}
  Old = Old
  Other = Other
  MaxChunks = 5
  NANOS = 2
  Nowhere = "nowhere"
  MaxDepth = 4
  SegmentSize = 2
  TagLen = 2
  U32Max = 2
  MaxData = 7
  ReadSizes = {1, 3}
  BlockSize = 3
  Batch = 2
  MaxBytes = 13
  BlockReads = {1, 4, 8}
\* the walk has ended, the streams are read, the writers have stopped
CHECK_DEADLOCK FALSE
INVARIANTS
  WarnsOfMissingLinks
