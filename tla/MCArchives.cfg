SPECIFICATION LayersSpec
CONSTANTS
  MaxPartBytes = {63, 64, 65, 70, 79}
  Inputs <- MCInputs
  U32Max = 5
  MaxChunks = 5
  Commands = {c1, c2}
  Archives <- SmallArchiveSet
  Ops <- SmallOps
  Passwords <- SmallPasswords
  Unused = Unused
\* the files are read or were never written, the commands end
CHECK_DEADLOCK FALSE
INVARIANTS
  PartsBounded
  PartsInOrder
  OnlyEntriesAreRead
  ReadIffWhole
  WholeIffFinished
  OldEntriesSurvive
  EntriesStay
PROPERTY
  CommitIsTransform
