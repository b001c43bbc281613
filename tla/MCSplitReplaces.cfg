SPECIFICATION Spec
CONSTANTS
  Layouts <- SmallLayouts
  Commands <- SmallCommands
  Results <- SmallResults
  MaxParts = 3
INVARIANTS
  SplitKeepsFiles
CHECK_DEADLOCK FALSE
