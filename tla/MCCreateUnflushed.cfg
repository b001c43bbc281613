SPECIFICATION Spec
CONSTANTS
  Layouts <- SmallLayouts
  Commands <- SmallCommands
  Results <- SmallResults
  MaxParts = 3
INVARIANTS
  CreatedIsComplete
CHECK_DEADLOCK FALSE
