SPECIFICATION Spec
CONSTANTS
  Names = {1, 2}
  MaxTime = 4
  MaxEntries = 2
  TicksPerSecond = 3
  Timestamps = {"none", "override", "clamp"}
  MissingTimes = {"assume"}
  Given = 3
  Assumed = 1
\* nothing on the disk, and no more changes
CHECK_DEADLOCK FALSE
INVARIANTS
  UpToDate
PROPERTIES
  PrunesWhatIsGone
  CommandEnds
