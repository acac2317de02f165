\* Several generations of forks of a one-page program, and not one frame more than needed.
SPECIFICATION Spec
CONSTANTS
  PGSIZE = 2
  NPages = 1
  TableSpan = 2
  MaxFrame = 21
  MaxTasks = 5
  LoadedVmas <- OnePage
  Data = {1, 2}
INVARIANTS SoleWriter NeverOutOfFrames FreshFramesClean
CHECK_DEADLOCK FALSE
