\* Two tasks, two pages in two VMAs a page apart, frames to spare.
SPECIFICATION Spec
CONSTANTS
  PGSIZE = 2
  NPages = 2
  TableSpan = 2
  MaxFrame = 12
  MaxTasks = 3
  LoadedVmas <- Program
  Data = {1, 2}
INVARIANTS TypeOK RefCountExact TlbCoherent
PROPERTIES FaultResolved PrivateMemory
CHECK_DEADLOCK FALSE
