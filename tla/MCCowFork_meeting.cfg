\* Two segments meet inside a page, the second ends where the stack begins; frames run out.
SPECIFICATION Spec
CONSTANTS
  PGSIZE = 2
  NPages = 2
  TableSpan = 2
  MaxFrame = 13
  MaxTasks = 4
  LoadedVmas <- Meeting
  Data = {1, 2}
INVARIANTS RefCountCovers
PROPERTIES PrivateMemory
CHECK_DEADLOCK FALSE
