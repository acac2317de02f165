\* One fork more than task[] has slots, with the array size of proc.h.
SPECIFICATION Spec
CONSTANTS
  NR_TASKS = 9
  InitTasks = 2
  MaxTasks = 10
  PRIORITY_MIN = 1
  PRIORITY_MAX = 2
INVARIANTS TaskTableHoldsAll
