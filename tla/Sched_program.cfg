\* The system as it boots: one task, which forks.
SPECIFICATION Spec
CONSTANTS
  NR_TASKS = 9
  InitTasks = 2
  MaxTasks = 5
  PRIORITY_MIN = 1
  PRIORITY_MAX = 4
INVARIANTS TypeOK RunningHasTime BoundedWait
PROPERTIES SwitchesAtSliceEnd EveryTaskRuns
