\* Every program of main.c; the task table has a slot to spare for the bound.
SPECIFICATION Spec
CONSTANTS
  NR_TASKS = 9
  InitTasks = 2
  MaxTasks = 10
  PRIORITY_MIN = 1
  PRIORITY_MAX = 2
  Mains <- AllMains
  Wrap = 4
  Ticks <- SomeTicks
  TickAt <- SomeSteps
INVARIANTS TypeOK LinesWhole BranchesTaken FitsTable
PROPERTIES CountsOn EveryTaskPrints
