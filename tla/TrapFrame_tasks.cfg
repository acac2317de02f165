\* Two user tasks, parent and child, interrupted anywhere.
SPECIFICATION Spec
CONSTANTS
  MaxTasks = 3
  PcMod = 2
  UserData = {1}
  UserStacks = {0, 1}
  UserRegs = {"sp", "s0"}
INVARIANTS TypeOK ContextKept
