\* A user program that forks with 0 in a0.
SPECIFICATION Spec
CONSTANTS
  MaxTasks = 3
  PcMod = 1
  UserData = {0}
  UserStacks = {0, 1}
  UserRegs = {"a0"}
PROPERTY ForkTellsParent
