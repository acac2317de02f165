\* Three user tasks: a fork of a fork, and forks after a switch.
SPECIFICATION Spec
CONSTANTS
  MaxTasks = 4
  PcMod = 1
  UserData = {1}
  UserStacks = {0, 1}
  UserRegs = {"sp"}
INVARIANTS KernelStackReady UserStaysUser
