\* A user program that uses t0, interrupted once.
SPECIFICATION Spec
CONSTANTS
  MaxTasks = 2
  PcMod = 1
  UserData = {1}
  UserStacks = {0, 1}
  UserRegs = {"t0"}
INVARIANT T0Kept
