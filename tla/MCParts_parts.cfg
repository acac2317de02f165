\* Format, FilePage, VmaList, PageTable, NestedTrap, Boot and InlineAsm; most stop when their work is done.
SPECIFICATION Spec
CONSTANTS
  IntBits = 5
  LongBits = 6
  Calls <- AllCalls
  PGSIZE = 4
  NPages = 4
  NFrames = 4
  Vmas <- AllVmas
  MaxTasks = 5
  MaxNodes = 12
  Images <- Programs
  StackArea <- Stack
  Addresses = {0, 1, 2, 3, 4, 5, 6, 7, 8, 9, 10}
  Radix = 2
  UserPages = {0, 1, 2}
  KernelPages = {4, 5, 7}
  KernelEntry <- KernelImage
  UserFrames = {1, 2}
  VmaRights = {{"R", "W"}}
  MaxSpaces = 3
  MaxTables = 16
  BufferPages = 3
  StackPages = {"absent", "shared", "writable"}
  RamPages = 32
  SbiPages = 2
  Layouts <- Kernels
  ArrayPages = 2
  TableSpan = 8
  Areas = 3
  Registers = {"a0", "a1", "a2", "a3", "a4", "a5", "a6", "a7", "t0", "t1", "s1", "s2"}
  UserBuild = {"a2", "a3", "a4", "a5"}
  Char = "char"
  Time = "time"
INVARIANTS NeverLost FreePagesUsable TextExpected FileBytesLoaded WellLinked FindsSegment TablesPrivate UserGoesOn CallsFaithful
PROPERTIES FillsConfined AddressSpaces WriteReturns
CHECK_DEADLOCK FALSE
