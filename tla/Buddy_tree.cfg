\* Eight frames, one of them the kernel's; blocks of every size.
SPECIFICATION Spec
CONSTANTS
  SIZE = 8
  Reserved = 1
  MaxUsers = 2
INVARIANTS TypeOK LongestExact
PROPERTIES DisjointBlocks
