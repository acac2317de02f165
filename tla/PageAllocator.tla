--------------------------- MODULE PageAllocator ---------------------------
(***************************************************************************)
(* What the page allocator of mm.c promises its callers: blocks of page    *)
(* frames, disjoint, each with a count of its users, and free again when   *)
(* the last user is gone.  Requests are rounded up to powers of two, a     *)
(* block is aligned to its size, the lowest one is given out first, and a  *)
(* request fails only if no aligned block of its size is free.  Module     *)
(* Buddy models the code and is checked to implement this specification.   *)
(***************************************************************************)
EXTENDS Integers

CONSTANTS
  SIZE,       \* page frames are 0 .. SIZE - 1; a power of two
  Reserved,   \* frames 0 .. Reserved - 1 hold the kernel from the boot on
  MaxUsers    \* bound on the users of one block

VARIABLES
  blocks,     \* the blocks given out: records [first, size]
  users       \* users[f]: users of the block with first frame f, or 0

vars == <<blocks, users>>

Frames == 0 .. SIZE - 1
FramesOf(b) == b.first .. b.first + b.size - 1
Occupied == UNION {FramesOf(b) : b \in blocks}

(* The powers of two up to SIZE, the sizes of blocks. *)
Sizes == {s \in 1 .. SIZE : SIZE % s = 0}

RoundUp(n) == CHOOSE s \in Sizes : n <= s /\ \A t \in Sizes : n <= t => s <= t

FreeBlocks(s) ==
  LET free == Frames \ Occupied
  IN  {b \in [first : Frames, size : {s}] : b.first % s = 0 /\ FramesOf(b) \subseteq free}

Init ==
  /\ blocks = {[first |-> f, size |-> 1] : f \in 0 .. Reserved - 1}
  /\ users = [f \in Frames |-> IF f < Reserved THEN 1 ELSE 0]

Alloc(n) ==
  /\ n <= SIZE
  /\ LET free == FreeBlocks(RoundUp(n)) IN
     \E b \in free :
       /\ \A c \in free : b.first <= c.first
       /\ blocks' = blocks \cup {b}
       /\ users' = [users EXCEPT ![b.first] = 1]

AllocFails(n) ==
  /\ n <= SIZE => FreeBlocks(RoundUp(n)) = {}
  /\ UNCHANGED vars

(* A further user of a block. *)
Get(b) ==
  /\ users[b.first] < MaxUsers
  /\ users' = [users EXCEPT ![b.first] = @ + 1]
  /\ UNCHANGED blocks

(* A user gives the block up. *)
Put(b) ==
  /\ users' = [users EXCEPT ![b.first] = @ - 1]
  /\ blocks' = IF users[b.first] = 1 THEN blocks \ {b} ELSE blocks

Next ==
  \/ \E n \in 1 .. SIZE + 1 : Alloc(n) \/ AllocFails(n)
  \/ \E b \in blocks : Get(b) \/ Put(b)

Spec == Init /\ [][Next]_vars
=============================================================================
