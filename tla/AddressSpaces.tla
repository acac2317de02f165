--------------------------- MODULE AddressSpaces ---------------------------
(***************************************************************************)
(* What the page tables of the tasks stand for: for every task a function  *)
(* from virtual pages to entries.  The kernel's pages are in every one of  *)
(* them, and an operation on one task's pages is not felt by another.      *)
(***************************************************************************)
EXTENDS Integers

CONSTANTS
  Tasks,         \* slots for address spaces; 0 is the kernel's own
  UserPages,     \* pages a task maps for itself
  KernelPages,   \* pages every task has
  KernelEntry(_),\* the entry of a kernel page
  Frames         \* frames of user pages

VARIABLES
  exists,        \* the tasks that exist
  space          \* space[t][g]: the entry of page g in the space of task t

vars == <<exists, space>>

NoEntry  == [ppn |-> 0, perm |-> {}]
Valid(e) == "V" \in e.perm
Kernel   == [g \in UserPages \cup KernelPages |->
               IF g \in KernelPages THEN KernelEntry(g) ELSE NoEntry]

Init ==
  /\ exists = {0, 1}
  /\ space = [t \in Tasks |-> IF t \in exists THEN Kernel ELSE NoEntry]

Becomes(t, g, e) == space' = [space EXCEPT ![t][g] = e] /\ UNCHANGED exists

(* A frame is mapped for the user where there was none. *)
Map(t, g) ==
  /\ ~Valid(space[t][g])
  /\ \E e \in {space'[t][g]} :
       e.ppn \in Frames /\ {"U", "V"} \subseteq e.perm /\ Becomes(t, g, e)

(* A page becomes writable, in its frame or in another one. *)
MakeWritable(t, g) ==
  /\ Valid(space[t][g])
  /\ \E f \in {space'[t][g].ppn} \cap Frames :
       Becomes(t, g, [ppn |-> f, perm |-> space[t][g].perm \cup {"W"}])

(* Parent t and child c share the user pages of t, read-only. *)
Fork(t, c) ==
  LET shared == [g \in UserPages \cup KernelPages |->
                   IF g \in UserPages THEN [space[t][g] EXCEPT !.perm = @ \ {"W"}]
                                      ELSE space[t][g]]
  IN
  /\ c \in Tasks \ exists
  /\ exists' = exists \cup {c}
  /\ space' = [space EXCEPT ![t] = shared, ![c] = shared]

Next ==
  \E t \in exists \ {0} :
    \/ \E g \in UserPages : Map(t, g) \/ MakeWritable(t, g)
    \/ \E c \in Tasks : Fork(t, c)

Spec == Init /\ [][Next]_vars
=============================================================================
