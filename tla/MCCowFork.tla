----------------------------- MODULE MCCowFork -----------------------------
(***************************************************************************)
(* Instances of CowFork for TLC.  Pages are two bytes, so that a VMA can   *)
(* begin or end inside a page.                                             *)
(***************************************************************************)
EXTENDS CowFork

(* The list load_program leaves: the stack, mapped last, is the head. *)
Stack(first, last) ==
  [vm_start |-> first, vm_end |-> last, flags |-> {"R", "W"}, anon |-> TRUE]
Segment(first, last, rights) ==
  [vm_start |-> first, vm_end |-> last, flags |-> rights, anon |-> FALSE]

(* A segment that ends inside page 0, and the stack on page 1. *)
Program == << Stack(2, 4), Segment(0, 1, {"R", "W", "X"}) >>

(* Two segments with different rights meet inside page 0; the second ends  *)
(* where the stack begins.                                                *)
Meeting == << Stack(2, 4), Segment(1, 2, {"R", "W"}), Segment(0, 1, {"R", "X"}) >>

(* One page, small enough for several generations of forks. *)
OnePage == << Segment(0, 1, {"R", "W"}) >>

(* Which of these programs the theorems of CowForkProofs speak of. *)
ASSUME LayoutsCovered ==
  /\ \A l \in {Program, Meeting, OnePage} : OneSource(l)
  /\ \A l \in {Program, OnePage} : OneRights(l) /\ RangesApart(l)
  /\ LoadedVmas # Meeting => FramesSuffice
=============================================================================
