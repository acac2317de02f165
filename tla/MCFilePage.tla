----------------------------- MODULE MCFilePage -----------------------------
(* Segments for FilePage, with pages of four bytes. *)
EXTENDS FilePage

Segment(start, filesz, memsz, pgoff) ==
  [vm_start |-> start, vm_end |-> start + memsz, vm_filesz |-> filesz,
   vm_pgoff |-> pgoff]

(* All segments within the pages there are: short ones in one page and     *)
(* across a boundary, longer ones that begin or end on a boundary or       *)
(* inside a page.  do_page_fault never reads vm_pgoff: it is that of the   *)
(* first segment of a file.                                                *)
AllVmas ==
  {v \in {Segment(s, n, n + b, s % 4) : s \in 0 .. 7, n \in 0 .. 11, b \in 0 .. 5} :
     v.vm_end <= NPages * 4}
=============================================================================
