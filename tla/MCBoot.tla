------------------------------- MODULE MCBoot -------------------------------
(* Kernels whose sections have one to three pages. *)
EXTENDS Boot

Kernels == [text : 1 .. 3, rodata : 1 .. 3, data : 1 .. 3, bss : 1 .. 3]
=============================================================================
