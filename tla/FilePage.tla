------------------------------ MODULE FilePage ------------------------------
(***************************************************************************)
(* Demand loading of the pages of a program segment: the four ways in      *)
(* which do_page_fault (trap.c) copies bytes of the program image into a   *)
(* fresh page.  Physical memory is byte-addressed, because a copy may run  *)
(* past the end of its page.  Byte n of the image is the number n; the     *)
(* image is embedded in the kernel, so a read past it finds bytes, too.    *)
(***************************************************************************)
EXTENDS Integers

CONSTANTS
  PGSIZE,     \* bytes in a page
  NPages,     \* user pages are 0 .. NPages - 1
  NFrames,    \* frames 1 .. NFrames are free at first
  Vmas        \* the segments to consider

FilePageAssumption ==
  /\ PGSIZE \in Nat \ {0} /\ NPages \in Nat /\ NFrames \in Nat
  /\ \A v \in Vmas : /\ {v.vm_start, v.vm_end, v.vm_filesz, v.vm_pgoff} \subseteq Nat
                     /\ v.vm_end <= NPages * PGSIZE
                     /\ v.vm_start + v.vm_filesz <= v.vm_end

Pages  == 0 .. NPages - 1
Frames == 1 .. NFrames
Zero   == -1                  \* a byte nobody has written
None   == 0                   \* no valid entry

VARIABLES
  vma,        \* the segment
  table,      \* table[g]: the frame page g is mapped to, or None
  ram         \* physical memory; one more page lies behind the last frame

vars == <<vma, table, ram>>

Init ==
  /\ vma \in Vmas
  /\ table = [g \in Pages |-> None]
  /\ ram = [b \in PGSIZE .. (NFrames + 2) * PGSIZE - 1 |-> Zero]

PGROUNDDOWN(a) == a - (a % PGSIZE)

FileEnd == vma.vm_start + vma.vm_filesz

(* Page va faults at an address of the segment; alloc_page returns frame f, *)
(* n bytes from src of the image on are copied to offset dst of it.         *)
Load(va, f, dst, src, n) ==
  LET g  == va \div PGSIZE
      at == f * PGSIZE + dst
  IN
  /\ table[g] = None /\ \A h \in Pages : table[h] # f
  /\ PGROUNDDOWN(vma.vm_start) <= va /\ va < vma.vm_end
  /\ table' = [table EXCEPT ![g] = f]
  /\ ram' = [b \in DOMAIN ram |->
               IF at <= b /\ b < at + n THEN src + (b - at) ELSE ram[b]]
  /\ UNCHANGED vma

(* A segment of less than a page of file bytes: all of it, at its offset.  *)
FullPage == PGSIZE
WholeSize == vma.vm_filesz
Whole == PGROUNDDOWN(vma.vm_filesz) < PGSIZE
FaultWhole(va, f) ==
  /\ Whole
  /\ Load(va, f, vma.vm_start % PGSIZE, vma.vm_start % PGSIZE, WholeSize)

(* The first page: up to its end.                                          *)
ShortMask == (PGSIZE - vma.vm_start) % (PGSIZE \div 2)
FirstSize == (PGSIZE - vma.vm_start) % PGSIZE
First(va) == ~Whole /\ va = PGROUNDDOWN(vma.vm_start)
FaultFirst(va, f) ==
  /\ First(va)
  /\ Load(va, f, vma.vm_start % PGSIZE, vma.vm_start % PGSIZE, FirstSize)

(* The page of the last file byte: up to and including the byte behind it. *)
Last(va) == ~Whole /\ ~First(va) /\ va = PGROUNDDOWN(FileEnd - 1)
FaultLast(va, f) ==
  /\ Last(va)
  /\ Load(va, f, 0, va - PGROUNDDOWN(vma.vm_start), (FileEnd % PGSIZE) + 1)

(* Every other page, those behind the file bytes included: a whole page.   *)
FaultMiddle(va, f) ==
  /\ ~Whole /\ ~First(va) /\ ~Last(va)
  /\ Load(va, f, 0, va - PGROUNDDOWN(vma.vm_start), PGSIZE)

Next ==
  \E g \in Pages, f \in Frames :
    \/ FaultWhole(g * PGSIZE, f)
    \/ FaultFirst(g * PGSIZE, f)
    \/ FaultLast(g * PGSIZE, f)
    \/ FaultMiddle(g * PGSIZE, f)

Spec == Init /\ [][Next]_vars

-----------------------------------------------------------------------------
(* Bytes of a short segment behind the end of its first page: the first    *)
(* kind of copy has no bound but vm_filesz and puts them behind the frame. *)
Spilled(v) ==
  LET behind == (v.vm_start % PGSIZE) + v.vm_filesz - PGSIZE
  IN  IF v.vm_filesz < PGSIZE /\ behind > 0 THEN behind ELSE 0

(* A file as the linker makes it, as far as the four copies rely on it: the *)
(* offset of vm_start in its page is vm_pgoff, a short segment lies in one  *)
(* page, and a longer one begins and ends inside a page.                    *)
AsLinked(v) ==
  /\ Spilled(v) = 0
  /\ v.vm_pgoff = v.vm_start % PGSIZE
  /\ v.vm_filesz >= PGSIZE =>
       v.vm_start % PGSIZE # 0 /\ (v.vm_start + v.vm_filesz) % PGSIZE # 0

(* What a program finds at virtual address a of a page that is mapped. *)
Byte(a) == ram[table[a \div PGSIZE] * PGSIZE + (a % PGSIZE)]

(* "vm_pgoff: the offset in the file of what the start of the VMA maps to; *)
(* vm_filesz: the length of the file contents" (proc.h:31-32): whichever   *)
(* page is touched first, byte k of the segment is byte vm_pgoff + k.      *)
FromOffset ==
  \A a \in vma.vm_start .. FileEnd - 1 :
    table[a \div PGSIZE] # None =>
      Byte(a) = vma.vm_pgoff + (a - vma.vm_start)

(* The same for the segments of a file as the linker makes it. *)
FileBytesLoaded == AsLinked(vma) => FromOffset

(* How far a fill may reach, for every segment: beside the frame that      *)
(* alloc_page returns it changes at most the first Spilled bytes of the    *)
(* frame behind, whoever has that one, and none of any other: no page in   *)
(* use, and none that alloc_page has yet to hand out.                      *)
Filled(f) == \E g \in Pages : table'[g] = f /\ table[g] # f
OthersKept ==
  \A f \in 1 .. NFrames + 1, o \in 0 .. PGSIZE - 1 :
    ~Filled(f) /\ ~(Filled(f - 1) /\ o < Spilled(vma)) =>
      ram'[f * PGSIZE + o] = ram[f * PGSIZE + o]
FillsConfined == [][OthersKept]_vars
=============================================================================
