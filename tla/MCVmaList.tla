----------------------------- MODULE MCVmaList -----------------------------
(* Programs of up to three headers, of which some are not loaded.  Segments *)
(* are disjoint, as the linker makes them, and may be empty or adjacent.    *)
EXTENDS VmaList

Header(type, flags, start, size) ==
  [p_type |-> type, p_flags |-> flags, p_paddr |-> start, p_memsz |-> size]
Stack == [vm_start |-> 8, vm_end |-> 10, vm_flags |-> {"R", "W"}]

(* The loader must not take the headers around the table for its own.       *)
Junk == Header(1, {"R", "W"}, 6, 1)
Image(phdrs) == [ehdr |-> [e_phoff |-> 2, e_phnum |-> Len(phdrs)],
                 phdr |-> <<Junk>> \o phdrs \o <<Junk>>]
Programs ==
  {Image(<<Header(t, {"R", "X"}, 1, m), Header(2, {"R"}, 0, 9), Header(u, {"R", "W"}, 1 + m, n)>>) :
     t, u \in {1, 2}, m \in 0 .. 3, n \in 0 .. 3}
=============================================================================
