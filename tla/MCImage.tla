-------------------------------- MODULE MCImage --------------------------------
(***************************************************************************)
(* Files for TLC.  "pie" and "fixed" have the usual layout, a read-only    *)
(* segment first, "flat" an executable one; "lib" has two executable       *)
(* segments, and two functions of different sizes at one address.          *)
(***************************************************************************)
EXTENDS Image

X(vaddr, filesz) == [vaddr |-> vaddr, filesz |-> filesz, exec |-> TRUE]
R(vaddr, filesz) == [vaddr |-> vaddr, filesz |-> filesz, exec |-> FALSE]
F(path, n, addr, size) == [name |-> <<path, n>>, addr |-> addr, size |-> size]

Files ==
    [pie   |-> [pie |-> TRUE, interp |-> TRUE, loads |-> <<R(0, 2), X(3, 3)>>,
                syms |-> <<F("pie", 1, 5, 1), F("pie", 2, 3, 2)>>],
     fixed |-> [pie |-> FALSE, interp |-> FALSE, loads |-> <<R(8, 2), X(10, 2)>>,
                syms |-> <<F("fixed", 1, 10, 0), F("fixed", 2, 11, 1)>>],
     flat  |-> [pie |-> TRUE, interp |-> TRUE, loads |-> <<X(0, 4), R(4, 2)>>,
                syms |-> <<F("flat", 1, 0, 1), F("flat", 2, 1, 3)>>],
     lib   |-> [pie |-> TRUE, interp |-> FALSE, loads |-> <<R(0, 2), X(2, 2), X(6, 2)>>,
                syms |-> <<F("lib", 1, 6, 1), F("lib", 2, 2, 2), F("lib", 3, 2, 1)>>],
     ld    |-> [pie |-> TRUE, interp |-> FALSE, loads |-> <<X(0, 3)>>,
                syms |-> <<F("ld", 1, 1, 2)>>],
     kernel |-> [pie |-> FALSE, interp |-> FALSE, loads |-> <<R(40, 2), X(42, 2)>>,
                syms |-> <<F("kernel", 1, 42, 0)>>]]

AllNames == Paths \X (1..3)
Arguments == {<<>>, <<1>>, <<0, 2>>, <<2, 1, 0>>, <<3>>}
Addresses == (9..24) \cup {42, 45}
=============================================================================
