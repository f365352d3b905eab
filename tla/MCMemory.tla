------------------------------ MODULE MCMemory ------------------------------
(* Two small programs on pages of four words. *)
EXTENDS Memory

Small == << [start |-> 1, end |-> 2, flags |-> {"R", "X"}, data |-> <<Value(7), Value(8)>>] >>

(* A text page and two data pages, of which the file fills the first and   *)
(* one word of the second.                                                 *)
Large == << [start |-> 1, end |-> 2, flags |-> {"R", "X"}, data |-> <<Value(9)>>],
            [start |-> 3, end |-> 5, flags |-> {"R", "W"},
             data |-> <<Value(1), Value(2), Value(3), Value(4), Value(5)>>] >>

MCProgram == {Small, Large}

(* A word that reads as a valid entry for a frame of the kernel. *)
MCWord == {[ppn |-> 0, flags |-> {"V", "R", "W", "U"}]}
============================================================================
