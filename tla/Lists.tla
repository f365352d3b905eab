------------------------------- MODULE Lists -------------------------------
(* The Vec and VecDeque operations of the kernel on sequences, for the     *)
(* modules with proofs (SequencesExt would bring Bags into each of them).  *)
EXTENDS Integers, Sequences, Functions

(* last(), what pop() leaves, and what remove(i - 1) leaves. *)
Last(list) == list[Len(list)]
Front(list) == SubSeq(list, 1, Len(list) - 1)
RemoveAt(list, i) == SubSeq(list, 1, i - 1) \o SubSeq(list, i + 1, Len(list))
============================================================================
