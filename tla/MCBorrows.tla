----------------------------- MODULE MCBorrows -----------------------------
(* The instance of Borrows for TLC; addresses of TCBs are interchangeable. *)
EXTENDS Borrows, TLC

Addresses == Permutations(Task \ {INITPROC})
============================================================================
