----------------------------- MODULE MCProcess -----------------------------
(* Instances of Process for TLC.  TCB addresses other than INITPROC are    *)
(* interchangeable: the code never compares or orders them.                *)
EXTENDS Process, TLC

Addresses == Permutations(Task \ {INITPROC})
============================================================================
