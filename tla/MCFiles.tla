------------------------------ MODULE MCFiles ------------------------------
(* The instance of Files for TLC.  Addresses of OSInodes and of TCBs are   *)
(* interchangeable: the code never compares or orders them.                *)
EXTENDS Files, TLC

MCFlags == {{}, {"WRONLY", "CREATE"}, {"RDWR", "TRUNC"}, {"RDWR"}}
MCShapes == {<<1>>, <<2, 1>>}
Addresses == Permutations(Handle) \cup Permutations(Task \ {INITPROC})
============================================================================
