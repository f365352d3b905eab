---------------------------- MODULE MCBlockCache ----------------------------
(* Instances of BlockCache for TLC.  Addresses, block ids and data are     *)
(* only ever compared for equality.                                        *)
EXTENDS BlockCache, TLC

Symmetric == Permutations(Addr) \cup Permutations(Block) \cup Permutations(Data)
============================================================================
