----------------------------- MODULE BlockStore -----------------------------
(***************************************************************************)
(* What easy-fs relies on when it goes through the block cache: an array   *)
(* of blocks per device whose reads return the last write, and a device    *)
(* that lags behind block by block until a sync brings it up to date.      *)
(***************************************************************************)
CONSTANTS Device, Block, Data

VARIABLES
  contents,   \* what the file system sees
  disk,       \* what the device holds
  out         \* the last access: device, block, value read or written

vars == <<contents, disk, out>>

Init ==
  /\ contents = disk
  /\ disk \in [Device -> [Block -> Data]]
  /\ out \in [op : {"read"}, dev : Device, block : Block, value : Data]
  /\ out.value = contents[out.dev][out.block]

Read(d, b) ==
  /\ out' = [op |-> "read", dev |-> d, block |-> b, value |-> contents[d][b]]
  /\ UNCHANGED <<contents, disk>>

Write(d, b, v) ==
  /\ contents' = [contents EXCEPT ![d] = [@ EXCEPT ![b] = v]]
  /\ out' = [op |-> "modify", dev |-> d, block |-> b, value |-> v]
  /\ UNCHANGED disk

(* An eviction writes one block back, at a moment the client cannot tell. *)
WriteBack(d, b) ==
  /\ disk' = [disk EXCEPT ![d] = [@ EXCEPT ![b] = contents[d][b]]]
  /\ UNCHANGED <<contents, out>>

Sync == disk' = contents /\ UNCHANGED <<contents, out>>

Next ==
  \/ \E d \in Device, b \in Block : Read(d, b) \/ WriteBack(d, b)
  \/ \E d \in Device, b \in Block, v \in Data : Write(d, b, v)
  \/ Sync

Spec == Init /\ [][Next]_vars
============================================================================
