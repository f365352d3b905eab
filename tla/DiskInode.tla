----------------------------- MODULE DiskInode -----------------------------
(***************************************************************************)
(* The index of a file (easy-fs/src/layout.rs): direct entries and block   *)
(* trees of depth one, two and three.  A block is a function on Offset; an *)
(* entry of an index block and a unit of data both take one offset.        *)
(*                                                                         *)
(* A builder b has the fields disk, inode, panicked, and the locals of     *)
(* increase_size: new_blocks, cur (current_blocks), total, leaf.           *)
(***************************************************************************)
EXTENDS SequencesExt, Loops

CONSTANTS
  BLOCK_SZ,             \* units in a block (512 bytes)
  INODE_DIRECT_COUNT    \* direct entries (27)

ASSUME DiskInodeAssumption ==
  /\ BLOCK_SZ \in Nat \ {0, 1}
  /\ INODE_DIRECT_COUNT \in Nat

Offset == 0 .. BLOCK_SZ - 1
ZeroBlock == [i \in Offset |-> 0]

INDIRECT1_COUNT == BLOCK_SZ
INDIRECT2_COUNT == INDIRECT1_COUNT * INDIRECT1_COUNT
INDIRECT3_COUNT == INDIRECT2_COUNT * INDIRECT1_COUNT
INDIRECT1_BOUND == INODE_DIRECT_COUNT + INDIRECT1_COUNT
INDIRECT2_BOUND == INDIRECT1_BOUND + INDIRECT2_COUNT

initialize(type) ==
  [size |-> 0, direct |-> [k \in 0 .. INODE_DIRECT_COUNT - 1 |-> 0],
   indirect1 |-> 0, indirect2 |-> 0, indirect3 |-> 0, type_ |-> type]

ceil_div(n, d) == (n + d - 1) \div d
data_blocks(size) == ceil_div(size, BLOCK_SZ)

(* The blocks of a file of a size, index blocks included. *)
total_blocks(size) ==
  LET n == data_blocks(size)
      over2 == n - INDIRECT2_BOUND
  IN n + (IF n > INODE_DIRECT_COUNT THEN 1 ELSE 0)
       + (IF n > INDIRECT1_BOUND
          THEN 1 + Min({ceil_div(n - INDIRECT1_BOUND, INDIRECT1_COUNT), INDIRECT1_COUNT}) ELSE 0)
       + (IF over2 > 0 THEN 1 + ceil_div(over2, INDIRECT2_COUNT) + ceil_div(over2, INDIRECT1_COUNT) ELSE 0)

(* The block that holds data block inner_id of a file. *)
get_block_id(disk, inode, inner_id) ==
  LET last2 == inner_id - INDIRECT1_BOUND
      last3 == inner_id - INDIRECT2_BOUND
  IN IF inner_id < INODE_DIRECT_COUNT THEN inode.direct[inner_id]
     ELSE IF inner_id < INDIRECT1_BOUND THEN disk[inode.indirect1][inner_id - INODE_DIRECT_COUNT]
     ELSE IF inner_id < INDIRECT2_BOUND
     THEN disk[disk[inode.indirect2][last2 \div INDIRECT1_COUNT]][last2 % INDIRECT1_COUNT]
     ELSE disk[disk[disk[inode.indirect3][last3 \div INDIRECT2_COUNT]]
                   [(last3 % INDIRECT2_COUNT) \div INDIRECT1_COUNT]][last3 % INDIRECT1_COUNT]

-----------------------------------------------------------------------------
(* Growing. *)

(* Fault: a device that accepts any block. *)
put_anywhere(b, id, i, value) ==
  IF id \in DOMAIN b.disk THEN [b EXCEPT !.disk[id][i] = value] ELSE b

(* A write through the block cache; the device panics on a block that it   *)
(* does not have.                                                          *)
put(b, id, i, value) ==
  IF id \in DOMAIN b.disk
  THEN [b EXCEPT !.disk[id][i] = value]
  ELSE [b EXCEPT !.panicked = "no such block"]

(* new_blocks.next().unwrap(), stored in an entry of an index block or in  *)
(* a field of the inode.                                                   *)
next_into(b, id, i) ==
  IF b.new_blocks = <<>>
  THEN [b EXCEPT !.panicked = "unwrap"]
  ELSE put([b EXCEPT !.new_blocks = Tail(@)], id, i, Head(b.new_blocks))

next_for(b, field) ==
  IF b.new_blocks = <<>>
  THEN [b EXCEPT !.panicked = "unwrap"]
  ELSE [b EXCEPT !.new_blocks = Tail(@), !.inode[field] = Head(b.new_blocks)]

fill_direct(b) ==
  LET fill(c, k) ==
        IF c.new_blocks = <<>>
        THEN [c EXCEPT !.panicked = "unwrap"]
        ELSE [c EXCEPT !.inode.direct[k] = Head(c.new_blocks), !.new_blocks = Tail(@), !.cur = k + 1]
  IN ForEach(fill, b, Upto(b.cur, Min({b.total, INODE_DIRECT_COUNT})))

(* "alloc indirectN": the next tree gets its root when the part before it  *)
(* has just been filled.                                                   *)
alloc_indirect(b, field, count) ==
  LET c == IF b.cur = count THEN next_for(b, field) ELSE b
  IN [c EXCEPT !.cur = @ - count, !.total = @ - count]

fill_indirect1(b) ==
  ForEach(LAMBDA c, k : [next_into(c, c.inode.indirect1, k) EXCEPT !.cur = k + 1],
          b, Upto(b.cur, Min({b.total, INDIRECT1_COUNT})))

(* From (a0, b0) to (a1, b1), that is, from leaf to leaf. *)
fill_indirect2(b) ==
  LET fill(c, k) ==
        LET a0 == k \div INDIRECT1_COUNT
            b0 == k % INDIRECT1_COUNT
            d == IF b0 = 0 THEN next_into(c, c.inode.indirect2, a0) ELSE c
        IN Then(d, [next_into(d, d.disk[d.inode.indirect2][a0], b0) EXCEPT !.cur = k + 1])
  IN ForEach(fill, b, Upto(b.cur, Min({b.total, INDIRECT2_COUNT})))

(* Fault: an entry that is in use gets a new block too. *)
RECURSIVE build_tree_anew(_, _, _)
build_tree_anew(b, id, depth) ==
  LET visit(c, i) ==
        LET d == next_into(c, id, i)
        IN IF c.leaf < c.total THEN Then(d, build_tree_anew(d, d.disk[id][i], depth + 1)) ELSE c
  IN IF depth = 3
     THEN [b EXCEPT !.leaf = @ + 1]
     ELSE ForEach(visit, b, Upto(0, INDIRECT1_COUNT))

(* Extends the tree below block id from cur to total leaves; leaf counts   *)
(* the leaves passed.                                                      *)
RECURSIVE build_tree(_, _, _)
build_tree(b, id, depth) ==
  LET visit(c, i) ==
        LET d == IF c.leaf >= c.cur THEN next_into(c, id, i) ELSE c
        IN IF c.leaf < c.total THEN Then(d, build_tree(d, d.disk[id][i], depth + 1)) ELSE c
  IN IF depth = 3
     THEN [b EXCEPT !.leaf = @ + 1]
     ELSE ForEach(visit, b, Upto(0, INDIRECT1_COUNT))

increase_size(b0, new_size) ==
  LET b == fill_direct([b0 EXCEPT !.cur = data_blocks(b0.inode.size), !.total = data_blocks(new_size),
                                  !.leaf = 0, !.inode.size = new_size])
      root1 == alloc_indirect(b, "indirect1", INODE_DIRECT_COUNT)
      b1 == Then(root1, fill_indirect1(root1))
      root2 == alloc_indirect(b1, "indirect2", INDIRECT1_COUNT)
      b2 == Then(root2, fill_indirect2(root2))
      root3 == alloc_indirect(b2, "indirect3", INDIRECT2_COUNT)
  IN Then(b, IF b.total <= INODE_DIRECT_COUNT THEN b
     ELSE Then(b1, IF b1.total <= INDIRECT1_COUNT THEN b1
     ELSE Then(b2, IF b2.total <= INDIRECT2_COUNT THEN b2
     ELSE Then(root3, build_tree(root3, root3.inode.indirect3, 0)))))

-----------------------------------------------------------------------------
(* Clearing. *)

Entries(disk, id, n) == [i \in 1 .. n |-> disk[id][i - 1]]

(* The blocks below block id up to max_leaf, and the leaves passed. *)
RECURSIVE collect_tree_blocks(_, _, _, _, _)
collect_tree_blocks(disk, id, cur_leaf, max_leaf, depth) ==
  LET visit(c, i) ==
        LET sub == collect_tree_blocks(disk, disk[id][i], c.leaf, max_leaf, depth + 1)
        IN IF c.leaf < max_leaf
           THEN [c EXCEPT !.leaf = sub.leaf, !.v = Append(@, disk[id][i]) \o sub.v]
           ELSE c
  IN IF depth = 3
     THEN [v |-> <<>>, leaf |-> cur_leaf + 1, panicked |-> "no"]
     ELSE ForEach(visit, [v |-> <<>>, leaf |-> cur_leaf, panicked |-> "no"], Upto(0, INDIRECT1_COUNT))

(* The blocks clear_size returns.  The parts for the deeper trees are only *)
(* reached when the file has them.                                         *)
clear_size_blocks(disk, inode) ==
  LET n == data_blocks(inode.size)
      n1 == n - INODE_DIRECT_COUNT
      n2 == n1 - INDIRECT1_COUNT
      n3 == n2 - INDIRECT2_COUNT
      leaves2 == Min({n2, INDIRECT2_COUNT})
      sub2(a) == <<disk[inode.indirect2][a]>>
                 \o Entries(disk, disk[inode.indirect2][a],
                            Min({leaves2 - a * INDIRECT1_COUNT, INDIRECT1_COUNT}))
      part1 == <<inode.indirect1>> \o Entries(disk, inode.indirect1, Min({n1, INDIRECT1_COUNT}))
      part2 == <<inode.indirect2>>
               \o FlattenSeq([k \in 1 .. ceil_div(leaves2, INDIRECT1_COUNT) |-> sub2(k - 1)])
      part3 == <<inode.indirect3>> \o collect_tree_blocks(disk, inode.indirect3, 0, n3, 0).v
  IN [k \in 1 .. Min({n, INODE_DIRECT_COUNT}) |-> inode.direct[k - 1]]
     \o (IF n1 > 0 THEN part1 ELSE <<>>)
     \o (IF n2 > 0 THEN part2 ELSE <<>>)
     \o (IF n3 > 0 THEN part3 ELSE <<>>)

(* assert!(data_blocks <= INODE_INDIRECT3_COUNT), before the blocks of the *)
(* second tree are subtracted.                                             *)
clear_size_assert(inode) ==
  LET n2 == data_blocks(inode.size) - INDIRECT1_BOUND
  IN n2 > 0 => n2 <= INDIRECT3_COUNT

clear_size_inode(inode) == initialize(inode.type_)

-----------------------------------------------------------------------------
(* Data, block by block; a unit at a position goes to or comes from the    *)
(* block of that position.                                                 *)

block_at(disk, inode, pos) == get_block_id(disk, inode, pos \div BLOCK_SZ)

read_end(inode, offset, len) == Min({offset + len, inode.size})

(* What read_at copies to the buffer: nothing from the end on. *)
read_at(disk, inode, offset, len) ==
  [k \in 1 .. IF offset < read_end(inode, offset, len) THEN read_end(inode, offset, len) - offset ELSE 0 |->
     disk[block_at(disk, inode, offset + k - 1)][(offset + k - 1) % BLOCK_SZ]]

(* Fault: every block is written from its first unit on. *)
write_at_block_start(b, offset, buf) ==
  ForEach(LAMBDA c, k : put(c, block_at(c.disk, c.inode, offset + k - 1), (k - 1) % BLOCK_SZ, buf[k]),
          b, Upto(1, Len(buf) + 1))

(* assert!(start <= end); callers grow the file first and buf is not empty. *)
write_at(b, offset, buf) ==
  LET len == Min({offset + Len(buf), b.inode.size}) - offset
  IN IF len < 0
     THEN [b EXCEPT !.panicked = "assert"]
     ELSE ForEach(LAMBDA c, k : put(c, block_at(c.disk, c.inode, offset + k - 1),
                                    (offset + k - 1) % BLOCK_SZ, buf[k]),
                  b, Upto(1, len + 1))
============================================================================
