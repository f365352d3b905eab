------------------------------- MODULE EasyFs -------------------------------
(***************************************************************************)
(* The file system above the block cache (easy-fs/src: efs.rs, vfs.rs,     *)
(* bitmap.rs): a root directory, its files, the two bitmaps, and the       *)
(* layout that create computed and that every mount computes again.  Every *)
(* operation holds the lock of EasyFileSystem from its first access to its *)
(* last and so is one step; the cache is the array of blocks that          *)
(* BlockCache shows it to be.                                              *)
(***************************************************************************)
EXTENDS DiskInode, Layout

CONSTANTS
  Name,             \* file names: numbers other than 0, the empty name
  TOTAL_BLOCKS, INODE_BITMAP_BLOCKS,    \* the arguments of EasyFileSystem::create
  Position, Length, \* where and how much is written
  ReadPosition,     \* where reads begin
  MaxSize,          \* bound on the size of a file
  MaxOps            \* bound on the number of operations

ASSUME EasyFsAssumption ==
  /\ 0 \notin Name /\ 0 \notin Length
  /\ TOTAL_BLOCKS \in Nat /\ INODE_BITMAP_BLOCKS \in Nat \ {0}
  /\ super_block_of(TOTAL_BLOCKS, INODE_BITMAP_BLOCKS).data_area_blocks > 0

VARIABLES
  disk,             \* block 0, which no file uses, and the data area
  inodes,           \* the inode area, by block and offset
  bitmaps,          \* the blocks of both bitmaps
  efs,              \* the mounted EasyFileSystem
  request,          \* the last operation that was asked for
  panicked,
  ops

vars == <<disk, inodes, bitmaps, efs, request, panicked, ops>>

DIRENT_SZ == 2
DirEntry(name, inode_id) == <<name, inode_id>>

(* What block 0 holds. *)
super_block == super_block_of(TOTAL_BLOCKS, INODE_BITMAP_BLOCKS)
DATA_BLOCKS == super_block.data_area_blocks

(* alloc_data().unwrap() and v.push. *)
alloc_data(b) ==
  IF can_alloc(b.bitmaps, efs.data_bitmap)
  THEN [b EXCEPT !.bitmaps = alloc(@, efs.data_bitmap),
                 !.new_blocks = Append(@, efs.data_area_start_block + alloc_bit(b.bitmaps, efs.data_bitmap))]
  ELSE [b EXCEPT !.panicked = "out of blocks"]

Request(op, name, pos, len, buf) == [op |-> op, name |-> name, pos |-> pos, len |-> len, buf |-> buf]

(* EasyFileSystem::create zeroes the device and makes the root, inode 0. *)
Init ==
  LET made == create_efs(TOTAL_BLOCKS, INODE_BITMAP_BLOCKS)
      zero == [id \in 1 .. INODE_BITMAP_BLOCKS
                      \cup made.data_bitmap.start_block_id .. made.data_area_start_block - 1 |->
                 ZeroBitmapBlock]
      area == (made.inode_area_start_block .. made.data_bitmap.start_block_id - 1)
              \X {k * INODE_BYTES : k \in 0 .. inodes_per_block - 1}
  IN /\ efs = made
     /\ disk = [id \in {0} \cup made.data_area_start_block .. TOTAL_BLOCKS - 1 |-> ZeroBlock]
     /\ inodes = [pos \in area |->
                    initialize(IF pos = get_disk_inode_pos(made, 0) THEN "Directory" ELSE "File")]
     /\ bitmaps = alloc(zero, made.inode_bitmap)
     /\ request = Request("none", 0, 0, 0, <<>>)
     /\ panicked = "no"
     /\ ops = 0

-----------------------------------------------------------------------------
(* Directory entries are data of the root inode. *)
Pos(inode_id) == get_disk_inode_pos(efs, inode_id)
root_inode == Pos(0)
file_count == inodes[root_inode].size \div DIRENT_SZ
dirent(k) == read_at(disk, inodes[root_inode], DIRENT_SZ * k, DIRENT_SZ)

(* Fault: the last entry is not looked at. *)
Matching_but_last(name) == {k \in 0 .. file_count - 2 : dirent(k)[1] = name}

(* The inode numbers found under a name; find_inode_id returns the first. *)
Matching(name) == {k \in 0 .. file_count - 1 : dirent(k)[1] = name}
find_inode_id(name) == dirent(Min(Matching(name)))[2]
find(name) == Pos(find_inode_id(name))

(* Inode::increase_size: the blocks that the new size needs are allocated  *)
(* one by one, then handed to the inode.                                   *)
grow(b, new_size) ==
  LET needed == total_blocks(new_size) - total_blocks(b.inode.size)
      c == ForEach(LAMBDA d, k : alloc_data(d), b, Upto(0, needed))
  IN IF new_size < b.inode.size THEN b ELSE Then(c, increase_size(c, new_size))

Builder(inode, blocks) ==
  [disk |-> disk, inode |-> inode, bitmaps |-> blocks, panicked |-> "no",
   new_blocks |-> <<>>, cur |-> 0, total |-> 0, leaf |-> 0]

grow_and_write(b, offset, buf) ==
  LET c == grow(b, offset + Len(buf))
  IN Then(c, write_at(c, offset, buf))

Step(op, name, pos, len, buf) ==
  /\ panicked = "no"
  /\ ops < MaxOps
  /\ ops' = ops + 1
  /\ request' = Request(op, name, pos, len, buf)

Panic(reason) ==
  /\ panicked' = reason
  /\ UNCHANGED <<disk, inodes, bitmaps>>

-----------------------------------------------------------------------------
(* create: a file that exists is left alone; a new one gets an inode, then *)
(* an entry at the end of the directory.                                   *)
create(name) ==
  LET new_inode_id == alloc_bit(bitmaps, efs.inode_bitmap)
      b == grow_and_write(Builder(inodes[root_inode], alloc(bitmaps, efs.inode_bitmap)),
                          file_count * DIRENT_SZ, DirEntry(name, new_inode_id))
  IN /\ Step("create", name, 0, 0, <<>>)
     /\ UNCHANGED efs
     /\ IF Matching(name) # {}
        THEN UNCHANGED <<disk, inodes, bitmaps, panicked>>
        ELSE IF ~can_alloc(bitmaps, efs.inode_bitmap)
        THEN Panic("out of inodes")
        ELSE IF b.panicked # "no"
        THEN Panic(b.panicked)
        ELSE /\ inodes' = [inodes EXCEPT ![Pos(new_inode_id)] = initialize("File"), ![root_inode] = b.inode]
             /\ disk' = b.disk
             /\ bitmaps' = b.bitmaps
             /\ UNCHANGED panicked

(* What the operation writes: no two operations write the same. *)
Payload(len) == [k \in 1 .. len |-> 10 * (ops + 1) + k]

(* write_at and clear work on the inode that find returned. *)
vfs_write_at(name, offset, buf) ==
  LET i == find(name)
      b == grow_and_write(Builder(inodes[i], bitmaps), offset, buf)
  IN /\ Step("write", name, offset, Len(buf), buf)
     /\ Matching(name) # {}
     /\ offset + Len(buf) <= MaxSize
     /\ UNCHANGED efs
     /\ IF b.panicked # "no"
        THEN Panic(b.panicked)
        ELSE /\ inodes' = [inodes EXCEPT ![i] = b.inode]
             /\ disk' = b.disk
             /\ bitmaps' = b.bitmaps
             /\ UNCHANGED panicked

vfs_read_at(name, offset, len) ==
  /\ Matching(name) # {}
  /\ Step("read", name, offset, len, read_at(disk, inodes[find(name)], offset, len))
  /\ UNCHANGED <<disk, inodes, bitmaps, efs, panicked>>

(* Fault: the block is not zeroed. *)
dealloc_data_dirty(b, id) ==
  [b EXCEPT !.bitmaps = dealloc(@, efs.data_bitmap, id - efs.data_area_start_block)]

(* dealloc_data zeroes the block, then clears its bit, which must be set. *)
dealloc_data(b, id) ==
  LET bit == id - efs.data_area_start_block
  IN IF id \notin DOMAIN b.disk
     THEN [b EXCEPT !.panicked = "no such block"]
     ELSE IF bit < 0 \/ ~is_set(b.bitmaps, efs.data_bitmap, bit)
     THEN [b EXCEPT !.panicked = "assert in dealloc"]
     ELSE [b EXCEPT !.disk[id] = ZeroBlock, !.bitmaps = dealloc(@, efs.data_bitmap, bit)]

clear(name) ==
  LET i == find(name)
      v == clear_size_blocks(disk, inodes[i])
      b == ForEach(LAMBDA c, id : dealloc_data(c, id), Builder(clear_size_inode(inodes[i]), bitmaps), v)
  IN /\ Step("clear", name, 0, 0, <<>>)
     /\ Matching(name) # {}
     /\ UNCHANGED efs
     /\ IF ~clear_size_assert(inodes[i])
        THEN Panic("assert in clear_size")
        ELSE IF Len(v) # total_blocks(inodes[i].size)
        THEN Panic("assert in clear")
        ELSE IF b.panicked # "no"
        THEN Panic(b.panicked)
        ELSE /\ inodes' = [inodes EXCEPT ![i] = b.inode]
             /\ disk' = b.disk
             /\ bitmaps' = b.bitmaps
             /\ UNCHANGED panicked

(* The next boot: EasyFileSystem::open on what is on the device. *)
mount ==
  /\ Step("none", 0, 0, 0, <<>>)
  /\ efs' = open(super_block)
  /\ UNCHANGED <<disk, inodes, bitmaps, panicked>>

(* The kernel has panicked, or the bound is reached. *)
Halted == (panicked # "no" \/ ops = MaxOps) /\ UNCHANGED vars

Next ==
  \/ \E name \in Name : create(name) \/ clear(name)
  \/ \E name \in Name, offset \in Position, len \in Length : vfs_write_at(name, offset, Payload(len))
  \/ \E name \in Name, offset \in ReadPosition, len \in Length : vfs_read_at(name, offset, len)
  \/ mount
  \/ Halted

Spec == Init /\ [][Next]_vars

-----------------------------------------------------------------------------
(* Properties. *)

(* The blocks of all files, each tree walked as clear_size walks it. *)
UsedBlocks ==
  FlattenSeq([k \in 1 .. maximum(efs.inode_bitmap) |-> clear_size_blocks(disk, inodes[Pos(k - 1)])])
data_bits == Bits(bitmaps, efs.data_bitmap)
inode_bits == Bits(bitmaps, efs.inode_bitmap)

(* The trees of all files are disjoint and hold exactly the blocks whose   *)
(* bit is set: growing through all index levels, clearing and growing      *)
(* again leak no block and share none (increase_size, clear).              *)
BlocksExact ==
  LET used == UsedBlocks
  IN /\ IsInjective(used)
     /\ ToSet(used) = {efs.data_area_start_block + bit : bit \in data_bits}

(* A block that is free is zero, so a block that a file gains by growing   *)
(* reads as zeros although nothing clears it then (dealloc_data).          *)
FreeBlocksZero ==
  LET used == {efs.data_area_start_block + bit : bit \in data_bits}
  IN \A id \in DOMAIN disk \ used : disk[id] = ZeroBlock

(* Names in the directory are distinct, and so are the inodes they name,   *)
(* which are the allocated ones but the root's (create, find_inode_id).    *)
DirectoryExact ==
  LET entries == {dirent(k) : k \in 0 .. file_count - 1}
  IN /\ {e[2] : e \in entries} = inode_bits \ {0}
     /\ file_count = Cardinality(inode_bits \ {0})
     /\ file_count = Cardinality({e[1] : e \in entries})

(* No unwrap and no assertion of the index code fails but the one that     *)
(* clear_size makes of the size (ClearSizeAssertHolds): total_blocks       *)
(* agrees with what increase_size consumes, from any old size to any new   *)
(* one, and with what clear_size returns (vfs.rs, clear), and no bit is    *)
(* cleared that is not set (bitmap.rs).                                    *)
IndexAssertionsHold ==
  panicked \in {"no", "out of blocks", "out of inodes", "no such block", "assert in clear_size"}

(* The bitmap has bits for blocks that the device has not.  No operation   *)
(* returns with such a block in a file: a write that would get one touches *)
(* it, because a file's last block comes last and is always written.       *)
AcceptedFits == \A bit \in data_bits : bit < DATA_BLOCKS

(* An operation fails only when the device has not the blocks, or the      *)
(* inode, it needs (the unwraps of alloc_data and alloc_inode).            *)
FailsOnlyWhenFull ==
  panicked # "no" =>
    LET grown(i, size) == total_blocks(Max({size, inodes[i].size})) - total_blocks(inodes[i].size)
        demand == IF request.op = "create"
                  THEN grown(root_inode, inodes[root_inode].size + DIRENT_SZ)
                  ELSE grown(find(request.name), request.pos + Len(request.buf))
    IN \/ Cardinality(data_bits) + demand > DATA_BLOCKS
       \/ request.op = "create" /\ Cardinality(inode_bits) = maximum(efs.inode_bitmap)

(* assert!(data_blocks <= INODE_INDIRECT3_COUNT) of clear_size holds for   *)
(* every file that increase_size can build.                                *)
ClearSizeAssertHolds == panicked # "assert in clear_size"

files ==
  LET content == [pos \in DOMAIN inodes |-> read_at(disk, inodes[pos], 0, inodes[pos].size)]
  IN [n \in {m \in Name : Matching(m) # {}} |-> content[find(n)]]

(* Index trees, directory and bitmaps implement named sequences: a write   *)
(* changes its range of its file only, a gap reads as zeros, a cleared     *)
(* file is empty, and a name keeps its file.                               *)
Abstract == INSTANCE FileStore WITH Zero <- 0
ImplementsFileStore == Abstract!Spec
============================================================================
