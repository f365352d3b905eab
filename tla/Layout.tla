------------------------------- MODULE Layout -------------------------------
(***************************************************************************)
(* The layout of an easy-fs device (easy-fs/src/efs.rs, the SuperBlock of  *)
(* layout.rs): super block, inode bitmap, inode area, data bitmap, data    *)
(* area, as create computes it and open reads it back.                     *)
(***************************************************************************)
EXTENDS Bitmap

CONSTANTS
  BLOCK_BYTES,   \* bytes of a block (512)
  INODE_BYTES    \* size_of::<DiskInode>() (128)

ASSUME LayoutAssumption ==
  /\ BLOCK_BYTES \in Nat \ {0}
  /\ INODE_BYTES \in Nat \ {0}
  /\ BLOCK_BYTES % INODE_BYTES = 0

new_bitmap(start, blocks) == [start_block_id |-> start, blocks |-> blocks]

(* What create stores in the super block. *)
super_block_of(total_blocks, inode_bitmap_blocks) ==
  LET inode_num == maximum(new_bitmap(1, inode_bitmap_blocks))
      inode_area_blocks == (inode_num * INODE_BYTES + BLOCK_BYTES - 1) \div BLOCK_BYTES
      data_total_blocks == total_blocks - 1 - (inode_bitmap_blocks + inode_area_blocks)
      data_bitmap_blocks == (data_total_blocks + BLOCK_BITS) \div (BLOCK_BITS + 1)
  IN [total_blocks |-> total_blocks,
      inode_bitmap_blocks |-> inode_bitmap_blocks,
      inode_area_blocks |-> inode_area_blocks,
      data_bitmap_blocks |-> data_bitmap_blocks,
      data_area_blocks |-> data_total_blocks - data_bitmap_blocks]

(* Fault: the data area starts a block too late. *)
open_late(sb) ==
  LET inode_total_blocks == sb.inode_bitmap_blocks + sb.inode_area_blocks
  IN [inode_bitmap |-> new_bitmap(1, sb.inode_bitmap_blocks),
      data_bitmap |-> new_bitmap(1 + inode_total_blocks, sb.data_bitmap_blocks),
      inode_area_start_block |-> 1 + sb.inode_bitmap_blocks,
      data_area_start_block |-> 2 + inode_total_blocks + sb.data_bitmap_blocks]

(* EasyFileSystem in memory, from the super block. *)
open(sb) ==
  LET inode_total_blocks == sb.inode_bitmap_blocks + sb.inode_area_blocks
  IN [inode_bitmap |-> new_bitmap(1, sb.inode_bitmap_blocks),
      data_bitmap |-> new_bitmap(1 + inode_total_blocks, sb.data_bitmap_blocks),
      inode_area_start_block |-> 1 + sb.inode_bitmap_blocks,
      data_area_start_block |-> 1 + inode_total_blocks + sb.data_bitmap_blocks]

(* The same struct as create fills it, from the sizes it has computed. *)
create_efs(total_blocks, inode_bitmap_blocks) ==
  LET sb == super_block_of(total_blocks, inode_bitmap_blocks)
  IN [inode_bitmap |-> new_bitmap(1, inode_bitmap_blocks),
      data_bitmap |-> new_bitmap(1 + inode_bitmap_blocks + sb.inode_area_blocks, sb.data_bitmap_blocks),
      inode_area_start_block |-> 1 + inode_bitmap_blocks,
      data_area_start_block |-> 1 + (inode_bitmap_blocks + sb.inode_area_blocks) + sb.data_bitmap_blocks]

inodes_per_block == BLOCK_BYTES \div INODE_BYTES

get_disk_inode_pos(efs, inode_id) ==
  <<efs.inode_area_start_block + inode_id \div inodes_per_block,
    (inode_id % inodes_per_block) * INODE_BYTES>>
=============================================================================
