SPECIFICATION Spec
CONSTANTS
  BLOCK_SZ = 2
  INODE_DIRECT_COUNT = 1
  Name = {901}
  WORDS = 2
  WORD_BITS = 2
  BLOCK_BYTES = 2
  INODE_BYTES = 1
  TOTAL_BLOCKS = 54
  INODE_BITMAP_BLOCKS = 1
  Position = {0, 20, 22, 28}
  ReadPosition = {0}
  Length = {2}
  MaxSize = 30
  MaxOps = 3
INVARIANT ClearSizeAssertHolds
