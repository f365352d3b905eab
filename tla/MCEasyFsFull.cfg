SPECIFICATION Spec
CONSTANTS
  BLOCK_SZ = 2
  INODE_DIRECT_COUNT = 1
  Name = {901, 902, 903}
  WORDS = 1
  WORD_BITS = 3
  BLOCK_BYTES = 2
  INODE_BYTES = 1
  TOTAL_BLOCKS = 14
  INODE_BITMAP_BLOCKS = 1
  Position = {0, 2, 5}
  ReadPosition = {0, 2, 5}
  Length = {1, 2}
  MaxSize = 7
  MaxOps = 5
INVARIANTS AcceptedFits FailsOnlyWhenFull
