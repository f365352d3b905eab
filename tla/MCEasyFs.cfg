SPECIFICATION Spec
CONSTANTS
  BLOCK_SZ = 2
  INODE_DIRECT_COUNT = 1
  Name = {901, 902}
  WORDS = 2
  WORD_BITS = 2
  BLOCK_BYTES = 2
  INODE_BYTES = 1
  TOTAL_BLOCKS = 46
  INODE_BITMAP_BLOCKS = 1
  Position = {0, 2, 4, 6, 12, 14, 21, 28}
  ReadPosition = {7}
  Length = {2}
  MaxSize = 30
  MaxOps = 5
INVARIANTS BlocksExact FreeBlocksZero DirectoryExact IndexAssertionsHold
PROPERTY ImplementsFileStore
