SPECIFICATION ImageSpec
CONSTANTS
  BLOCK_SZ = 2
  INODE_DIRECT_COUNT = 1
  Name = {901, 902}
  WORDS = 2
  WORD_BITS = 2
  BLOCK_BYTES = 2
  INODE_BYTES = 1
  TOTAL_BLOCKS = 80
  INODE_BITMAP_BLOCKS = 1
  Position = {0}
  ReadPosition = {0}
  Length = {1}
  MaxSize = 22
  MaxOps = 8
  FileSize = {1, 2, 3, 4, 5, 6, 7, 8, 9, 12, 13, 14, 15, 18, 20, 21, 22}
  BUFFER_SZ = 2
INVARIANT AppsIntact
