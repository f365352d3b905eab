SPECIFICATION Spec
CONSTANTS
  BlockDevice = {dev}
  Block = {b1, b2, b3, b4}
  Data = {x, y}
  Addr = {a1, a2, a3}
  Nil = Nil
  BLOCK_CACHE_SIZE = 2
  MaxPins = 3
SYMMETRY Symmetric
INVARIANTS
  OneCachePerBlock
  PinsTheBlockAskedFor
  DirtyIsMarked
  RunsOutOnlyWhenFull
PROPERTIES
  DurableAfterSync
  Transparent
