SPECIFICATION Spec
CONSTANTS
  BlockDevice = {dev1, dev2}
  Block = {b1, b2}
  Data = {x, y}
  Addr = {a1, a2, a3}
  Nil = Nil
  BLOCK_CACHE_SIZE = 2
  MaxPins = 2
INVARIANT PinsTheBlockAskedFor
