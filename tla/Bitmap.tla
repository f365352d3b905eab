------------------------------- MODULE Bitmap -------------------------------
(***************************************************************************)
(* Allocation bitmaps (easy-fs/src/bitmap.rs) as operators.  A bitmap is   *)
(* the range of device blocks bm = [start_block_id, blocks]; m holds the   *)
(* contents of such blocks, words of WORD_BITS bits.  A word is the set of *)
(* its bits that are 1, u64::MAX the set of all.                           *)
(***************************************************************************)
EXTENDS Integers

CONSTANTS
  WORDS,      \* words of a block (64)
  WORD_BITS   \* bits of a word (64)

ASSUME BitmapAssumption == WORDS \in Nat \ {0} /\ WORD_BITS \in Nat \ {0}

BLOCK_BITS == WORDS * WORD_BITS
Words == 0 .. WORDS - 1
Inner == 0 .. WORD_BITS - 1
ZeroBitmapBlock == [w \in Words |-> {}]

maximum(bm) == bm.blocks * BLOCK_BITS

(* (block_pos, bits64_pos, inner_pos) of a bit. *)
decomposition(bit) ==
  <<bit \div BLOCK_BITS, (bit % BLOCK_BITS) \div WORD_BITS, (bit % BLOCK_BITS) % WORD_BITS>>

HasRoom(block) == \E w \in Words : block[w] # Inner
Blocks(bm) == 0 .. bm.blocks - 1

(* Fault: the last block is left out. *)
can_alloc_but_last(m, bm) == \E b \in 0 .. bm.blocks - 2 : HasRoom(m[bm.start_block_id + b])

(* alloc() returns Some. *)
can_alloc(m, bm) == \E b \in Blocks(bm) : HasRoom(m[bm.start_block_id + b])

(* The first block with a word that is not full, the first such word, and  *)
(* its lowest bit that is 0.                                               *)
block_pos(m, bm) ==
  CHOOSE b \in Blocks(bm) :
    /\ HasRoom(m[bm.start_block_id + b])
    /\ \A c \in 0 .. b - 1 : ~HasRoom(m[bm.start_block_id + c])
bits64_pos(block) ==
  CHOOSE w \in Words : block[w] # Inner /\ \A v \in 0 .. w - 1 : block[v] = Inner
trailing_ones(word) ==
  CHOOSE k \in Inner : k \notin word /\ \A j \in 0 .. k - 1 : j \in word

(* The bit alloc() returns, and the blocks after it. *)
alloc_bit(m, bm) ==
  LET b == block_pos(m, bm)
      w == bits64_pos(m[bm.start_block_id + b])
  IN b * BLOCK_BITS + w * WORD_BITS + trailing_ones(m[bm.start_block_id + b][w])

alloc(m, bm) ==
  LET b == block_pos(m, bm)
      w == bits64_pos(m[bm.start_block_id + b])
  IN [m EXCEPT ![bm.start_block_id + b][w] = @ \cup {trailing_ones(@)}]

is_set(m, bm, bit) ==
  LET d == decomposition(bit) IN d[3] \in m[bm.start_block_id + d[1]][d[2]]

(* dealloc, whose assert is is_set. *)
dealloc(m, bm, bit) ==
  LET d == decomposition(bit)
  IN [m EXCEPT ![bm.start_block_id + d[1]][d[2]] = @ \ {d[3]}]

(* The bits of a bitmap that are 1. *)
Bits(m, bm) == {bit \in 0 .. maximum(bm) - 1 : is_set(m, bm, bit)}
=============================================================================
