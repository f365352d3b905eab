---------------------------- MODULE AddressProofs ----------------------------
(***************************************************************************)
(* The arithmetic of places: which bit of which block a bitmap stands for, *)
(* which blocks and bytes of a device the areas and inodes of easy-fs      *)
(* take, for every word, block and device size; and the slices of a user   *)
(* buffer with the walk over them, for every page size, every page table   *)
(* and every buffer of the lower half.                                     *)
(***************************************************************************)
EXTENDS Layout, UserBuffer, Lemmas


-----------------------------------------------------------------------------
(* BLOCK_BITS is a positive number, and a word's bits fit in a block. *)
LEMMA BlockBits ==
  /\ BLOCK_BITS \in Nat \ {0}
  /\ \A w \in Words, k \in Inner : w * WORD_BITS + k \in 0 .. BLOCK_BITS - 1
<1>1. BLOCK_BITS \in Nat \ {0}
  BY BitmapAssumption DEF BLOCK_BITS
<1>2. ASSUME NEW w \in Words, NEW k \in Inner
      PROVE  w * WORD_BITS + k \in 0 .. BLOCK_BITS - 1
  <2>1. w \in Nat /\ w < WORDS /\ k \in Nat /\ k < WORD_BITS /\ WORDS \in Nat /\ WORD_BITS \in Nat
    BY BitmapAssumption DEF Words, Inner
  <2>2. w * WORD_BITS + WORD_BITS <= WORDS * WORD_BITS
    BY <2>1, Room
  <2>3. w * WORD_BITS \in Nat
    BY <2>1
  <2> QED BY <2>1, <2>2, <2>3 DEF BLOCK_BITS
<1> QED BY <1>1, <1>2

(* decomposition finds the block, the word and the position of a bit. *)
LEMMA Decompose ==
  ASSUME NEW bit \in Nat
  PROVE  /\ decomposition(bit)[1] \in Nat
         /\ decomposition(bit)[2] \in Words
         /\ decomposition(bit)[3] \in Inner
         /\ bit = decomposition(bit)[1] * BLOCK_BITS
                  + decomposition(bit)[2] * WORD_BITS + decomposition(bit)[3]
<1> DEFINE r == bit % BLOCK_BITS
<1>1. /\ bit \div BLOCK_BITS \in Nat /\ r \in 0 .. BLOCK_BITS - 1
      /\ bit = (bit \div BLOCK_BITS) * BLOCK_BITS + r
  BY BlockBits, DivMod, Zenon
<1>2. r \in Nat
  BY <1>1, BlockBits
<1>3. /\ r \div WORD_BITS \in Nat /\ r % WORD_BITS \in 0 .. WORD_BITS - 1
      /\ r = (r \div WORD_BITS) * WORD_BITS + (r % WORD_BITS)
  BY <1>2, BitmapAssumption, DivMod, Zenon
<1>4. r \div WORD_BITS \in Words
  <2>1. SUFFICES ASSUME ~(r \div WORD_BITS < WORDS) PROVE FALSE
    BY <1>3, BitmapAssumption DEF Words
  <2>2. (r \div WORD_BITS) * WORD_BITS >= WORDS * WORD_BITS
    BY <2>1, <1>3, BitmapAssumption
  <2> QED BY <2>2, <1>1, <1>3, BitmapAssumption, BlockBits DEF BLOCK_BITS
<1>5. decomposition(bit) = <<bit \div BLOCK_BITS, r \div WORD_BITS, r % WORD_BITS>>
  BY DEF decomposition
<1> HIDE DEF r
<1>6. /\ decomposition(bit)[1] = bit \div BLOCK_BITS
      /\ decomposition(bit)[2] = r \div WORD_BITS
      /\ decomposition(bit)[3] = r % WORD_BITS
  BY <1>5
<1>7. bit = (bit \div BLOCK_BITS) * BLOCK_BITS + (r \div WORD_BITS) * WORD_BITS + (r % WORD_BITS)
  <2> DEFINE p == (bit \div BLOCK_BITS) * BLOCK_BITS
             q == (r \div WORD_BITS) * WORD_BITS
             s == r % WORD_BITS
  <2>1. p \in Int /\ q \in Int /\ s \in Int
    BY <1>1, <1>3, BlockBits, BitmapAssumption
  <2>2. bit = p + r /\ r = q + s
    BY <1>1, <1>3
  <2> HIDE DEF p, q, s
  <2>3. bit = p + q + s
    BY <2>1, <2>2
  <2> QED BY <2>3 DEF p, q, s
<1> QED BY <1>1, <1>3, <1>4, <1>6, <1>7 DEF Inner

(* And it finds nothing else: it inverts the sum that alloc returns. *)
LEMMA Recompose ==
  ASSUME NEW b \in Nat, NEW w \in Words, NEW k \in Inner
  PROVE  /\ b * BLOCK_BITS + w * WORD_BITS + k \in Nat
         /\ decomposition(b * BLOCK_BITS + w * WORD_BITS + k) = <<b, w, k>>
<1> DEFINE r == w * WORD_BITS + k
<1>0. w \in Nat /\ k \in 0 .. WORD_BITS - 1 /\ w * WORD_BITS \in Nat /\ b * BLOCK_BITS \in Nat
  BY BitmapAssumption, BlockBits DEF Words, Inner
<1>1. r \in 0 .. BLOCK_BITS - 1
  BY BlockBits
<1>2. b * BLOCK_BITS + w * WORD_BITS + k = b * BLOCK_BITS + r
  BY <1>0
<1>3. r \div WORD_BITS = w /\ r % WORD_BITS = k
  BY <1>0, BitmapAssumption, DivModUnique, Zenon
<1> HIDE DEF r
<1>4. (b * BLOCK_BITS + r) \div BLOCK_BITS = b /\ (b * BLOCK_BITS + r) % BLOCK_BITS = r
  BY <1>1, BlockBits, DivModUnique, Zenon
<1> QED BY <1>0, <1>2, <1>3, <1>4, <1>1 DEF decomposition

-----------------------------------------------------------------------------
(* The blocks of a bitmap are among the blocks S that m has. *)
BitmapBlock == [Words -> SUBSET Inner]
Bitmaps(S) ==
  {bm \in [start_block_id : Nat, blocks : Nat] : \A b \in Blocks(bm) : bm.start_block_id + b \in S}

(* The loop of alloc over the blocks stops at the first one with room, the *)
(* search in the block at its first word with room, and trailing_ones at   *)
(* the first bit of the word that is 0.                                    *)
LEMMA FirstBlock ==
  ASSUME NEW S, NEW m \in [S -> BitmapBlock], NEW bm \in Bitmaps(S), can_alloc(m, bm)
  PROVE  /\ block_pos(m, bm) \in Blocks(bm)
         /\ HasRoom(m[bm.start_block_id + block_pos(m, bm)])
         /\ \A c \in 0 .. block_pos(m, bm) - 1 : ~HasRoom(m[bm.start_block_id + c])
<1> DEFINE T == {b \in Blocks(bm) : HasRoom(m[bm.start_block_id + b])}
<1>1. T \subseteq Nat /\ T # {} /\ Blocks(bm) \subseteq Nat
  BY DEF can_alloc, Blocks, Bitmaps
<1>2. PICK b \in T : \A c \in T : b <= c
  BY <1>1, LeastElement, Zenon
<1>3. ASSUME NEW c \in 0 .. b - 1
      PROVE  ~HasRoom(m[bm.start_block_id + c])
  <2>1. c \in Blocks(bm) /\ ~(b <= c)
    BY <1>1, <1>2 DEF Blocks, Bitmaps
  <2> QED BY <2>1, <1>2
<1> QED BY <1>2, <1>3 DEF block_pos

(* The first word of the block with room, where the second search stops. *)
LEMMA FirstWord ==
  ASSUME NEW block \in BitmapBlock, HasRoom(block)
  PROVE  /\ bits64_pos(block) \in Words
         /\ block[bits64_pos(block)] # Inner
         /\ \A u \in 0 .. bits64_pos(block) - 1 : block[u] = Inner
<1> DEFINE T == {w \in Words : block[w] # Inner}
<1>1. T \subseteq Nat /\ T # {} /\ Words \subseteq Nat
  BY BitmapAssumption DEF HasRoom, Words
<1>2. PICK w \in T : \A u \in T : w <= u
  BY <1>1, LeastElement, Zenon
<1>3. ASSUME NEW u \in 0 .. w - 1
      PROVE  block[u] = Inner
  <2>1. u \in Words /\ ~(w <= u)
    BY <1>1, <1>2, BitmapAssumption DEF Words
  <2> QED BY <2>1, <1>2
<1> QED BY <1>2, <1>3 DEF bits64_pos

(* The lowest bit of the word that is 0, which trailing_ones finds. *)
LEMMA FirstZero ==
  ASSUME NEW word \in SUBSET Inner, word # Inner
  PROVE  /\ trailing_ones(word) \in Inner
         /\ trailing_ones(word) \notin word
         /\ \A j \in 0 .. trailing_ones(word) - 1 : j \in word
<1> DEFINE T == Inner \ word
<1>0. Inner \subseteq Nat
  BY BitmapAssumption DEF Inner
<1>1. T \subseteq Nat /\ T # {} /\ Inner \subseteq Nat
  BY <1>0, Zenon
<1>2. PICK k \in T : \A j \in T : k <= j
  BY <1>1, LeastElement, Zenon
<1>3. ASSUME NEW j \in 0 .. k - 1
      PROVE  j \in word
  <2>1. j \in Inner /\ ~(k <= j)
    BY <1>1, <1>2, BitmapAssumption DEF Inner
  <2> QED BY <2>1, <1>2
<1> QED BY <1>2, <1>3 DEF trailing_ones

(* The three searches of alloc, put together. *)
LEMMA AllocPosition ==
  ASSUME NEW S, NEW m \in [S -> BitmapBlock], NEW bm \in Bitmaps(S), can_alloc(m, bm)
  PROVE  \E b \in Blocks(bm), w \in Words, k \in Inner :
           /\ alloc_bit(m, bm) = b * BLOCK_BITS + w * WORD_BITS + k
           /\ alloc(m, bm) = [m EXCEPT ![bm.start_block_id + b][w] = @ \cup {k}]
           /\ k \notin m[bm.start_block_id + b][w]
           /\ \A c \in 0 .. b - 1 : ~HasRoom(m[bm.start_block_id + c])
           /\ \A u \in 0 .. w - 1 : m[bm.start_block_id + b][u] = Inner
           /\ \A j \in 0 .. k - 1 : j \in m[bm.start_block_id + b][w]
<1> DEFINE b == block_pos(m, bm)
           w == bits64_pos(m[bm.start_block_id + b])
           k == trailing_ones(m[bm.start_block_id + b][w])
<1>1. /\ b \in Blocks(bm)
      /\ HasRoom(m[bm.start_block_id + b])
      /\ \A c \in 0 .. b - 1 : ~HasRoom(m[bm.start_block_id + c])
  BY FirstBlock
<1>2. bm.start_block_id + b \in S /\ m[bm.start_block_id + b] \in BitmapBlock
  BY <1>1 DEF Bitmaps
<1>3. alloc_bit(m, bm) = b * BLOCK_BITS + w * WORD_BITS + k
  BY DEF alloc_bit
<1>4. alloc(m, bm) = [m EXCEPT ![bm.start_block_id + b][w] = @ \cup {k}]
  BY DEF alloc
<1> HIDE DEF b
<1>5. /\ w \in Words
      /\ m[bm.start_block_id + b][w] # Inner
      /\ \A u \in 0 .. w - 1 : m[bm.start_block_id + b][u] = Inner
  BY <1>1, <1>2, FirstWord
<1> HIDE DEF w
<1>6. m[bm.start_block_id + b][w] \in SUBSET Inner
  BY <1>2, <1>5 DEF BitmapBlock
<1>7. /\ k \in Inner
      /\ k \notin m[bm.start_block_id + b][w]
      /\ \A j \in 0 .. k - 1 : j \in m[bm.start_block_id + b][w]
  BY <1>5, <1>6, FirstZero
<1> HIDE DEF k
<1> QED BY <1>1, <1>3, <1>4, <1>5, <1>7, Zenon

-----------------------------------------------------------------------------
(* The bits below maximum are those whose block the bitmap has. *)
LEMMA BitRange ==
  ASSUME NEW S, NEW bm \in Bitmaps(S)
  PROVE  /\ maximum(bm) \in Nat
         /\ \A bit \in 0 .. maximum(bm) - 1 : decomposition(bit)[1] \in Blocks(bm)
         /\ \A b \in Blocks(bm), w \in Words, k \in Inner :
              b * BLOCK_BITS + w * WORD_BITS + k \in 0 .. maximum(bm) - 1
<1>1. bm.blocks \in Nat /\ BLOCK_BITS \in Nat \ {0} /\ maximum(bm) = bm.blocks * BLOCK_BITS
  BY BlockBits DEF Bitmaps, maximum
<1>2. maximum(bm) \in Nat
  BY <1>1
<1>3. ASSUME NEW bit \in 0 .. maximum(bm) - 1
      PROVE  decomposition(bit)[1] \in Blocks(bm)
  <2> DEFINE b == decomposition(bit)[1]
             r == decomposition(bit)[2] * WORD_BITS + decomposition(bit)[3]
  <2>0. bit \in Nat /\ bit < maximum(bm)
    BY <1>2
  <2>1. b \in Nat /\ r \in 0 .. BLOCK_BITS - 1
    BY <2>0, Decompose, BlockBits
  <2>2. bit = b * BLOCK_BITS + r
    <3>1. decomposition(bit)[2] * WORD_BITS \in Int /\ decomposition(bit)[3] \in Int /\ b * BLOCK_BITS \in Int
      BY <2>0, <2>1, <1>1, Decompose, BitmapAssumption DEF Words, Inner
    <3>2. bit = b * BLOCK_BITS + decomposition(bit)[2] * WORD_BITS + decomposition(bit)[3]
      BY <2>0, Decompose
    <3> QED BY <3>1, <3>2
  <2> HIDE DEF b, r
  <2>3. SUFFICES ASSUME ~(b < bm.blocks) PROVE FALSE
    BY <1>1, <2>1 DEF Blocks, b
  <2>4. b * BLOCK_BITS >= bm.blocks * BLOCK_BITS
    BY <2>1, <2>3, <1>1
  <2>5. b * BLOCK_BITS \in Nat /\ bm.blocks * BLOCK_BITS \in Nat
    BY <2>1, <1>1
  <2> QED BY <2>0, <2>1, <2>2, <2>4, <2>5, <1>1
<1>4. ASSUME NEW b \in Blocks(bm), NEW w \in Words, NEW k \in Inner
      PROVE  b * BLOCK_BITS + w * WORD_BITS + k \in 0 .. maximum(bm) - 1
  <2> DEFINE r == w * WORD_BITS + k
  <2>1. b \in Nat /\ b < bm.blocks
    BY <1>1 DEF Blocks
  <2>2. r \in 0 .. BLOCK_BITS - 1
    BY BlockBits
  <2>3. b * BLOCK_BITS + BLOCK_BITS <= bm.blocks * BLOCK_BITS
    BY <2>1, <1>1, Room
  <2>4. b * BLOCK_BITS + w * WORD_BITS + k = b * BLOCK_BITS + r
    <3>1. b * BLOCK_BITS \in Int /\ w * WORD_BITS \in Int /\ k \in Int
      BY <2>1, <1>1, BitmapAssumption DEF Words, Inner
    <3> QED BY <3>1
  <2> HIDE DEF r
  <2>5. b * BLOCK_BITS \in Nat
    BY <2>1, <1>1
  <2> QED BY <1>1, <1>2, <2>2, <2>3, <2>4, <2>5
<1> QED BY <1>2, <1>3, <1>4

(* Two places of bits are the same when the bits are. *)
LEMMA SameBit ==
  ASSUME NEW bit \in Nat, NEW b \in Nat, NEW w \in Words, NEW k \in Inner
  PROVE  bit = b * BLOCK_BITS + w * WORD_BITS + k <=> decomposition(bit) = <<b, w, k>>
<1>1. bit = b * BLOCK_BITS + w * WORD_BITS + k => decomposition(bit) = <<b, w, k>>
  BY Recompose
<1>2. decomposition(bit) = <<b, w, k>> => bit = b * BLOCK_BITS + w * WORD_BITS + k
  BY Decompose
<1> QED BY <1>1, <1>2

(* Blocks are left as they are unless they belong to the bitmap. *)
Elsewhere(m1, m2, S, bm) ==
  \A id \in S : (\A b \in Blocks(bm) : id # bm.start_block_id + b) => m2[id] = m1[id]

(* alloc on a bitmap that is not full returns its lowest bit that is 0,    *)
(* sets that bit, and changes no other bit and no other block.             *)
THEOREM AllocLowest ==
  ASSUME NEW S, NEW m \in [S -> BitmapBlock], NEW bm \in Bitmaps(S), can_alloc(m, bm)
  PROVE  /\ alloc_bit(m, bm) \in (0 .. maximum(bm) - 1) \ Bits(m, bm)
         /\ \A bit \in 0 .. alloc_bit(m, bm) - 1 : bit \in Bits(m, bm)
         /\ Bits(alloc(m, bm), bm) = Bits(m, bm) \cup {alloc_bit(m, bm)}
         /\ alloc(m, bm) \in [S -> BitmapBlock]
         /\ Elsewhere(m, alloc(m, bm), S, bm)
<1>1. PICK b \in Blocks(bm), w \in Words, k \in Inner :
           /\ alloc_bit(m, bm) = b * BLOCK_BITS + w * WORD_BITS + k
           /\ alloc(m, bm) = [m EXCEPT ![bm.start_block_id + b][w] = @ \cup {k}]
           /\ k \notin m[bm.start_block_id + b][w]
           /\ \A c \in 0 .. b - 1 : ~HasRoom(m[bm.start_block_id + c])
           /\ \A u \in 0 .. w - 1 : m[bm.start_block_id + b][u] = Inner
           /\ \A j \in 0 .. k - 1 : j \in m[bm.start_block_id + b][w]
  BY AllocPosition, Zenon
<1> DEFINE s == bm.start_block_id
           new == alloc(m, bm)
           B == alloc_bit(m, bm)
<1>2. /\ s \in Nat /\ b \in Nat /\ b < bm.blocks /\ bm.blocks \in Nat /\ s + b \in S
      /\ Blocks(bm) \subseteq Nat /\ \A c \in Blocks(bm) : s + c \in S
  BY DEF Bitmaps, Blocks
<1>3. decomposition(B) = <<b, w, k>> /\ B \in Nat
  BY <1>1, <1>2, Recompose
<1>4. B \in 0 .. maximum(bm) - 1
  BY <1>1, BitRange
<1>5. B \notin Bits(m, bm)
  BY <1>1, <1>3 DEF Bits, is_set
<1>6. new \in [S -> BitmapBlock]
  BY <1>1, <1>2 DEF BitmapBlock
<1>7. ASSUME NEW c \in Blocks(bm), NEW u \in Words
      PROVE  new[s + c][u] = IF c = b /\ u = w THEN m[s + c][u] \cup {k} ELSE m[s + c][u]
  <2>1. s + c \in S /\ (s + c = s + b <=> c = b)
    BY <1>2
  <2>2. new = [m EXCEPT ![s + b][w] = @ \cup {k}]
    BY <1>1
  <2> HIDE DEF new, s
  <2>3. new[s + c] = IF c = b THEN [m[s + c] EXCEPT ![w] = @ \cup {k}] ELSE m[s + c]
    BY <2>1, <2>2, Zenon
  <2>4. m[s + c] \in [Words -> SUBSET Inner]
    BY <2>1 DEF BitmapBlock
  <2> QED BY <2>3, <2>4, Zenon
<1>8. Elsewhere(m, new, S, bm)
  BY <1>1, <1>2 DEF Elsewhere
<1> HIDE DEF new, B, s
<1>9. ASSUME NEW bit \in 0 .. maximum(bm) - 1
      PROVE  is_set(new, bm, bit) <=> is_set(m, bm, bit) \/ bit = B
  <2> DEFINE d == decomposition(bit)
  <2>1. bit \in Nat /\ d[1] \in Blocks(bm) /\ d[2] \in Words /\ d[3] \in Inner
    BY BitRange, Decompose
  <2>2. d = <<d[1], d[2], d[3]>>
    BY DEF decomposition
  <2>3. bit = B <=> d[1] = b /\ d[2] = w /\ d[3] = k
    <3>1. bit = B <=> d = <<b, w, k>>
      BY <2>1, <1>1, <1>2, SameBit DEF B
    <3> HIDE DEF d
    <3> QED BY <3>1, <2>2
  <2> HIDE DEF d
  <2>4. new[s + d[1]][d[2]] = IF d[1] = b /\ d[2] = w THEN m[s + d[1]][d[2]] \cup {k} ELSE m[s + d[1]][d[2]]
    BY <1>7, <2>1, Zenon
  <2>5. (is_set(new, bm, bit) <=> d[3] \in new[s + d[1]][d[2]]) /\ (is_set(m, bm, bit) <=> d[3] \in m[s + d[1]][d[2]])
    BY DEF is_set, d, s
  <2> QED BY <2>3, <2>4, <2>5
<1>10. Bits(new, bm) = Bits(m, bm) \cup {B}
  BY <1>4, <1>9 DEF Bits
<1>11. ASSUME NEW bit \in 0 .. B - 1
       PROVE  bit \in Bits(m, bm)
  <2> DEFINE c == decomposition(bit)[1]
             u == decomposition(bit)[2]
             j == decomposition(bit)[3]
  <2>1. bit \in 0 .. maximum(bm) - 1 /\ bit \in Nat /\ bit < B
    BY <1>3, <1>4, BitRange
  <2>2. c \in Blocks(bm) /\ u \in Words /\ j \in Inner /\ bit = c * BLOCK_BITS + u * WORD_BITS + j
    BY <2>1, BitRange, Decompose
  <2>3. is_set(m, bm, bit) <=> j \in m[s + c][u]
    BY DEF is_set, s
  <2> HIDE DEF c, u, j
  <2>4. \/ c < b
        \/ c = b /\ u < w
        \/ c = b /\ u = w /\ j < k
    <3>1. B = b * BLOCK_BITS + w * WORD_BITS + k
      BY <1>1 DEF B
    <3>2. /\ c \in Nat /\ u \in Nat /\ w \in Nat /\ j \in Nat /\ k \in Nat /\ j < WORD_BITS /\ k < WORD_BITS
          /\ WORD_BITS \in Nat /\ BLOCK_BITS \in Nat
      BY <1>2, <2>2, BitmapAssumption, BlockBits DEF Words, Inner
    <3>3. u * WORD_BITS + j \in 0 .. BLOCK_BITS - 1 /\ w * WORD_BITS + k \in 0 .. BLOCK_BITS - 1
      BY <2>2, BlockBits
    <3>4. ~(b < c)
      <4>1. SUFFICES ASSUME b < c PROVE FALSE
        OBVIOUS
      <4>2. b * BLOCK_BITS + BLOCK_BITS <= c * BLOCK_BITS
        BY <4>1, <3>2, <1>2, Room
      <4>3. b * BLOCK_BITS \in Int /\ c * BLOCK_BITS \in Int /\ u * WORD_BITS \in Int /\ w * WORD_BITS \in Int
        BY <3>2, <1>2
      <4> QED BY <4>2, <4>3, <3>1, <3>2, <3>3, <2>1, <2>2
    <3>5. c = b => ~(w < u)
      <4>1. SUFFICES ASSUME c = b, w < u PROVE FALSE
        OBVIOUS
      <4>2. w * WORD_BITS + WORD_BITS <= u * WORD_BITS
        BY <4>1, <3>2, Room
      <4>3. b * BLOCK_BITS \in Int /\ u * WORD_BITS \in Int /\ w * WORD_BITS \in Int
        BY <3>2, <1>2
      <4> QED BY <4>1, <4>2, <4>3, <3>1, <3>2, <2>1, <2>2
    <3>6. c = b /\ u = w => j < k
      <4>1. b * BLOCK_BITS \in Int /\ w * WORD_BITS \in Int
        BY <3>2, <1>2
      <4> QED BY <4>1, <3>1, <3>2, <2>1, <2>2
    <3> QED BY <3>2, <3>4, <3>5, <3>6, <1>2
  <2>5. CASE c < b
    <3>1. c \in 0 .. b - 1
      BY <2>5, <2>2, <1>2
    <3>2. m[s + c][u] = Inner
      BY <3>1, <1>1, <2>2 DEF HasRoom, s
    <3> QED BY <3>2, <2>1, <2>2, <2>3 DEF Bits
  <2>6. CASE c = b /\ u < w
    <3>1. u \in 0 .. w - 1
      BY <2>6, <2>2, BitmapAssumption DEF Words
    <3>2. m[s + c][u] = Inner
      BY <3>1, <1>1, <2>6 DEF s
    <3> QED BY <3>2, <2>1, <2>2, <2>3 DEF Bits
  <2>7. CASE c = b /\ u = w /\ j < k
    <3>1. j \in 0 .. k - 1
      BY <2>7, <2>2, BitmapAssumption DEF Inner
    <3>2. j \in m[s + c][u]
      BY <3>1, <1>1, <2>7 DEF s
    <3> QED BY <3>2, <2>1, <2>3 DEF Bits
  <2> QED BY <2>4, <2>5, <2>6, <2>7
<1> QED BY <1>4, <1>5, <1>6, <1>8, <1>10, <1>11 DEF B, new

(* alloc returns None only when every bit of the bitmap is set. *)
THEOREM FullWhenAllocFails ==
  ASSUME NEW S, NEW m \in [S -> BitmapBlock], NEW bm \in Bitmaps(S), ~can_alloc(m, bm)
  PROVE  Bits(m, bm) = 0 .. maximum(bm) - 1
<1>1. ASSUME NEW bit \in 0 .. maximum(bm) - 1
      PROVE  is_set(m, bm, bit)
  <2> DEFINE d == decomposition(bit)
  <2>1. d[1] \in Blocks(bm) /\ d[2] \in Words /\ d[3] \in Inner
    BY BitRange, Decompose
  <2>2. m[bm.start_block_id + d[1]][d[2]] = Inner
    BY <2>1 DEF can_alloc, HasRoom
  <2> QED BY <2>1, <2>2 DEF is_set
<1> QED BY <1>1 DEF Bits

(* dealloc of a bit that is set, which it asserts, clears that bit and     *)
(* changes no other bit and no other block.                                *)
THEOREM DeallocExact ==
  ASSUME NEW S, NEW m \in [S -> BitmapBlock], NEW bm \in Bitmaps(S), NEW B \in Bits(m, bm)
  PROVE  /\ Bits(dealloc(m, bm, B), bm) = Bits(m, bm) \ {B}
         /\ dealloc(m, bm, B) \in [S -> BitmapBlock]
         /\ Elsewhere(m, dealloc(m, bm, B), S, bm)
<1> DEFINE b == decomposition(B)[1]
           w == decomposition(B)[2]
           k == decomposition(B)[3]
           s == bm.start_block_id
           new == dealloc(m, bm, B)
<1>1. B \in 0 .. maximum(bm) - 1 /\ B \in Nat
  BY BitRange DEF Bits
<1>2. b \in Blocks(bm) /\ w \in Words /\ k \in Inner /\ B = b * BLOCK_BITS + w * WORD_BITS + k
  BY <1>1, BitRange, Decompose
<1>3. /\ s \in Nat /\ b \in Nat /\ s + b \in S
      /\ Blocks(bm) \subseteq Nat /\ \A c \in Blocks(bm) : s + c \in S
  BY <1>2 DEF Bitmaps, Blocks
<1>4. new = [m EXCEPT ![s + b][w] = @ \ {k}]
  BY DEF dealloc
<1> HIDE DEF new, b, w, k
<1>5. new \in [S -> BitmapBlock]
  BY <1>2, <1>3, <1>4 DEF BitmapBlock
<1>6. Elsewhere(m, new, S, bm)
  BY <1>2, <1>3, <1>4 DEF Elsewhere
<1> HIDE DEF s
<1>7. ASSUME NEW bit \in 0 .. maximum(bm) - 1
      PROVE  is_set(new, bm, bit) <=> is_set(m, bm, bit) /\ bit # B
  <2> DEFINE d == decomposition(bit)
  <2>1. bit \in Nat /\ d[1] \in Blocks(bm) /\ d[2] \in Words /\ d[3] \in Inner
    BY BitRange, Decompose
  <2>2. d = <<d[1], d[2], d[3]>>
    BY DEF decomposition
  <2>3. bit = B <=> d[1] = b /\ d[2] = w /\ d[3] = k
    <3>1. bit = B <=> d = <<b, w, k>>
      BY <2>1, <1>2, <1>3, SameBit
    <3> HIDE DEF d
    <3> QED BY <3>1, <2>2
  <2> HIDE DEF d
  <2>4. s + d[1] \in S /\ (s + d[1] = s + b <=> d[1] = b)
    BY <1>3, <2>1
  <2>5. new[s + d[1]] = IF d[1] = b THEN [m[s + d[1]] EXCEPT ![w] = @ \ {k}] ELSE m[s + d[1]]
    BY <1>4, <2>4
  <2>6. m[s + d[1]] \in [Words -> SUBSET Inner]
    BY <2>4 DEF BitmapBlock
  <2>7. new[s + d[1]][d[2]] = IF d[1] = b /\ d[2] = w THEN m[s + d[1]][d[2]] \ {k} ELSE m[s + d[1]][d[2]]
    BY <2>1, <2>5, <2>6, Zenon
  <2>8. (is_set(new, bm, bit) <=> d[3] \in new[s + d[1]][d[2]]) /\ (is_set(m, bm, bit) <=> d[3] \in m[s + d[1]][d[2]])
    BY DEF is_set, d, s
  <2> QED BY <2>3, <2>7, <2>8
<1>8. Bits(new, bm) = Bits(m, bm) \ {B}
  BY <1>7 DEF Bits
<1> QED BY <1>5, <1>6, <1>8 DEF new

-----------------------------------------------------------------------------
(* The arguments of create that do not make its subtraction underflow. *)
Fits(total_blocks, inode_bitmap_blocks) ==
  1 + inode_bitmap_blocks + super_block_of(total_blocks, inode_bitmap_blocks).inode_area_blocks <= total_blocks

(* (n + d - 1) / d, as create rounds up. *)
LEMMA CeilDiv ==
  ASSUME NEW n \in Nat, NEW d \in Nat \ {0}
  PROVE  /\ (n + d - 1) \div d \in Nat
         /\ n <= ((n + d - 1) \div d) * d
         /\ ((n + d - 1) \div d) * d < n + d
<1> DEFINE a == n + d - 1
           q == a \div d
<1>1. a \in Nat
  OBVIOUS
<1>2. q \in Nat /\ a % d \in 0 .. d - 1 /\ a = q * d + (a % d)
  BY <1>1, DivMod, Zenon
<1>3. a = n + d - 1
  OBVIOUS
<1> HIDE DEF a, q
<1>4. q * d \in Nat
  BY <1>2
<1>5. n <= q * d /\ q * d < n + d
  BY <1>1, <1>2, <1>3, <1>4
<1> QED BY <1>2, <1>5 DEF a, q

(* The fields of the super block of a device. *)
LEMMA Areas ==
  ASSUME NEW t \in Nat, NEW ib \in Nat \ {0}, Fits(t, ib)
  PROVE  LET sb == super_block_of(t, ib)
             inodes == ib * BLOCK_BITS
         IN /\ sb.total_blocks = t /\ sb.inode_bitmap_blocks = ib
            /\ sb.inode_area_blocks \in Nat /\ sb.data_bitmap_blocks \in Nat /\ sb.data_area_blocks \in Nat
            /\ inodes * INODE_BYTES <= sb.inode_area_blocks * BLOCK_BYTES
            /\ 1 + ib + sb.inode_area_blocks + sb.data_bitmap_blocks + sb.data_area_blocks = t
            /\ sb.data_area_blocks <= sb.data_bitmap_blocks * BLOCK_BITS
            /\ sb.data_bitmap_blocks * BLOCK_BITS <= sb.data_area_blocks + BLOCK_BITS
<1> DEFINE sb == super_block_of(t, ib)
           n == ib * BLOCK_BITS * INODE_BYTES
           ia == (n + BLOCK_BYTES - 1) \div BLOCK_BYTES
           dt == t - 1 - (ib + ia)
           db == (dt + BLOCK_BITS) \div (BLOCK_BITS + 1)
<1>1. sb = [total_blocks |-> t, inode_bitmap_blocks |-> ib, inode_area_blocks |-> ia,
            data_bitmap_blocks |-> db, data_area_blocks |-> dt - db]
  BY DEF super_block_of, maximum, new_bitmap
<1>2. BLOCK_BITS \in Nat \ {0} /\ n \in Nat
  BY BlockBits, LayoutAssumption
<1> HIDE DEF sb, n
<1>3. ia \in Nat /\ n <= ia * BLOCK_BYTES
  BY <1>2, LayoutAssumption, CeilDiv, Zenon
<1>4. sb.total_blocks = t /\ sb.inode_bitmap_blocks = ib /\ sb.inode_area_blocks = ia
      /\ sb.data_bitmap_blocks = db /\ sb.data_area_blocks = dt - db
  BY <1>1
<1> HIDE DEF ia
<1>5. dt \in Nat /\ 1 + ib + ia + dt = t
  BY <1>3, <1>4 DEF Fits, sb
<1> HIDE DEF dt
<1>6. db \in Nat /\ dt <= db * (BLOCK_BITS + 1) /\ db * (BLOCK_BITS + 1) < dt + (BLOCK_BITS + 1)
  <2>1. dt + (BLOCK_BITS + 1) - 1 = dt + BLOCK_BITS
    BY <1>2, <1>5
  <2>2. BLOCK_BITS + 1 \in Nat \ {0}
    BY <1>2
  <2> QED BY <2>1, <2>2, <1>5, CeilDiv, Zenon
<1> HIDE DEF db
<1>7. db * (BLOCK_BITS + 1) = db * BLOCK_BITS + db /\ db * BLOCK_BITS \in Nat
  BY <1>2, <1>6
<1>8. db <= db * BLOCK_BITS
  BY <1>2, <1>6
<1>9. db <= dt
  <2>1. CASE db = 0
    BY <2>1, <1>5
  <2>2. CASE db > 0
    BY <2>2, <1>2, <1>5, <1>6, <1>7, <1>8
  <2> QED BY <2>1, <2>2, <1>6
<1>10. dt - db \in Nat /\ dt - db <= db * BLOCK_BITS /\ db * BLOCK_BITS <= dt - db + BLOCK_BITS
  BY <1>2, <1>5, <1>6, <1>7, <1>9
<1>11. 1 + ib + ia + db + (dt - db) = t
  BY <1>3, <1>5, <1>6
<1> QED BY <1>3, <1>4, <1>6, <1>10, <1>11 DEF sb, n

(* create lays the areas out one behind the other up to the end of the     *)
(* device: none overlaps another, and no block is left over.  The data     *)
(* bitmap has a bit for every block of the data area, and fewer than one   *)
(* block of bits too many.                                                 *)
THEOREM AreasPartitionDevice ==
  ASSUME NEW t \in Nat, NEW ib \in Nat \ {0}, Fits(t, ib)
  PROVE  LET sb == super_block_of(t, ib)
             efs == create_efs(t, ib)
         IN /\ efs.inode_bitmap.start_block_id = 1
            /\ efs.inode_area_start_block = efs.inode_bitmap.start_block_id + efs.inode_bitmap.blocks
            /\ efs.data_bitmap.start_block_id = efs.inode_area_start_block + sb.inode_area_blocks
            /\ efs.data_area_start_block = efs.data_bitmap.start_block_id + efs.data_bitmap.blocks
            /\ efs.data_area_start_block + sb.data_area_blocks = t
            /\ sb.data_area_blocks <= maximum(efs.data_bitmap)
            /\ maximum(efs.data_bitmap) <= sb.data_area_blocks + BLOCK_BITS
<1> DEFINE sb == super_block_of(t, ib)
<1>1. /\ sb.inode_area_blocks \in Nat /\ sb.data_bitmap_blocks \in Nat /\ sb.data_area_blocks \in Nat
      /\ 1 + ib + sb.inode_area_blocks + sb.data_bitmap_blocks + sb.data_area_blocks = t
      /\ sb.data_area_blocks <= sb.data_bitmap_blocks * BLOCK_BITS
      /\ sb.data_bitmap_blocks * BLOCK_BITS <= sb.data_area_blocks + BLOCK_BITS
  BY Areas
<1> HIDE DEF sb
<1>2. create_efs(t, ib) =
        [inode_bitmap |-> [start_block_id |-> 1, blocks |-> ib],
         data_bitmap |-> [start_block_id |-> 1 + ib + sb.inode_area_blocks, blocks |-> sb.data_bitmap_blocks],
         inode_area_start_block |-> 1 + ib,
         data_area_start_block |-> 1 + (ib + sb.inode_area_blocks) + sb.data_bitmap_blocks]
  BY DEF create_efs, new_bitmap, sb
<1> QED BY <1>1, <1>2 DEF maximum, sb

(* open, which sees only the super block, gives the same EasyFileSystem as *)
(* create had: a file system that is mounted again is the one that was     *)
(* made.                                                                   *)
THEOREM OpenRecoversCreate ==
  ASSUME NEW t \in Nat, NEW ib \in Nat \ {0}, Fits(t, ib)
  PROVE  open(super_block_of(t, ib)) = create_efs(t, ib)
<1> DEFINE sb == super_block_of(t, ib)
<1>1. sb.inode_bitmap_blocks = ib /\ sb.inode_area_blocks \in Nat
  BY Areas
<1> HIDE DEF sb
<1>2. 1 + (ib + sb.inode_area_blocks) = 1 + ib + sb.inode_area_blocks
  BY <1>1
<1> QED BY <1>1, <1>2 DEF open, create_efs, new_bitmap, sb

(* Every inode number that the inode bitmap can give out has a place of    *)
(* its own inside the inode area, and no inode crosses a block.            *)
THEOREM InodesHavePlaces ==
  ASSUME NEW t \in Nat, NEW ib \in Nat \ {0}, Fits(t, ib)
  PROVE  LET efs == create_efs(t, ib)
             Ids == 0 .. maximum(efs.inode_bitmap) - 1
             pos(i) == get_disk_inode_pos(efs, i)
         IN /\ \A i \in Ids :
                 /\ pos(i)[1] \in efs.inode_area_start_block .. efs.data_bitmap.start_block_id - 1
                 /\ pos(i)[2] + INODE_BYTES <= BLOCK_BYTES
            /\ \A i, j \in Ids : pos(i) = pos(j) => i = j
<1> DEFINE sb == super_block_of(t, ib)
           efs == create_efs(t, ib)
           ia == sb.inode_area_blocks
           p == inodes_per_block
<1>1. ia \in Nat /\ ib * BLOCK_BITS * INODE_BYTES <= ia * BLOCK_BYTES
  BY Areas
<1>2. /\ maximum(efs.inode_bitmap) = ib * BLOCK_BITS
      /\ efs.inode_area_start_block = 1 + ib
      /\ efs.data_bitmap.start_block_id = 1 + ib + ia
  BY DEF create_efs, new_bitmap, maximum
<1>3. p \in Nat \ {0} /\ BLOCK_BYTES = p * INODE_BYTES
  <2>1. p \in Nat /\ BLOCK_BYTES = p * INODE_BYTES + (BLOCK_BYTES % INODE_BYTES)
    BY LayoutAssumption, DivMod, Zenon DEF inodes_per_block
  <2> HIDE DEF p
  <2>2. BLOCK_BYTES = p * INODE_BYTES
    BY <2>1, LayoutAssumption
  <2> QED BY <2>1, <2>2, LayoutAssumption
<1> HIDE DEF ia, sb, p
<1>4. BLOCK_BITS \in Nat \ {0} /\ ib * BLOCK_BITS \in Nat
  BY BlockBits
<1>5. ib * BLOCK_BITS <= ia * p
  <2> DEFINE x == ib * BLOCK_BITS
             y == ia * p
  <2>1. x \in Nat /\ y \in Nat
    BY <1>1, <1>3, <1>4
  <2>2. x * INODE_BYTES <= y * INODE_BYTES
    <3>1. ia * BLOCK_BYTES = y * INODE_BYTES
      BY <1>1, <1>3, LayoutAssumption
    <3> QED BY <3>1, <1>1
  <2> HIDE DEF x, y
  <2>3. SUFFICES ASSUME y < x PROVE FALSE
    BY <2>1 DEF x, y
  <2>4. y * INODE_BYTES + INODE_BYTES <= x * INODE_BYTES
    BY <2>1, <2>3, LayoutAssumption, Room
  <2>5. y * INODE_BYTES \in Nat /\ x * INODE_BYTES \in Nat
    BY <2>1, LayoutAssumption
  <2> QED BY <2>2, <2>4, <2>5, LayoutAssumption
<1>6. ASSUME NEW i \in 0 .. ib * BLOCK_BITS - 1
      PROVE  /\ i \div p \in 0 .. ia - 1
             /\ i % p \in 0 .. p - 1
             /\ i = (i \div p) * p + (i % p)
             /\ (i % p) * INODE_BYTES + INODE_BYTES <= BLOCK_BYTES
  <2>1. i \in Nat /\ i < ia * p
    <3>1. ia * p \in Nat
      BY <1>1, <1>3
    <3> QED BY <3>1, <1>4, <1>5
  <2>2. i \div p \in Nat /\ i % p \in 0 .. p - 1 /\ i = (i \div p) * p + (i % p)
    BY <2>1, <1>3, DivMod, Zenon
  <2>3. i \div p < ia
    <3>1. SUFFICES ASSUME ~(i \div p < ia) PROVE FALSE
      OBVIOUS
    <3>2. (i \div p) * p >= ia * p
      BY <3>1, <2>2, <1>1, <1>3
    <3>3. (i \div p) * p \in Nat /\ ia * p \in Nat
      BY <2>2, <1>1, <1>3
    <3> QED BY <3>2, <3>3, <2>1, <2>2, <1>3
  <2>4. (i % p) * INODE_BYTES + INODE_BYTES <= p * INODE_BYTES
    BY <2>2, <1>3, LayoutAssumption, Room
  <2> QED BY <2>2, <2>3, <2>4, <1>1, <1>3
<1>7. \A i : get_disk_inode_pos(efs, i) = <<1 + ib + i \div p, (i % p) * INODE_BYTES>>
  BY <1>2 DEF get_disk_inode_pos, p
<1> HIDE DEF efs
<1>8. ASSUME NEW i \in 0 .. ib * BLOCK_BITS - 1
      PROVE  /\ get_disk_inode_pos(efs, i)[1] \in efs.inode_area_start_block .. efs.data_bitmap.start_block_id - 1
             /\ get_disk_inode_pos(efs, i)[2] + INODE_BYTES <= BLOCK_BYTES
  <2>1. get_disk_inode_pos(efs, i)[1] = 1 + ib + i \div p /\ get_disk_inode_pos(efs, i)[2] = (i % p) * INODE_BYTES
    BY <1>7
  <2> QED BY <2>1, <1>1, <1>2, <1>6
<1>9. ASSUME NEW i \in 0 .. ib * BLOCK_BITS - 1, NEW j \in 0 .. ib * BLOCK_BITS - 1,
             get_disk_inode_pos(efs, i) = get_disk_inode_pos(efs, j)
      PROVE  i = j
  <2>1. 1 + ib + i \div p = 1 + ib + j \div p /\ (i % p) * INODE_BYTES = (j % p) * INODE_BYTES
    BY <1>7, <1>9
  <2>2. i \div p = j \div p
    BY <2>1, <1>6
  <2>3. i % p = j % p
    <3> DEFINE x == i % p
               y == j % p
    <3>1. x \in Nat /\ y \in Nat
      BY <1>3, <1>6
    <3> HIDE DEF x, y
    <3>2. x * INODE_BYTES = y * INODE_BYTES
      BY <2>1 DEF x, y
    <3>3. x = y
      BY <3>1, <3>2, LayoutAssumption
    <3> QED BY <3>3 DEF x, y
  <2> QED BY <2>2, <2>3, <1>6
<1> QED BY <1>2, <1>8, <1>9 DEF efs

-----------------------------------------------------------------------------
(* The first page of the buffer, and what a slice j must be: it covers     *)
(* page First + j - 1, from the start of the buffer or of the page to the  *)
(* end of the page or of the buffer.                                       *)
First == ptr \div PAGE_SIZE

SliceOK(j) ==
  /\ (First + j - 1) * PAGE_SIZE < end
  /\ First + j - 1 < USER_PAGES
  /\ v[j] = [ppn |-> page_table[First + j - 1],
             from |-> IF j = 1 THEN ptr % PAGE_SIZE ELSE 0,
             to |-> IF (First + j) * PAGE_SIZE <= end THEN PAGE_SIZE ELSE end % PAGE_SIZE]
  /\ v[j].from < v[j].to

(* Where the loop stands: before its first turn, at the start of a page,   *)
(* or behind the end of the buffer.                                        *)
LoopOK ==
  \/ start < end /\ Len(v) = 0 /\ start = ptr
  \/ start < end /\ Len(v) > 0 /\ start = (First + Len(v)) * PAGE_SIZE
  \/ ~(start < end) /\ Len(v) = 0 /\ len = 0
  \/ ~(start < end) /\ Len(v) > 0 /\ end <= (First + Len(v)) * PAGE_SIZE

(* Where the iterator stands: at the byte after those it has returned. *)
IterOK ==
  \/ /\ current_buffer < Len(v)
     /\ v[current_buffer + 1].from + current_idx < v[current_buffer + 1].to
     /\ ptr + Len(out) = (First + current_buffer) * PAGE_SIZE + v[current_buffer + 1].from + current_idx
  \/ current_buffer = Len(v) /\ Len(out) = len

Slice == [ppn : Ppn, from : Nat, to : Nat]

IInv ==
  /\ page_table \in [0 .. USER_PAGES - 1 -> Ppn]
  /\ ptr \in Nat /\ len \in Nat /\ ptr < VA_HALF /\ end <= VA_HALF
  /\ start \in Nat
  /\ v \in Seq(Slice)
  /\ current_buffer \in Nat /\ current_idx \in Nat
  /\ out \in Seq([ppn : Ppn, offset : Nat])
  /\ pc \in {"translate", "iterate", "done"}
  /\ \A j \in 1 .. Len(v) : SliceOK(j)
  /\ LoopOK
  /\ pc = "translate" => current_buffer = 0 /\ current_idx = 0 /\ out = <<>>
  /\ pc # "translate" => ~(start < end) /\ IterOK
  /\ pc = "done" => current_buffer = Len(v) /\ Len(out) = len
  /\ \A k \in 1 .. Len(out) : out[k] = translate_va(ptr + k - 1)

-----------------------------------------------------------------------------
(* The page and the offset of an address. *)
LEMMA PageOf ==
  ASSUME NEW a \in Nat
  PROVE  /\ a \div PAGE_SIZE \in Nat /\ a % PAGE_SIZE \in 0 .. PAGE_SIZE - 1
         /\ a = (a \div PAGE_SIZE) * PAGE_SIZE + (a % PAGE_SIZE)
  BY UserBufferAssumption, DivMod, Zenon

(* They are the only numbers of that form. *)
LEMMA PageOfUnique ==
  ASSUME NEW q \in Nat, NEW r \in 0 .. PAGE_SIZE - 1
  PROVE  (q * PAGE_SIZE + r) \div PAGE_SIZE = q /\ (q * PAGE_SIZE + r) % PAGE_SIZE = r
  BY UserBufferAssumption, DivModUnique

(* Behind an earlier page there is room for one page more. *)
LEMMA PageRoom ==
  ASSUME NEW n \in Nat, NEW k \in Nat, n < k
  PROVE  n * PAGE_SIZE + PAGE_SIZE <= k * PAGE_SIZE
  BY UserBufferAssumption, Room

(* Pages are ordered as their first bytes are. *)
LEMMA PageOrder ==
  ASSUME NEW n \in Nat, NEW k \in Nat, n * PAGE_SIZE < k * PAGE_SIZE
  PROVE  n < k
<1>1. SUFFICES ASSUME ~(n < k) PROVE FALSE
  OBVIOUS
<1>2. k * PAGE_SIZE <= n * PAGE_SIZE
  BY <1>1, UserBufferAssumption
<1>3. n * PAGE_SIZE \in Nat /\ k * PAGE_SIZE \in Nat
  BY UserBufferAssumption
<1> QED BY <1>2, <1>3

(* Masking leaves an address of the lower half, and the one behind it, as  *)
(* it is; the sign is extended for the one behind it only.                 *)
LEMMA LowerHalf ==
  /\ VA_HALF \in Nat \ {0} /\ VA_SIZE \in Nat
  /\ \A a \in 0 .. VA_HALF : virt_addr(a) = a
  /\ \A a \in 0 .. VA_HALF - 1 : to_usize(a) = a
  /\ to_usize(VA_HALF) \in Nat /\ to_usize(VA_HALF) >= VA_HALF
<1>1. VA_HALF \in Nat \ {0} /\ VA_SIZE = 2 * VA_HALF /\ VA_SIZE <= USIZE /\ USIZE \in Nat
  BY UserBufferAssumption DEF VA_HALF, VA_SIZE
<1>2. \A a \in 0 .. VA_HALF : a % VA_SIZE = a
  BY <1>1
<1> QED BY <1>1, <1>2 DEF virt_addr, to_usize

(* The walk stays inside a page when it stays inside a slice. *)
LEMMA TranslateVa ==
  ASSUME IInv, NEW q \in Nat, NEW r \in 0 .. PAGE_SIZE - 1, q * PAGE_SIZE + r <= VA_HALF
  PROVE  translate_va(q * PAGE_SIZE + r) = Pointer(page_table[q], r)
<1>1. q * PAGE_SIZE + r \in 0 .. VA_HALF
  BY UserBufferAssumption, LowerHalf
<1>2. virt_addr(q * PAGE_SIZE + r) = q * PAGE_SIZE + r
  BY <1>1, LowerHalf
<1> QED BY <1>2, PageOfUnique DEF translate_va, floor, page_offset

(* What one turn of the loop computes: the page it is in, where the slice  *)
(* starts and ends, and where the next turn starts.                        *)
LEMMA Turn ==
  ASSUME IInv, start < end
  PROVE  LET q == First + Len(v)
             from == IF Len(v) = 0 THEN ptr % PAGE_SIZE ELSE 0
             to == IF (q + 1) * PAGE_SIZE <= end THEN PAGE_SIZE ELSE end % PAGE_SIZE
         IN /\ q \in Nat /\ q < USER_PAGES /\ q * PAGE_SIZE < end
            /\ floor(virt_addr(start)) = q /\ page_offset(virt_addr(start)) = from
            /\ slice_end = to /\ from \in Nat /\ to \in Nat /\ from < to
            /\ to_usize(end_va) \in Nat
            /\ to_usize(end_va) < end => to_usize(end_va) = (q + 1) * PAGE_SIZE
            /\ ~(to_usize(end_va) < end) => end <= (q + 1) * PAGE_SIZE
<1> DEFINE n == Len(v)
           q == First + n
           from == IF n = 0 THEN ptr % PAGE_SIZE ELSE 0
           to == IF (q + 1) * PAGE_SIZE <= end THEN PAGE_SIZE ELSE end % PAGE_SIZE
           E == (q + 1) * PAGE_SIZE
<1>1. n \in Nat /\ ptr \in Nat /\ end \in Nat /\ start \in Nat /\ end <= VA_HALF
  BY DEF IInv, end
<1>2. First \in Nat /\ ptr % PAGE_SIZE \in 0 .. PAGE_SIZE - 1 /\ ptr = First * PAGE_SIZE + (ptr % PAGE_SIZE)
  BY <1>1, PageOf, Zenon DEF First
<1>3. PAGE_SIZE \in Nat \ {0} /\ USER_PAGES \in Nat /\ VA_HALF = USER_PAGES * PAGE_SIZE
  BY UserBufferAssumption DEF VA_HALF
<1>4. (n = 0 /\ start = ptr) \/ (n > 0 /\ start = q * PAGE_SIZE)
  BY DEF IInv, LoopOK
<1> HIDE DEF n
<1>5. q \in Nat /\ from \in 0 .. PAGE_SIZE - 1
  BY <1>1, <1>2, <1>3
<1>6. start = q * PAGE_SIZE + from
  <2>1. CASE n = 0 /\ start = ptr
    <3>1. q = First
      BY <2>1, <1>2
    <3> QED BY <2>1, <3>1, <1>2
  <2>2. CASE n > 0 /\ start = q * PAGE_SIZE
    <3>1. from = 0
      BY <2>2, <1>1
    <3>2. q * PAGE_SIZE \in Nat
      BY <1>5, <1>3
    <3> HIDE DEF from, q
    <3> QED BY <2>2, <3>1, <3>2
  <2> QED BY <1>4, <2>1, <2>2
<1> HIDE DEF q, from
<1>7. /\ q * PAGE_SIZE \in Nat /\ E = q * PAGE_SIZE + PAGE_SIZE /\ E \in Nat
  BY <1>3, <1>5
<1>8. virt_addr(start) = start /\ virt_addr(end) = end
  BY <1>1, LowerHalf
<1>9. floor(virt_addr(start)) = q /\ page_offset(virt_addr(start)) = from
  BY <1>5, <1>6, <1>8, PageOfUnique DEF floor, page_offset
<1>10. q * PAGE_SIZE < end /\ q * PAGE_SIZE < USER_PAGES * PAGE_SIZE
  BY <1>1, <1>3, <1>5, <1>6, <1>7
<1>11. q < USER_PAGES
  BY <1>3, <1>5, <1>10, PageOrder
<1>12. E <= VA_HALF
  BY <1>3, <1>5, <1>7, <1>11, PageRoom
<1>13. end_va = IF end < E THEN end ELSE E
  BY <1>8, <1>9 DEF end_va
<1> HIDE DEF E
<1>14. CASE end < E
  <2>1. end_va = end /\ to = end % PAGE_SIZE
    BY <1>14, <1>13, <1>1, <1>7 DEF to, E
  <2> DEFINE r == end - q * PAGE_SIZE
  <2>2. r \in 0 .. PAGE_SIZE - 1 /\ r > 0 /\ end = q * PAGE_SIZE + r
    BY <1>1, <1>3, <1>7, <1>10, <1>14
  <2> HIDE DEF r
  <2>3. end % PAGE_SIZE = r
    BY <2>2, <1>5, PageOfUnique
  <2>4. slice_end = to /\ to = r
    BY <2>1, <2>2, <2>3 DEF slice_end, page_offset
  <2>5. from < r
    BY <1>1, <1>5, <1>6, <1>7, <2>2
  <2>6. to_usize(end_va) = end
    BY <2>1, <1>1, <1>7, <1>12, <1>14, LowerHalf
  <2>7. to \in Nat /\ from < to /\ ~(to_usize(end_va) < end) /\ end <= E
    BY <2>2, <2>4, <2>5, <2>6, <1>1, <1>3, <1>7, <1>14
  <2> QED BY <2>4, <2>6, <2>7, <1>1, <1>5, <1>9, <1>10, <1>11 DEF n, q, from, to, E
<1>15. CASE ~(end < E)
  <2>1. end_va = E /\ to = PAGE_SIZE
    BY <1>15, <1>13, <1>1, <1>7 DEF to, E
  <2>2. page_offset(E) = 0
    <3>1. q + 1 \in Nat /\ 0 \in 0 .. PAGE_SIZE - 1 /\ E = (q + 1) * PAGE_SIZE + 0
      BY <1>3, <1>5, <1>7 DEF E
    <3> QED BY <3>1, PageOfUnique DEF page_offset
  <2>3. slice_end = to
    BY <2>1, <2>2 DEF slice_end
  <2>4. to_usize(E) \in Nat /\ (to_usize(E) = E \/ (E = VA_HALF /\ to_usize(E) >= VA_HALF))
    BY <1>7, <1>12, LowerHalf
  <2>5. /\ to_usize(end_va) \in Nat
        /\ to_usize(end_va) < end => to_usize(end_va) = E
        /\ ~(to_usize(end_va) < end) => end <= E
    BY <2>1, <2>4, <1>1, <1>7, <1>12, <1>15, LowerHalf
  <2>6. from \in Nat /\ to \in Nat /\ from < to
    BY <2>1, <1>3, <1>5
  <2> QED BY <2>3, <2>5, <2>6, <1>5, <1>9, <1>10, <1>11 DEF n, q, from, to, E
<1> QED BY <1>14, <1>15

(* A call that has cut no page yet satisfies the invariant. *)
LEMMA InitIInv == Init => IInv
<1> SUFFICES ASSUME Init PROVE IInv
  OBVIOUS
<1>1. VA_HALF \in Nat \ {0}
  BY LowerHalf
<1>2. ptr \in Nat /\ len \in Nat /\ ptr < VA_HALF /\ end <= VA_HALF /\ start = ptr
  BY <1>1 DEF Init, end
<1>3. LoopOK
  BY <1>2 DEF Init, LoopOK, end
<1> QED BY <1>2, <1>3 DEF Init, IInv

(* One turn adds the slice of the next page. *)
LEMMA TranslatePageIInv == IInv /\ translate_page => IInv'
<1> SUFFICES ASSUME IInv, translate_page PROVE IInv'
  OBVIOUS
<1> DEFINE n == Len(v)
           q == First + n
           from == IF n = 0 THEN ptr % PAGE_SIZE ELSE 0
           to == IF (q + 1) * PAGE_SIZE <= end THEN PAGE_SIZE ELSE end % PAGE_SIZE
           s == [ppn |-> page_table[q], from |-> from, to |-> to]
<1>0. start < end /\ pc = "translate"
  BY DEF translate_page
<1>1. /\ q \in Nat /\ q < USER_PAGES /\ q * PAGE_SIZE < end
      /\ floor(virt_addr(start)) = q /\ page_offset(virt_addr(start)) = from
      /\ slice_end = to /\ from \in Nat /\ to \in Nat /\ from < to
      /\ to_usize(end_va) \in Nat
      /\ to_usize(end_va) < end => to_usize(end_va) = (q + 1) * PAGE_SIZE
      /\ ~(to_usize(end_va) < end) => end <= (q + 1) * PAGE_SIZE
  BY <1>0, Turn
<1>2. n \in Nat /\ v \in Seq(Slice) /\ n = Len(v) /\ First \in Nat
  <2>1. First \in Nat
    BY PageOf DEF IInv, First
  <2> QED BY <2>1 DEF IInv
<1>3. /\ v' = Append(v, s) /\ start' = to_usize(end_va) /\ pc' = "translate"
      /\ page_table' = page_table /\ ptr' = ptr /\ len' = len /\ current_buffer' = current_buffer
      /\ current_idx' = current_idx /\ out' = out
  <2>1. from <= slice_end
    BY <1>1
  <2> QED BY <1>0, <1>1, <2>1 DEF translate_page
<1>4. s \in Slice
  BY <1>1, UserBufferAssumption DEF Slice, IInv
<1>5. First' = First /\ end' = end
  BY <1>3 DEF First, end
<1>6. s.from = from /\ s.to = to
  OBVIOUS
<1>7. (q + 1) = First + (n + 1) /\ q = First + (n + 1) - 1
  BY <1>2
<1> HIDE DEF s
<1>8. /\ v' \in Seq(Slice) /\ Len(v') = n + 1 /\ v'[n + 1] = s
      /\ \A j \in 1 .. n : v'[j] = v[j]
  BY <1>2, <1>3, <1>4
<1>9. ASSUME NEW j \in 1 .. Len(v')
      PROVE  SliceOK(j)'
  <2>1. CASE j \in 1 .. n
    <3>1. SliceOK(j)
      BY <2>1 DEF IInv
    <3> QED BY <3>1, <2>1, <1>3, <1>5, <1>8 DEF SliceOK
  <2>2. CASE j = n + 1
    <3>1. First + j - 1 = q /\ First + j = q + 1 /\ (j = 1 <=> n = 0)
      BY <2>2, <1>2
    <3>2. v'[j] = [ppn |-> page_table[First + j - 1],
                   from |-> IF j = 1 THEN ptr % PAGE_SIZE ELSE 0,
                   to |-> IF (First + j) * PAGE_SIZE <= end THEN PAGE_SIZE ELSE end % PAGE_SIZE]
      BY <2>2, <3>1, <1>8 DEF s
    <3>3. v'[j].from < v'[j].to
      BY <2>2, <1>8, <1>6, <1>1
    <3> QED BY <3>1, <3>2, <3>3, <1>1, <1>3, <1>5 DEF SliceOK
  <2> QED BY <2>1, <2>2, <1>2, <1>8
<1>10. LoopOK'
  <2>1. Len(v') = n + 1 /\ n + 1 > 0 /\ First' + Len(v') = q + 1
    BY <1>2, <1>5, <1>8
  <2>2. CASE start' < end
    BY <2>1, <2>2, <1>1, <1>3, <1>5 DEF LoopOK
  <2>3. CASE ~(start' < end)
    BY <2>1, <2>3, <1>1, <1>3, <1>5 DEF LoopOK
  <2> QED BY <2>2, <2>3
<1>11. start' \in Nat
  BY <1>1, <1>3
<1>12. current_buffer = 0 /\ current_idx = 0 /\ out = <<>>
  BY <1>0 DEF IInv
<1>13. \A k \in 1 .. Len(out') : (out[k] = translate_va(ptr + k - 1))'
  BY <1>3, <1>12
<1> HIDE DEF n, q
<1> QED BY <1>3, <1>5, <1>8, <1>9, <1>10, <1>11, <1>12, <1>13 DEF IInv

(* The loop has ended: the slices cover the buffer. *)
LEMMA IntoIterIInv == IInv /\ into_iter => IInv'
<1> SUFFICES ASSUME IInv, into_iter PROVE IInv'
  OBVIOUS
<1>0. /\ pc = "translate" /\ ~(start < end) /\ pc' = "iterate"
      /\ page_table' = page_table /\ ptr' = ptr /\ len' = len /\ start' = start /\ v' = v
      /\ current_buffer' = current_buffer /\ current_idx' = current_idx /\ out' = out
  BY DEF into_iter
<1>1. current_buffer = 0 /\ current_idx = 0 /\ out = <<>> /\ Len(out) = 0
  BY <1>0 DEF IInv
<1>2. Len(v) \in Nat /\ ptr \in Nat
  BY DEF IInv
<1>3. IterOK
  <2>1. CASE Len(v) = 0
    BY <2>1, <1>0, <1>1 DEF IInv, LoopOK, IterOK
  <2>2. CASE Len(v) > 0
    <3>1. SliceOK(1)
      BY <2>2, <1>2 DEF IInv
    <3>2. v[1].from = ptr % PAGE_SIZE /\ v[1].from < v[1].to
      BY <3>1 DEF SliceOK
    <3>3. First \in Nat /\ ptr % PAGE_SIZE \in Nat /\ ptr = First * PAGE_SIZE + (ptr % PAGE_SIZE)
      <4>1. First \in Nat /\ ptr % PAGE_SIZE \in 0 .. PAGE_SIZE - 1 /\ ptr = First * PAGE_SIZE + (ptr % PAGE_SIZE)
        BY <1>2, PageOf, Zenon DEF First
      <4>2. ptr % PAGE_SIZE \in Nat
        BY <4>1, UserBufferAssumption
      <4> QED BY <4>1, <4>2
    <3>4. v[current_buffer + 1] = v[1] /\ First + current_buffer = First /\ ptr + Len(out) = ptr
      BY <1>1, <1>2, <3>3
    <3>5. v[1].from + current_idx = v[1].from
      BY <1>1, <3>2, <3>3
    <3>6. First * PAGE_SIZE + v[1].from + current_idx = ptr
      <4> DEFINE x == First * PAGE_SIZE
                 y == ptr % PAGE_SIZE
      <4>1. x \in Nat /\ y \in Nat /\ ptr = x + y
        BY <3>3, UserBufferAssumption
      <4> HIDE DEF x, y
      <4>2. current_idx = 0
        BY <1>1, Zenon
      <4>3. x + y + current_idx = ptr
        BY <4>1, <4>2
      <4> QED BY <4>3, <3>2 DEF x, y
    <3> QED BY <2>2, <3>2, <3>4, <3>5, <3>6, <1>1 DEF IterOK
  <2> QED BY <2>1, <2>2, <1>2
<1>4. First' = First /\ end' = end /\ IterOK' /\ LoopOK' /\ \A j \in 1 .. Len(v) : SliceOK(j)'
  BY <1>0, <1>3 DEF First, end, IterOK, LoopOK, SliceOK, IInv
<1>5. \A k \in 1 .. Len(out') : (out[k] = translate_va(ptr + k - 1))'
  BY <1>0, <1>1
<1> QED BY <1>0, <1>4, <1>5 DEF IInv

(* The iterator returns the byte it stands at and goes on to the next, in  *)
(* the same slice or at the start of the next one.                         *)
LEMMA NextIInv == IInv /\ next => IInv'
<1> SUFFICES ASSUME IInv, next PROVE IInv'
  OBVIOUS
<1> DEFINE c == current_buffer
           q == First + c
           sl == v[c + 1]
           a == sl.from + current_idx
           k == Len(out)
<1>0. /\ pc = "iterate" /\ page_table' = page_table /\ ptr' = ptr /\ len' = len /\ start' = start /\ v' = v
      /\ ~(c >= Len(v))
  BY DEF next, exhausted
<1>1. /\ c \in Nat /\ Len(v) \in Nat /\ current_idx \in Nat /\ k \in Nat /\ ptr \in Nat /\ len \in Nat
      /\ end = ptr + len /\ end \in Nat /\ end <= VA_HALF /\ First \in Nat
      /\ PAGE_SIZE \in Nat \ {0} /\ USER_PAGES \in Nat /\ VA_HALF = USER_PAGES * PAGE_SIZE
  <2>1. First \in Nat
    BY PageOf DEF IInv, First
  <2> QED BY <2>1, UserBufferAssumption DEF IInv, end, VA_HALF
<1>2. /\ ~(start < end) /\ c < Len(v) /\ a < sl.to
      /\ ptr + k = q * PAGE_SIZE + sl.from + current_idx
  BY <1>0, <1>1 DEF IInv, IterOK
<1>c. c + 1 \in 1 .. Len(v)
  <2>1. c \in Nat /\ Len(v) \in Nat
    BY <1>1 DEF IInv
  <2>2. c < Len(v)
    BY <1>2
  <2> HIDE DEF c
  <2> QED BY <2>1, <2>2
<1>3. SliceOK(c + 1) /\ First + (c + 1) - 1 = q /\ First + (c + 1) = q + 1 /\ q \in Nat
  BY <1>c, <1>1 DEF IInv
<1>4. /\ q * PAGE_SIZE < end /\ q < USER_PAGES
      /\ sl = [ppn |-> page_table[q],
               from |-> IF c + 1 = 1 THEN ptr % PAGE_SIZE ELSE 0,
               to |-> IF (q + 1) * PAGE_SIZE <= end THEN PAGE_SIZE ELSE end % PAGE_SIZE]
      /\ sl.from < sl.to
  BY <1>3 DEF SliceOK
<1>5. sl.to = (IF (q + 1) * PAGE_SIZE <= end THEN PAGE_SIZE ELSE end % PAGE_SIZE) /\ sl.ppn = page_table[q]
  BY <1>4
<1>6. /\ sl \in Slice /\ sl.from \in Nat /\ sl.to \in Nat
  <2>2. sl \in Slice
    BY <1>c DEF IInv
  <2> HIDE DEF sl
  <2> QED BY <2>2 DEF Slice
<1>7. /\ q * PAGE_SIZE \in Nat /\ (q + 1) * PAGE_SIZE = q * PAGE_SIZE + PAGE_SIZE
      /\ q * PAGE_SIZE + PAGE_SIZE <= VA_HALF
  <2>1. /\ q \in Nat /\ q < USER_PAGES /\ USER_PAGES \in Nat /\ PAGE_SIZE \in Nat
        /\ VA_HALF = USER_PAGES * PAGE_SIZE
    BY <1>1, <1>3, <1>4
  <2> HIDE DEF q
  <2>2. q * PAGE_SIZE + PAGE_SIZE <= USER_PAGES * PAGE_SIZE
    BY <2>1, PageRoom
  <2>3. q * PAGE_SIZE \in Nat /\ (q + 1) * PAGE_SIZE = q * PAGE_SIZE + PAGE_SIZE
    BY <2>1
  <2> QED BY <2>1, <2>2, <2>3
<1>8. end % PAGE_SIZE \in 0 .. PAGE_SIZE - 1
  BY <1>1, PageOf, Zenon
<1> HIDE DEF sl, q
<1> DEFINE x == q * PAGE_SIZE
           f == sl.from
           t == sl.to
<1>a. /\ x \in Nat /\ f \in Nat /\ t \in Nat /\ f + current_idx < t /\ t <= PAGE_SIZE
      /\ ptr + k = x + f + current_idx
  <2>1. t <= PAGE_SIZE
    <3>1. CASE (q + 1) * PAGE_SIZE <= end
      BY <3>1, <1>1, <1>5
    <3>2. CASE ~((q + 1) * PAGE_SIZE <= end)
      <4> HIDE DEF t
      <4>1. t = end % PAGE_SIZE
        BY <3>2, <1>5 DEF t
      <4> QED BY <4>1, <1>1, <1>8
    <3> QED BY <3>1, <3>2
  <2> QED BY <2>1, <1>2, <1>6, <1>7
<1>9. a \in 0 .. PAGE_SIZE - 1 /\ ptr + k = q * PAGE_SIZE + a
  <2> HIDE DEF x, f, t
  <2>1. f + current_idx \in 0 .. PAGE_SIZE - 1 /\ ptr + k = x + (f + current_idx)
    BY <1>1, <1>a
  <2> QED BY <2>1 DEF x, f
<1>10. translate_va(ptr + k) = Pointer(sl.ppn, a)
  <2>1. q * PAGE_SIZE + a <= VA_HALF
    BY <1>1, <1>7, <1>9
  <2> HIDE DEF a
  <2> QED BY <2>1, <1>3, <1>5, <1>9, TranslateVa
<1>11. slice = sl /\ slice_len = sl.to - sl.from /\ ~(current_idx >= slice_len)
  BY <1>1, <1>2, <1>6 DEF slice, slice_len, sl
<1>12. /\ out' = Append(out, Pointer(sl.ppn, a)) /\ pc' = "iterate"
       /\ IF current_idx + 1 = slice_len
          THEN current_idx' = 0 /\ current_buffer' = c + 1
          ELSE current_idx' = current_idx + 1 /\ current_buffer' = c
  BY <1>0, <1>11 DEF next
<1>13. /\ out \in Seq([ppn : Ppn, offset : Nat])
       /\ Pointer(sl.ppn, a) \in [ppn : Ppn, offset : Nat]
  BY <1>1, <1>6, <1>9 DEF IInv, Pointer, Slice
<1>14. /\ out' \in Seq([ppn : Ppn, offset : Nat]) /\ Len(out') = k + 1
       /\ out'[k + 1] = Pointer(sl.ppn, a) /\ \A i \in 1 .. k : out'[i] = out[i]
  BY <1>12, <1>13
<1>15. ASSUME NEW i \in 1 .. Len(out')
       PROVE  (out[i] = translate_va(ptr + i - 1))'
  <2>1. translate_va(ptr + i - 1)' = translate_va(ptr + i - 1)
    BY <1>0 DEF translate_va
  <2>2. CASE i \in 1 .. k
    BY <2>1, <2>2, <1>14 DEF IInv
  <2>3. CASE i = k + 1
    <3>1. ptr + i - 1 = ptr + k
      BY <2>3, <1>1
    <3> QED BY <2>1, <2>3, <3>1, <1>10, <1>14
  <2> QED BY <2>2, <2>3, <1>1, <1>14
<1>16. First' = First /\ end' = end /\ LoopOK' /\ \A j \in 1 .. Len(v) : SliceOK(j)'
  BY <1>0 DEF First, end, LoopOK, SliceOK, IInv
<1>17. IterOK' /\ current_buffer' \in Nat /\ current_idx' \in Nat
  <2>1. CASE current_idx + 1 = slice_len
    <3>1. current_idx' = 0 /\ current_buffer' = c + 1
      BY <2>1, <1>12
    <3>2. ptr + (k + 1) = q * PAGE_SIZE + sl.to
      <4> HIDE DEF x, f, t, k
      <4>1. current_idx + 1 = t - f
        BY <2>1, <1>11 DEF t, f
      <4>2. ptr \in Nat /\ k \in Nat /\ current_idx \in Nat
        BY <1>1
      <4>3. ptr + (k + 1) = x + t
        BY <4>1, <4>2, <1>a
      <4> QED BY <4>3 DEF x, t
    <3>3. CASE c + 1 = Len(v)
      <4>1. end <= (q + 1) * PAGE_SIZE
        <5>1. LoopOK /\ ~(start < end) /\ Len(v) > 0
          BY <1>1, <1>2 DEF IInv
        <5>2. end <= (First + Len(v)) * PAGE_SIZE
          BY <5>1 DEF LoopOK
        <5>3. First + Len(v) = q + 1
          BY <3>3, <1>1 DEF q
        <5> QED BY <5>2, <5>3
      <4>2. ptr + (k + 1) = end
        <5>1. CASE (q + 1) * PAGE_SIZE <= end
          BY <5>1, <4>1, <3>2, <1>1, <1>5, <1>7
        <5>2. CASE ~((q + 1) * PAGE_SIZE <= end)
          <6> DEFINE r == end - q * PAGE_SIZE
          <6>1. r \in 0 .. PAGE_SIZE - 1 /\ end = q * PAGE_SIZE + r
            <7>1. x \in Nat /\ x < end /\ ~(x + PAGE_SIZE <= end)
              BY <5>2, <1>4, <1>7
            <7>2. r = end - x
              OBVIOUS
            <7>3. end \in Nat /\ PAGE_SIZE \in Nat
              BY <1>1
            <7> HIDE DEF x, r
            <7>4. r \in 0 .. PAGE_SIZE - 1 /\ end = x + r
              BY <7>1, <7>2, <7>3
            <7> QED BY <7>4 DEF x
          <6> HIDE DEF r
          <6>2. end % PAGE_SIZE = r
            BY <6>1, <1>3, PageOfUnique
          <6> QED BY <5>2, <6>1, <6>2, <3>2, <1>5
        <5> QED BY <5>1, <5>2
      <4>3. k + 1 = len
        BY <4>2, <1>1
      <4> QED BY <3>1, <3>3, <4>3, <1>0, <1>1, <1>14 DEF IterOK
    <3>4. CASE c + 1 < Len(v)
      <4>1. SliceOK(c + 2) /\ First + (c + 2) - 1 = q + 1 /\ c + 2 # 1
        <5>1. c + 2 \in 1 .. Len(v)
          BY <3>4, <1>1
        <5> QED BY <5>1, <1>1 DEF IInv, q
      <4>2. (q + 1) * PAGE_SIZE < end /\ v[c + 2].from = 0 /\ v[c + 2].from < v[c + 2].to
        BY <4>1 DEF SliceOK
      <4>3. sl.to = PAGE_SIZE
        BY <4>2, <1>1, <1>5, <1>7
      <4>4. ptr + (k + 1) = (q + 1) * PAGE_SIZE + 0 + 0
        BY <4>3, <3>2, <1>1, <1>7
      <4>5. v'[current_buffer' + 1] = v[c + 2] /\ First' + current_buffer' = q + 1
        BY <3>1, <1>0, <1>1, <1>16 DEF q
      <4>6. v[c + 2].from + 0 < v[c + 2].to
        BY <4>2
      <4> QED BY <3>1, <3>4, <4>2, <4>4, <4>5, <4>6, <1>0, <1>1, <1>14 DEF IterOK
    <3> QED BY <3>3, <3>4, <1>1, <1>2
  <2>2. CASE current_idx + 1 # slice_len
    <3>1. current_idx' = current_idx + 1 /\ current_buffer' = c
      BY <2>2, <1>12
    <3>2. sl.from + (current_idx + 1) < sl.to
      BY <2>2, <1>1, <1>2, <1>6, <1>11
    <3>3. ptr + (k + 1) = q * PAGE_SIZE + sl.from + (current_idx + 1)
      <4> HIDE DEF x, f
      <4>1. ptr + (k + 1) = x + f + (current_idx + 1)
        BY <1>1, <1>a
      <4> QED BY <4>1 DEF x, f
    <3>4. v'[current_buffer' + 1] = sl /\ First' + current_buffer' = q
      BY <3>1, <1>0, <1>16 DEF sl, q
    <3> QED BY <3>1, <3>2, <3>3, <3>4, <1>0, <1>1, <1>2, <1>14 DEF IterOK
  <2> QED BY <2>1, <2>2
<1> HIDE DEF c, k, a
<1> QED BY <1>0, <1>2, <1>12, <1>14, <1>15, <1>16, <1>17, Zenon DEF IInv

(* The iterator that has run out stays where it is. *)
LEMMA FinishIInv == IInv /\ finish => IInv'
<1> SUFFICES ASSUME IInv, finish PROVE IInv'
  OBVIOUS
<1>0. /\ pc = "iterate" /\ pc' = "done" /\ current_buffer >= Len(v)
      /\ page_table' = page_table /\ ptr' = ptr /\ len' = len /\ start' = start /\ v' = v
      /\ current_buffer' = current_buffer /\ current_idx' = current_idx /\ out' = out
  BY DEF finish, exhausted
<1>1. current_buffer = Len(v) /\ Len(out) = len
  <2>1. Len(v) \in Nat /\ current_buffer \in Nat
    BY DEF IInv
  <2> QED BY <2>1, <1>0 DEF IInv, IterOK
<1>2. First' = First /\ end' = end /\ LoopOK' /\ IterOK' /\ \A j \in 1 .. Len(v) : SliceOK(j)'
  BY <1>0, ZenonT(30) DEF First, end, LoopOK, IterOK, SliceOK, IInv
<1>3. \A k \in 1 .. Len(out) : (out[k] = translate_va(ptr + k - 1))'
  BY <1>0 DEF IInv, translate_va
<1> QED BY <1>0, <1>1, <1>2, <1>3 DEF IInv

(* The slices of translated_byte_buffer, walked by the iterator, are the   *)
(* bytes of the buffer in order, for every page size, page table and       *)
(* buffer.                                                                 *)
THEOREM BufferBytesInOrder == Spec => []BytesInOrder
<1>1. Init => IInv
  BY InitIInv
<1>2. IInv /\ [Next]_vars => IInv'
  <2>1. IInv /\ UNCHANGED vars => IInv'
    <3>1. ASSUME IInv, UNCHANGED vars
          PROVE  /\ pc' = pc /\ page_table' = page_table /\ ptr' = ptr /\ len' = len /\ start' = start
                 /\ v' = v /\ current_buffer' = current_buffer /\ current_idx' = current_idx /\ out' = out
      BY <3>1, Zenon DEF vars
    <3> QED BY <3>1, ZenonT(30) DEF IInv, LoopOK, IterOK, SliceOK, First, end, translate_va
  <2>2. IInv /\ Halted => IInv'
    BY <2>1 DEF Halted
  <2> QED BY <2>1, <2>2, TranslatePageIInv, IntoIterIInv, NextIInv, FinishIInv DEF Next
<1>3. IInv => BytesInOrder
  BY DEF IInv, BytesInOrder
<1> QED BY <1>1, <1>2, <1>3, PTL DEF Spec
============================================================================
