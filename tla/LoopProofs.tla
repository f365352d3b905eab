----------------------------- MODULE LoopProofs -----------------------------
(***************************************************************************)
(* What holds of a loop of Loops.  The body op, whose first argument is    *)
(* what it reads besides the builder, and the invariant Inv, whose first   *)
(* argument is what it compares with and whose second counts the rounds,   *)
(* are parameters: a proof about a loop instantiates the module with that  *)
(* loop's body.                                                            *)
(***************************************************************************)
EXTENDS Loops

CONSTANTS op(_, _, _), Inv(_, _, _)

Body(p, c, x) == Then(c, op(p, c, x))

LoopOp(p, b, seq) == Loop(LAMBDA c, x : op(p, c, x), b, seq)

ForEachOp(p, b, seq) == ForEach(LAMBDA c, x : op(p, c, x), b, seq)

(* The states after 0, 1, .. n rounds. *)
Rounds(p, b, seq, n, run) ==
  run = [k \in 0 .. n |-> IF k = 0 THEN b ELSE Body(p, run[k - 1], seq[k])]

ChunkRounds(p, b, chunks, n, run) ==
  run = [k \in 0 .. n |-> IF k = 0 THEN b
                          ELSE Then(run[k - 1], LoopOp(p, run[k - 1], chunks[k]))]

(* An invariant of the rounds of a for loop of the kernel holds after it,  *)
(* whether or not a round panicked (Then skips the rest).  The first       *)
(* assumption is LeastNumber of Lemmas: a module without the library's     *)
(* theorems is quicker to instantiate.                                     *)
THEOREM ForEachInv ==
  ASSUME \A T \in SUBSET Nat : T # {} => \E x \in T : \A y \in T : x <= y,
         NEW p, NEW q, NEW b, NEW S, NEW seq \in Seq(S), Inv(q, 0, b),
         \A k \in 1 .. Len(seq) : \A c :
           Inv(q, k - 1, c) => Inv(q, k, Then(c, op(p, c, seq[k]))),
         \A j, k \in 0 .. Len(seq) : \A c :
           j <= k /\ c.panicked # "no" /\ Inv(q, j, c) => Inv(q, k, c)
  PROVE  Inv(q, Len(seq), ForEachOp(p, b, seq))
(* The recursive function of Loop exists. *)
<1>1. ASSUME NEW e, NEW s, NEW n \in Nat
     PROVE  \E run : Rounds(p, e, s, n, run)
  <2> DEFINE T == {k \in Nat : ~ \E run : Rounds(p, e, s, k, run)}
  <2> SUFFICES T = {}
    OBVIOUS
  <2>1. SUFFICES ASSUME T # {} PROVE FALSE
    OBVIOUS
  <2>2. PICK k \in T : \A j \in T : k <= j
    BY <2>1
  <2>3. CASE k = 0
    <3> DEFINE run == [j \in 0 .. 0 |-> e]
    <3>1. Rounds(p, e, s, 0, run)
      BY DEF Rounds
    <3> QED BY <2>2, <2>3, <3>1
  <2>4. CASE k # 0
    <3>1. k \in Nat /\ k - 1 \in Nat /\ k - 1 \notin T
      BY <2>2, <2>4
    <3>2. PICK run : Rounds(p, e, s, k - 1, run)
      BY <3>1
    <3> DEFINE more == [j \in 0 .. k |-> IF j = k THEN Body(p, run[k - 1], s[k]) ELSE run[j]]
    <3>3. \A j \in 0 .. k : more[j] = IF j = 0 THEN e ELSE Body(p, more[j - 1], s[j])
      <4> SUFFICES ASSUME NEW j \in 0 .. k
                   PROVE  more[j] = IF j = 0 THEN e ELSE Body(p, more[j - 1], s[j])
        OBVIOUS
      <4>1. CASE j = k
        BY <3>1, <2>4, <4>1
      <4>2. CASE j # k
        <5>1. j \in 0 .. k - 1 /\ more[j] = run[j]
          BY <3>1, <4>2
        <5>2. j # 0 => more[j - 1] = run[j - 1]
          BY <3>1, <4>2
        <5>3. run[j] = IF j = 0 THEN e ELSE Body(p, run[j - 1], s[j])
          BY <3>2, <5>1 DEF Rounds
        <5> HIDE DEF more
        <5> QED BY <5>1, <5>2, <5>3
      <4> QED BY <4>1, <4>2
    <3>4. Rounds(p, e, s, k, more)
      BY <3>3 DEF Rounds
    <3> QED BY <2>2, <3>4
  <2> QED BY <2>3, <2>4
(* So does the one of the loop over the chunks. *)
<1>2. ASSUME NEW e, NEW chunks, NEW n \in Nat
     PROVE  \E run : ChunkRounds(p, e, chunks, n, run)
  <2> DEFINE T == {k \in Nat : ~ \E run : ChunkRounds(p, e, chunks, k, run)}
  <2> SUFFICES T = {}
    OBVIOUS
  <2>1. SUFFICES ASSUME T # {} PROVE FALSE
    OBVIOUS
  <2>2. PICK k \in T : \A j \in T : k <= j
    BY <2>1
  <2>3. CASE k = 0
    <3> DEFINE run == [j \in 0 .. 0 |-> e]
    <3>1. ChunkRounds(p, e, chunks, 0, run)
      BY DEF ChunkRounds
    <3> QED BY <2>2, <2>3, <3>1
  <2>4. CASE k # 0
    <3>1. k \in Nat /\ k - 1 \in Nat /\ k - 1 \notin T
      BY <2>2, <2>4
    <3>2. PICK run : ChunkRounds(p, e, chunks, k - 1, run)
      BY <3>1
    <3> DEFINE more == [j \in 0 .. k |-> IF j = k THEN Then(run[k - 1], LoopOp(p, run[k - 1], chunks[k])) ELSE run[j]]
    <3>3. \A j \in 0 .. k : more[j] = IF j = 0 THEN e ELSE Then(more[j - 1], LoopOp(p, more[j - 1], chunks[j]))
      <4> SUFFICES ASSUME NEW j \in 0 .. k
                   PROVE  more[j] = IF j = 0 THEN e ELSE Then(more[j - 1], LoopOp(p, more[j - 1], chunks[j]))
        OBVIOUS
      <4>1. CASE j = k
        BY <3>1, <2>4, <4>1
      <4>2. CASE j # k
        <5>1. j \in 0 .. k - 1 /\ more[j] = run[j]
          BY <3>1, <4>2
        <5>2. j # 0 => more[j - 1] = run[j - 1]
          BY <3>1, <4>2
        <5>3. run[j] = IF j = 0 THEN e ELSE Then(run[j - 1], LoopOp(p, run[j - 1], chunks[j]))
          BY <3>2, <5>1 DEF ChunkRounds
        <5> HIDE DEF more
        <5> QED BY <5>1, <5>2, <5>3
      <4> QED BY <4>1, <4>2
    <3>4. ChunkRounds(p, e, chunks, k, more)
      BY <3>3 DEF ChunkRounds
    <3> QED BY <2>2, <3>4
  <2> QED BY <2>3, <2>4
(* Loop is the last of its rounds. *)
<1>3. ASSUME NEW e, NEW s \in Seq(S)
     PROVE  \E run : Rounds(p, e, s, Len(s), run) /\ LoopOp(p, e, s) = run[Len(s)]
  <2> DEFINE run == CHOOSE run : Rounds(p, e, s, Len(s), run)
  <2>1. Len(s) \in Nat
    OBVIOUS
  <2>2. Rounds(p, e, s, Len(s), run)
    BY <2>1, <1>1
  <2>3. LoopOp(p, e, s) = run[Len(s)]
    BY DEF LoopOp, Loop, Rounds, Body
  <2> QED BY <2>2, <2>3
(* ForEach is the last round of the loop over the chunks. *)
<1>4. ASSUME NEW e, NEW s, Len(Chunks(s)) \in Nat
     PROVE  \E run : /\ ChunkRounds(p, e, Chunks(s), Len(Chunks(s)), run)
                     /\ ForEachOp(p, e, s) = run[Len(Chunks(s))]
  <2> DEFINE run == CHOOSE run : ChunkRounds(p, e, Chunks(s), Len(Chunks(s)), run)
  <2>2. ChunkRounds(p, e, Chunks(s), Len(Chunks(s)), run)
    BY <1>2, <1>4
  <2>3. ForEachOp(p, e, s) = run[Len(Chunks(s))]
    BY DEF ForEachOp, ForEach, LoopOp, Loop, ChunkRounds
  <2> QED BY <2>2, <2>3
(* The chunks are the sequence, eight elements at a time. *)
<1>5. ASSUME NEW s \in Seq(S)
     PROVE  LET n == Len(Chunks(s))
                upto(j) == IF 8 * j <= Len(s) THEN 8 * j ELSE Len(s)
            IN /\ n \in Nat
               /\ upto(n) = Len(s)
               /\ \A j \in 1 .. n :
                    /\ Chunks(s)[j] \in Seq(S)
                    /\ upto(j - 1) = 8 * (j - 1)
                    /\ Len(Chunks(s)[j]) = upto(j) - upto(j - 1)
                    /\ \A k \in 1 .. Len(Chunks(s)[j]) :
                         /\ upto(j - 1) + k \in 1 .. Len(s)
                         /\ Chunks(s)[j][k] = s[upto(j - 1) + k]
  <2> DEFINE n == (Len(s) + 7) \div 8
             upto(j) == IF 8 * j <= Len(s) THEN 8 * j ELSE Len(s)
  <2>1. Len(s) \in Nat /\ n \in Nat /\ 8 * n >= Len(s) /\ 8 * n <= Len(s) + 7
    OBVIOUS
  <2>2. Len(Chunks(s)) = n
    BY <2>1 DEF Chunks
  <2>3. \A j \in 1 .. n : upto(j - 1) = 8 * (j - 1) /\ upto(j) \in 8 * j - 7 .. Len(s) /\ upto(j) \in Nat
    BY <2>1
  <2>4. ASSUME NEW j \in 1 .. n
        PROVE  Chunks(s)[j] = SubSeq(s, 8 * j - 7, upto(j))
    BY DEF Chunks
  <2>5. ASSUME NEW j \in 1 .. n
        PROVE  /\ Chunks(s)[j] \in Seq(S)
               /\ Len(Chunks(s)[j]) = upto(j) - upto(j - 1)
               /\ \A k \in 1 .. Len(Chunks(s)[j]) :
                    /\ upto(j - 1) + k \in 1 .. Len(s)
                    /\ Chunks(s)[j][k] = s[upto(j - 1) + k]
    <3> DEFINE lo == 8 * j - 7
               hi == upto(j)
    <3>1. /\ lo \in 1 .. Len(s) /\ hi \in lo .. Len(s)
          /\ upto(j - 1) = lo - 1
      BY <2>1, <2>3
    <3>2. Chunks(s)[j] = SubSeq(s, lo, hi)
      BY <2>4
    <3> HIDE DEF n, upto, lo, hi
    <3>3. lo \in 1 .. Len(s) + 1 /\ hi \in lo - 1 .. Len(s)
      BY <2>1, <3>1
    <3>4. /\ SubSeq(s, lo, hi) \in Seq(S)
          /\ Len(SubSeq(s, lo, hi)) = hi - lo + 1
          /\ \A k \in 1 .. hi - lo + 1 : SubSeq(s, lo, hi)[k] = s[lo + k - 1]
      <4>1. \A k \in lo .. hi : s[k] \in S
        BY <2>1, <3>1
      <4> QED BY <4>1, <3>1, <2>1
    <3>5. hi - (lo - 1) = hi - lo + 1
      BY <2>1, <3>1
    <3>6. \A k \in 1 .. hi - lo + 1 : (lo - 1) + k \in 1 .. Len(s) /\ (lo - 1) + k = lo + k - 1
      BY <2>1, <3>1
    <3> QED BY <3>1, <3>2, <3>4, <3>5, <3>6 DEF hi
  <2> HIDE DEF n
  <2>6. upto(n) = Len(s)
    BY <2>1
  <2> QED BY <2>1, <2>2, <2>3, <2>5, <2>6
(* An invariant of the rounds holds after the loop; d rounds went before. *)
<1>6. ASSUME NEW e, NEW s \in Seq(S), NEW d \in Nat, Inv(q, d, e),
            \A k \in 1 .. Len(s) : \A c :
              Inv(q, d + k - 1, c) => Inv(q, d + k, Body(p, c, s[k]))
     PROVE  Inv(q, d + Len(s), LoopOp(p, e, s))
  <2>1. PICK run : Rounds(p, e, s, Len(s), run) /\ LoopOp(p, e, s) = run[Len(s)]
    BY <1>3
  <2>2. Len(s) \in Nat
    OBVIOUS
  <2>3. \A k \in 0 .. Len(s) : run[k] = IF k = 0 THEN e ELSE Body(p, run[k - 1], s[k])
    BY <2>1, <2>2 DEF Rounds
  <2> DEFINE T == {k \in Nat : k <= Len(s) /\ ~ Inv(q, d + k, run[k])}
  <2>4. ASSUME T # {} PROVE FALSE
    <3>1. PICK k \in T : \A j \in T : k <= j
      BY <2>4
    <3>2. k \in 0 .. Len(s) /\ ~ Inv(q, d + k, run[k])
      BY <2>2, <3>1
    <3>3. k # 0
      <4>1. run[0] = e /\ d + 0 = d
        BY <2>2, <2>3
      <4> QED BY <1>6, <3>2, <4>1
    <3>4. k \in 1 .. Len(s) /\ k - 1 \in 0 .. Len(s) /\ k - 1 \in Nat /\ k - 1 \notin T
      BY <2>2, <3>1, <3>2, <3>3
    <3>5. Inv(q, d + (k - 1), run[k - 1])
      BY <2>2, <3>4
    <3>6. d + (k - 1) = d + k - 1
      BY <3>4
    <3>7. run[k] = Body(p, run[k - 1], s[k])
      BY <2>3, <3>2, <3>3
    <3>8. Inv(q, d + k, Body(p, run[k - 1], s[k]))
      BY <1>6, <3>4, <3>5, <3>6
    <3> QED BY <3>2, <3>7, <3>8
  <2>5. Inv(q, d + Len(s), run[Len(s)])
    BY <2>2, <2>4
  <2> QED BY <2>1, <2>5
<1> DEFINE n == Len(Chunks(seq))
           upto(j) == IF 8 * j <= Len(seq) THEN 8 * j ELSE Len(seq)
<1>7. /\ n \in Nat
      /\ upto(n) = Len(seq)
      /\ \A j \in 1 .. n :
           /\ Chunks(seq)[j] \in Seq(S)
           /\ upto(j - 1) = 8 * (j - 1)
           /\ Len(Chunks(seq)[j]) = upto(j) - upto(j - 1)
           /\ \A k \in 1 .. Len(Chunks(seq)[j]) :
                /\ upto(j - 1) + k \in 1 .. Len(seq)
                /\ Chunks(seq)[j][k] = seq[upto(j - 1) + k]
  BY <1>5
<1>8. Len(seq) \in Nat
  OBVIOUS
<1>9. PICK run : /\ ChunkRounds(p, b, Chunks(seq), n, run)
                 /\ ForEachOp(p, b, seq) = run[n]
  BY <1>7, <1>4
<1>10. \A j \in 0 .. n : run[j] = IF j = 0 THEN b
                          ELSE Then(run[j - 1], LoopOp(p, run[j - 1], Chunks(seq)[j]))
  BY <1>7, <1>9 DEF ChunkRounds
<1> DEFINE T == {j \in Nat : j <= n /\ ~ Inv(q, upto(j), run[j])}
<1>11. ASSUME T # {} PROVE FALSE
  <2>1. PICK j \in T : \A i \in T : j <= i
    BY <1>11
  <2> HIDE DEF n
  <2>2. j \in 0 .. n /\ ~ Inv(q, upto(j), run[j])
    BY <1>7, <2>1
  <2>3. j # 0
    <3>1. run[0] = b /\ upto(0) = 0
      BY <1>7, <1>8, <1>10
    <3> QED BY <2>2, <3>1
  <2>4. j \in 1 .. n /\ j - 1 \in Nat /\ j - 1 <= n /\ j - 1 \notin T
    BY <1>7, <2>1, <2>2, <2>3
  <2> DEFINE d == upto(j - 1)
             c == run[j - 1]
             chunk == Chunks(seq)[j]
  <2>5. Inv(q, d, c)
    BY <2>4
  <2>6. /\ chunk \in Seq(S) /\ Len(chunk) = upto(j) - d /\ d \in Nat /\ upto(j) \in Nat
        /\ d \in 0 .. Len(seq) /\ upto(j) \in 0 .. Len(seq) /\ d <= upto(j)
        /\ \A k \in 1 .. Len(chunk) : d + k \in 1 .. Len(seq) /\ chunk[k] = seq[d + k]
    <3>1. /\ chunk \in Seq(S) /\ Len(chunk) = upto(j) - d
          /\ \A k \in 1 .. Len(chunk) : d + k \in 1 .. Len(seq) /\ chunk[k] = seq[d + k]
      <4> HIDE DEF upto
      <4> QED BY <1>7, <2>4
    <3>2. upto(j) \in 0 .. Len(seq) /\ d \in 0 .. Len(seq) /\ d <= upto(j) /\ d \in Nat /\ upto(j) \in Nat
      BY <1>8, <2>4
    <3> QED BY <3>1, <3>2
  <2>7. run[j] = Then(c, LoopOp(p, c, chunk))
    BY <1>10, <2>2, <2>3
  <2> HIDE DEF T, d, c, chunk
  <2>8. CASE c.panicked = "no"
    <3>1. ASSUME NEW k \in 1 .. Len(chunk), NEW e, Inv(q, d + k - 1, e)
          PROVE  Inv(q, d + k, Body(p, e, chunk[k]))
      BY <2>6, <3>1 DEF Body
    <3>2. Inv(q, d + Len(chunk), LoopOp(p, c, chunk))
      BY <2>5, <2>6, <3>1, <1>6
    <3>3. d + Len(chunk) = upto(j)
      BY <2>6
    <3>4. run[j] = LoopOp(p, c, chunk)
      BY <2>7, <2>8 DEF Then
    <3> QED BY <2>2, <3>2, <3>3, <3>4
  <2>9. CASE c.panicked # "no"
    <3>1. run[j] = c
      BY <2>7, <2>9 DEF Then
    <3>2. Inv(q, upto(j), c)
      BY <2>5, <2>6, <2>9
    <3> QED BY <2>2, <3>1, <3>2
  <2> QED BY <2>8, <2>9
<1>12. Inv(q, upto(n), run[n])
  BY <1>7, <1>11
<1> QED BY <1>7, <1>9, <1>12
=============================================================================
