------------------------------- MODULE Loops -------------------------------
(***************************************************************************)
(* Straight-line kernel code as operators: a builder is a record that      *)
(* carries the state a function changes, with a field panicked that is     *)
(* "no" until an unwrap, an assert or a panic! stops it.                   *)
(***************************************************************************)
EXTENDS Integers, Sequences

(* What follows a step of b is not reached when that step panicked. *)
Then(b, next) == IF b.panicked = "no" THEN next ELSE b

(* for x in seq { op }, which a panic leaves.  A long sequence is taken in *)
(* chunks of eight: the result is the same and its evaluation less deep.   *)
Loop(op(_, _), b, seq) ==
  LET run[k \in 0 .. Len(seq)] ==
        IF k = 0 THEN b ELSE LET c == run[k - 1] IN Then(c, op(c, seq[k]))
  IN run[Len(seq)]

Chunks(seq) ==
  [j \in 1 .. (Len(seq) + 7) \div 8 |-> SubSeq(seq, 8 * j - 7, IF 8 * j <= Len(seq) THEN 8 * j ELSE Len(seq))]

ForEach(op(_, _), b, seq) ==
  Loop(LAMBDA c, chunk : Loop(op, c, chunk), b, Chunks(seq))

(* The numbers from lo up to but not including hi. *)
Upto(lo, hi) == [k \in 1 .. IF hi > lo THEN hi - lo ELSE 0 |-> lo + k - 1]
============================================================================
