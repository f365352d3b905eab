---------------------------- MODULE FilesProofs ----------------------------
(***************************************************************************)
(* Open files, for any number of processes, descriptors, files and pages   *)
(* of a buffer: that they implement the store, and that neither fork nor   *)
(* the sharing of an offset lets one descriptor disturb another.           *)
(***************************************************************************)
EXTENDS Files, ProcessProofs

ZeroUnit == <<0, 0, 0>>

-----------------------------------------------------------------------------
(* What a read and a write of the store do, unit by unit.                  *)

(* How many there are of len units at pos. *)
ReadLen(size, pos, len) ==
  IF pos + len <= size THEN len ELSE IF pos <= size THEN size - pos ELSE 0

(* Two reads in a row take what one takes. *)
LEMMA ReadLenSplit ==
  ASSUME NEW size \in Nat, NEW pos \in Nat, NEW a \in Nat, NEW len \in Nat \ {0}
  PROVE  LET n1 == ReadLen(size, pos, a)
             n2 == ReadLen(size, pos + n1, len)
         IN /\ ReadLen(size, pos, a + len) = n1 + n2
            /\ n2 = 0 <=> pos + n1 >= size
<1>1. CASE pos + a <= size
  BY <1>1 DEF ReadLen
<1>2. CASE ~(pos + a <= size) /\ pos <= size
  BY <1>2 DEF ReadLen
<1>3. CASE ~(pos + a <= size) /\ ~(pos <= size)
  BY <1>3 DEF ReadLen
<1> QED BY <1>1, <1>2, <1>3

(* A read returns what there is of len units at pos. *)
ReadsUnits(S, data, pos, len) ==
  /\ ReadLen(Len(data), pos, len) \in Nat
  /\ ReadOut(data, pos, len) \in Seq(S)
  /\ Len(ReadOut(data, pos, len)) = ReadLen(Len(data), pos, len)
  /\ \A k \in 1 .. ReadLen(Len(data), pos, len) : ReadOut(data, pos, len)[k] = data[pos + k]

(* Which is what read_at of the store does. *)
LEMMA ReadOutUnits ==
  ASSUME NEW S, NEW data \in Seq(S), NEW pos \in Nat, NEW len \in Nat
  PROVE  ReadsUnits(S, data, pos, len)
<1> DEFINE hi == IF pos + len < Len(data) THEN pos + len ELSE Len(data)
           n == ReadLen(Len(data), pos, len)
<1>1. Len(data) \in Nat /\ hi \in Nat /\ \A k \in 1 .. Len(data) : data[k] \in S
  OBVIOUS
<1>2. ReadOut(data, pos, len) = SubSeq(data, pos + 1, hi)
  BY DEF ReadOut, Store!ReadOut
<1>3. CASE pos <= Len(data)
  <2>1. pos + 1 \in 1 .. Len(data) + 1 /\ hi \in pos + 1 - 1 .. Len(data)
    BY <1>1, <1>3
  <2>2. /\ SubSeq(data, pos + 1, hi) \in Seq(S)
        /\ Len(SubSeq(data, pos + 1, hi)) = hi - (pos + 1) + 1
        /\ \A k \in 1 .. hi - (pos + 1) + 1 : SubSeq(data, pos + 1, hi)[k] = data[pos + 1 + k - 1]
    <3> HIDE DEF hi
    <3> QED BY <2>1, <1>1, SubSeqProperties
  <2>3. hi - (pos + 1) + 1 = n /\ n \in Nat
    BY <1>1, <1>3 DEF ReadLen
  <2>4. \A k \in 1 .. n : pos + 1 + k - 1 = pos + k
    OBVIOUS
  <2> HIDE DEF hi, n
  <2>5. \A k \in 1 .. n : SubSeq(data, pos + 1, hi)[k] = data[pos + k]
    BY <2>2, <2>3, <2>4, Zenon
  <2> QED BY <1>2, <2>2, <2>3, <2>5, Zenon DEF n, ReadsUnits
<1>4. CASE pos > Len(data)
  <2>1. hi = Len(data) /\ hi < pos + 1 /\ n = 0
    BY <1>1, <1>4 DEF ReadLen
  <2>2. SubSeq(data, pos + 1, hi) = <<>>
    BY <1>1, <2>1
  <2> HIDE DEF hi, n
  <2>3. \A k \in 1 .. n : FALSE
    BY <2>1
  <2>4. <<>> \in Seq(S) /\ Len(<<>>) = 0 /\ 0 \in Nat
    OBVIOUS
  <2> QED BY <1>2, <2>1, <2>2, <2>3, <2>4, Zenon DEF n, ReadsUnits
<1> QED BY <1>1, <1>3, <1>4

(* Two reads, the second from where the first ended, are one. *)
ReadsOn(S, data, pos, a, len) ==
  LET first == ReadOut(data, pos, a)
      got == ReadOut(data, pos + Len(first), len)
  IN /\ first \in Seq(S) /\ got \in Seq(S)
     /\ first \o got = ReadOut(data, pos, a + len)
     /\ got = <<>> <=> pos + Len(first) >= Len(data)

(* So it is with read_at of the store. *)
LEMMA ReadMore ==
  ASSUME NEW S, NEW data \in Seq(S), NEW pos \in Nat, NEW a \in Nat, NEW len \in Nat \ {0}
  PROVE  ReadsOn(S, data, pos, a, len)
<1> DEFINE first == ReadOut(data, pos, a)
           got == ReadOut(data, pos + Len(first), len)
           both == ReadOut(data, pos, a + len)
           n1 == ReadLen(Len(data), pos, a)
           n2 == ReadLen(Len(data), pos + n1, len)
           n == ReadLen(Len(data), pos, a + len)
<1>0. ASSUME NEW x \in Nat, NEW y \in Nat PROVE ReadsUnits(S, data, x, y)
  BY ReadOutUnits
<1>1. /\ n1 \in Nat /\ first \in Seq(S) /\ Len(first) = n1
      /\ \A k \in 1 .. n1 : first[k] = data[pos + k]
  BY <1>0, Zenon DEF ReadsUnits
<1>2. a + len \in Nat /\ pos + n1 \in Nat /\ Len(data) \in Nat /\ len \in Nat
  BY <1>1
<1>3. /\ n2 \in Nat /\ got \in Seq(S) /\ Len(got) = n2
      /\ \A k \in 1 .. n2 : got[k] = data[pos + n1 + k]
  <2>1. got = ReadOut(data, pos + n1, len)
    BY <1>1, Zenon
  <2> HIDE DEF first, n1, got
  <2> QED BY <1>0, <1>2, <2>1, Zenon DEF ReadsUnits
<1>4. /\ n \in Nat /\ both \in Seq(S) /\ Len(both) = n
      /\ \A k \in 1 .. n : both[k] = data[pos + k]
  BY <1>0, <1>2, Zenon DEF ReadsUnits
<1>5. n = n1 + n2 /\ (n2 = 0 <=> pos + n1 >= Len(data))
  BY <1>2, ReadLenSplit, Zenon
<1> HIDE DEF first, got, both, n1, n2, n
<1>6. /\ first \o got \in Seq(S) /\ Len(first \o got) = n
      /\ \A k \in 1 .. n : (first \o got)[k] = IF k <= n1 THEN first[k] ELSE got[k - n1]
  <2>1. first \in Seq(S) /\ got \in Seq(S) /\ Len(first) = n1 /\ Len(got) = n2 /\ n = n1 + n2
    BY <1>1, <1>3, <1>5, Zenon
  <2>2. /\ first \o got \in Seq(S)
        /\ Len(first \o got) = Len(first) + Len(got)
        /\ \A k \in 1 .. Len(first) + Len(got) :
             (first \o got)[k] = IF k <= Len(first) THEN first[k] ELSE got[k - Len(first)]
    BY <2>1, ConcatProperties
  <2> QED BY <2>1, <2>2, Zenon
<1>7. \A k \in 1 .. n : (first \o got)[k] = both[k]
  <2> SUFFICES ASSUME NEW k \in 1 .. n PROVE (first \o got)[k] = both[k]
    BY Zenon
  <2>1. CASE k <= n1
    <3>1. k \in 1 .. n1
      BY <1>1, <1>4, <2>1
    <3> QED BY <1>1, <1>4, <1>6, <2>1, <3>1, Zenon
  <2>2. CASE k > n1
    <3>1. n1 \in Nat /\ n2 \in Nat /\ n \in Nat /\ n = n1 + n2
      BY <1>1, <1>3, <1>4, <1>5, Zenon
    <3>2. k - n1 \in 1 .. n2 /\ pos + n1 + (k - n1) = pos + k /\ ~(k <= n1)
      BY <3>1, <2>2
    <3> QED BY <1>3, <1>4, <1>6, <3>2, Zenon
  <2>3. k <= n1 \/ k > n1
    BY <1>1, <1>4
  <2> QED BY <2>1, <2>2, <2>3, Zenon
<1>8. first \o got = both
  BY <1>4, <1>6, <1>7, SeqEqual, SMTT(20)
<1>9. got = <<>> <=> n2 = 0
  BY <1>3, EmptySeq
<1> QED BY <1>1, <1>3, <1>5, <1>8, <1>9, Zenon DEF first, got, both, ReadsOn

(* A write puts its units at pos, behind zeros when pos is past the end. *)
WritesUnits(S, old, pos, buf) ==
  LET new == Store!Written(old, pos, buf)
  IN /\ new \in Seq(S)
     /\ Len(new) = IF Len(old) > pos + Len(buf) THEN Len(old) ELSE pos + Len(buf)
     /\ \A k \in 1 .. Len(new) :
          new[k] = IF pos < k /\ k <= pos + Len(buf) THEN buf[k - pos]
                   ELSE IF k <= Len(old) THEN old[k] ELSE ZeroUnit

(* Which is what write_at of the store does. *)
LEMMA WrittenUnits ==
  ASSUME NEW S, ZeroUnit \in S, NEW old \in Seq(S), NEW pos \in Nat, NEW buf \in Seq(S)
  PROVE  WritesUnits(S, old, pos, buf)
<1> DEFINE n == IF Len(old) > pos + Len(buf) THEN Len(old) ELSE pos + Len(buf)
           unit(k) == IF pos < k /\ k <= pos + Len(buf) THEN buf[k - pos]
                      ELSE IF k <= Len(old) THEN old[k] ELSE ZeroUnit
           new == Store!Written(old, pos, buf)
<1>1. /\ Len(old) \in Nat /\ Len(buf) \in Nat /\ n \in Nat
      /\ \A k \in 1 .. Len(old) : old[k] \in S
      /\ \A k \in 1 .. Len(buf) : buf[k] \in S
      /\ DOMAIN old = 1 .. Len(old)
  OBVIOUS
<1>2. \A k \in 1 .. n : unit(k) \in S
  BY <1>1
<1>3. new = [k \in 1 .. n |-> unit(k)]
  <2>1. \A k \in 1 .. n : /\ k \in pos + 1 .. pos + Len(buf) <=> pos < k /\ k <= pos + Len(buf)
                          /\ k \in DOMAIN old <=> k <= Len(old)
    BY <1>1
  <2>2. new = [k \in 1 .. n |->
                IF k \in pos + 1 .. pos + Len(buf) THEN buf[k - pos]
                ELSE IF k \in DOMAIN old THEN old[k] ELSE ZeroUnit]
    BY Zenon DEF Store!Written, ZeroUnit
  <2> HIDE DEF n, new
  <2> QED BY <2>1, <2>2, Zenon
<1> HIDE DEF n, unit
<1>4. new \in Seq(S) /\ Len(new) = n /\ \A k \in 1 .. n : new[k] = unit(k)
  BY <1>1, <1>2, <1>3
<1> HIDE DEF new
<1> QED BY <1>4, Zenon DEF WritesUnits, n, unit, new

(* Two writes of the pieces of a buffer, the second from where the first   *)
(* ended, are one.                                                         *)
LEMMA WriteMore ==
  ASSUME NEW S, ZeroUnit \in S, NEW old \in Seq(S), NEW pos \in Nat, NEW buf \in Seq(S),
         NEW i \in 1 .. Len(buf), NEW j \in i .. Len(buf)
  PROVE  Store!Written(Store!Written(old, pos, SubSeq(buf, 1, i)), pos + i, SubSeq(buf, i + 1, j))
           = Store!Written(old, pos, SubSeq(buf, 1, j))
<1> DEFINE b1 == SubSeq(buf, 1, i)
           b2 == SubSeq(buf, i + 1, j)
           b == SubSeq(buf, 1, j)
           one == Store!Written(old, pos, b1)
           two == Store!Written(one, pos + i, b2)
           all == Store!Written(old, pos, b)
           Longer(x, y) == IF x > y THEN x ELSE y
<1>1. Len(buf) \in Nat /\ i \in Nat /\ j \in Nat /\ i <= j /\ 0 < i /\ j <= Len(buf) /\ Len(old) \in Nat
  OBVIOUS
<1>2. b1 \in Seq(S) /\ Len(b1) = i /\ \A k \in 1 .. i : b1[k] = buf[k]
  <2>1. 1 \in 1 .. Len(buf) + 1 /\ i \in 1 - 1 .. Len(buf) /\ i - 1 + 1 = i
        /\ \A k \in 1 .. i : 1 + k - 1 = k
    BY <1>1
  <2> QED BY <2>1, SubSeqProperties
<1>3. b \in Seq(S) /\ Len(b) = j /\ \A k \in 1 .. j : b[k] = buf[k]
  <2>1. 1 \in 1 .. Len(buf) + 1 /\ j \in 1 - 1 .. Len(buf) /\ j - 1 + 1 = j
        /\ \A k \in 1 .. j : 1 + k - 1 = k
    BY <1>1
  <2> QED BY <2>1, SubSeqProperties
<1>4. b2 \in Seq(S) /\ Len(b2) = j - i /\ \A k \in 1 .. j - i : b2[k] = buf[i + k]
  <2>1. i + 1 \in 1 .. Len(buf) + 1 /\ j \in i + 1 - 1 .. Len(buf) /\ j - (i + 1) + 1 = j - i
        /\ \A k \in 1 .. j - i : i + 1 + k - 1 = i + k
    BY <1>1
  <2> QED BY <2>1, SubSeqProperties
<1> HIDE DEF b1, b2, b
<1>5. WritesUnits(S, old, pos, b1) /\ WritesUnits(S, old, pos, b)
  BY <1>2, <1>3, WrittenUnits
<1>6. /\ one \in Seq(S) /\ Len(one) = Longer(Len(old), pos + i)
      /\ \A k \in 1 .. Len(one) : one[k] = IF pos < k /\ k <= pos + i THEN b1[k - pos]
                                           ELSE IF k <= Len(old) THEN old[k] ELSE ZeroUnit
  BY <1>2, <1>5, Zenon DEF WritesUnits
<1>7. /\ all \in Seq(S) /\ Len(all) = Longer(Len(old), pos + j)
      /\ \A k \in 1 .. Len(all) : all[k] = IF pos < k /\ k <= pos + j THEN b[k - pos]
                                           ELSE IF k <= Len(old) THEN old[k] ELSE ZeroUnit
  BY <1>3, <1>5, Zenon DEF WritesUnits
<1> HIDE DEF one, all
<1>8. pos + i \in Nat /\ pos + i + (j - i) = pos + j
  BY <1>1
<1>9. WritesUnits(S, one, pos + i, b2)
  BY <1>4, <1>6, <1>8, WrittenUnits
<1>10. /\ two \in Seq(S) /\ Len(two) = Longer(Len(one), pos + j)
       /\ \A k \in 1 .. Len(two) : two[k] = IF pos + i < k /\ k <= pos + j THEN b2[k - (pos + i)]
                                            ELSE IF k <= Len(one) THEN one[k] ELSE ZeroUnit
  BY <1>4, <1>8, <1>9, Zenon DEF WritesUnits
<1> HIDE DEF two
<1>11. Len(two) = Len(all) /\ Len(two) \in Nat /\ Len(one) <= Len(two) /\ Len(one) \in Nat
  BY <1>1, <1>6, <1>7, <1>10
<1>12. ASSUME NEW k \in 1 .. Len(two) PROVE two[k] = all[k]
  <2>1. CASE pos + i < k /\ k <= pos + j
    <3>1. k - (pos + i) \in 1 .. j - i /\ i + (k - (pos + i)) = k - pos /\ k - pos \in 1 .. j /\ pos < k
      BY <1>1, <1>11, <2>1
    <3>2. two[k] = buf[k - pos]
      BY <1>4, <1>10, <2>1, <3>1, Zenon
    <3>3. all[k] = buf[k - pos]
      BY <1>3, <1>7, <1>11, <2>1, <3>1, Zenon
    <3> QED BY <3>2, <3>3
  <2>2. CASE pos < k /\ k <= pos + i
    <3>1. ~(pos + i < k) /\ k - pos \in 1 .. i /\ k - pos \in 1 .. j /\ k <= pos + j /\ k <= Len(one) /\ k \in 1 .. Len(one)
      BY <1>1, <1>6, <1>11, <2>2
    <3>2. two[k] = buf[k - pos]
      BY <1>2, <1>6, <1>10, <2>2, <3>1, Zenon
    <3>3. all[k] = buf[k - pos]
      BY <1>3, <1>7, <1>11, <2>2, <3>1, Zenon
    <3> QED BY <3>2, <3>3
  <2>3. CASE ~(pos < k) \/ ~(k <= pos + j)
    <3>1. ~(pos + i < k /\ k <= pos + j) /\ ~(pos < k /\ k <= pos + j) /\ ~(pos < k /\ k <= pos + i)
      BY <1>1, <1>11, <2>3
    <3>2. all[k] = IF k <= Len(old) THEN old[k] ELSE ZeroUnit
      BY <1>7, <1>11, <3>1, Zenon
    <3>3. two[k] = IF k <= Len(one) THEN one[k] ELSE ZeroUnit
      BY <1>10, <3>1, Zenon
    <3>4. CASE k <= Len(one)
      <4>1. k \in 1 .. Len(one)
        BY <1>11, <3>4
      <4> QED BY <1>6, <3>1, <3>2, <3>3, <3>4, <4>1, Zenon
    <3>5. CASE ~(k <= Len(one))
      <4>1. ~(k <= Len(old))
        BY <1>1, <1>6, <1>11, <3>5
      <4> QED BY <3>2, <3>3, <3>5, <4>1, Zenon
    <3> QED BY <3>4, <3>5
  <2> QED BY <1>1, <1>11, <2>1, <2>2, <2>3
<1>13. two = all
  BY <1>7, <1>10, <1>11, <1>12, SeqEqual
<1> QED BY <1>13, Zenon DEF two, all, one, b1, b2, b

-----------------------------------------------------------------------------
(* The loops over the slices of a user buffer.                             *)

(* The ends of the first n slices. *)
IsEnds(shape, n, e) == e = [j \in 0 .. n |-> IF j = 0 THEN 0 ELSE e[j - 1] + shape[j]]

(* The slices of a buffer end one behind the other. *)
LEMMA EndsOfSlices ==
  ASSUME NEW shape \in Seq(Nat \ {0})
  PROVE  /\ Len(shape) \in Nat
         /\ \A j \in 1 .. Len(shape) : shape[j] \in Nat \ {0}
         /\ Ends(shape)[0] = 0
         /\ \A j \in 1 .. Len(shape) : Ends(shape)[j] = Ends(shape)[j - 1] + shape[j]
         /\ \A j \in 0 .. Len(shape) : Ends(shape)[j] \in Nat
         /\ \A j \in 0 .. Len(shape) : Ends(shape)[j] <= Ends(shape)[Len(shape)]
<1>1. Len(shape) \in Nat /\ \A j \in 1 .. Len(shape) : shape[j] \in Nat \ {0}
  OBVIOUS
<1> DEFINE T == {n \in Nat : ~ \E e : IsEnds(shape, n, e)}
<1>2. ASSUME T # {} PROVE FALSE
  <2>1. PICK n \in T : \A m \in T : n <= m
    BY <1>2, LeastElement, Zenon
  <2>2. CASE n = 0
    <3> DEFINE e == [j \in 0 .. 0 |-> 0]
    <3>1. IsEnds(shape, 0, e)
      BY DEF IsEnds
    <3> QED BY <2>1, <2>2, <3>1
  <2>3. CASE n # 0
    <3>1. n \in Nat /\ n - 1 \in Nat /\ n - 1 \notin T
      BY <2>1, <2>3
    <3>2. PICK e : IsEnds(shape, n - 1, e)
      BY <3>1
    <3> DEFINE more == [j \in 0 .. n |-> IF j = n THEN e[n - 1] + shape[n] ELSE e[j]]
    <3>3. \A j \in 0 .. n : more[j] = IF j = 0 THEN 0 ELSE more[j - 1] + shape[j]
      <4> SUFFICES ASSUME NEW j \in 0 .. n
                   PROVE  more[j] = IF j = 0 THEN 0 ELSE more[j - 1] + shape[j]
        OBVIOUS
      <4>1. CASE j = n
        BY <3>1, <2>3, <4>1
      <4>2. CASE j # n
        <5>1. j \in 0 .. n - 1 /\ more[j] = e[j]
          BY <3>1, <4>2
        <5>2. j # 0 => more[j - 1] = e[j - 1]
          BY <3>1, <4>2
        <5>3. e[j] = IF j = 0 THEN 0 ELSE e[j - 1] + shape[j]
          BY <3>2, <5>1 DEF IsEnds
        <5> HIDE DEF more
        <5> QED BY <5>1, <5>2, <5>3
      <4> QED BY <4>1, <4>2
    <3>4. IsEnds(shape, n, more)
      BY <3>3 DEF IsEnds
    <3> QED BY <2>1, <3>4
  <2> QED BY <2>2, <2>3
<1> DEFINE e == Ends(shape)
<1>3. IsEnds(shape, Len(shape), e)
  <2>1. e = CHOOSE x : IsEnds(shape, Len(shape), x)
    BY Zenon DEF Ends, IsEnds
  <2>2. \E x : IsEnds(shape, Len(shape), x)
    BY <1>1, <1>2
  <2> QED BY <2>1, <2>2, Zenon
<1> HIDE DEF e
<1>4. \A j \in 0 .. Len(shape) : e[j] = IF j = 0 THEN 0 ELSE e[j - 1] + shape[j]
  BY <1>3, Zenon DEF IsEnds
<1>5. e[0] = 0 /\ \A j \in 1 .. Len(shape) : e[j] = e[j - 1] + shape[j]
  BY <1>1, <1>4
<1> DEFINE U == {n \in Nat : n <= Len(shape) /\ ~ (e[n] \in Nat /\ \A j \in 0 .. n : e[j] \in Nat /\ e[j] <= e[n])}
<1>6. ASSUME U # {} PROVE FALSE
  <2>1. PICK n \in U : \A m \in U : n <= m
    BY <1>6, LeastElement, Zenon
  <2>2. n \in Nat /\ n <= Len(shape) /\ ~(e[n] \in Nat /\ \A j \in 0 .. n : e[j] \in Nat /\ e[j] <= e[n])
    BY <2>1
  <2>3. n # 0
    BY <2>2, <1>5
  <2>4. n - 1 \in Nat /\ n - 1 <= Len(shape) /\ n - 1 \notin U /\ n \in 1 .. Len(shape)
    BY <1>1, <2>1, <2>2, <2>3
  <2>5. e[n - 1] \in Nat /\ \A j \in 0 .. n - 1 : e[j] \in Nat /\ e[j] <= e[n - 1]
    BY <2>4
  <2>6. e[n] = e[n - 1] + shape[n] /\ shape[n] \in Nat
    BY <1>1, <1>5, <2>4
  <2>7. e[n] \in Nat /\ e[n - 1] <= e[n]
    BY <2>5, <2>6
  <2>8. ASSUME NEW j \in 0 .. n PROVE e[j] \in Nat /\ e[j] <= e[n]
    <3>1. CASE j = n
      BY <2>7, <3>1
    <3>2. CASE j # n
      <4>1. j \in 0 .. n - 1
        BY <2>2, <3>2
      <4> QED BY <2>5, <2>7, <4>1
    <3> QED BY <3>1, <3>2
  <2> QED BY <2>2, <2>7, <2>8
<1>7. \A j \in 0 .. Len(shape) : e[j] \in Nat /\ e[j] <= e[Len(shape)]
  BY <1>1, <1>6
<1> QED BY <1>1, <1>5, <1>7 DEF e

(* What OSInode::read carries from slice to slice. *)
Reader(S) == [buf : Seq(S), offset : Nat, done : BOOLEAN, panicked : {"no"}]

(* After k slices of a read: what one read of their length returns. *)
Reading(q, k, r) ==
  /\ r \in Reader(q.units)
  /\ r.buf = ReadOut(q.data, q.offset, Ends(q.shape)[k])
  /\ r.offset = q.offset + Len(r.buf)
  /\ r.done => r.offset >= Len(q.data)

ReadLoop == INSTANCE LoopProofs WITH op <- read_slice, Inv <- Reading

(* However the pages cut the buffer, OSInode::read returns what one read   *)
(* of its length returns, and moves the offset by that.                    *)
LEMMA ReadSlices ==
  ASSUME NEW S, NEW data \in Seq(S), NEW offset \in Nat, NEW shape \in Seq(Nat \ {0})
  PROVE  LET r == read_slices(data, offset, shape)
         IN /\ r.buf = ReadOut(data, offset, BufferLen(shape))
            /\ r.buf \in Seq(S)
            /\ r.offset = offset + Len(r.buf)
            /\ Len(r.buf) \in Nat
<1> DEFINE b == [buf |-> <<>>, offset |-> offset, done |-> FALSE, panicked |-> "no"]
           r == ReadLoop!ForEachOp(data, b, shape)
           q == [units |-> S, data |-> data, offset |-> offset, shape |-> shape]
           e == Ends(shape)
<1>1. r = read_slices(data, offset, shape)
  BY Zenon DEF ReadLoop!ForEachOp, ReadLoop!ForEach, ReadLoop!Loop, ReadLoop!Then,
               ReadLoop!Chunks, ForEach, Loop, Then, Chunks, read_slices
<1>2. /\ Len(shape) \in Nat /\ \A j \in 1 .. Len(shape) : shape[j] \in Nat \ {0}
      /\ e[0] = 0 /\ \A j \in 1 .. Len(shape) : e[j] = e[j - 1] + shape[j]
      /\ \A j \in 0 .. Len(shape) : e[j] \in Nat
  BY EndsOfSlices, Zenon
<1>3. q.units = S /\ q.data = data /\ q.offset = offset /\ q.shape = shape
  OBVIOUS
<1> HIDE DEF e, q
<1>4. ASSUME NEW x \in Nat, NEW y \in Nat PROVE ReadsUnits(S, data, x, y)
  BY ReadOutUnits
<1>5. Reading(q, 0, b)
  <2>1. ReadOut(data, offset, 0) = <<>>
    <3>1. Len(ReadOut(data, offset, 0)) = ReadLen(Len(data), offset, 0) /\ ReadOut(data, offset, 0) \in Seq(S)
      BY <1>4, Zenon DEF ReadsUnits
    <3>2. ReadLen(Len(data), offset, 0) = 0
      <4>1. Len(data) \in Nat
        OBVIOUS
      <4> QED BY <4>1 DEF ReadLen
    <3> QED BY <3>1, <3>2, EmptySeq
  <2>2. Ends(q.shape)[0] = 0
    BY <1>2, <1>3 DEF e
  <2>3. Len(<<>>) = 0 /\ offset + 0 = offset
    OBVIOUS
  <2>4. b \in Reader(S) /\ b.buf = <<>> /\ b.offset = offset /\ ~b.done
    BY DEF Reader
  <2> HIDE DEF b
  <2> QED BY <1>3, <2>1, <2>2, <2>3, <2>4 DEF Reading
<1>6. ASSUME NEW k \in 1 .. Len(shape), NEW c, Reading(q, k - 1, c)
      PROVE  Reading(q, k, ReadLoop!Then(c, read_slice(data, c, shape[k])))
  <2> DEFINE got == ReadOut(data, c.offset, shape[k])
  <2>1. /\ c \in Reader(S)
        /\ c.buf = ReadOut(data, offset, e[k - 1])
        /\ c.offset = offset + Len(c.buf)
        /\ c.done => c.offset >= Len(data)
    BY <1>3, <1>6, Zenon DEF Reading, e
  <2>2. k - 1 \in 0 .. Len(shape) /\ k \in 0 .. Len(shape)
    BY <1>2
  <2>3. e[k - 1] \in Nat /\ shape[k] \in Nat \ {0} /\ e[k] = e[k - 1] + shape[k]
    BY <1>2, <2>2, Zenon
  <2>4. /\ c.buf \in Seq(S) /\ got \in Seq(S)
        /\ c.buf \o got = ReadOut(data, offset, e[k])
        /\ got = <<>> <=> c.offset >= Len(data)
    <3>1. ReadsOn(S, data, offset, e[k - 1], shape[k])
      BY <2>3, ReadMore
    <3> QED BY <2>1, <2>3, <3>1, Zenon DEF ReadsOn
  <2>5. ReadLoop!Then(c, read_slice(data, c, shape[k])) = read_slice(data, c, shape[k])
    BY <2>1 DEF ReadLoop!Then, Reader
  <2>6. CASE got = <<>>
    <3> DEFINE d == [c EXCEPT !.done = TRUE]
    <3>1. read_slice(data, c, shape[k]) = d
      BY <2>6, Zenon DEF read_slice
    <3>2. d \in Reader(S) /\ d.buf = c.buf /\ d.offset = c.offset
      BY <2>1, Zenon DEF Reader
    <3>3. c.buf = ReadOut(data, offset, e[k])
      BY <2>4, <2>6, ConcatEmptySeq
    <3> HIDE DEF d, got
    <3>4. Reading(q, k, d)
      BY <1>3, <2>1, <2>4, <2>6, <3>2, <3>3, Zenon DEF Reading, e
    <3> QED BY <2>5, <3>1, <3>4
  <2>7. CASE got # <<>>
    <3> DEFINE d == [c EXCEPT !.buf = @ \o got, !.offset = @ + Len(got)]
    <3>1. ~c.done
      BY <2>1, <2>4, <2>7
    <3>2. read_slice(data, c, shape[k]) = d
      BY <2>7, <3>1, Zenon DEF read_slice
    <3> HIDE DEF got
    <3>3. /\ Len(c.buf \o got) = Len(c.buf) + Len(got) /\ Len(c.buf) \in Nat /\ Len(got) \in Nat
          /\ c.buf \o got \in Seq(S)
      BY <2>4, ConcatProperties, LenProperties, Zenon
    <3>4. d \in Reader(S) /\ d.buf = c.buf \o got /\ d.offset = c.offset + Len(got) /\ d.done = c.done
      <4>1. PICK m \in Nat : m = c.offset + Len(got)
        BY <2>1, <3>3 DEF Reader
      <4>2. PICK s \in Seq(S) : s = c.buf \o got
        BY <3>3, Zenon
      <4>3. d = [c EXCEPT !.buf = s, !.offset = m]
        BY <4>1, <4>2, Zenon
      <4> HIDE DEF d
      <4> QED BY <2>1, <4>1, <4>2, <4>3, Zenon DEF Reader
    <3> HIDE DEF d
    <3>5. d.offset = offset + Len(d.buf)
      BY <2>1, <3>3, <3>4
    <3>6. Reading(q, k, d)
      BY <1>3, <2>4, <3>1, <3>4, <3>5, Zenon DEF Reading, e
    <3> QED BY <2>5, <3>2, <3>6
  <2> QED BY <2>6, <2>7
<1>7. ASSUME NEW j \in 0 .. Len(shape), NEW k \in 0 .. Len(shape), NEW c,
             j <= k, c.panicked # "no", Reading(q, j, c)
      PROVE  Reading(q, k, c)
  BY <1>7 DEF Reading, Reader
<1>8. Reading(q, Len(shape), r)
  <2> HIDE DEF b
  <2> QED BY <1>5, <1>6, <1>7, LeastNumber, ReadLoop!ForEachInv, Zenon
<1> HIDE DEF r
<1>9. r.buf = ReadOut(data, offset, BufferLen(shape)) /\ r.offset = offset + Len(r.buf)
  BY <1>3, <1>8, Zenon DEF Reading, BufferLen
<1>10. BufferLen(shape) \in Nat
  BY <1>2 DEF BufferLen, e
<1>11. r.buf \in Seq(S)
  BY <1>4, <1>9, <1>10, Zenon DEF ReadsUnits
<1> QED BY <1>1, <1>9, <1>11, LenProperties

(* What OSInode::write carries from slice to slice. *)
Writer(S) == [data : Seq(S), offset : Nat, panicked : {"no"}]

(* After k slices of a write: what one write of their units leaves. *)
Writing(q, k, w) ==
  /\ w \in Writer(q.units)
  /\ w.offset = q.offset + Ends(q.shape)[k]
  /\ w.data = IF k = 0 THEN q.data
              ELSE Store!Written(q.data, q.offset, SubSeq(q.buf, 1, Ends(q.shape)[k]))

WriteLoop == INSTANCE LoopProofs WITH op <- LAMBDA p, w, slice : write_slice(w, slice),
                                      Inv <- Writing

(* However the pages cut the buffer, OSInode::write leaves what one write  *)
(* of the buffer leaves, and moves the offset by its length.               *)
WritesWhole(S, data, offset, shape, buf) ==
  LET w == write_slices(data, offset, Slices(buf, shape))
  IN /\ w.data = Store!Written(data, offset, buf)
     /\ w.data \in Seq(S)
     /\ w.offset = offset + Len(buf)

(* So it is with a buffer of any shape. *)
LEMMA WriteSlices ==
  ASSUME NEW S, ZeroUnit \in S, NEW data \in Seq(S), NEW offset \in Nat,
         NEW shape \in Seq(Nat \ {0}), shape # <<>>,
         NEW buf \in Seq(S), Len(buf) = BufferLen(shape)
  PROVE  WritesWhole(S, data, offset, shape, buf)
<1> DEFINE b == [data |-> data, offset |-> offset, panicked |-> "no"]
           slices == Slices(buf, shape)
           w == WriteLoop!ForEachOp(0, b, slices)
           q == [units |-> S, data |-> data, offset |-> offset, shape |-> shape, buf |-> buf]
           e == Ends(shape)
<1>1. w = write_slices(data, offset, slices)
  BY Zenon DEF WriteLoop!ForEachOp, WriteLoop!ForEach, WriteLoop!Loop, WriteLoop!Then,
               WriteLoop!Chunks, ForEach, Loop, Then, Chunks, write_slices
<1>2. /\ Len(shape) \in Nat /\ \A j \in 1 .. Len(shape) : shape[j] \in Nat \ {0}
      /\ e[0] = 0 /\ \A j \in 1 .. Len(shape) : e[j] = e[j - 1] + shape[j]
      /\ \A j \in 0 .. Len(shape) : e[j] \in Nat
      /\ \A j \in 0 .. Len(shape) : e[j] <= e[Len(shape)]
      /\ Len(buf) = e[Len(shape)]
  <2>1. Len(buf) = e[Len(shape)]
    BY DEF BufferLen
  <2> QED BY <2>1, EndsOfSlices, ZenonT(30)
<1>3. q.units = S /\ q.data = data /\ q.offset = offset /\ q.shape = shape /\ q.buf = buf
  OBVIOUS
<1>4. DOMAIN shape = 1 .. Len(shape) /\ Len(shape) # 0 /\ Len(buf) \in Nat
  BY LenProperties, EmptySeq
<1>5. slices = [j \in 1 .. Len(shape) |-> SubSeq(buf, e[j - 1] + 1, e[j])]
  BY <1>4, Zenon DEF Slices
<1> HIDE DEF e, q, slices
<1>6. ASSUME NEW j \in 1 .. Len(shape)
      PROVE  /\ j - 1 \in 0 .. Len(shape) /\ j \in 0 .. Len(shape)
             /\ e[j - 1] \in Nat /\ e[j] \in e[j - 1] .. Len(buf) /\ e[j] \in Nat
             /\ slices[j] = SubSeq(buf, e[j - 1] + 1, e[j])
             /\ slices[j] \in Seq(S) /\ Len(slices[j]) = e[j] - e[j - 1]
  <2>1. j - 1 \in 0 .. Len(shape) /\ j \in 0 .. Len(shape)
    BY <1>2
  <2>2. e[j] = e[j - 1] + shape[j] /\ shape[j] \in Nat \ {0} /\ e[j - 1] \in Nat /\ e[j] <= Len(buf)
    BY <1>2, <2>1, Zenon
  <2>3. PICK x \in Nat, y \in Nat, n \in Nat, m \in Nat :
          x = e[j - 1] /\ y = e[j] /\ n = Len(buf) /\ m = shape[j]
    BY <1>2, <1>4, <2>1, <2>2, Zenon
  <2>4. y = x + m /\ y <= n
    BY <2>2, <2>3, Zenon
  <2>5. x + 1 \in 1 .. n + 1 /\ y \in x + 1 - 1 .. n /\ y - (x + 1) + 1 = y - x /\ y \in x .. n
    BY <2>4
  <2>6. slices[j] = SubSeq(buf, x + 1, y)
    BY <1>5, <2>3, Zenon
  <2>7. SubSeq(buf, x + 1, y) \in Seq(S) /\ Len(SubSeq(buf, x + 1, y)) = y - x
    <3>1. x + 1 \in 1 .. Len(buf) + 1 /\ y \in x + 1 - 1 .. Len(buf) /\ y - (x + 1) + 1 = y - x
      BY <2>3, <2>5, Zenon
    <3> QED BY <3>1, SubSeqProperties
  <2> QED BY <2>1, <2>3, <2>5, <2>6, <2>7, Zenon
<1>7. slices \in Seq(Seq(S)) /\ Len(slices) = Len(shape)
  BY <1>2, <1>5, <1>6
<1>8. Writing(q, 0, b)
  <2>1. b \in Writer(S) /\ b.data = data /\ b.offset = offset
    BY DEF Writer
  <2>2. offset = offset + e[0]
    BY <1>2
  <2> HIDE DEF b
  <2> QED BY <1>3, <2>1, <2>2, Zenon DEF Writing, e
<1>9. ASSUME NEW k \in 1 .. Len(shape), NEW c, Writing(q, k - 1, c)
      PROVE  Writing(q, k, WriteLoop!Then(c, write_slice(c, slices[k])))
  <2> DEFINE d == write_slice(c, slices[k])
             upto(j) == SubSeq(buf, 1, e[j])
  <2>1. /\ c \in Writer(S)
        /\ c.offset = offset + e[k - 1]
        /\ c.data = IF k - 1 = 0 THEN data ELSE Store!Written(data, offset, upto(k - 1))
    BY <1>3, <1>9, Zenon DEF Writing, e
  <2>2. c.data \in Seq(S) /\ c.offset \in Nat /\ c.panicked = "no"
    BY <2>1 DEF Writer
  <2>3. WriteLoop!Then(c, d) = d
    BY <2>2, Zenon DEF WriteLoop!Then
  <2>4. Store!Written(c.data, c.offset, slices[k]) \in Seq(S)
    <3>1. WritesUnits(S, c.data, c.offset, slices[k])
      BY <1>6, <2>2, WrittenUnits
    <3> QED BY <3>1, Zenon DEF WritesUnits
  <2>5. c.offset + Len(slices[k]) = offset + e[k] /\ offset + e[k] \in Nat
    <3>1. PICK x \in Nat, y \in Nat, n \in Nat : x = e[k - 1] /\ y = e[k] /\ n = Len(slices[k]) /\ n = y - x
      <4>1. e[k] - e[k - 1] \in Nat
        <5>1. PICK x \in Nat, y \in Nat, n \in Nat : x = e[k - 1] /\ y = e[k] /\ n = Len(buf) /\ y \in x .. n
          BY <1>4, <1>6, Zenon
        <5>2. y - x \in Nat
          BY <5>1
        <5> QED BY <5>1, <5>2, Zenon
      <4> QED BY <1>6, <4>1, Zenon
    <3>2. n = y - x
      BY <3>1, Zenon
    <3>3. offset + x + n = offset + y /\ offset + y \in Nat
      BY <3>2
    <3> QED BY <2>1, <3>1, <3>3, Zenon
  <2>6. d \in Writer(S) /\ d.data = Store!Written(c.data, c.offset, slices[k]) /\ d.offset = offset + e[k]
    <3>1. PICK m \in Nat : m = offset + e[k]
      BY <2>5
    <3>2. PICK s \in Seq(S) : s = Store!Written(c.data, c.offset, slices[k])
      BY <2>4
    <3>3. d = [c EXCEPT !.data = s, !.offset = m]
      BY <2>5, <3>1, <3>2, Zenon DEF write_slice
    <3> HIDE DEF d
    <3> QED BY <2>1, <3>1, <3>2, <3>3, Zenon DEF Writer
  <2>7. Store!Written(c.data, c.offset, slices[k]) = Store!Written(data, offset, upto(k))
    <3>1. CASE k = 1
      <4>1. c.data = data /\ c.offset = offset /\ slices[k] = upto(k)
        <5>1. k - 1 = 0 /\ offset + e[0] = offset /\ e[0] + 1 = 1
          BY <1>2, <3>1
        <5> QED BY <1>6, <2>1, <5>1, Zenon
      <4> QED BY <4>1, Zenon
    <3>2. CASE k # 1
      <4>1. k - 1 \in 1 .. Len(shape) /\ k - 1 # 0
        BY <1>2, <3>2
      <4>2. e[k - 1] = e[k - 1 - 1] + shape[k - 1] /\ e[k - 1 - 1] \in Nat /\ shape[k - 1] \in Nat \ {0}
        BY <1>2, <1>6, <4>1, Zenon
      <4>3. e[k - 1] \in 1 .. Len(buf) /\ e[k] \in e[k - 1] .. Len(buf)
        <5>1. PICK x \in Nat, y \in Nat, n \in Nat, l \in Nat, m \in Nat \ {0} :
                /\ x = e[k - 1] /\ y = e[k] /\ n = Len(buf) /\ l = e[k - 1 - 1] /\ m = shape[k - 1]
                /\ x = l + m /\ y \in x .. n
          BY <1>4, <1>6, <4>2, Zenon
        <5>2. x = l + m /\ y \in x .. n
          BY <5>1, Zenon
        <5>3. x \in 1 .. n
          BY <5>2
        <5> QED BY <5>1, <5>3, Zenon
      <4>4. Store!Written(Store!Written(data, offset, upto(k - 1)), offset + e[k - 1],
                          SubSeq(buf, e[k - 1] + 1, e[k]))
              = Store!Written(data, offset, upto(k))
        <5>1. PICK i \in 1 .. Len(buf) : i = e[k - 1]
          BY <4>3, Zenon
        <5>2. PICK j \in i .. Len(buf) : j = e[k]
          BY <4>3, <5>1, Zenon
        <5>3. Store!Written(Store!Written(data, offset, SubSeq(buf, 1, i)), offset + i, SubSeq(buf, i + 1, j))
                = Store!Written(data, offset, SubSeq(buf, 1, j))
          BY WriteMore
        <5> QED BY <5>1, <5>2, <5>3, Zenon
      <4> QED BY <1>6, <2>1, <4>1, <4>4, Zenon
    <3> QED BY <3>1, <3>2
  <2>8. k # 0
    OBVIOUS
  <2> HIDE DEF d
  <2>9. Writing(q, k, d)
    BY <1>3, <2>6, <2>7, <2>8, Zenon DEF Writing, e
  <2> QED BY <2>3, <2>9, Zenon DEF d
<1>10. ASSUME NEW j \in 0 .. Len(shape), NEW k \in 0 .. Len(shape), NEW c,
              j <= k, c.panicked # "no", Writing(q, j, c)
       PROVE  Writing(q, k, c)
  BY <1>10 DEF Writing, Writer
<1>11. Writing(q, Len(slices), w)
  <2> HIDE DEF b
  <2> QED BY <1>7, <1>8, <1>9, <1>10, LeastNumber, WriteLoop!ForEachInv, ZenonT(30)
<1> HIDE DEF w
<1>12. SubSeq(buf, 1, Len(buf)) = buf
  BY SubSeqFull
<1>13. /\ w \in Writer(S)
       /\ w.offset = offset + Len(buf)
       /\ w.data = Store!Written(data, offset, buf)
  BY <1>3, <1>4, <1>7, <1>11, <1>12, Zenon DEF Writing, BufferLen
<1>14. w.data \in Seq(S)
  BY <1>13 DEF Writer
<1> QED BY <1>1, <1>13, <1>14, Zenon DEF slices, WritesWhole

-----------------------------------------------------------------------------
(* The inductive invariant.                                                *)

Unit == Nat \X Nat \X Nat
Descriptor == Handle \cup {None, "Stdin", "Stdout"}
OSInode == [name : Name \cup {None}, readable : BOOLEAN, writable : BOOLEAN,
            offset : Nat, opened : Nat]

FilesTypes ==
  /\ fd_table \in [Task -> Seq(Descriptor)]
  /\ os_inode \in [Handle -> OSInode]
  /\ files \in [DOMAIN files -> Seq(Unit)]
  /\ ops \in Nat

(* An open file exists, and was opened by an operation of its own. *)
OpensDistinct ==
  /\ \A h \in Open : os_inode[h].name \in DOMAIN files /\ os_inode[h].opened \in 1 .. ops
  /\ \A g, h \in Open : os_inode[g].opened = os_inode[h].opened => g = h

(* The units of a file were written through opens that have happened; the  *)
(* ones of an open that is still there lie before its offset.              *)
UnitsBehindOffset ==
  /\ \A n \in DOMAIN files : \A k \in DOMAIN files[n] : Opened(files[n][k]) \in 0 .. ops
  /\ \A h \in Open : \A k \in DOMAIN files[os_inode[h].name] :
       Opened(files[os_inode[h].name][k]) = os_inode[h].opened => k <= os_inode[h].offset

FInv == FilesTypes /\ OpensDistinct /\ UnitsBehindOffset
FilesInv == IInv /\ FInv

-----------------------------------------------------------------------------
(* What the steps do to the open files.                                    *)

(* Only the tables change, and no file is opened. *)
ChangesTables ==
  \E table \in [Task -> Seq(Descriptor)] :
    SetTables(table) /\ Held(table) \subseteq Open /\ NoRequest /\ UNCHANGED ops

(* A new open of name, in the lowest descriptor that is free. *)
Opens(h, name) ==
  LET table == fd_table[current]
  IN /\ h \in Handle \ Open
     /\ name \in Name
     /\ \E i \in 1 .. Len(table) + 1 :
          /\ ret' = i - 1
          /\ i \in DOMAIN table => table[i] = None
          /\ \A k \in 1 .. i - 1 : table[k] # None
          /\ fd_table' = [fd_table EXCEPT ![current] =
                            [k \in DOMAIN table \cup {i} |-> IF k = i THEN h ELSE table[k]]]
     /\ \E flags : os_inode' = [os_inode EXCEPT ![h] =
                         [name |-> name, offset |-> 0, opened |-> ops + 1,
                          readable |-> read_write(flags).readable,
                          writable |-> read_write(flags).writable]]
     /\ \E flags : open_file(name, flags)
     /\ ops' = ops + 1

(* A read through h, as one read of the store. *)
ReadsThrough(h) ==
  /\ request'.op = "read" /\ request'.name = os_inode[h].name
  /\ h \in Open /\ h \in Range(fd_table[current])
  /\ ret' \in Nat
  /\ os_inode' = [os_inode EXCEPT ![h].offset = os_inode[h].offset + ret']
  /\ request'.buf = ReadOut(files[os_inode[h].name], request'.pos, request'.len)
  /\ ops' = ops + 1
  /\ UNCHANGED <<fd_table, files>>

(* A write through h of units that carry its open, as one write. *)
WritesThrough(h) ==
  /\ request'.op = "write" /\ request'.name = os_inode[h].name
  /\ h \in Open /\ h \in Range(fd_table[current])
  /\ request'.buf \in Seq(Unit)
  /\ \A k \in 1 .. Len(request'.buf) : Opened(request'.buf[k]) = os_inode[h].opened
  /\ ret' = Len(request'.buf)
  /\ os_inode' = [os_inode EXCEPT ![h].offset = os_inode[h].offset + ret']
  /\ request'.pos = os_inode[h].offset
  /\ files' = [files EXCEPT ![os_inode[h].name] =
                 Store!Written(files[os_inode[h].name], os_inode[h].offset, request'.buf)]
  /\ ops' = ops + 1
  /\ UNCHANGED fd_table

-----------------------------------------------------------------------------
(* Lemmas on the state.                                                    *)

(* The handles that a table holds. *)
LEMMA HeldBy ==
  ASSUME NEW table, NEW h
  PROVE  h \in Held(table) <=> h \in Handle /\ \E t \in Task : \E i \in DOMAIN table[t] : table[t][i] = h
BY DEF Held, Range

(* The file behind a descriptor that is one. *)
LEMMA FileBehind ==
  ASSUME FilesInv, UserMode, NEW fd, file(fd) \in Handle
  PROVE  /\ current \in Task
         /\ file(fd) \in Open
         /\ file(fd) \in Range(fd_table[current])
         /\ os_inode[file(fd)] \in OSInode
         /\ os_inode[file(fd)].name \in DOMAIN files
         /\ files[os_inode[file(fd)].name] \in Seq(Unit)
<1>1. current \in Task
  BY DEF FilesInv, IInv, TypeOK, UserMode
<1>2. None \notin Handle
  BY FilesAssumption
<1>3. fd + 1 \in DOMAIN fd_table[current] /\ file(fd) = fd_table[current][fd + 1]
  BY <1>2, Zenon DEF file
<1>4. file(fd) \in Range(fd_table[current])
  BY <1>3, Zenon DEF Range
<1>5. file(fd) \in Open
  BY <1>1, <1>3, HeldBy, Zenon DEF Open
<1>6. os_inode[file(fd)] \in OSInode
  BY DEF FilesInv, FInv, FilesTypes
<1>7. os_inode[file(fd)].name \in DOMAIN files
  BY <1>5, Zenon DEF FilesInv, FInv, OpensDistinct
<1>8. files[os_inode[file(fd)].name] \in Seq(Unit)
  BY <1>7 DEF FilesInv, FInv, FilesTypes
<1> QED BY <1>1, <1>4, <1>5, <1>6, <1>7, <1>8, SMTT(20)

(* sys_read is one read of the store. *)
LEMMA ReadEffect ==
  ASSUME FilesInv, NEW fd, NEW shape \in Shapes, sys_read(fd, shape)
  PROVE  ReadsThrough(file(fd)) /\ Quiet
<1> DEFINE h == file(fd)
           data == files[os_inode[h].name]
           r == read_slices(data, os_inode[h].offset, shape)
<1>1. /\ h \in Handle
      /\ ops' = ops + 1
      /\ Returns(Len(r.buf))
      /\ request' = [op |-> "read", name |-> os_inode[h].name, pos |-> os_inode[h].offset,
                     len |-> BufferLen(shape), buf |-> r.buf]
      /\ os_inode' = [os_inode EXCEPT ![h].offset = r.offset]
      /\ UNCHANGED <<fd_table, files>>
  BY Zenon DEF sys_read, Counted
<1>2. UserMode /\ ret' = Len(r.buf)
  BY <1>1, Zenon DEF Returns
<1>3. h \in Open /\ h \in Range(fd_table[current]) /\ os_inode[h] \in OSInode /\ data \in Seq(Unit)
  BY <1>1, <1>2, FileBehind, Zenon
<1>4. os_inode[h].offset \in Nat
  BY <1>3 DEF OSInode
<1>5. shape \in Seq(Nat \ {0})
  BY FilesAssumption
<1>6. /\ r.buf = ReadOut(data, os_inode[h].offset, BufferLen(shape))
      /\ r.offset = os_inode[h].offset + Len(r.buf)
      /\ Len(r.buf) \in Nat
  <2> HIDE DEF data
  <2> QED BY <1>3, <1>4, <1>5, ReadSlices, Zenon
<1> HIDE DEF r, h
<1>7. /\ request'.op = "read" /\ request'.name = os_inode[h].name /\ request'.pos = os_inode[h].offset
      /\ request'.len = BufferLen(shape) /\ request'.buf = r.buf
  <2> HIDE DEF data
  <2> QED BY <1>1
<1>8. ReadsThrough(h)
  BY <1>1, <1>2, <1>3, <1>6, <1>7, Zenon DEF ReadsThrough
<1>9. Quiet
  <2>1. ret' \in Int
    BY <1>2, <1>6
  <2> QED BY <1>1, <2>1, Zenon DEF Returns, Quiet
<1> QED BY <1>8, <1>9 DEF h

(* sys_write is one write of the store. *)
LEMMA WriteEffect ==
  ASSUME FilesInv, NEW fd, NEW shape \in Shapes, sys_write(fd, shape)
  PROVE  WritesThrough(file(fd)) /\ Quiet
<1> DEFINE h == file(fd)
           opened == os_inode[h].opened
           buf == Buffer(BufferLen(shape), opened)
           data == files[os_inode[h].name]
           offset == os_inode[h].offset
           w == write_slices(data, offset, Slices(buf, shape))
<1>1. /\ h \in Handle
      /\ ops' = ops + 1
      /\ Returns(w.offset - offset)
      /\ request' = [op |-> "write", name |-> os_inode[h].name, pos |-> offset, buf |-> buf]
      /\ files' = [files EXCEPT ![os_inode[h].name] = w.data]
      /\ os_inode' = [os_inode EXCEPT ![h].offset = w.offset]
      /\ UNCHANGED fd_table
  BY Zenon DEF sys_write, Counted
<1>2. UserMode /\ ret' = w.offset - offset
  BY <1>1, Zenon DEF Returns
<1>3. h \in Open /\ h \in Range(fd_table[current]) /\ os_inode[h] \in OSInode /\ data \in Seq(Unit)
  BY <1>1, <1>2, FileBehind, Zenon
<1>4. offset \in Nat /\ opened \in Nat
  BY <1>3 DEF OSInode
<1>5. shape \in Seq(Nat \ {0}) /\ shape # <<>>
  BY FilesAssumption
<1>6. BufferLen(shape) \in Nat
  BY <1>5, EndsOfSlices DEF BufferLen
<1>7. ops \in Nat /\ ops + 1 \in Nat
  BY DEF FilesInv, FInv, FilesTypes
<1> HIDE DEF opened, offset, h, data
<1>8. /\ buf \in Seq(Unit) /\ Len(buf) = BufferLen(shape)
      /\ \A k \in 1 .. Len(buf) : Opened(buf[k]) = opened
  <2>1. PICK n \in Nat : n = BufferLen(shape)
    BY <1>6
  <2>2. buf = [k \in 1 .. n |-> <<opened, ops + 1, k>>]
    BY <2>1, Zenon DEF Buffer
  <2>3. \A k \in 1 .. n : <<opened, ops + 1, k>> \in Unit
    BY <1>4, <1>7 DEF Unit
  <2> HIDE DEF buf
  <2>4. buf \in Seq(Unit) /\ Len(buf) = n
    BY <2>2, <2>3
  <2>5. \A k \in 1 .. n : Opened(buf[k]) = opened
    BY <2>2 DEF Opened
  <2> QED BY <2>1, <2>4, <2>5
<1> HIDE DEF buf
<1>9. ZeroUnit \in Unit
  BY DEF ZeroUnit, Unit
<1>10. /\ w.data = Store!Written(data, offset, buf)
       /\ w.offset = offset + Len(buf)
  <2>1. WritesWhole(Unit, data, offset, shape, buf)
    BY <1>3, <1>4, <1>5, <1>8, <1>9, WriteSlices
  <2> QED BY <2>1, Zenon DEF WritesWhole
<1> HIDE DEF w
<1>11. Len(buf) \in Nat /\ w.offset - offset = Len(buf)
  BY <1>4, <1>8, <1>10, LenProperties
<1>12. /\ request'.op = "write" /\ request'.name = os_inode[h].name /\ request'.pos = offset
       /\ request'.buf = buf
  BY <1>1
<1>13. WritesThrough(h)
  <2>1. ret' = Len(buf) /\ w.offset = offset + ret'
    BY <1>2, <1>10, <1>11, Zenon
  <2> QED BY <1>1, <1>3, <1>8, <1>10, <1>12, <2>1, Zenon DEF WritesThrough, data, offset, opened
<1>14. Quiet
  <2>1. ret' \in Int
    BY <1>2, <1>11
  <2> QED BY <1>1, <2>1, Zenon DEF Returns, Quiet
<1> QED BY <1>13, <1>14 DEF h

(* alloc_fd returns the lowest descriptor that is free. *)
LEMMA AllocFd ==
  ASSUME NEW S, NEW table \in Seq(S)
  PROVE  /\ alloc_fd(table) \in 1 .. Len(table) + 1
         /\ alloc_fd(table) \in DOMAIN table => table[alloc_fd(table)] = None
         /\ \A k \in 1 .. alloc_fd(table) - 1 : table[k] # None
<1> DEFINE F == {i \in DOMAIN table : table[i] = None}
<1>1. DOMAIN table = 1 .. Len(table) /\ Len(table) \in Nat
  BY LenProperties
<1>2. CASE None \in Range(table)
  <2>1. F # {} /\ F \subseteq Nat
    BY <1>1, <1>2 DEF Range
  <2>2. \E x \in F : \A y \in F : x <= y
    <3> HIDE DEF F
    <3> QED BY <2>1, LeastElement, Zenon
  <2>3. alloc_fd(table) = Min(F)
    BY <1>2, Zenon DEF alloc_fd
  <2>4. Min(F) \in F /\ \A y \in F : Min(F) <= y
    <3> HIDE DEF F
    <3> QED BY <2>2, Zenon DEF Min
  <2>5. PICK i \in F : i = Min(F) /\ \A y \in F : i <= y
    BY <2>4, Zenon
  <2>6. ASSUME NEW k \in 1 .. i - 1, table[k] = None PROVE FALSE
    <3>1. i \in 1 .. Len(table)
      BY <1>1, <2>5
    <3>2. k \in DOMAIN table /\ ~(i <= k)
      BY <1>1, <3>1
    <3>3. k \in F
      BY <2>6, <3>2
    <3> HIDE DEF F
    <3> QED BY <2>5, <3>2, <3>3, Zenon
  <2>7. i \in 1 .. Len(table) + 1 /\ table[i] = None
    BY <1>1, <2>5
  <2> HIDE DEF F
  <2> QED BY <2>3, <2>5, <2>6, <2>7, Zenon
<1>3. CASE None \notin Range(table)
  <2>1. alloc_fd(table) = Len(table) + 1
    BY <1>3, Zenon DEF alloc_fd
  <2>2. \A k \in 1 .. Len(table) : table[k] # None
    BY <1>1, <1>3 DEF Range
  <2>3. Len(table) + 1 \notin DOMAIN table /\ Len(table) + 1 - 1 = Len(table) /\ Len(table) + 1 \in 1 .. Len(table) + 1
    BY <1>1
  <2>4. \A k \in 1 .. Len(table) + 1 - 1 : table[k] # None
    BY <2>2, <2>3
  <2> HIDE DEF F
  <2> QED BY <2>1, <2>3, <2>4
<1> QED BY <1>2, <1>3

(* sys_open makes one OSInode and puts it in one descriptor. *)
LEMMA OpenEffect ==
  ASSUME FilesInv, NEW name \in Name, NEW flags, sys_open(name, flags)
  PROVE  (\E h : Opens(h, name)) /\ Quiet
<1> DEFINE table == fd_table[current]
           i == alloc_fd(table)
<1>1. PICK h \in Handle \ Open :
        /\ Counted
        /\ open_file(name, flags)
        /\ Returns(i - 1)
        /\ fd_table' = [fd_table EXCEPT ![current] =
                          [k \in DOMAIN table \cup {i} |-> IF k = i THEN h ELSE table[k]]]
        /\ os_inode' = [os_inode EXCEPT ![h] =
                          [name |-> name, offset |-> 0, opened |-> ops + 1,
                           readable |-> read_write(flags).readable,
                           writable |-> read_write(flags).writable]]
  BY Zenon DEF sys_open
<1>2. UserMode /\ ret' = i - 1 /\ ops' = ops + 1
  BY <1>1, Zenon DEF Returns, Counted
<1>3. current \in Task
  BY <1>2 DEF FilesInv, IInv, TypeOK, UserMode
<1>4. table \in Seq(Descriptor)
  BY <1>3 DEF FilesInv, FInv, FilesTypes
<1> HIDE DEF table
<1>5. /\ i \in 1 .. Len(table) + 1
      /\ i \in DOMAIN table => table[i] = None
      /\ \A k \in 1 .. i - 1 : table[k] # None
  BY <1>4, AllocFd
<1> HIDE DEF i
<1>6. Opens(h, name)
  BY <1>1, <1>2, <1>5, Zenon DEF Opens, table
<1>7. ret' \in Int
  BY <1>2, <1>4, <1>5, LenProperties
<1>8. Quiet
  BY <1>1, <1>7, Zenon DEF Returns, Quiet
<1> QED BY <1>6, <1>8

(* Forgetting descriptors keeps the invariant. *)
LEMMA TablesFInv ==
  ASSUME FInv, ChangesTables
  PROVE  FInv' /\ Open' \subseteq Open /\ \A h \in Open' : os_inode'[h] = os_inode[h]
<1>1. PICK table \in [Task -> Seq(Descriptor)] :
        SetTables(table) /\ Held(table) \subseteq Open /\ NoRequest /\ UNCHANGED ops
  BY Zenon DEF ChangesTables
<1>2. /\ fd_table' = table
      /\ os_inode' = [h \in Handle |-> IF h \in Held(table) THEN os_inode[h] ELSE Closed]
      /\ files' = files /\ ops' = ops
  BY <1>1, Zenon DEF SetTables, NoRequest
<1>3. Open' = Held(table)
  BY <1>2, Zenon DEF Open, Held
<1>4. Open' \subseteq Open /\ Open' \subseteq Handle
  BY <1>1, <1>3 DEF Held
<1>5. \A h \in Open' : os_inode'[h] = os_inode[h]
  BY <1>2, <1>3, <1>4
<1>6. FilesTypes'
  <2>1. Closed \in OSInode
    BY DEF Closed, OSInode
  <2>2. os_inode \in [Handle -> OSInode] /\ files \in [DOMAIN files -> Seq(Unit)] /\ ops \in Nat
    BY DEF FInv, FilesTypes
  <2>3. os_inode' \in [Handle -> OSInode]
    BY <1>2, <2>1, <2>2
  <2>4. fd_table' \in [Task -> Seq(Descriptor)]
    BY <1>1, <1>2, Zenon
  <2> QED BY <1>2, <2>2, <2>3, <2>4, Zenon DEF FilesTypes
<1> USE <1>2, <1>4, <1>5
<1>7. OpensDistinct'
  <2>1. \A h \in Open' : os_inode'[h].name \in DOMAIN files' /\ os_inode'[h].opened \in 1 .. ops'
    BY Zenon DEF OpensDistinct, FInv
  <2>2. ASSUME NEW g \in Open', NEW h \in Open', os_inode'[g].opened = os_inode'[h].opened
        PROVE  g = h
    <3>1. g \in Open /\ h \in Open /\ os_inode[g].opened = os_inode[h].opened
      BY <2>2, Zenon
    <3> QED BY <3>1, Zenon DEF OpensDistinct, FInv
  <2> QED BY <2>1, <2>2, Zenon DEF OpensDistinct
<1>8. UnitsBehindOffset'
  BY Zenon DEF UnitsBehindOffset, FInv
<1> QED BY <1>6, <1>7, <1>8, Zenon DEF FInv

(* What open_file leaves in the files was there before. *)
KeepsUnits(name) ==
  /\ files' \in [DOMAIN files' -> Seq(Unit)]
  /\ DOMAIN files \subseteq DOMAIN files' /\ name \in DOMAIN files'
  /\ \A n \in DOMAIN files' : \A k \in DOMAIN files'[n] :
       n \in DOMAIN files /\ k \in DOMAIN files[n] /\ files'[n][k] = files[n][k]

(* It creates the file, or clears it, or only finds it. *)
LEMMA OpenFileKeeps ==
  ASSUME files \in [DOMAIN files -> Seq(Unit)], NEW name, NEW flags, open_file(name, flags)
  PROVE  KeepsUnits(name)
<1>0. <<>> \in Seq(Unit) /\ DOMAIN <<>> = {}
  OBVIOUS
<1>1. CASE /\ name \notin DOMAIN files
           /\ files' = [n \in DOMAIN files \cup {name} |-> IF n = name THEN <<>> ELSE files[n]]
  <2>1. DOMAIN files' = DOMAIN files \cup {name}
    BY <1>1
  <2>2. \A n \in DOMAIN files' : files'[n] = IF n = name THEN <<>> ELSE files[n]
    BY <1>1
  <2>3. files' \in [DOMAIN files' -> Seq(Unit)]
    BY <1>0, <1>1
  <2> QED BY <1>0, <2>1, <2>2, <2>3, Zenon DEF KeepsUnits
<1>2. CASE /\ name \in DOMAIN files
           /\ files' = [files EXCEPT ![name] = <<>>]
  <2>1. DOMAIN files' = DOMAIN files
    BY <1>2
  <2>2. \A n \in DOMAIN files' : files'[n] = IF n = name THEN <<>> ELSE files[n]
    BY <1>2
  <2>3. files' \in [DOMAIN files' -> Seq(Unit)]
    BY <1>0, <1>2
  <2> QED BY <1>0, <1>2, <2>1, <2>2, <2>3, Zenon DEF KeepsUnits
<1>3. CASE name \in DOMAIN files /\ files' = files
  BY <1>3, Zenon DEF KeepsUnits
<1> QED BY <1>1, <1>2, <1>3, Zenon DEF open_file, NoRequest

(* A new open leaves the other ones alone. *)
LEMMA OpensFInv ==
  ASSUME FInv, current \in Task, NEW h, NEW name, Opens(h, name)
  PROVE  /\ FInv'
         /\ Open' \subseteq Open \cup {h}
         /\ \A g \in Open : os_inode'[g] = os_inode[g]
<1> DEFINE table == fd_table[current]
<1>1. h \in Handle /\ h \notin Open /\ name \in Name /\ ops' = ops + 1
  BY DEF Opens
<1>2. PICK i \in 1 .. Len(table) + 1 :
        fd_table' = [fd_table EXCEPT ![current] =
                       [k \in DOMAIN table \cup {i} |-> IF k = i THEN h ELSE table[k]]]
  BY Zenon DEF Opens
<1>3. PICK flags : os_inode' = [os_inode EXCEPT ![h] =
                         [name |-> name, offset |-> 0, opened |-> ops + 1,
                          readable |-> read_write(flags).readable,
                          writable |-> read_write(flags).writable]]
  BY Zenon DEF Opens
<1>4. /\ fd_table \in [Task -> Seq(Descriptor)]
      /\ os_inode \in [Handle -> OSInode]
      /\ files \in [DOMAIN files -> Seq(Unit)]
      /\ ops \in Nat
  BY DEF FInv, FilesTypes
<1>5. KeepsUnits(name)
  BY <1>4, OpenFileKeeps, Zenon DEF Opens
<1>6. table \in Seq(Descriptor) /\ DOMAIN table = 1 .. Len(table) /\ Len(table) \in Nat
  BY <1>4, LenProperties
<1> DEFINE new == [k \in DOMAIN table \cup {i} |-> IF k = i THEN h ELSE table[k]]
<1>7. new \in Seq(Descriptor)
  <2>1. PICK n \in Nat : DOMAIN table \cup {i} = 1 .. n
    <3>1. CASE i = Len(table) + 1
      BY <1>6, <3>1
    <3>2. CASE i # Len(table) + 1
      <4>1. DOMAIN table \cup {i} = 1 .. Len(table)
        BY <1>6, <3>2
      <4> QED BY <1>6, <4>1
    <3> QED BY <3>1, <3>2
  <2>2. \A k \in 1 .. n : new[k] \in Descriptor
    <3>1. \A k \in DOMAIN table : table[k] \in Descriptor
      BY <1>6, ElementOfSeq, Zenon
    <3> QED BY <1>1, <2>1, <3>1, Zenon DEF Descriptor
  <2>3. new = [k \in 1 .. n |-> new[k]]
    BY <2>1, Zenon
  <2> HIDE DEF new
  <2> QED BY <2>2, <2>3, SMT
<1>8. fd_table' = [fd_table EXCEPT ![current] = new]
  BY <1>2, Zenon
<1>9. fd_table' \in [Task -> Seq(Descriptor)]
  <2> HIDE DEF new
  <2> QED BY <1>4, <1>7, <1>8
<1>10. Open' \subseteq Open \cup {h}
  <2> SUFFICES ASSUME NEW g \in Open', g # h PROVE g \in Open
    BY Zenon
  <2>1. PICK t \in Task : \E k \in DOMAIN fd_table'[t] : g \in Handle /\ fd_table'[t][k] = g
    BY Zenon DEF Open, Held, Range
  <2>2. CASE t # current
    <3>1. fd_table'[t] = fd_table[t]
      BY <1>4, <1>8, <2>2, Zenon
    <3> QED BY <2>1, <3>1, HeldBy, Zenon DEF Open
  <2>3. CASE t = current
    <3>1. fd_table'[t] = new
      BY <1>4, <1>8, <2>3, Zenon
    <3>2. PICK k \in DOMAIN new : new[k] = g
      BY <2>1, <3>1, Zenon
    <3>3. k \in DOMAIN table /\ table[k] = g
      BY <3>2, Zenon
    <3> QED BY <2>1, <3>3, HeldBy, Zenon DEF Open
  <2> QED BY <2>2, <2>3
<1> HIDE DEF new, table
<1>11. /\ os_inode'[h].name = name /\ os_inode'[h].offset = 0 /\ os_inode'[h].opened = ops + 1
       /\ os_inode' \in [Handle -> OSInode]
  <2>1. PICK v \in OSInode : /\ os_inode' = [os_inode EXCEPT ![h] = v]
                            /\ v.name = name /\ v.offset = 0 /\ v.opened = ops + 1
    <3>1. read_write(flags).readable \in BOOLEAN /\ read_write(flags).writable \in BOOLEAN
      BY DEF read_write
    <3>2. PICK a \in BOOLEAN, b \in BOOLEAN :
            a = read_write(flags).readable /\ b = read_write(flags).writable
      BY <3>1, Zenon
    <3>3. [name |-> name, offset |-> 0, opened |-> ops + 1, readable |-> a, writable |-> b] \in OSInode
      BY <1>1, <1>4 DEF OSInode
    <3> QED BY <1>3, <3>2, <3>3, Zenon
  <2> QED BY <1>1, <1>4, <2>1, SMTT(20)
<1>12. \A g \in Handle : g # h => os_inode'[g] = os_inode[g]
  BY <1>3, <1>4, Zenon
<1>13. \A g \in Open : g # h /\ g \in Handle /\ os_inode'[g] = os_inode[g]
  BY <1>1, <1>12, Zenon DEF Open, Held
<1>14. FilesTypes'
  BY <1>1, <1>4, <1>5, <1>9, <1>11, SMTT(20) DEF FilesTypes, KeepsUnits
<1>15. OpensDistinct'
  <2>1. ASSUME NEW g \in Open'
        PROVE  os_inode'[g].name \in DOMAIN files' /\ os_inode'[g].opened \in 1 .. ops'
    <3>1. CASE g = h
      <4>1. os_inode'[g].opened \in 1 .. ops'
        BY <1>1, <1>4, <1>11, <3>1
      <4> QED BY <1>5, <1>11, <3>1, <4>1, ZenonT(30) DEF KeepsUnits
    <3>2. CASE g # h
      <4>1. g \in Open /\ os_inode'[g] = os_inode[g]
        BY <1>10, <1>13, <3>2, Zenon
      <4>2. os_inode[g].name \in DOMAIN files /\ os_inode[g].opened \in 1 .. ops
        BY <4>1, Zenon DEF FInv, OpensDistinct
      <4>3. os_inode'[g].opened \in 1 .. ops'
        BY <1>1, <1>4, <4>1, <4>2
      <4> QED BY <1>5, <4>1, <4>2, <4>3, Zenon DEF KeepsUnits
    <3> QED BY <3>1, <3>2
  <2>2. ASSUME NEW f \in Open', NEW g \in Open', os_inode'[f].opened = os_inode'[g].opened
        PROVE  f = g
    <3>1. ASSUME NEW o \in Open', o # h
          PROVE  o \in Open /\ os_inode'[o] = os_inode[o] /\ os_inode'[o].opened # ops + 1
      <4>1. o \in Open /\ os_inode'[o] = os_inode[o]
        BY <1>10, <1>13, <3>1, Zenon
      <4>2. os_inode[o].opened \in 1 .. ops
        BY <4>1, Zenon DEF FInv, OpensDistinct
      <4> QED BY <1>4, <4>1, <4>2
    <3>2. f = h <=> g = h
      BY <1>11, <2>2, <3>1, Zenon
    <3>3. ASSUME f # h, g # h PROVE f = g
      <4>1. f \in Open /\ g \in Open /\ os_inode[f].opened = os_inode[g].opened
        BY <2>2, <3>1, <3>3, Zenon
      <4> QED BY <4>1, Zenon DEF FInv, OpensDistinct
    <3> QED BY <3>2, <3>3, Zenon
  <2> QED BY <2>1, <2>2, Zenon DEF OpensDistinct
<1>16. UnitsBehindOffset'
  <2>1. ASSUME NEW n \in DOMAIN files', NEW k \in DOMAIN files'[n]
        PROVE  /\ n \in DOMAIN files /\ k \in DOMAIN files[n] /\ files'[n][k] = files[n][k]
               /\ Opened(files'[n][k]) \in 0 .. ops'
               /\ Opened(files'[n][k]) # ops + 1
    <3>1. n \in DOMAIN files /\ k \in DOMAIN files[n] /\ files'[n][k] = files[n][k]
      BY <1>5, Zenon DEF KeepsUnits
    <3>2. Opened(files'[n][k]) \in 0 .. ops
      BY <3>1, Zenon DEF FInv, UnitsBehindOffset
    <3>3. Opened(files'[n][k]) \in 0 .. ops' /\ Opened(files'[n][k]) # ops + 1
      BY <1>1, <1>4, <3>2
    <3> QED BY <3>1, <3>3
  <2>2. ASSUME NEW g \in Open', NEW k \in DOMAIN files'[os_inode'[g].name],
               Opened(files'[os_inode'[g].name][k]) = os_inode'[g].opened
        PROVE  k <= os_inode'[g].offset
    <3>1. os_inode'[g].name \in DOMAIN files'
      BY <1>15, Zenon DEF OpensDistinct
    <3>2. g # h
      BY <1>11, <2>1, <2>2, <3>1, Zenon
    <3>3. g \in Open /\ os_inode'[g] = os_inode[g]
      BY <1>10, <1>13, <3>2, Zenon
    <3> QED BY <2>1, <2>2, <3>1, <3>3, Zenon DEF FInv, UnitsBehindOffset
  <2> QED BY <2>1, <2>2, Zenon DEF UnitsBehindOffset
<1> QED BY <1>10, <1>13, <1>14, <1>15, <1>16, ZenonT(30) DEF FInv

(* An offset that moves on. *)
MovesOn(inodes, h, r, moved) ==
  /\ moved \in [Handle -> OSInode]
  /\ \A g \in Handle : moved[g].name = inodes[g].name /\ moved[g].opened = inodes[g].opened
  /\ \A g \in Handle : inodes[g].offset <= moved[g].offset
  /\ \A g \in Handle : g # h => moved[g] = inodes[g]
  /\ moved[h].offset = inodes[h].offset + r

(* Nothing else of an OSInode changes with it. *)
LEMMA OffsetMoves ==
  ASSUME NEW inodes \in [Handle -> OSInode], NEW h \in Handle, NEW r \in Nat, NEW moved,
         moved = [inodes EXCEPT ![h].offset = inodes[h].offset + r]
  PROVE  MovesOn(inodes, h, r, moved)
<1>1. PICK x \in Nat : x = inodes[h].offset + r /\ inodes[h].offset <= x
  BY DEF OSInode
<1>2. PICK v \in OSInode : v = inodes[h] /\ v.offset <= x
  BY <1>1, Zenon
<1>3. PICK w : w = [v EXCEPT !.offset = x]
  BY Zenon
<1>4. w \in OSInode /\ w.name = v.name /\ w.opened = v.opened /\ w.offset = x
  BY <1>3 DEF OSInode
<1>5. moved = [inodes EXCEPT ![h] = w]
  BY <1>1, <1>2, <1>3, Zenon
<1>6. DOMAIN inodes = Handle /\ DOMAIN moved = Handle
  BY <1>5, Zenon
<1>7. moved[h] = w /\ \A g \in Handle : g # h => moved[g] = inodes[g]
  BY <1>5, <1>6, Zenon
<1>8. moved \in [Handle -> OSInode]
  BY <1>4, <1>5
<1>9. \A g \in Handle : inodes[g].offset <= moved[g].offset
  <2>1. \A g \in Handle : inodes[g].offset \in Nat
    BY DEF OSInode
  <2>2. \A n \in Nat : n <= n
    OBVIOUS
  <2> QED BY <1>2, <1>4, <1>7, <2>1, <2>2, Zenon
<1>10. \A g \in Handle : moved[g].name = inodes[g].name /\ moved[g].opened = inodes[g].opened
  BY <1>2, <1>4, <1>7, Zenon
<1> QED BY <1>1, <1>4, <1>7, <1>8, <1>9, <1>10, Zenon DEF MovesOn

(* A read moves one offset on. *)
LEMMA ReadsFInv ==
  ASSUME FInv, NEW h, ReadsThrough(h)
  PROVE  /\ FInv' /\ Open' = Open
         /\ \A g \in Open : g # h => os_inode'[g] = os_inode[g]
<1>1. /\ h \in Open /\ h \in Handle /\ ret' \in Nat
      /\ os_inode' = [os_inode EXCEPT ![h].offset = os_inode[h].offset + ret']
      /\ ops' = ops + 1 /\ fd_table' = fd_table /\ files' = files
  BY Zenon DEF ReadsThrough, Open, Held
<1>2. Open' = Open /\ Open \subseteq Handle
  BY <1>1, Zenon DEF Open, Held
<1>3. /\ fd_table \in [Task -> Seq(Descriptor)]
      /\ os_inode \in [Handle -> OSInode]
      /\ files \in [DOMAIN files -> Seq(Unit)]
      /\ ops \in Nat
  BY DEF FInv, FilesTypes
<1>4. /\ os_inode' \in [Handle -> OSInode]
      /\ \A g \in Handle : os_inode'[g].name = os_inode[g].name /\ os_inode'[g].opened = os_inode[g].opened
      /\ \A g \in Handle : os_inode[g].offset <= os_inode'[g].offset
      /\ \A g \in Handle : g # h => os_inode'[g] = os_inode[g]
  <2>1. MovesOn(os_inode, h, ret', os_inode')
    BY <1>1, <1>3, OffsetMoves, Zenon
  <2> QED BY <2>1, Zenon DEF MovesOn
<1>5. FilesTypes'
  BY <1>1, <1>3, <1>4 DEF FilesTypes
<1>6. 1 .. ops \subseteq 1 .. ops' /\ 0 .. ops \subseteq 0 .. ops'
  BY <1>1, <1>3
<1>7. OpensDistinct'
  <2>1. \A g \in Open : os_inode'[g].name \in DOMAIN files /\ os_inode'[g].opened \in 1 .. ops'
    BY <1>2, <1>4, <1>6, Zenon DEF FInv, OpensDistinct
  <2>2. \A f, g \in Open : os_inode'[f].opened = os_inode'[g].opened => f = g
    BY <1>2, <1>4, ZenonT(30) DEF FInv, OpensDistinct
  <2> QED BY <1>1, <1>2, <2>1, <2>2, Zenon DEF OpensDistinct
<1>8. UnitsBehindOffset'
  <2>1. \A n \in DOMAIN files' : \A k \in DOMAIN files'[n] : Opened(files'[n][k]) \in 0 .. ops'
    BY <1>1, <1>6, Zenon DEF FInv, UnitsBehindOffset
  <2>2. ASSUME NEW g \in Open', NEW k \in DOMAIN files'[os_inode'[g].name],
               Opened(files'[os_inode'[g].name][k]) = os_inode'[g].opened
        PROVE  k <= os_inode'[g].offset
    <3>1. /\ g \in Open /\ g \in Handle /\ k \in DOMAIN files[os_inode[g].name]
          /\ Opened(files[os_inode[g].name][k]) = os_inode[g].opened
      BY <1>1, <1>2, <1>4, <2>2, Zenon
    <3>2. k <= os_inode[g].offset /\ os_inode[g].offset <= os_inode'[g].offset
      BY <1>4, <3>1, Zenon DEF FInv, UnitsBehindOffset
    <3>3. os_inode[g].offset \in Nat /\ os_inode'[g].offset \in Nat /\ k \in Nat
      <4>1. files[os_inode[g].name] \in Seq(Unit)
        BY <1>3, <3>1, Zenon DEF FInv, OpensDistinct
      <4>2. k \in Nat
        BY <3>1, <4>1, LenProperties
      <4> QED BY <1>3, <1>4, <3>1, <4>2 DEF OSInode
    <3> QED BY <3>2, <3>3
  <2> QED BY <2>1, <2>2, Zenon DEF UnitsBehindOffset
<1> QED BY <1>2, <1>4, <1>5, <1>7, <1>8, Zenon DEF FInv

(* Where a write through an open puts units of that open: at its offset    *)
(* and nowhere else.                                                       *)
WrittenWhere(old, offset, buf, opened) ==
  LET new == Store!Written(old, offset, buf)
  IN /\ new \in Seq(Unit)
     /\ \A k \in DOMAIN new :
          \/ offset < k /\ k <= offset + Len(buf) /\ Opened(new[k]) = opened
          \/ k \in DOMAIN old /\ new[k] = old[k]
          \/ k \notin DOMAIN old /\ Opened(new[k]) = 0

(* The rest of the file stays, and a gap is filled with zeros. *)
LEMMA WritesWhere ==
  ASSUME NEW old \in Seq(Unit), NEW offset \in Nat, NEW buf \in Seq(Unit), NEW opened,
         \A k \in 1 .. Len(buf) : Opened(buf[k]) = opened
  PROVE  WrittenWhere(old, offset, buf, opened)
<1> DEFINE new == Store!Written(old, offset, buf)
<1>1. ZeroUnit \in Unit /\ Opened(ZeroUnit) = 0
  BY DEF ZeroUnit, Unit, Opened
<1>2. WritesUnits(Unit, old, offset, buf)
  BY <1>1, WrittenUnits
<1>3. /\ new \in Seq(Unit)
      /\ \A k \in 1 .. Len(new) :
           new[k] = IF offset < k /\ k <= offset + Len(buf) THEN buf[k - offset]
                    ELSE IF k <= Len(old) THEN old[k] ELSE ZeroUnit
  BY <1>2, Zenon DEF WritesUnits
<1> HIDE DEF new
<1>4. /\ DOMAIN new = 1 .. Len(new) /\ Len(new) \in Nat /\ DOMAIN old = 1 .. Len(old)
      /\ Len(old) \in Nat /\ Len(buf) \in Nat
  BY <1>3, LenProperties
<1>5. ASSUME NEW k \in DOMAIN new
      PROVE  \/ offset < k /\ k <= offset + Len(buf) /\ Opened(new[k]) = opened
             \/ k \in DOMAIN old /\ new[k] = old[k]
             \/ k \notin DOMAIN old /\ Opened(new[k]) = 0
  <2>1. k \in 1 .. Len(new) /\ k \in Nat /\ k >= 1
    BY <1>4
  <2>2. CASE offset < k /\ k <= offset + Len(buf)
    <3>1. k - offset \in 1 .. Len(buf)
      BY <1>4, <2>1, <2>2
    <3>2. new[k] = buf[k - offset]
      BY <1>3, <2>1, <2>2, Zenon
    <3> QED BY <2>2, <3>1, <3>2, Zenon
  <2>3. CASE ~(offset < k /\ k <= offset + Len(buf)) /\ k <= Len(old)
    <3>1. new[k] = old[k]
      BY <1>3, <2>1, <2>3, Zenon
    <3>2. k \in DOMAIN old
      BY <1>4, <2>1, <2>3, SMTT(20)
    <3> QED BY <3>1, <3>2
  <2>4. CASE ~(offset < k /\ k <= offset + Len(buf)) /\ ~(k <= Len(old))
    <3>1. Opened(new[k]) = 0
      BY <1>1, <1>3, <2>1, <2>4, Zenon
    <3>2. k \notin DOMAIN old
      BY <1>4, <2>1, <2>4
    <3> QED BY <3>1, <3>2
  <2> QED BY <2>2, <2>3, <2>4, Zenon
<1> QED BY <1>3, <1>5, Zenon DEF WrittenWhere, new

(* A write moves one offset past its units, which are not those of any     *)
(* other open.                                                             *)
LEMMA WritesFInv ==
  ASSUME FInv, NEW h, WritesThrough(h)
  PROVE  /\ FInv' /\ Open' = Open
         /\ \A g \in Open : g # h => os_inode'[g] = os_inode[g]
<1> DEFINE name == os_inode[h].name
           offset == os_inode[h].offset
           buf == request'.buf
           old == files[name]
           new == Store!Written(old, offset, buf)
<1>1. /\ h \in Open /\ h \in Handle
      /\ buf \in Seq(Unit)
      /\ \A k \in 1 .. Len(buf) : Opened(buf[k]) = os_inode[h].opened
      /\ ret' = Len(buf)
      /\ os_inode' = [os_inode EXCEPT ![h].offset = os_inode[h].offset + ret']
      /\ files' = [files EXCEPT ![name] = new]
      /\ ops' = ops + 1 /\ fd_table' = fd_table
  BY Zenon DEF WritesThrough, Open, Held
<1>2. Open' = Open /\ Open \subseteq Handle
  BY <1>1, Zenon DEF Open, Held
<1>3. /\ fd_table \in [Task -> Seq(Descriptor)]
      /\ os_inode \in [Handle -> OSInode]
      /\ files \in [DOMAIN files -> Seq(Unit)]
      /\ ops \in Nat
  BY DEF FInv, FilesTypes
<1>4. ret' \in Nat /\ Len(buf) \in Nat
  <2> HIDE DEF buf
  <2> QED BY <1>1, LenProperties
<1>5. /\ os_inode' \in [Handle -> OSInode]
      /\ \A g \in Handle : os_inode'[g].name = os_inode[g].name /\ os_inode'[g].opened = os_inode[g].opened
      /\ \A g \in Handle : os_inode[g].offset <= os_inode'[g].offset
      /\ \A g \in Handle : g # h => os_inode'[g] = os_inode[g]
      /\ os_inode'[h].offset = offset + Len(buf)
  <2>1. MovesOn(os_inode, h, ret', os_inode')
    <3> HIDE DEF buf, name, new
    <3> QED BY <1>1, <1>3, <1>4, OffsetMoves, Zenon
  <2> QED BY <1>1, <2>1, Zenon DEF MovesOn
<1>6. name \in DOMAIN files
  BY <1>1, Zenon DEF FInv, OpensDistinct
<1>7. old \in Seq(Unit) /\ offset \in Nat /\ Len(old) \in Nat
  <2>1. old \in Seq(Unit)
    BY <1>3, <1>6, Zenon
  <2>2. offset \in Nat
    BY <1>1, <1>3 DEF OSInode
  <2> HIDE DEF old
  <2> QED BY <2>1, <2>2, LenProperties
<1> HIDE DEF buf, old, offset
<1>8. WrittenWhere(old, offset, buf, os_inode[h].opened)
  BY <1>1, <1>7, WritesWhere
<1>9. /\ new \in Seq(Unit)
      /\ \A k \in DOMAIN new :
           \/ offset < k /\ k <= offset + Len(buf) /\ Opened(new[k]) = os_inode[h].opened
           \/ k \in DOMAIN old /\ new[k] = old[k]
           \/ k \notin DOMAIN old /\ Opened(new[k]) = 0
  BY <1>8, Zenon DEF WrittenWhere
<1> HIDE DEF new, name
<1>10. /\ DOMAIN files' = DOMAIN files
       /\ files'[name] = new
       /\ \A n \in DOMAIN files : n # name => files'[n] = files[n]
       /\ files' \in [DOMAIN files' -> Seq(Unit)]
  <2>1. DOMAIN files' = DOMAIN files
    BY <1>1, Zenon
  <2>2. files' \in [DOMAIN files -> Seq(Unit)]
    BY <1>1, <1>3, <1>9, Zenon
  <2> QED BY <1>1, <1>6, <2>1, <2>2, Zenon
<1>11. FilesTypes'
  <2>1. ops' \in Nat
    BY <1>1, <1>3
  <2> QED BY <1>1, <1>3, <1>5, <1>10, <2>1, Zenon DEF FilesTypes
<1>12. 1 .. ops \subseteq 1 .. ops' /\ 0 .. ops \subseteq 0 .. ops'
  BY <1>1, <1>3
<1>13. OpensDistinct'
  <2>1. \A g \in Open : os_inode'[g].name \in DOMAIN files /\ os_inode'[g].opened \in 1 .. ops'
    BY <1>2, <1>5, <1>12, Zenon DEF FInv, OpensDistinct
  <2>2. \A f, g \in Open : os_inode'[f].opened = os_inode'[g].opened => f = g
    BY <1>2, <1>5, ZenonT(30) DEF FInv, OpensDistinct
  <2> QED BY <1>1, <1>2, <1>10, <2>1, <2>2, Zenon DEF OpensDistinct
<1>14. \A g \in Open : os_inode[g].opened \in 1 .. ops
  BY Zenon DEF FInv, OpensDistinct
<1>15. \A g \in Open : os_inode[g].opened \in 0 .. ops /\ os_inode[g].opened # 0 /\ 0 \in 0 .. ops
  BY <1>3, <1>14
<1>16. UnitsBehindOffset'
  <2>1. ASSUME NEW n \in DOMAIN files', NEW k \in DOMAIN files'[n]
        PROVE  Opened(files'[n][k]) \in 0 .. ops'
    <3>1. Opened(files'[n][k]) \in 0 .. ops
      <4>1. CASE n # name
        BY <1>10, <4>1, Zenon DEF FInv, UnitsBehindOffset
      <4>2. CASE n = name
        <5>1. k \in DOMAIN new /\ files'[n][k] = new[k]
          BY <1>10, <4>2, Zenon
        <5>2. CASE k \in DOMAIN old /\ new[k] = old[k]
          BY <1>6, <5>1, <5>2, Zenon DEF FInv, UnitsBehindOffset, old
        <5>3. CASE Opened(new[k]) = os_inode[h].opened \/ Opened(new[k]) = 0
          BY <1>1, <1>15, <5>1, <5>3, Zenon
        <5> QED BY <1>9, <5>1, <5>2, <5>3, Zenon
      <4> QED BY <4>1, <4>2
    <3> QED BY <1>12, <3>1, Zenon
  <2>2. ASSUME NEW g \in Open', NEW k \in DOMAIN files'[os_inode'[g].name],
               Opened(files'[os_inode'[g].name][k]) = os_inode'[g].opened
        PROVE  k <= os_inode'[g].offset
    <3>1. /\ g \in Open /\ g \in Handle /\ os_inode[g].name \in DOMAIN files
          /\ k \in DOMAIN files'[os_inode[g].name]
          /\ Opened(files'[os_inode[g].name][k]) = os_inode[g].opened
      BY <1>2, <1>5, <2>2, Zenon DEF FInv, OpensDistinct
    <3>2. os_inode[g].offset <= os_inode'[g].offset
      BY <1>5, <3>1, Zenon
    <3>3. os_inode[g].offset \in Nat /\ os_inode'[g].offset \in Nat /\ k \in Nat
      <4>1. files'[os_inode[g].name] \in Seq(Unit)
        BY <1>10, <3>1, Zenon
      <4>2. k \in Nat
        BY <3>1, <4>1, LenProperties
      <4> QED BY <1>3, <1>5, <3>1, <4>2 DEF OSInode
    <3>4. ASSUME k \in DOMAIN files[os_inode[g].name],
                 files'[os_inode[g].name][k] = files[os_inode[g].name][k]
          PROVE  k <= os_inode'[g].offset
      <4>1. k <= os_inode[g].offset
        BY <3>1, <3>4, Zenon DEF FInv, UnitsBehindOffset
      <4> QED BY <3>2, <3>3, <4>1
    <3>5. CASE os_inode[g].name # name
      BY <1>10, <3>1, <3>4, <3>5, Zenon
    <3>6. CASE os_inode[g].name = name
      <4>1. k \in DOMAIN new /\ Opened(new[k]) = os_inode[g].opened /\ Opened(new[k]) # 0
        BY <1>10, <1>15, <3>1, <3>6, Zenon
      <4>2. CASE k \in DOMAIN old /\ new[k] = old[k]
        BY <1>10, <3>4, <3>6, <4>2, Zenon DEF old
      <4>3. CASE k <= offset + Len(buf) /\ Opened(new[k]) = os_inode[h].opened
        <5>1. g = h
          BY <1>1, <3>1, <4>1, <4>3, Zenon DEF FInv, OpensDistinct
        <5> QED BY <1>5, <4>3, <5>1, Zenon
      <4> QED BY <1>9, <4>1, <4>2, <4>3, Zenon
    <3> QED BY <3>5, <3>6
  <2> QED BY <2>1, <2>2, Zenon DEF UnitsBehindOffset
<1> QED BY <1>2, <1>5, <1>11, <1>13, <1>16, Zenon DEF FInv

-----------------------------------------------------------------------------
(* The steps of the files.                                                 *)

(* What TablesPrivate says of a step. *)
PrivateStep ==
  \A t \in Alive : fd_table'[t] # fd_table[t] =>
    \/ status'[t] = "Free"
    \/ /\ t = current
       /\ \E i \in DOMAIN fd_table'[t] :
            /\ \A k \in DOMAIN fd_table[t] \ {i} : fd_table'[t][k] = fd_table[t][k]
            /\ \/ fd_table'[t][i] = None
               \/ /\ ret' = i - 1
                  /\ i \notin DOMAIN fd_table[t] \/ fd_table[t][i] = None
                  /\ \A k \in 1 .. i - 1 : fd_table[t][k] # None

NoFileStep == UNCHANGED <<fd_table, os_inode, files, ops>> /\ (request'.op = "none" \/ UNCHANGED filesVars)
TableStep == ChangesTables /\ PrivateStep
OpenStep == UserMode /\ Quiet /\ \E h, name : Opens(h, name)
ReadStep == UserMode /\ Quiet /\ \E h : ReadsThrough(h)
WriteStep == UserMode /\ Quiet /\ \E h : WritesThrough(h)
FileStep == NoFileStep \/ TableStep \/ OpenStep \/ ReadStep \/ WriteStep

(* A call that changes no file. *)
LEMMA NoFileCallStep == NoFileCall => NoFileStep
<1>1. NoRequest => request'.op = "none"
  BY DEF NoRequest
<1> QED BY <1>1, Zenon DEF NoFileCall, NoRequest, NoFileStep

(* Tables made of what the tables had. *)
MadeOfTables(table) ==
  \A t \in Task : \A i \in DOMAIN table[t] : table[t][i] \in Handle =>
    \E u \in Task : \E j \in DOMAIN fd_table[u] : fd_table[u][j] = table[t][i]

(* They hold no handle that was not open. *)
LEMMA TablesFrom ==
  ASSUME NEW table \in [Task -> Seq(Descriptor)], MadeOfTables(table),
         SetTables(table), NoRequest, UNCHANGED ops
  PROVE  ChangesTables
<1>1. Held(table) \subseteq Open
  <2> SUFFICES ASSUME NEW h \in Held(table) PROVE h \in Open
    BY Zenon
  <2>1. PICK t \in Task : h \in Handle /\ \E i \in DOMAIN table[t] : table[t][i] = h
    BY HeldBy, Zenon
  <2>2. \E u \in Task : \E j \in DOMAIN fd_table[u] : fd_table[u][j] = h
    <3>1. PICK i \in DOMAIN table[t] : table[t][i] = h
      BY <2>1, Zenon
    <3>2. \E u \in Task : \E j \in DOMAIN fd_table[u] : fd_table[u][j] = table[t][i]
      BY <2>1, <3>1, SMTT(20) DEF MadeOfTables
    <3> QED BY <3>1, <3>2, Zenon
  <2> QED BY <2>1, <2>2, HeldBy, Zenon DEF Open
<1> QED BY <1>1, Zenon DEF ChangesTables

(* sys_close of a descriptor that is open. *)
LEMMA CloseStep ==
  ASSUME FilesInv, NEW fd, Returns(0), file(fd) # None,
         SetTables([fd_table EXCEPT ![current][fd + 1] = None]), NoRequest, UNCHANGED ops
  PROVE  TableStep
<1> DEFINE old == fd_table[current]
           i == fd + 1
           new == [old EXCEPT ![i] = None]
           table == [fd_table EXCEPT ![current] = new]
<1>1. current \in Task /\ fd_table \in [Task -> Seq(Descriptor)]
  BY DEF FilesInv, IInv, TypeOK, UserMode, Returns, FInv, FilesTypes
<1>2. old \in Seq(Descriptor) /\ None \in Descriptor
  BY <1>1 DEF Descriptor
<1>3. i \in DOMAIN old
  BY Zenon DEF file
<1>4. SetTables(table)
  BY Zenon
<1> HIDE DEF i
<1>5. /\ new \in Seq(Descriptor) /\ DOMAIN new = DOMAIN old /\ new[i] = None
      /\ \A k \in DOMAIN old \ {i} : new[k] = old[k]
  <2> HIDE DEF old
  <2> QED BY <1>2, <1>3
<1> HIDE DEF new
<1>6. /\ table \in [Task -> Seq(Descriptor)] /\ table[current] = new
      /\ \A t \in Task \ {current} : table[t] = fd_table[t]
  BY <1>1, <1>5
<1>7. fd_table' = table
  BY <1>4, Zenon DEF SetTables
<1> HIDE DEF table
<1>8. ASSUME NEW t \in Task, NEW k \in DOMAIN table[t], table[t][k] \in Handle
      PROVE  \E u \in Task : \E j \in DOMAIN fd_table[u] : fd_table[u][j] = table[t][k]
  <2>1. CASE t # current
    BY <1>6, <1>8, <2>1, Zenon
  <2>2. CASE t = current
    <3>1. None \notin Handle
      BY FilesAssumption
    <3>2. k \in DOMAIN old /\ table[t][k] = old[k]
      BY <1>5, <1>6, <1>8, <2>2, <3>1, Zenon
    <3> QED BY <1>1, <3>2, Zenon
  <2> QED BY <2>1, <2>2
<1>9. ChangesTables
  BY <1>4, <1>6, <1>8, TablesFrom, Zenon DEF MadeOfTables
<1>10. PrivateStep
  <2> SUFFICES ASSUME NEW t \in Alive, fd_table'[t] # fd_table[t]
               PROVE  /\ t = current
                      /\ \E k \in DOMAIN fd_table'[t] :
                           /\ \A n \in DOMAIN fd_table[t] \ {k} : fd_table'[t][n] = fd_table[t][n]
                           /\ fd_table'[t][k] = None
    BY Zenon DEF PrivateStep
  <2>1. t \in Task
    BY DEF Alive
  <2>2. t = current
    BY <1>6, <1>7, <2>1, Zenon
  <2>3. i \in DOMAIN fd_table'[t] /\ fd_table'[t] = new
    BY <1>3, <1>5, <1>6, <1>7, <2>2, Zenon
  <2> QED BY <1>5, <2>2, <2>3, Zenon
<1> QED BY <1>9, <1>10, Zenon DEF TableStep

(* fork. *)
LEMMA ForkStep ==
  ASSUME FilesInv, fork_table
  PROVE  TableStep
<1>1. current \in Task /\ fd_table \in [Task -> Seq(Descriptor)]
  BY DEF FilesInv, IInv, TypeOK, UserMode, fork_table, sys_fork, FInv, FilesTypes
<1>2. PICK child \in Task : /\ status[child] = "Free"
                          /\ SetTables([fd_table EXCEPT ![child] = fd_table[current]])
                          /\ NoRequest /\ UNCHANGED ops
  BY Zenon DEF fork_table
<1> DEFINE table == [fd_table EXCEPT ![child] = fd_table[current]]
<1>3. /\ table \in [Task -> Seq(Descriptor)] /\ table[child] = fd_table[current]
      /\ \A t \in Task \ {child} : table[t] = fd_table[t]
  BY <1>1
<1>4. SetTables(table) /\ fd_table' = table
  BY <1>2, Zenon DEF SetTables
<1> HIDE DEF table
<1>5. \A t \in Task : \E u \in Task : table[t] = fd_table[u]
  BY <1>1, <1>3, Zenon
<1>6. \A t \in Task : \A i \in DOMAIN table[t] : table[t][i] \in Handle =>
        \E u \in Task : \E j \in DOMAIN fd_table[u] : fd_table[u][j] = table[t][i]
  BY <1>5, Zenon
<1>7. ChangesTables
  BY <1>2, <1>3, <1>4, <1>6, TablesFrom, Zenon DEF MadeOfTables
<1>8. PrivateStep
  BY <1>2, <1>3, <1>4, Zenon DEF PrivateStep, Alive
<1> QED BY <1>7, <1>8, Zenon DEF TableStep

(* exit and waitpid. *)
LEMMA DropStep ==
  ASSUME FilesInv, drop_tables
  PROVE  TableStep
<1> DEFINE table == [t \in Task |-> IF status'[t] = "Free" THEN <<>> ELSE fd_table[t]]
<1>1. SetTables(table) /\ NoRequest /\ UNCHANGED ops /\ fd_table' = table
  BY Zenon DEF drop_tables, SetTables
<1>2. fd_table \in [Task -> Seq(Descriptor)] /\ <<>> \in Seq(Descriptor) /\ DOMAIN <<>> = {}
  BY DEF FilesInv, FInv, FilesTypes
<1>3. table \in [Task -> Seq(Descriptor)]
  BY <1>2
<1>4. \A t \in Task : table[t] = IF status'[t] = "Free" THEN <<>> ELSE fd_table[t]
  OBVIOUS
<1> HIDE DEF table
<1>5. \A t \in Task : \A i \in DOMAIN table[t] : table[t][i] \in Handle =>
        \E u \in Task : \E j \in DOMAIN fd_table[u] : fd_table[u][j] = table[t][i]
  BY <1>2, <1>4, Zenon
<1>6. ChangesTables
  BY <1>1, <1>3, <1>5, TablesFrom, Zenon DEF MadeOfTables
<1>7. PrivateStep
  BY <1>1, <1>4, Zenon DEF PrivateStep, Alive
<1> QED BY <1>6, <1>7, Zenon DEF TableStep

(* A call that returns an integer. *)
LEMMA ReturnsQuiet ==
  ASSUME NEW r \in Int, Returns(r)
  PROVE  UserMode /\ Quiet
BY Zenon DEF Returns, Quiet

(* The calls on files. *)
LEMMA FileCallStep ==
  ASSUME FilesInv, UserMode, file_call
  PROVE  Quiet /\ FileStep
<1>0. -1 \in Int /\ 0 \in Int
  OBVIOUS
<1>1. ASSUME NEW name \in Name, NEW flags \in Flags, sys_open(name, flags)
      PROVE  Quiet /\ FileStep
  BY <1>1, OpenEffect, Zenon DEF FileStep, OpenStep
<1>2. ASSUME NEW name \in Name, NEW flags \in Flags, sys_open_missing(name, flags)
      PROVE  Quiet /\ FileStep
  BY <1>0, <1>2, ReturnsQuiet, NoFileCallStep, Zenon DEF sys_open_missing, FileStep
<1>3. ASSUME NEW fd, sys_close(fd)
      PROVE  Quiet /\ FileStep
  <2>1. CASE Returns(-1) /\ NoFileCall
    BY <1>0, <2>1, ReturnsQuiet, NoFileCallStep, Zenon DEF FileStep
  <2>2. CASE /\ Returns(0) /\ file(fd) # None
             /\ SetTables([fd_table EXCEPT ![current][fd + 1] = None])
             /\ NoRequest /\ UNCHANGED ops
    BY <1>0, <2>2, ReturnsQuiet, CloseStep, Zenon DEF FileStep
  <2> QED BY <1>3, <2>1, <2>2, Zenon DEF sys_close
<1>4. ASSUME NEW fd, sys_read_refused(fd) \/ sys_write_refused(fd)
      PROVE  Quiet /\ FileStep
  BY <1>0, <1>4, ReturnsQuiet, NoFileCallStep, Zenon DEF sys_read_refused, sys_write_refused, FileStep
<1>5. ASSUME NEW fd, NEW shape \in Shapes, sys_read(fd, shape)
      PROVE  Quiet /\ FileStep
  BY <1>5, ReadEffect, Zenon DEF FileStep, ReadStep
<1>6. ASSUME NEW fd, NEW shape \in Shapes, sys_write(fd, shape)
      PROVE  Quiet /\ FileStep
  BY <1>6, WriteEffect, Zenon DEF FileStep, WriteStep
<1>7. ASSUME NEW fd, NEW shape \in Shapes, sys_write_stdout(fd, shape)
      PROVE  Quiet /\ FileStep
  <2>1. shape \in Seq(Nat \ {0})
    BY FilesAssumption
  <2>2. BufferLen(shape) \in Nat
    BY <2>1, EndsOfSlices DEF BufferLen
  <2>3. BufferLen(shape) \in Int
    BY <2>2
  <2> QED BY <1>7, <2>3, ReturnsQuiet, NoFileCallStep, Zenon DEF sys_write_stdout, FileStep
<1> QED BY <1>1, <1>2, <1>3, <1>4, <1>5, <1>6, <1>7, Zenon DEF file_call

(* Every step is one of the kernel and one of the files. *)
LEMMA FilesNextStep ==
  ASSUME FilesInv, [FilesNext]_filesVars
  PROVE  KernelStep /\ FileStep
<1>1. CASE (run_tasks \/ sys_yield \/ timer_interrupt) /\ NoFileCall
  BY <1>1, NoFileCallStep, Zenon DEF KernelStep, FileStep
<1>2. CASE read_stdin
  BY <1>2, NoFileCallStep, Zenon DEF read_stdin, KernelStep, FileStep
<1>3. CASE fork_table
  BY <1>3, ForkStep, Zenon DEF fork_table, KernelStep, FileStep
<1>4. CASE end_or_wait
  <2>1. ExitCode \subseteq ExitCodes
    BY DEF ExitCodes
  <2>2. KernelStep
    BY <1>4, <2>1, Zenon DEF end_or_wait, sys_exit, KernelStep
  <2> QED BY <1>4, <2>2, DropStep, Zenon DEF end_or_wait, FileStep
<1>5. CASE UserMode /\ file_call
  BY <1>5, FileCallStep, Zenon DEF KernelStep
<1>6. CASE UNCHANGED filesVars
  <2>1. UNCHANGED vars /\ UNCHANGED <<fd_table, os_inode, files, ops>>
    BY <1>6, Zenon DEF filesVars, fileVars
  <2>2. KernelStep
    BY <2>1, NextIsStep, Zenon DEF FilesInv
  <2> QED BY <1>6, <2>1, <2>2, Zenon DEF FileStep, NoFileStep
<1> QED BY <1>1, <1>2, <1>3, <1>4, <1>5, <1>6, Zenon DEF FilesNext

(* Every file starts with the state it has before any open. *)
LEMMA FilesInitInv == FilesInit => FilesInv
<1> SUFFICES ASSUME FilesInit PROVE FilesInv
  OBVIOUS
<1>1. IInv
  BY InitIInv, Zenon DEF FilesInit
<1>2. /\ fd_table = [t \in Task |-> IF t = INITPROC THEN <<"Stdin", "Stdout", "Stdout">> ELSE <<>>]
      /\ os_inode = [h \in Handle |-> Closed]
      /\ files = [n \in {} |-> <<>>] /\ ops = 0
  BY Zenon DEF FilesInit, Store!Init
<1>3. FilesTypes
  <2>1. <<"Stdin", "Stdout", "Stdout">> \in Seq(Descriptor) /\ <<>> \in Seq(Descriptor)
    BY DEF Descriptor
  <2>2. fd_table \in [Task -> Seq(Descriptor)]
    BY <1>2, <2>1
  <2>3. os_inode \in [Handle -> OSInode]
    BY <1>2 DEF Closed, OSInode
  <2>4. files \in [DOMAIN files -> Seq(Unit)]
    BY <1>2
  <2>5. ops \in Nat
    BY <1>2
  <2> QED BY <2>2, <2>3, <2>4, <2>5, Zenon DEF FilesTypes
<1>4. Open = {}
  <2> SUFFICES ASSUME NEW h \in Open PROVE FALSE
    BY Zenon
  <2>1. PICK t \in Task : h \in Handle /\ \E i \in DOMAIN fd_table[t] : fd_table[t][i] = h
    BY HeldBy, Zenon DEF Open
  <2>2. h \in {"Stdin", "Stdout"}
    BY <1>2, <2>1
  <2> QED BY <2>1, <2>2, FilesAssumption
<1>5. OpensDistinct
  BY <1>4, Zenon DEF OpensDistinct
<1>6. UnitsBehindOffset
  <2>1. DOMAIN files = {}
    BY <1>2
  <2> QED BY <1>4, <2>1, Zenon DEF UnitsBehindOffset
<1> QED BY <1>1, <1>3, <1>5, <1>6, Zenon DEF FilesInv, FInv

(* Every step keeps the invariant of the files. *)
LEMMA FileStepFInv ==
  ASSUME FilesInv, FileStep
  PROVE  FInv'
<1>1. FInv
  BY DEF FilesInv
<1>2. UserMode => current \in Task
  BY DEF FilesInv, IInv, TypeOK, UserMode
<1>3. CASE NoFileStep
  <2>1. /\ fd_table' = fd_table /\ os_inode' = os_inode /\ files' = files /\ ops' = ops
    BY <1>3, Zenon DEF NoFileStep
  <2>2. Open' = Open
    BY <2>1, Zenon DEF Open, Held
  <2>3. FilesTypes'
    BY <1>1, <2>1, Zenon DEF FInv, FilesTypes
  <2>4. OpensDistinct'
    BY <1>1, <2>1, <2>2, Zenon DEF FInv, OpensDistinct
  <2>5. UnitsBehindOffset'
    BY <1>1, <2>1, <2>2, Zenon DEF FInv, UnitsBehindOffset
  <2> QED BY <2>3, <2>4, <2>5, Zenon DEF FInv
<1>4. CASE TableStep
  BY <1>1, <1>4, TablesFInv, Zenon DEF TableStep
<1>5. CASE OpenStep
  BY <1>1, <1>2, <1>5, OpensFInv, Zenon DEF OpenStep
<1>6. CASE ReadStep
  BY <1>1, <1>6, ReadsFInv, Zenon DEF ReadStep
<1>7. CASE WriteStep
  BY <1>1, <1>7, WritesFInv, Zenon DEF WriteStep
<1> QED BY <1>3, <1>4, <1>5, <1>6, <1>7, Zenon DEF FileStep

(* The inductive invariant holds in every reachable state. *)
LEMMA FilesInvariance == FilesSpec => []FilesInv
<1>1. FilesInv /\ [FilesNext]_filesVars => FilesInv'
  <2> SUFFICES ASSUME FilesInv, [FilesNext]_filesVars PROVE FilesInv'
    BY Zenon
  <2>1. KernelStep /\ FileStep
    BY FilesNextStep, Zenon
  <2>2. IInv'
    BY <2>1, StepIInv, Zenon DEF FilesInv
  <2>3. FInv'
    BY <2>1, FileStepFInv, Zenon
  <2> QED BY <2>2, <2>3, Zenon DEF FilesInv
<1> QED BY <1>1, FilesInitInv, PTL DEF FilesSpec

-----------------------------------------------------------------------------
(* What the open files promise.                                            *)

(* Every table belongs to one process: no open, close, fork or exit of     *)
(* another one changes it, and open takes the lowest free descriptor.      *)
THEOREM TablesStayPrivate == FilesSpec => TablesPrivate
<1>1. FilesInv /\ [FilesNext]_filesVars => [PrivateStep]_filesVars
  <2> SUFFICES ASSUME FilesInv, [FilesNext]_filesVars PROVE PrivateStep
    BY Zenon
  <2>1. FileStep
    BY FilesNextStep, Zenon
  <2>2. fd_table' = fd_table => PrivateStep
    BY Zenon DEF PrivateStep
  <2>3. CASE NoFileStep \/ ReadStep \/ WriteStep
    BY <2>2, <2>3, Zenon DEF NoFileStep, ReadStep, WriteStep, ReadsThrough, WritesThrough
  <2>4. CASE TableStep
    BY <2>4, Zenon DEF TableStep
  <2>5. CASE OpenStep
    <3>1. current \in Task /\ fd_table \in [Task -> Seq(Descriptor)]
      BY <2>5 DEF OpenStep, FilesInv, IInv, TypeOK, UserMode, FInv, FilesTypes
    <3> DEFINE old == fd_table[current]
    <3>2. PICK h, name : Opens(h, name)
      BY <2>5, Zenon DEF OpenStep
    <3>3. PICK i \in 1 .. Len(old) + 1 :
            /\ ret' = i - 1
            /\ i \in DOMAIN old => old[i] = None
            /\ \A k \in 1 .. i - 1 : old[k] # None
            /\ fd_table' = [fd_table EXCEPT ![current] =
                              [k \in DOMAIN old \cup {i} |-> IF k = i THEN h ELSE old[k]]]
      BY <3>2, Zenon DEF Opens
    <3>4. /\ \A t \in Task \ {current} : fd_table'[t] = fd_table[t]
          /\ fd_table'[current] = [k \in DOMAIN old \cup {i} |-> IF k = i THEN h ELSE old[k]]
      BY <3>1, <3>3, Zenon
    <3>5. i \in DOMAIN fd_table'[current] /\ \A k \in DOMAIN old \ {i} : fd_table'[current][k] = old[k]
      BY <3>4, Zenon
    <3> SUFFICES ASSUME NEW t \in Alive, fd_table'[t] # fd_table[t]
                 PROVE  /\ t = current
                        /\ \E j \in DOMAIN fd_table'[t] :
                             /\ \A k \in DOMAIN fd_table[t] \ {j} : fd_table'[t][k] = fd_table[t][k]
                             /\ ret' = j - 1
                             /\ j \notin DOMAIN fd_table[t] \/ fd_table[t][j] = None
                             /\ \A k \in 1 .. j - 1 : fd_table[t][k] # None
      BY Zenon DEF PrivateStep
    <3>6. t = current
      BY <3>4, Zenon DEF Alive
    <3> QED BY <3>3, <3>5, <3>6, Zenon
  <2> QED BY <2>1, <2>3, <2>4, <2>5, Zenon DEF FileStep
<1> QED BY <1>1, FilesInvariance, PTL DEF FilesSpec, TablesPrivate, PrivateStep

(* An offset moves by what its own process's read or write returns. *)
THEOREM OffsetsMoveByResult == FilesSpec => OffsetMovesByResult
<1>1. FilesInv /\ [FilesNext]_filesVars =>
        [\A h \in Open : os_inode'[h].offset # os_inode[h].offset /\ os_inode'[h] # Closed =>
           /\ h \in Range(fd_table[current])
           /\ os_inode'[h].offset = os_inode[h].offset + ret']_filesVars
  <2> SUFFICES ASSUME FilesInv, [FilesNext]_filesVars, NEW h \in Open,
                      os_inode'[h].offset # os_inode[h].offset, os_inode'[h] # Closed
               PROVE  /\ h \in Range(fd_table[current])
                      /\ os_inode'[h].offset = os_inode[h].offset + ret'
    BY Zenon
  <2>1. FileStep /\ FInv
    BY FilesNextStep, Zenon DEF FilesInv
  <2>2. os_inode'[h] # os_inode[h]
    BY Zenon
  <2>3. h \in Handle /\ os_inode \in [Handle -> OSInode]
    BY <2>1, Zenon DEF Open, Held, FInv, FilesTypes
  <2>4. CASE NoFileStep
    BY <2>2, <2>4, Zenon DEF NoFileStep
  <2>5. CASE TableStep
    <3>1. PICK table : os_inode' = [g \in Handle |-> IF g \in Held(table) THEN os_inode[g] ELSE Closed]
      BY <2>5, Zenon DEF TableStep, ChangesTables, SetTables
    <3> QED BY <2>2, <2>3, <3>1, Zenon
  <2>6. CASE OpenStep
    <3>1. current \in Task
      BY <2>6 DEF OpenStep, FilesInv, IInv, TypeOK, UserMode
    <3> QED BY <2>1, <2>2, <2>6, <3>1, OpensFInv, Zenon DEF OpenStep
  <2>7. CASE ReadStep
    <3>1. PICK g : ReadsThrough(g)
      BY <2>7, Zenon DEF ReadStep
    <3>2. \A o \in Open : o # g => os_inode'[o] = os_inode[o]
      BY <2>1, <3>1, ReadsFInv
    <3>3. g = h
      BY <2>2, <3>2, Zenon
    <3>4. /\ h \in Range(fd_table[current]) /\ ret' \in Nat
          /\ os_inode' = [os_inode EXCEPT ![h].offset = os_inode[h].offset + ret']
      BY <3>1, <3>3, Zenon DEF ReadsThrough
    <3>5. MovesOn(os_inode, h, ret', os_inode')
      BY <2>3, <3>4, OffsetMoves, Zenon
    <3> QED BY <3>4, <3>5, Zenon DEF MovesOn
  <2>8. CASE WriteStep
    <3>1. PICK g : WritesThrough(g)
      BY <2>8, Zenon DEF WriteStep
    <3>2. \A o \in Open : o # g => os_inode'[o] = os_inode[o]
      BY <2>1, <3>1, WritesFInv
    <3>3. g = h
      BY <2>2, <3>2, Zenon
    <3>4. /\ h \in Range(fd_table[current])
          /\ request'.buf \in Seq(Unit) /\ ret' = Len(request'.buf)
          /\ os_inode' = [os_inode EXCEPT ![h].offset = os_inode[h].offset + ret']
      BY <3>1, <3>3, Zenon DEF WritesThrough
    <3>5. ret' \in Nat
      BY <3>4, LenProperties
    <3>6. MovesOn(os_inode, h, ret', os_inode')
      BY <2>3, <3>4, <3>5, OffsetMoves, Zenon
    <3> QED BY <3>4, <3>6, Zenon DEF MovesOn
  <2> QED BY <2>1, <2>4, <2>5, <2>6, <2>7, <2>8, Zenon DEF FileStep
<1> QED BY <1>1, FilesInvariance, PTL DEF FilesSpec, OffsetMovesByResult

(* What a process writes through one open, its children through the same   *)
(* open never overwrite.                                                   *)
THEOREM SharedOpensAppend == FilesSpec => SameOpenNeverOverwrites
<1>1. FilesInv /\ [FilesNext]_filesVars =>
        [\A n \in DOMAIN files : \A k \in DOMAIN files[n] \cap DOMAIN files'[n] :
           \/ files'[n][k] = files[n][k]
           \/ Opened(files'[n][k]) # Opened(files[n][k])]_filesVars
  <2> SUFFICES ASSUME FilesInv, [FilesNext]_filesVars,
                      NEW n \in DOMAIN files, NEW k \in DOMAIN files[n] \cap DOMAIN files'[n]
               PROVE  \/ files'[n][k] = files[n][k]
                      \/ Opened(files'[n][k]) # Opened(files[n][k])
    BY Zenon
  <2>1. FileStep /\ FInv /\ files \in [DOMAIN files -> Seq(Unit)] /\ os_inode \in [Handle -> OSInode]
    BY FilesNextStep, Zenon DEF FilesInv, FInv, FilesTypes
  <2>2. CASE NoFileStep \/ ReadStep
    BY <2>2, Zenon DEF NoFileStep, ReadStep, ReadsThrough
  <2>3. CASE TableStep
    BY <2>3, Zenon DEF TableStep, ChangesTables, NoRequest
  <2>4. CASE OpenStep
    <3>1. PICK h, name : Opens(h, name)
      BY <2>4, Zenon DEF OpenStep
    <3>2. KeepsUnits(name)
      BY <2>1, <3>1, OpenFileKeeps, ZenonT(30) DEF Opens
    <3> QED BY <3>2, Zenon DEF KeepsUnits
  <2>5. CASE WriteStep
    <3>1. PICK h : WritesThrough(h)
      BY <2>5, Zenon DEF WriteStep
    <3> DEFINE name == os_inode[h].name
               offset == os_inode[h].offset
               buf == request'.buf
               old == files[name]
               new == Store!Written(old, offset, buf)
    <3>2. /\ h \in Open /\ h \in Handle /\ buf \in Seq(Unit)
          /\ \A j \in 1 .. Len(buf) : Opened(buf[j]) = os_inode[h].opened
          /\ files' = [files EXCEPT ![name] = new]
      BY <3>1, Zenon DEF WritesThrough, Open, Held
    <3>3. name \in DOMAIN files
      BY <2>1, <3>2, Zenon DEF FInv, OpensDistinct
    <3>4. old \in Seq(Unit)
      BY <2>1, <3>3, Zenon
    <3>5. offset \in Nat
      BY <2>1, <3>2 DEF OSInode
    <3> HIDE DEF buf, old, offset
    <3>6. WrittenWhere(old, offset, buf, os_inode[h].opened)
      BY <3>2, <3>4, <3>5, WritesWhere
    <3>7. \A j \in DOMAIN new :
            \/ offset < j /\ j <= offset + Len(buf) /\ Opened(new[j]) = os_inode[h].opened
            \/ j \in DOMAIN old /\ new[j] = old[j]
            \/ j \notin DOMAIN old /\ Opened(new[j]) = 0
      BY <3>6, Zenon DEF WrittenWhere
    <3> HIDE DEF new, name
    <3>8. files'[name] = new /\ (n # name => files'[n] = files[n])
      BY <3>2, <3>3, Zenon
    <3>9. CASE n # name
      BY <3>8, <3>9
    <3>10. CASE n = name
      <4>1. k \in DOMAIN new /\ k \in DOMAIN old /\ files[n] = old /\ files'[n] = new
        BY <3>8, <3>10, Zenon DEF old
      <4>2. Opened(old[k]) = os_inode[h].opened => k <= offset
        BY <2>1, <3>2, <4>1, Zenon DEF FInv, UnitsBehindOffset, old, name, offset
      <4>3. k \in Nat
        BY <3>4, <4>1, LenProperties
      <4>4. ~(offset < k /\ k <= offset)
        BY <3>5, <4>3
      <4> QED BY <3>7, <4>1, <4>2, <4>4, Zenon
    <3> QED BY <3>9, <3>10
  <2> QED BY <2>1, <2>2, <2>3, <2>4, <2>5, Zenon DEF FileStep
<1> QED BY <1>1, FilesInvariance, PTL DEF FilesSpec, SameOpenNeverOverwrites

(* The open files implement the store, for every way the pages of the user *)
(* cut a buffer.                                                           *)
THEOREM FilesRefineStore == FilesSpec => FilesImplementStore
<1>1. FilesInit => Store!Init
  BY Zenon DEF FilesInit
<1>2. FilesInv /\ [FilesNext]_filesVars => [Store!Next]_(Store!vars)
  <2> SUFFICES ASSUME FilesInv, [FilesNext]_filesVars PROVE [Store!Next]_(Store!vars)
    BY Zenon
  <2>1. FileStep
    BY FilesNextStep, Zenon
  <2>2. UserMode /\ Quiet => (IF machine' = "panic" THEN "yes" ELSE "no") = "no"
    BY DEF UserMode, Quiet
  <2>3. request'.op = "none" /\ files' = files => Store!Next
    BY Zenon DEF Store!Next, Store!Idle
  <2>4. CASE NoFileStep
    BY <2>3, <2>4, Zenon DEF NoFileStep, filesVars, fileVars, vars, Store!vars
  <2>5. CASE TableStep
    <3>1. request' = [op |-> "none"] /\ files' = files
      BY <2>5, Zenon DEF TableStep, ChangesTables, NoRequest
    <3>2. request'.op = "none"
      BY <3>1
    <3> QED BY <2>3, <3>1, <3>2, Zenon
  <2>6. CASE OpenStep
    <3>1. PICK name, flags : open_file(name, flags)
      BY <2>6, Zenon DEF OpenStep, Opens
    <3>2. CASE /\ name \notin DOMAIN files
               /\ request' = [op |-> "create", name |-> name]
               /\ files' = [n \in DOMAIN files \cup {name} |-> IF n = name THEN <<>> ELSE files[n]]
      <4>1. request'.op = "create" /\ request'.name = name
        BY <3>2
      <4>2. files' = [n \in DOMAIN files \cup {name} |-> IF n \in DOMAIN files THEN files[n] ELSE <<>>]
        BY <3>2
      <4>3. Store!Create
        BY <2>2, <2>6, <4>1, <4>2, Zenon DEF OpenStep, Store!Create
      <4> QED BY <4>3, Zenon DEF Store!Next
    <3>3. CASE request' = [op |-> "clear", name |-> name] /\ files' = [files EXCEPT ![name] = <<>>]
      <4>1. request'.op = "clear" /\ request'.name = name
        BY <3>3
      <4>2. Store!Clear
        BY <2>2, <2>6, <3>3, <4>1, Zenon DEF OpenStep, Store!Clear
      <4> QED BY <4>2, Zenon DEF Store!Next
    <3>4. CASE NoRequest
      <4>1. request'.op = "none" /\ files' = files
        BY <3>4 DEF NoRequest
      <4> QED BY <2>3, <4>1, Zenon
    <3> QED BY <3>1, <3>2, <3>3, <3>4, Zenon DEF open_file
  <2>7. CASE ReadStep
    <3>1. Store!Read
      BY <2>2, <2>7, Zenon DEF ReadStep, ReadsThrough, ReadOut, Store!Read
    <3> QED BY <3>1, Zenon DEF Store!Next
  <2>8. CASE WriteStep
    <3>1. Store!Write
      BY <2>2, <2>8, Zenon DEF WriteStep, WritesThrough, Store!Write
    <3> QED BY <3>1, Zenon DEF Store!Next
  <2> QED BY <2>1, <2>4, <2>5, <2>6, <2>7, <2>8, Zenon DEF FileStep
<1> QED BY <1>1, <1>2, FilesInvariance, PTL DEF FilesSpec, FilesImplementStore, Store!Spec
============================================================================
