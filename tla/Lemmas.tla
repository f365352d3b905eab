------------------------------- MODULE Lemmas -------------------------------
(* Facts about natural numbers and sequences that several proofs use.      *)
EXTENDS Lists, SequenceTheorems, WellFoundedInduction, TLAPS

(* A set of natural numbers that is not empty has a least element. *)
LEMMA LeastElement ==
  ASSUME NEW T, T \subseteq Nat, T # {}
  PROVE  \E x \in T : \A y \in T : x <= y
<1> DEFINE R == OpToRel(<, Nat)
<1>1. IsWellFoundedOn(R, Nat)
  BY NatLessThanWellFounded, Zenon
<1>2. \A y, x \in Nat : y < x => <<y, x>> \in R
  BY DEF OpToRel
<1> HIDE DEF R
<1>3. PICK x \in T : \A y \in T : ~(<<y, x>> \in R)
  BY <1>1, WFMin, Zenon
<1>4. ASSUME NEW y \in T
      PROVE  x <= y
  <2>1. x \in Nat /\ y \in Nat
    OBVIOUS
  <2>2. ~(y < x)
    BY <1>2, <1>3, <2>1, Zenon
  <2> QED BY <2>1, <2>2
<1> QED BY <1>4

(* The same as a formula, which the rule for loops assumes. *)
LEMMA LeastNumber == \A T \in SUBSET Nat : T # {} => \E x \in T : \A y \in T : x <= y
BY LeastElement, Zenon

(* Quotient and remainder of the divisions that bitmap.rs and efs.rs do. *)
LEMMA DivMod ==
  ASSUME NEW a \in Nat, NEW b \in Nat \ {0}
  PROVE  /\ a \div b \in Nat /\ a % b \in 0 .. b - 1
         /\ a = (a \div b) * b + (a % b)
  OBVIOUS

(* They are the only numbers of that form. *)
LEMMA DivModUnique ==
  ASSUME NEW b \in Nat \ {0}, NEW q \in Nat, NEW r \in 0 .. b - 1
  PROVE  (q * b + r) \div b = q /\ (q * b + r) % b = r
  OBVIOUS

(* A product with a smaller factor leaves room for one more. *)
LEMMA Room ==
  ASSUME NEW n \in Nat, NEW k \in Nat, NEW b \in Nat, n < k
  PROVE  n * b + b <= k * b
<1>1. n + 1 <= k
  OBVIOUS
<1>2. (n + 1) * b <= k * b
  BY <1>1
<1>3. (n + 1) * b = n * b + b
  OBVIOUS
<1>4. n * b \in Nat /\ k * b \in Nat /\ (n + 1) * b \in Nat
  OBVIOUS
<1> QED BY <1>2, <1>3, <1>4

-----------------------------------------------------------------------------
(* What RemoveAt, used for Vec::remove, leaves of a sequence. *)
LEMMA RemoveAtProperties ==
  ASSUME NEW S, NEW s \in Seq(S), NEW i \in 1 .. Len(s)
  PROVE  /\ RemoveAt(s, i) \in Seq(S)
         /\ Len(RemoveAt(s, i)) = Len(s) - 1
         /\ \A j \in 1 .. Len(s) - 1 :
              RemoveAt(s, i)[j] = IF j < i THEN s[j] ELSE s[j + 1]
<1> DEFINE a == SubSeq(s, 1, i - 1)
           b == SubSeq(s, i + 1, Len(s))
<1>1. Len(s) \in Nat /\ \A j \in 1 .. Len(s) : s[j] \in S
  BY LenProperties, ElementOfSeq
<1>2. /\ a \in Seq(S)
      /\ Len(a) = i - 1
      /\ \A j \in 1 .. i - 1 : a[j] = s[j]
  <2>1. \A j \in 1 .. i - 1 : s[j] \in S
    BY <1>1
  <2>2. /\ SubSeq(s, 1, i - 1) \in Seq(S)
        /\ Len(SubSeq(s, 1, i - 1)) = IF 1 <= i - 1 THEN (i - 1) - 1 + 1 ELSE 0
        /\ \A j \in 1 .. (i - 1) - 1 + 1 : SubSeq(s, 1, i - 1)[j] = s[1 + j - 1]
    BY <2>1, <1>1, SubSeqProperties
  <2> QED BY <2>2, <1>1
<1>3. /\ b \in Seq(S)
      /\ Len(b) = Len(s) - i
      /\ \A j \in 1 .. Len(s) - i : b[j] = s[i + j]
  <2>1. \A j \in i + 1 .. Len(s) : s[j] \in S
    BY <1>1
  <2>2. /\ SubSeq(s, i + 1, Len(s)) \in Seq(S)
        /\ Len(SubSeq(s, i + 1, Len(s))) = IF i + 1 <= Len(s) THEN Len(s) - (i + 1) + 1 ELSE 0
        /\ \A j \in 1 .. Len(s) - (i + 1) + 1 : SubSeq(s, i + 1, Len(s))[j] = s[i + 1 + j - 1]
    BY <2>1, <1>1, SubSeqProperties
  <2> QED BY <2>2, <1>1
<1> HIDE DEF a, b
<1>4. /\ a \o b \in Seq(S)
      /\ Len(a \o b) = Len(a) + Len(b)
      /\ \A j \in 1 .. Len(a) + Len(b) : (a \o b)[j] = IF j <= Len(a) THEN a[j] ELSE b[j - Len(a)]
  BY <1>2, <1>3, ConcatProperties, Zenon
<1>5. RemoveAt(s, i) = a \o b
  BY DEF RemoveAt, a, b
<1>6. /\ RemoveAt(s, i) \in Seq(S)
      /\ Len(RemoveAt(s, i)) = Len(s) - 1
  BY <1>1, <1>2, <1>3, <1>4, <1>5
<1>7. ASSUME NEW j \in 1 .. Len(s) - 1
      PROVE  (a \o b)[j] = IF j < i THEN s[j] ELSE s[j + 1]
  <2>1. (a \o b)[j] = IF j <= i - 1 THEN a[j] ELSE b[j - (i - 1)]
    BY <1>1, <1>2, <1>3, <1>4
  <2>2. CASE j < i
    BY <2>1, <2>2, <1>1, <1>2
  <2>3. CASE ~(j < i)
    <3>1. j - (i - 1) \in 1 .. Len(s) - i /\ i + (j - (i - 1)) = j + 1
      BY <2>3, <1>1
    <3>2. b[j - (i - 1)] = s[j + 1]
      BY <3>1, <1>3
    <3> QED BY <2>1, <2>3, <3>2, <1>1
  <2> QED BY <2>2, <2>3, Zenon
<1> QED
  BY <1>5, <1>6, <1>7

(* Front and Last, used for Vec::pop. *)
LEMMA FrontProperties ==
  ASSUME NEW S, NEW s \in Seq(S), s # <<>>
  PROVE  /\ Front(s) \in Seq(S)
         /\ Len(s) \in Nat \ {0}
         /\ Len(Front(s)) = Len(s) - 1
         /\ \A j \in 1 .. Len(s) - 1 : Front(s)[j] = s[j]
         /\ Last(s) = s[Len(s)]
         /\ Last(s) \in S
<1>1. Len(s) \in Nat /\ Len(s) # 0 /\ \A j \in 1 .. Len(s) : s[j] \in S
  BY LenProperties, ElementOfSeq, EmptySeq
<1>2. \A j \in 1 .. Len(s) - 1 : s[j] \in S
  BY <1>1
<1> DEFINE t == SubSeq(s, 1, Len(s) - 1)
<1>3. /\ t \in Seq(S)
      /\ Len(t) = IF 1 <= Len(s) - 1 THEN (Len(s) - 1) - 1 + 1 ELSE 0
      /\ \A j \in 1 .. (Len(s) - 1) - 1 + 1 : t[j] = s[1 + j - 1]
  BY <1>1, <1>2, SubSeqProperties
<1>4. Front(s) = t /\ Last(s) = s[Len(s)]
  BY DEF Front, Last
<1> HIDE DEF t
<1>5. Len(t) = Len(s) - 1
  <2>1. \A n \in Nat : n # 0 => (IF 1 <= n - 1 THEN (n - 1) - 1 + 1 ELSE 0) = n - 1
    OBVIOUS
  <2> QED BY <2>1, <1>1, <1>3, Zenon
<1>6. \A j \in 1 .. Len(s) - 1 : t[j] = s[j]
  BY <1>1, <1>3
<1> QED
  BY <1>1, <1>3, <1>4, <1>5, <1>6

-----------------------------------------------------------------------------
(* The same operators seen through the set of elements of a sequence.  The *)
(* models use sequences without repetition: queues and owner lists.        *)

(* The elements of a sequence belong to its base set. *)
LEMMA RangeType ==
  ASSUME NEW S, NEW s \in Seq(S)
  PROVE  /\ Range(s) \subseteq S
         /\ \A i \in DOMAIN s : s[i] \in Range(s)
         /\ \A x \in Range(s) : \E i \in DOMAIN s : s[i] = x
BY LenProperties DEF Range

(* The empty sequence. *)
LEMMA RangeEmpty ==
  Range(<<>>) = {} /\ IsInjective(<<>>)
BY DEF Range, IsInjective

(* Append, for push and push_back. *)
LEMMA RangeAppend ==
  ASSUME NEW S, NEW s \in Seq(S), NEW e \in S
  PROVE  /\ Append(s, e) \in Seq(S)
         /\ Range(Append(s, e)) = Range(s) \cup {e}
         /\ IsInjective(s) /\ e \notin Range(s) => IsInjective(Append(s, e))
<1> DEFINE a == Append(s, e)
<1>1. PICK n \in Nat : n = Len(s)
  BY LenProperties
<1>2. /\ a \in Seq(S)
      /\ Len(a) = n + 1
      /\ \A i \in 1 .. n : a[i] = s[i]
      /\ a[n + 1] = e
  BY <1>1, AppendProperties
<1> HIDE DEF a
<1>3. DOMAIN s = 1 .. n /\ DOMAIN a = 1 .. n + 1
  BY <1>1, <1>2, LenProperties
<1>4. Range(a) = Range(s) \cup {e}
  <2>1. ASSUME NEW x \in Range(a) PROVE x \in Range(s) \cup {e}
    BY <1>2, <1>3 DEF Range
  <2>2. ASSUME NEW x \in Range(s) \cup {e} PROVE x \in Range(a)
    BY <1>2, <1>3 DEF Range
  <2> QED BY <2>1, <2>2
<1>5. ASSUME IsInjective(s), e \notin Range(s) PROVE IsInjective(a)
  <2>1. \A i \in 1 .. n : a[i] # e
    BY <1>2, <1>3, <1>5 DEF Range
  <2> SUFFICES ASSUME NEW i \in 1 .. n + 1, NEW j \in 1 .. n + 1, a[i] = a[j]
               PROVE  i = j
    BY <1>3 DEF IsInjective
  <2>2. CASE i = n + 1 \/ j = n + 1
    BY <2>1, <2>2, <1>2
  <2>3. CASE i \in 1 .. n /\ j \in 1 .. n
    BY <2>3, <1>2, <1>3, <1>5 DEF IsInjective
  <2> QED BY <2>2, <2>3
<1> QED
  BY <1>2, <1>4, <1>5 DEF a

(* Concatenation, for appending one list to another. *)
LEMMA RangeConcat ==
  ASSUME NEW S, NEW s \in Seq(S), NEW t \in Seq(S)
  PROVE  /\ s \o t \in Seq(S)
         /\ Range(s \o t) = Range(s) \cup Range(t)
         /\ IsInjective(s) /\ IsInjective(t) /\ Range(s) \cap Range(t) = {}
              => IsInjective(s \o t)
<1> DEFINE a == s \o t
<1>1. PICK n \in Nat : n = Len(s)
  BY LenProperties
<1>2. PICK m \in Nat : m = Len(t)
  BY LenProperties
<1>3. /\ a \in Seq(S)
      /\ Len(a) = n + m
      /\ \A i \in 1 .. n + m : a[i] = IF i <= n THEN s[i] ELSE t[i - n]
  BY <1>1, <1>2, ConcatProperties
<1> HIDE DEF a
<1>4. DOMAIN s = 1 .. n /\ DOMAIN t = 1 .. m /\ DOMAIN a = 1 .. n + m
  BY <1>1, <1>2, <1>3, LenProperties
<1>5. \A i \in 1 .. n : i \in 1 .. n + m /\ a[i] = s[i]
  BY <1>3
<1>6. \A i \in 1 .. m : n + i \in 1 .. n + m /\ a[n + i] = t[i]
  BY <1>3
<1>7. \A k \in 1 .. n + m : k \in 1 .. n \/ \E i \in 1 .. m : k = n + i
  <2> TAKE k \in 1 .. n + m
  <2>1. k \in 1 .. n \/ (k - n \in 1 .. m /\ k = n + (k - n))
    OBVIOUS
  <2> QED BY <2>1
<1>8. Range(a) = Range(s) \cup Range(t)
  <2>1. ASSUME NEW x \in Range(a) PROVE x \in Range(s) \cup Range(t)
    <3>1. PICK k \in 1 .. n + m : x = a[k]
      BY <1>4 DEF Range
    <3> QED BY <3>1, <1>4, <1>5, <1>6, <1>7, Zenon DEF Range
  <2>2. ASSUME NEW x \in Range(s) PROVE x \in Range(a)
    BY <1>4, <1>5 DEF Range
  <2>3. ASSUME NEW x \in Range(t) PROVE x \in Range(a)
    BY <1>4, <1>6, Zenon DEF Range
  <2> QED BY <2>1, <2>2, <2>3
<1>9. ASSUME IsInjective(s), IsInjective(t), Range(s) \cap Range(t) = {}
      PROVE  IsInjective(a)
  <2>1. \A i \in 1 .. n, j \in 1 .. m : s[i] # t[j]
    BY <1>4, <1>9, Zenon DEF Range
  <2> SUFFICES ASSUME NEW k \in 1 .. n + m, NEW l \in 1 .. n + m, a[k] = a[l]
               PROVE  k = l
    BY <1>4 DEF IsInjective
  <2>2. CASE k \in 1 .. n /\ l \in 1 .. n
    BY <2>2, <1>4, <1>5, <1>9 DEF IsInjective
  <2>3. ASSUME NEW i \in 1 .. m, NEW j \in 1 .. m, k = n + i, l = n + j
        PROVE  k = l
    BY <2>3, <1>4, <1>6, <1>9, Zenon DEF IsInjective
  <2>4. ASSUME NEW j \in 1 .. m, k \in 1 .. n, l = n + j
        PROVE  FALSE
    BY <2>1, <2>4, <1>5, <1>6
  <2>5. ASSUME NEW i \in 1 .. m, k = n + i, l \in 1 .. n
        PROVE  FALSE
    BY <2>1, <2>5, <1>5, <1>6
  <2> QED BY <2>2, <2>3, <2>4, <2>5, <1>7
<1> QED
  BY <1>3, <1>8, <1>9 DEF a

(* RemoveAt, for Vec::remove and VecDeque::drain of one entry. *)
LEMMA RangeRemoveAt ==
  ASSUME NEW S, NEW s \in Seq(S), NEW i \in DOMAIN s, IsInjective(s)
  PROVE  /\ RemoveAt(s, i) \in Seq(S)
         /\ Range(RemoveAt(s, i)) = Range(s) \ {s[i]}
         /\ IsInjective(RemoveAt(s, i))
<1> DEFINE a == RemoveAt(s, i)
<1>1. PICK n \in Nat : n = Len(s)
  BY LenProperties
<1>2. DOMAIN s = 1 .. n /\ i \in 1 .. n
  BY <1>1, LenProperties
<1>3. /\ a \in Seq(S)
      /\ Len(a) = n - 1
      /\ \A j \in 1 .. n - 1 : a[j] = IF j < i THEN s[j] ELSE s[j + 1]
  BY <1>1, <1>2, RemoveAtProperties, Zenon
<1>4. n - 1 \in Nat
  BY <1>2
<1> HIDE DEF a
<1>5. DOMAIN a = 1 .. n - 1
  BY <1>3, LenProperties
<1> DEFINE back(j) == IF j < i THEN j ELSE j + 1
<1>6. \A j \in 1 .. n - 1 : back(j) \in (1 .. n) \ {i} /\ a[j] = s[back(j)]
  BY <1>2, <1>3
<1>7. \A k \in (1 .. n) \ {i} : \E j \in 1 .. n - 1 : k = back(j)
  <2> TAKE k \in (1 .. n) \ {i}
  <2>1. CASE k < i
    <3>1. k \in 1 .. n - 1 /\ k = back(k)
      BY <2>1, <1>2
    <3> QED BY <3>1
  <2>2. CASE k > i
    <3>1. k - 1 \in 1 .. n - 1 /\ k = back(k - 1)
      BY <2>2, <1>2
    <3> QED BY <3>1
  <2> QED BY <2>1, <2>2, <1>2
<1>8. \A j, l \in 1 .. n - 1 : back(j) = back(l) => j = l
  BY <1>2
<1> HIDE DEF back
<1>9. Range(a) = Range(s) \ {s[i]}
  <2>1. ASSUME NEW x \in Range(a) PROVE x \in Range(s) \ {s[i]}
    <3>1. PICK j \in 1 .. n - 1 : x = a[j]
      BY <1>5 DEF Range
    <3>2. x = s[back(j)] /\ back(j) \in 1 .. n /\ back(j) # i
      BY <3>1, <1>6
    <3> QED BY <3>2, <1>2 DEF Range, IsInjective
  <2>2. ASSUME NEW x \in Range(s) \ {s[i]} PROVE x \in Range(a)
    <3>1. PICK k \in (1 .. n) \ {i} : x = s[k]
      BY <1>2 DEF Range
    <3>2. PICK j \in 1 .. n - 1 : k = back(j)
      BY <1>7
    <3> QED BY <3>1, <3>2, <1>5, <1>6, Zenon DEF Range
  <2> QED BY <2>1, <2>2
<1>10. IsInjective(a)
  <2> SUFFICES ASSUME NEW j \in 1 .. n - 1, NEW l \in 1 .. n - 1, a[j] = a[l]
               PROVE  j = l
    BY <1>5 DEF IsInjective
  <2>1. s[back(j)] = s[back(l)] /\ back(j) \in 1 .. n /\ back(l) \in 1 .. n
    BY <1>6
  <2>2. back(j) = back(l)
    BY <2>1, <1>2 DEF IsInjective
  <2> QED BY <2>2, <1>8
<1> QED
  BY <1>3, <1>9, <1>10 DEF a

(* Head and Tail, for pop_front. *)
LEMMA RangeTail ==
  ASSUME NEW S, NEW s \in Seq(S), s # <<>>, IsInjective(s)
  PROVE  /\ Head(s) \in S
         /\ Head(s) \in Range(s)
         /\ Tail(s) \in Seq(S)
         /\ Range(Tail(s)) = Range(s) \ {Head(s)}
         /\ IsInjective(Tail(s))
<1> DEFINE a == Tail(s)
           h == Head(s)
<1>1. PICK n \in Nat : n = Len(s)
  BY LenProperties
<1>2. n # 0
  BY <1>1, EmptySeq
<1>3. /\ h \in S
      /\ a \in Seq(S)
      /\ Len(a) = n - 1
      /\ \A i \in 1 .. Len(a) : a[i] = s[i + 1]
      /\ h = s[1]
  BY <1>1, HeadTailProperties
<1> HIDE DEF a, h
<1>4. DOMAIN s = 1 .. n /\ DOMAIN a = 1 .. n - 1
  BY <1>1, <1>3, LenProperties
<1>5. \A i \in 1 .. n - 1 : i + 1 \in (1 .. n) \ {1} /\ a[i] = s[i + 1]
  BY <1>3
<1>6. \A k \in (1 .. n) \ {1} : k - 1 \in 1 .. n - 1 /\ a[k - 1] = s[k]
  BY <1>3
<1>7. 1 \in 1 .. n
  BY <1>2
<1>8. Range(a) = Range(s) \ {h}
  <2>1. ASSUME NEW x \in Range(a) PROVE x \in Range(s) \ {h}
    <3>1. PICK j \in 1 .. n - 1 : x = a[j]
      BY <1>4 DEF Range
    <3>2. x = s[j + 1] /\ j + 1 \in 1 .. n /\ j + 1 # 1
      BY <3>1, <1>5
    <3> QED BY <3>2, <1>3, <1>4, <1>7, Zenon DEF Range, IsInjective
  <2>2. ASSUME NEW x \in Range(s) \ {h} PROVE x \in Range(a)
    <3>1. PICK k \in (1 .. n) \ {1} : x = s[k]
      BY <1>3, <1>4 DEF Range
    <3> QED BY <3>1, <1>4, <1>6, Zenon DEF Range
  <2> QED BY <2>1, <2>2
<1>9. IsInjective(a)
  <2> SUFFICES ASSUME NEW j \in 1 .. n - 1, NEW l \in 1 .. n - 1, a[j] = a[l]
               PROVE  j = l
    BY <1>4 DEF IsInjective
  <2>1. j + 1 = l + 1
    BY <1>4, <1>5, Zenon DEF IsInjective
  <2> QED BY <2>1
<1>10. h \in Range(s)
  BY <1>3, <1>4, <1>7 DEF Range
<1> QED
  BY <1>3, <1>8, <1>9, <1>10 DEF a, h

(* Last and Front, for pop. *)
LEMMA RangeFront ==
  ASSUME NEW S, NEW s \in Seq(S), s # <<>>, IsInjective(s)
  PROVE  /\ Last(s) \in S
         /\ Last(s) \in Range(s)
         /\ Front(s) \in Seq(S)
         /\ Range(Front(s)) = Range(s) \ {Last(s)}
         /\ IsInjective(Front(s))
<1> DEFINE a == Front(s)
           e == Last(s)
<1>1. PICK n \in Nat : n = Len(s)
  BY LenProperties
<1>2. n # 0
  BY <1>1, EmptySeq
<1>3. /\ e \in S
      /\ a \in Seq(S)
      /\ Len(a) = n - 1
      /\ \A i \in 1 .. n - 1 : a[i] = s[i]
      /\ e = s[n]
  BY <1>1, FrontProperties, Zenon
<1> HIDE DEF a, e
<1>4. DOMAIN s = 1 .. n /\ DOMAIN a = 1 .. n - 1
  BY <1>1, <1>3, LenProperties
<1>5. \A i \in 1 .. n : i \in 1 .. n - 1 \/ i = n
  OBVIOUS
<1>6. \A i \in 1 .. n - 1 : i \in 1 .. n /\ i # n
  OBVIOUS
<1>7. n \in 1 .. n
  BY <1>2
<1>8. Range(a) = Range(s) \ {e}
  <2>1. ASSUME NEW x \in Range(a) PROVE x \in Range(s) \ {e}
    <3>1. PICK j \in 1 .. n - 1 : x = a[j]
      BY <1>4 DEF Range
    <3> QED BY <3>1, <1>3, <1>4, <1>6, <1>7 DEF Range, IsInjective
  <2>2. ASSUME NEW x \in Range(s) \ {e} PROVE x \in Range(a)
    <3>1. PICK k \in 1 .. n : x = s[k] /\ k # n
      BY <1>3, <1>4 DEF Range
    <3> QED BY <3>1, <1>3, <1>4, <1>5 DEF Range
  <2> QED BY <2>1, <2>2
<1>9. IsInjective(a)
  BY <1>3, <1>4, <1>6 DEF IsInjective
<1>10. e \in Range(s)
  BY <1>3, <1>4, <1>7 DEF Range
<1> QED
  BY <1>3, <1>8, <1>9, <1>10 DEF a, e
=============================================================================
